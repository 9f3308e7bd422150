------------------------------ MODULE KeysPage ------------------------------
(***************************************************************************)
(* The SSH key page: web/js/dashboard/views/keys.js.  Loads of the list    *)
(* may overlap (Refresh, a key that was added, the route shown again), and *)
(* so may the requests of the viewer, which has no memory of the key that  *)
(* was asked for last.  confirmDeleteKey calls shared.confirm, which is    *)
(* an object: it ends with a TypeError, so that no action deletes a key.   *)
(***************************************************************************)
EXTENDS PageValues

VARIABLES
    keys,         \* state.keys
    keysLoading,  \* state.loading
    keysView,     \* what is in view: the spinner, the list, or "no keys"
    keyLoads,     \* what each load waits for: /api/ssh-keys-usage, then /api/ssh-keys
    adding,       \* the dialog for a new key, and the keys that are sent
    viewer,       \* the key whose private key is in the viewer, and whether it is shown
    keyViews,     \* the requests of the viewer
    viewedLately  \* history: the keys asked for since the viewer was empty and waited for none

keysVars == <<keys, keysLoading, keysView, keyLoads, adding, viewer, keyViews, viewedLately>>

\* Any two keys: what differs between keys is only which one was asked for.
Keys == Devices
\* The lists the server may answer with: any keys, or none.
Lists == {"some", Empty}
LoadStage == {"idle", "usage", "list"}
\* Bound: the new keys that are sent at a time.
MaxSent == 2

ListsDiffer == "some" \notin {None, Empty}

TypeOK ==
    /\ keys \in Lists \cup {None, Sample}
    /\ keysLoading \in BOOLEAN
    /\ keysView \in {"blank", "loading", "list", "empty"}
    /\ keyLoads \in [Requests -> LoadStage]
    /\ adding \in [open : BOOLEAN, sent : 0..MaxSent]
    /\ viewer \in [key : Keys \cup {None}, open : BOOLEAN]
    /\ keyViews \in [Requests -> Keys \cup {None}]
    /\ viewedLately \subseteq Keys

Init ==
    /\ keys = None
    /\ keysLoading = FALSE /\ keysView = "blank"
    /\ keyLoads = [r \in Requests |-> "idle"]
    /\ adding = [open |-> FALSE, sent |-> 0]
    /\ viewer = [key |-> None, open |-> FALSE]
    /\ keyViews = [r \in Requests |-> None]
    /\ viewedLately = {}

-----------------------------------------------------------------------------
(* The list *)

\* loadKeys, up to its first request.
LoadKeys(r) ==
    /\ keyLoads[r] = "idle"
    /\ keyLoads' = [keyLoads EXCEPT ![r] = "usage"]
    /\ keysLoading' = TRUE /\ keysView' = "loading"

\* init, Refresh, and onShow when nothing seems to be loading.
Refresh(r) ==
    /\ LoadKeys(r)
    /\ UNCHANGED <<keys, adding, viewer, keyViews, viewedLately>>

\* Mutant: what is in view changes only with a list of the server.
ListedQuiet(list) ==
    /\ keys' = list
    /\ keysLoading' = FALSE
    /\ keysView' = IF list = Sample THEN keysView ELSE IF list = Empty THEN "empty" ELSE "list"
    /\ UNCHANGED <<adding, viewer, keyViews, viewedLately>>

\* A load ends: its list is shown at once.
Listed(list) ==
    /\ keys' = list
    /\ keysLoading' = FALSE
    /\ keysView' = IF list = Empty THEN "empty" ELSE "list"
    /\ UNCHANGED <<adding, viewer, keyViews, viewedLately>>

KeysArrive(r) ==
    /\ keyLoads[r] # "idle"
    /\ keyLoads' = [keyLoads EXCEPT ![r] = "idle"]
    /\ \E list \in Lists : Listed(list)

UsageFails(r) ==
    /\ keyLoads[r] = "usage"
    /\ keyLoads' = [keyLoads EXCEPT ![r] = "list"]
    /\ UNCHANGED <<keys, keysLoading, keysView, adding, viewer, keyViews, viewedLately>>

KeysFail(r) ==
    /\ keyLoads[r] = "list"
    /\ keyLoads' = [keyLoads EXCEPT ![r] = "idle"]
    /\ Listed(Sample)

-----------------------------------------------------------------------------
(* A new key: openAddModal, closeAddModal, saveNewKey *)

OpenAddModal ==
    /\ adding' = [adding EXCEPT !.open = TRUE]
    /\ UNCHANGED <<keys, keysLoading, keysView, keyLoads, viewer, keyViews, viewedLately>>

CloseAddModal ==
    /\ adding.open
    /\ adding' = [adding EXCEPT !.open = FALSE]
    /\ UNCHANGED <<keys, keysLoading, keysView, keyLoads, viewer, keyViews, viewedLately>>

\* The button stays as it is: the key can be sent again before the first answer.
SaveNewKey ==
    /\ adding.open /\ adding.sent < MaxSent
    /\ adding' = [adding EXCEPT !.sent = @ + 1]
    /\ UNCHANGED <<keys, keysLoading, keysView, keyLoads, viewer, keyViews, viewedLately>>

\* The key was stored: the dialog is closed, whatever was typed into it since, and
\* the list loaded again.
KeyAdded(r) ==
    /\ adding.sent > 0
    /\ adding' = [open |-> FALSE, sent |-> adding.sent - 1]
    /\ LoadKeys(r)
    /\ UNCHANGED <<keys, viewer, keyViews, viewedLately>>

KeyRefused ==
    /\ adding.sent > 0
    /\ adding' = [adding EXCEPT !.sent = @ - 1]
    /\ UNCHANGED <<keys, keysLoading, keysView, keyLoads, viewer, keyViews, viewedLately>>

-----------------------------------------------------------------------------
(* The viewer: openViewer, closeViewer *)

View(k, r) ==
    /\ keysView = "list" /\ ~viewer.open /\ keyViews[r] = None
    /\ keyViews' = [keyViews EXCEPT ![r] = k]
    /\ viewedLately' = IF \A q \in Requests : keyViews[q] = None
                       THEN {k} ELSE viewedLately \cup {k}
    /\ UNCHANGED <<keys, keysLoading, keysView, keyLoads, adding, viewer>>

\* The answer opens the viewer, or replaces what an earlier one put in it.
ViewArrives(r) ==
    /\ keyViews[r] # None
    /\ viewer' = [key |-> keyViews[r], open |-> TRUE]
    /\ keyViews' = [keyViews EXCEPT ![r] = None]
    /\ UNCHANGED <<keys, keysLoading, keysView, keyLoads, adding, viewedLately>>

ViewFails(r) ==
    /\ keyViews[r] # None
    /\ keyViews' = [keyViews EXCEPT ![r] = None]
    /\ UNCHANGED <<keys, keysLoading, keysView, keyLoads, adding, viewer, viewedLately>>

\* Mutant: the viewer is only hidden.
CloseViewerHides ==
    /\ viewer.open
    /\ viewer' = [viewer EXCEPT !.open = FALSE]
    /\ UNCHANGED <<keys, keysLoading, keysView, keyLoads, adding, keyViews, viewedLately>>

CloseViewer ==
    /\ viewer.open
    /\ viewer' = [key |-> None, open |-> FALSE]
    /\ UNCHANGED <<keys, keysLoading, keysView, keyLoads, adding, keyViews, viewedLately>>

Next ==
    \/ \E r \in Requests : \/ Refresh(r) \/ KeysArrive(r) \/ UsageFails(r) \/ KeysFail(r)
                           \/ KeyAdded(r) \/ ViewArrives(r) \/ ViewFails(r)
                           \/ \E k \in Keys : View(k, r)
    \/ OpenAddModal \/ CloseAddModal \/ SaveNewKey \/ KeyRefused \/ CloseViewer

Spec == Init /\ [][Next]_keysVars

-----------------------------------------------------------------------------
(* Properties *)

\* The spinner is shown only while a load runs, and the list only while there
\* is one: overlapping loads and both fallbacks leave the page usable.
SpinnerMeansLoading ==
    /\ keysLoading \/ keysView = "loading" => \E r \in Requests : keyLoads[r] # "idle"
    /\ keysView = "list" => keys \notin {None, Empty}

\* A private key is in the page only while the viewer shows it, and it is one that was
\* asked for since the viewer was empty and waited for no answer: the last one, if no
\* other was asked for before its answer came.
ViewerIsOfAsked ==
    /\ viewer.key # None <=> viewer.open
    /\ viewer.open => viewer.key \in viewedLately
=============================================================================
