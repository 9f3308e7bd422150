--------------------------- MODULE ConfirmDialog ---------------------------
(***************************************************************************)
(* The confirmation dialog: class ConfirmDialog of                         *)
(* web/js/dashboard/shared.js, one object per page, opened by deleteDevice *)
(* and rebootDevice of device-interactions.js.  Every opening adds         *)
(* listeners to the same three elements and to the document; closing       *)
(* removes those of the last opening only.                                 *)
(***************************************************************************)
EXTENDS PageValues, FiniteSets

CONSTANTS Openings   \* calls of open

VARIABLES
    dialogShown,       \* the backdrop is not hidden
    promises,          \* of each opening: "unused", "waiting", "yes", "no"
    resolver,          \* the opening whose promise close will settle
    onConfirm,         \* the opening whose callback confirm will run
    confirmListeners,  \* openings whose listener is on the Confirm button
    escListeners,      \* openings whose listener is on the document
    handlers,          \* the opening that handleConfirm, handleCancel, handleEsc belong to
    ran                \* history: how often each callback was run

dialogVars == <<dialogShown, promises, resolver, onConfirm, confirmListeners,
                escListeners, handlers, ran>>

TypeOK ==
    /\ dialogShown \in BOOLEAN
    /\ promises \in [Openings -> {"unused", "waiting", "yes", "no"}]
    /\ {resolver, onConfirm, handlers} \subseteq Openings \cup {None}
    /\ confirmListeners \subseteq Openings /\ escListeners \subseteq Openings
    /\ ran \in [Openings -> Nat]

Init ==
    /\ dialogShown = FALSE
    /\ promises = [o \in Openings |-> "unused"]
    /\ resolver = None /\ onConfirm = None /\ handlers = None
    /\ confirmListeners = {} /\ escListeners = {}
    /\ ran = [o \in Openings |-> 0]

\* open: nothing keeps it from being called while the dialog is shown.
Open(o) ==
    /\ promises[o] = "unused"
    /\ dialogShown' = TRUE
    /\ promises' = [promises EXCEPT ![o] = "waiting"]
    /\ resolver' = o /\ onConfirm' = o /\ handlers' = o
    /\ confirmListeners' = confirmListeners \cup {o}
    /\ escListeners' = escListeners \cup {o}
    /\ UNCHANGED ran

\* What close leaves of onConfirm.
\* Mutant: the callback stays.
CallbackKept(callback) == callback

CallbackAfterClose(callback) == None

\* close
\* Mutant: the resolver stays, though its promise is settled.
CloseKeepsResolver(answer) ==
    /\ dialogShown' = FALSE
    /\ promises' = IF resolver = None THEN promises ELSE [promises EXCEPT ![resolver] = answer]
    /\ confirmListeners' = confirmListeners \ {handlers}
    /\ onConfirm' = CallbackAfterClose(onConfirm)
    /\ UNCHANGED <<handlers, resolver>>

Close(answer) ==
    /\ dialogShown' = FALSE
    /\ promises' = IF resolver = None THEN promises ELSE [promises EXCEPT ![resolver] = answer]
    /\ resolver' = None
    /\ confirmListeners' = confirmListeners \ {handlers}
    /\ onConfirm' = CallbackAfterClose(onConfirm)
    /\ UNCHANGED handlers

\* A click on Confirm calls every listener that is still on the button when
\* its turn comes.  The first runs the callback and closes, which takes the
\* listener of the last opening off the button; those left behind by earlier
\* openings are called too.  (A callback is an async function: the dialog
\* closes when it has begun.)
ConfirmClick ==
    /\ dialogShown /\ confirmListeners # {}
    /\ LET again == Cardinality(confirmListeners \ {handlers}) > 1
           runs(o) == IF o # onConfirm THEN 0
                      ELSE IF again /\ CallbackAfterClose(o) = o THEN 2 ELSE 1
       IN  ran' = [o \in Openings |-> ran[o] + runs(o)]
    /\ Close("yes")
    /\ escListeners' = escListeners \ {handlers}

\* Cancel, the backdrop, or a button of extraButtons.
CancelClick ==
    /\ dialogShown
    /\ Close("no")
    /\ escListeners' = escListeners \ {handlers}
    /\ UNCHANGED ran

\* The listener on the document is added with "once": any key uses it up, and
\* only Escape closes.
OtherKey ==
    /\ escListeners # {}
    /\ escListeners' = {}
    /\ UNCHANGED <<dialogShown, promises, resolver, onConfirm, confirmListeners, handlers, ran>>

EscapeKey ==
    /\ escListeners # {}
    /\ escListeners' = {}
    /\ Close("no")
    /\ UNCHANGED ran

Next ==
    \/ ConfirmClick \/ CancelClick \/ OtherKey \/ EscapeKey
    \/ \E o \in Openings : Open(o)

Spec == Init /\ [][Next]_dialogVars

-----------------------------------------------------------------------------
(* Properties *)

\* A device is deleted or rebooted once for each "yes" and never without one,
\* though listeners of earlier openings may still be on the button.
CallbackOncePerYes ==
    \A o \in Openings : ran[o] = IF promises[o] = "yes" THEN 1 ELSE 0

\* The dialog is on the page exactly while an opening waits for its answer:
\* an answered opening cannot be answered again by a listener left behind.
ShownWhileAsked ==
    /\ dialogShown = (resolver # None)
    /\ resolver # None => promises[resolver] = "waiting"
=============================================================================
