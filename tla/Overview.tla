------------------------------ MODULE Overview ------------------------------
(***************************************************************************)
(* The overview: web/js/dashboard/views/overview.js.  A render draws a     *)
(* card, and a node of the network map, for every device the filters let   *)
(* through, and starts the requests for the device summaries it lacks; the *)
(* end of such a request asks for another render.  A device that leaves    *)
(* the list loses its summary while its request goes on.                   *)
(*                                                                         *)
(* Which devices match the filters is chosen at every render: the status   *)
(* filter depends on the time and on samples that are not part of the      *)
(* page's state.  Of a summary the model keeps whether it is being loaded, *)
(* loaded, older than SUMMARY_TTL_MS, or the result of an error.           *)
(***************************************************************************)
EXTENDS PageValues

VARIABLES
    ovDevices,   \* state.devices
    summaries,   \* deviceSummaries
    fetching,    \* the keys of summaryFetches
    running,     \* the requests of each device that have not ended
    suspended,   \* the devices whose summaryErrorUntil lies ahead
    ovToken,     \* overviewLoading, and the token of the loading bar
    ovFrame,       \* requestAnimationFrame(render) was called
    cards,       \* the card of each device
    activeMenu   \* the device whose card has its menu open

overviewVars == <<ovDevices, summaries, fetching, running, suspended, ovToken, ovFrame,
                  cards, activeMenu>>

MaxRunning == 2   \* bound: requests of one device under way

TypeOK ==
    /\ ovDevices \subseteq Devices /\ fetching \subseteq Devices /\ suspended \subseteq Devices
    /\ summaries \in [Devices -> {"none", "loading", "ok", "stale", "error"}]
    /\ running \in [Devices -> 0..MaxRunning]
    /\ ovToken \in BOOLEAN /\ ovFrame \in BOOLEAN
    /\ cards \in [Devices -> {"absent", "loading", "ready"}]
    /\ activeMenu \in Devices \cup {None}

Init ==
    /\ ovDevices = {} /\ fetching = {} /\ suspended = {}
    /\ summaries = [d \in Devices |-> "none"]
    /\ running = [d \in Devices |-> 0]
    /\ ovToken = FALSE /\ ovFrame = FALSE
    /\ cards = [d \in Devices |-> "absent"]
    /\ activeMenu = None

-----------------------------------------------------------------------------
(* Drawing *)

\* What pruneMissingSummaries leaves: the summaries of listed devices.
Kept(list) == [d \in Devices |-> IF d \in list THEN summaries[d] ELSE "none"]

\* ensureDeviceSummary: a request is sent for a drawn device whose summary is
\* missing, old or an error, unless one is known or the device is suspended.
Starts(list, filtered) ==
    {d \in filtered : /\ Kept(list)[d] \in {"none", "stale", "error"}
                      /\ d \notin suspended \cup fetching}

\* createDeviceCard: a card is busy while a request of its device is known or
\* its summary is being loaded.
CardOf(d, filtered, starts) ==
    IF d \notin filtered THEN "absent"
    ELSE IF d \in fetching \cup starts \/ summaries[d] \in {"none", "loading"} THEN "loading"
    ELSE "ready"

\* updateOverviewLoadingState is called when a summary was pruned or a request
\* sent.
\* Mutant: not when a summary was pruned.
TouchedByStarts(list, starts) == starts # {}

Touched(list, starts) == starts # {} \/ \E d \in Devices \ list : summaries[d] # "none"

LoadingState(known) == known # {}

\* render: prune, filter, ask for summaries, close the menu, draw the cards.
Render(list) ==
    \E filtered \in SUBSET list :
        LET starts == Starts(list, filtered)
            known == (fetching \cap list) \cup starts
        IN  /\ \A d \in starts : running[d] < MaxRunning
            /\ summaries' = [d \in Devices |-> IF d \in starts THEN "loading" ELSE Kept(list)[d]]
            /\ fetching' = known
            /\ running' = [d \in Devices |-> running[d] + (IF d \in starts THEN 1 ELSE 0)]
            /\ suspended' = suspended \cap list
            /\ ovToken' = IF Touched(list, starts) THEN LoadingState(known) ELSE ovToken
            /\ ovFrame' = (starts # {})
            /\ cards' = [d \in Devices |-> CardOf(d, filtered, starts)]
            /\ activeMenu' = None

\* The device store has a list for its subscribers.
ListArrives(list) ==
    /\ ovDevices' = list
    /\ Render(list)

\* A filter, the search, the reset button, or the end of the first load.
Filter == Render(ovDevices) /\ UNCHANGED ovDevices

Frame == ovFrame /\ Render(ovDevices) /\ UNCHANGED ovDevices

-----------------------------------------------------------------------------
(* Summaries *)

\* The end of the requests for one summary.  The entry of the device in
\* summaryFetches is removed, even if it is a newer request's.
\* Mutant: a failure asks for no render.
FetchEndsQuietly(d, ok) ==
    /\ running[d] > 0
    /\ running' = [running EXCEPT ![d] = @ - 1]
    /\ summaries' = [summaries EXCEPT ![d] = IF ok THEN "ok" ELSE "error"]
    /\ suspended' = IF ok THEN suspended \ {d} ELSE suspended \cup {d}
    /\ fetching' = fetching \ {d}
    /\ ovToken' = LoadingState(fetching \ {d})
    /\ ovFrame' = (ovFrame \/ ok)
    /\ UNCHANGED <<ovDevices, cards, activeMenu>>

\* Mutant: the entry is removed only when the request succeeded.
FetchEndsKeepsFailed(d, ok) ==
    /\ running[d] > 0
    /\ running' = [running EXCEPT ![d] = @ - 1]
    /\ summaries' = [summaries EXCEPT ![d] = IF ok THEN "ok" ELSE "error"]
    /\ suspended' = IF ok THEN suspended \ {d} ELSE suspended \cup {d}
    /\ fetching' = IF ok THEN fetching \ {d} ELSE fetching
    /\ ovToken' = LoadingState(fetching')
    /\ ovFrame' = TRUE
    /\ UNCHANGED <<ovDevices, cards, activeMenu>>

FetchEnds(d, ok) ==
    /\ running[d] > 0
    /\ running' = [running EXCEPT ![d] = @ - 1]
    /\ summaries' = [summaries EXCEPT ![d] = IF ok THEN "ok" ELSE "error"]
    /\ suspended' = IF ok THEN suspended \ {d} ELSE suspended \cup {d}
    /\ fetching' = fetching \ {d}
    /\ ovToken' = LoadingState(fetching \ {d})
    /\ ovFrame' = TRUE
    /\ UNCHANGED <<ovDevices, cards, activeMenu>>

\* SUMMARY_TTL_MS or SUMMARY_RETRY_DELAY_MS have gone by.
SummaryAges(d) ==
    /\ \/ summaries[d] = "ok" /\ summaries' = [summaries EXCEPT ![d] = "stale"] /\ UNCHANGED suspended
       \/ d \in suspended /\ suspended' = suspended \ {d} /\ UNCHANGED summaries
    /\ UNCHANGED <<ovDevices, fetching, running, ovToken, ovFrame, cards, activeMenu>>

-----------------------------------------------------------------------------
(* The menu of a card *)

\* toggleMenu, with the menu of another card closed first.
ToggleMenu(d) ==
    /\ cards[d] # "absent"
    /\ activeMenu' = IF activeMenu = d THEN None ELSE d
    /\ UNCHANGED <<ovDevices, summaries, fetching, running, suspended, ovToken, ovFrame, cards>>

\* A click elsewhere, or Escape.
CloseActiveMenu ==
    /\ activeMenu # None
    /\ activeMenu' = None
    /\ UNCHANGED <<ovDevices, summaries, fetching, running, suspended, ovToken, ovFrame, cards>>

Next ==
    \/ \E list \in SUBSET Devices : ListArrives(list)
    \/ Filter \/ Frame \/ CloseActiveMenu
    \/ \E d \in Devices, ok \in BOOLEAN : FetchEnds(d, ok)
    \/ \E d \in Devices : SummaryAges(d) \/ ToggleMenu(d)

Spec == Init /\ [][Next]_overviewVars

-----------------------------------------------------------------------------
(* Properties *)

\* The loading bar is held exactly while summaryFetches is not empty: also
\* when the devices whose summaries were asked for leave the list meanwhile.
TokenIsHeldForFetches == ovToken <=> fetching # {}

\* A card that looks busy has a request behind it, or is about to be redrawn:
\* no end of a request - of a device that left and came back, of an older
\* request - leaves a card spinning.
BusyCardsSettle ==
    \A d \in Devices : cards[d] = "loading" => ovFrame \/ running[d] > 0

\* A known request is under way: an entry that outlived its request would keep
\* the summary of its device from ever being asked for again.
FetchesAreRunning == \A d \in fetching : running[d] > 0
=============================================================================
