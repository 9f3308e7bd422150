---------------------------- MODULE InsightsPage ----------------------------
(***************************************************************************)
(* The insights of one device: web/js/dashboard/views/insights.js.  A      *)
(* refresh reads the device list, then the metrics, the logs and the       *)
(* newest values, draws them, and starts the interval that reads the       *)
(* newest values again; the status has a timer of its own.  Choosing       *)
(* another device stops the timers, and neither the refreshes nor the      *)
(* requests under way; their answers are drawn when they come, and start   *)
(* the timers of their device again.                                       *)
(*                                                                         *)
(* What a panel shows is the device it was drawn for.                      *)
(***************************************************************************)
EXTENDS PageValues, FiniteSets

CONSTANT
    MaxAsked  \* bound: devices that the interval, or the status timer, asks for at a time

VARIABLES
    insightsDevice, \* state.selectedDeviceId
    insightsReady,  \* state.initialSyncComplete
    contentShown,   \* the content is shown, and not the empty state
    refreshes,      \* the refreshes under way: their device, and what they wait for
    allMetrics,     \* state.allMetrics, which all refreshes share
    panels,         \* what is drawn: summary, charts, newest values, status
    badge,          \* state.statusBadge: the summary found the device in the list
    liveTimer,      \* the device of state.metricsUpdateInterval
    liveLoads,      \* devices whose newest values the interval has asked for
    statusTimer,    \* the device of state.statusRefreshTimer
    statusAsks,     \* devices whose status was asked for
    lately          \* history: the devices refreshed since nothing was under way

insightsVars == <<insightsDevice, insightsReady, contentShown, refreshes, allMetrics, panels,
                  badge, liveTimer, liveLoads, statusTimer, statusAsks, lately>>

Shown == Devices \cup {None}
NoRefresh == [of |-> None, at |-> "idle"]
Running(r) == refreshes[r] # NoRefresh

TypeOK ==
    /\ {insightsDevice, allMetrics, liveTimer, statusTimer} \subseteq Shown
    /\ {insightsReady, contentShown, badge} \subseteq BOOLEAN
    /\ refreshes \in [Requests -> [of : Shown, at : {"idle", "list", "metrics", "others"}]]
    /\ panels \in [summary : Shown, charts : Shown, newest : Shown, status : Shown]
    /\ liveLoads \subseteq Devices /\ statusAsks \subseteq Devices
    /\ lately \subseteq Devices

\* init: the device of the URL is chosen, and not drawn before the list is there.
Init ==
    /\ insightsDevice \in Shown /\ insightsReady = FALSE /\ contentShown = FALSE
    /\ refreshes = [r \in Requests |-> NoRefresh]
    /\ allMetrics = None
    /\ panels = [summary |-> None, charts |-> None, newest |-> None, status |-> None]
    /\ badge = FALSE
    /\ liveTimer = None /\ liveLoads = {}
    /\ statusTimer = None /\ statusAsks = {}
    /\ lately = {}

-----------------------------------------------------------------------------
(* Choosing: setSelectedDevice, refreshInsights up to its first await *)

UnderWay == liveLoads # {} \/ statusAsks # {} \/ \E r \in Requests : Running(r)

Refreshing(d) ==
    /\ contentShown' = TRUE
    /\ liveTimer' = None /\ statusTimer' = None
    /\ lately' = IF UnderWay THEN lately \cup {d} ELSE {d}
    /\ UNCHANGED <<allMetrics, panels, badge, liveLoads, statusAsks>>

\* Mutant: a device that is chosen again is not drawn again.
RefreshInsightsOnce(d, r) ==
    /\ ~Running(r)
    /\ refreshes' = IF panels.summary = d THEN refreshes
                    ELSE [refreshes EXCEPT ![r] = [of |-> d, at |-> "list"]]
    /\ Refreshing(d)

RefreshInsights(d, r) ==
    /\ ~Running(r)
    /\ refreshes' = [refreshes EXCEPT ![r] = [of |-> d, at |-> "list"]]
    /\ Refreshing(d)

Choose(d, r) ==
    /\ insightsDevice # d
    /\ insightsDevice' = d
    /\ RefreshInsights(d, r)
    /\ UNCHANGED insightsReady

\* setEmptyState stops both timers, and no request.
SetEmptyState ==
    /\ contentShown' = FALSE
    /\ liveTimer' = None /\ statusTimer' = None
    /\ UNCHANGED <<refreshes, allMetrics, panels, badge, liveLoads, statusAsks, lately>>

ChooseNone ==
    /\ insightsDevice # None
    /\ insightsDevice' = None
    /\ SetEmptyState
    /\ UNCHANGED insightsReady

\* init goes on when the store has the list.  initStandalone, which runs once init
\* has ended, refreshes a device of the URL once more, as the button would.
Start(r) ==
    /\ ~insightsReady /\ insightsReady' = TRUE
    /\ IF insightsDevice = None THEN SetEmptyState ELSE RefreshInsights(insightsDevice, r)
    /\ UNCHANGED insightsDevice

\* The store has a list again: populateDeviceSelect chooses what is chosen.
DevicesPublished ==
    /\ insightsDevice = None
    /\ SetEmptyState
    /\ UNCHANGED <<insightsDevice, insightsReady>>

\* withBusy disables the button, and showContent, which runs in it, enables it
\* again at once: the button does not wait for a refresh to end.
RefreshButton(r) ==
    /\ insightsDevice # None
    /\ RefreshInsights(insightsDevice, r)
    /\ UNCHANGED <<insightsDevice, insightsReady>>

-----------------------------------------------------------------------------
(* The rest of a refresh *)

\* The store has the list: renderDeviceSummary stops the status timer, draws the
\* device, with an empty grid for its newest values, and asks for its status - or
\* says that it is not in the list, and has no grid and no badge.
ListLoaded(r, found) ==
    /\ refreshes[r].at = "list"
    /\ refreshes' = [refreshes EXCEPT ![r].at = "metrics"]
    /\ panels' = [panels EXCEPT !.summary = refreshes[r].of, !.newest = None, !.status = None]
    /\ badge' = found
    /\ statusTimer' = None
    /\ statusAsks' = IF found THEN statusAsks \cup {refreshes[r].of} ELSE statusAsks
    /\ UNCHANGED <<insightsDevice, insightsReady, contentShown, allMetrics, liveTimer, liveLoads,
                   lately>>

\* loadMetrics ends, the logs or the newest values are still to come.
MetricsLoaded(r) ==
    /\ refreshes[r].at = "metrics"
    /\ refreshes' = [refreshes EXCEPT ![r].at = "others"]
    /\ allMetrics' = refreshes[r].of
    /\ UNCHANGED <<insightsDevice, insightsReady, contentShown, panels, badge, liveTimer,
                   liveLoads, statusTimer, statusAsks, lately>>

\* The newest values are drawn into the grid, if there is one.
Newest(d) == IF badge THEN d ELSE panels.newest

\* All have come: the charts are drawn from allMetrics, whoever set it last,
\* and the interval is started.
\* Mutant: the interval is started by the first refresh only.
DrawStartsOnce(r) ==
    /\ refreshes[r].at = "others"
    /\ panels' = [panels EXCEPT !.charts = allMetrics, !.newest = Newest(refreshes[r].of)]
    /\ liveTimer' = IF panels.charts = None THEN refreshes[r].of ELSE liveTimer
    /\ refreshes' = [refreshes EXCEPT ![r] = NoRefresh]
    /\ UNCHANGED <<insightsDevice, insightsReady, contentShown, allMetrics, badge, liveLoads,
                   statusTimer, statusAsks, lately>>

Draw(r) ==
    /\ refreshes[r].at = "others"
    /\ panels' = [panels EXCEPT !.charts = allMetrics, !.newest = Newest(refreshes[r].of)]
    /\ liveTimer' = refreshes[r].of
    /\ refreshes' = [refreshes EXCEPT ![r] = NoRefresh]
    /\ UNCHANGED <<insightsDevice, insightsReady, contentShown, allMetrics, badge, liveLoads,
                   statusTimer, statusAsks, lately>>

-----------------------------------------------------------------------------
(* The interval and the status timer *)

\* One device may have been asked for several times.
Answered(asked, d) == {asked, asked \ {d}}

\* The interval reads only for the device that is chosen.
LiveTick ==
    /\ liveTimer # None /\ liveTimer = insightsDevice
    /\ Cardinality(liveLoads \cup {liveTimer}) <= MaxAsked
    /\ liveLoads' = liveLoads \cup {liveTimer}
    /\ UNCHANGED <<insightsDevice, insightsReady, contentShown, refreshes, allMetrics, panels,
                   badge, liveTimer, statusTimer, statusAsks, lately>>

LiveArrives(d) ==
    /\ d \in liveLoads
    /\ liveLoads' \in Answered(liveLoads, d)
    /\ panels' = [panels EXCEPT !.newest = Newest(d)]
    /\ UNCHANGED <<insightsDevice, insightsReady, contentShown, refreshes, allMetrics, badge,
                   liveTimer, statusTimer, statusAsks, lately>>

\* refreshInsightsStatus, from its timer, if there is a badge.
StatusTick ==
    /\ statusTimer # None
    /\ Cardinality(statusAsks \cup {statusTimer}) <= MaxAsked
    /\ statusAsks' = IF badge THEN statusAsks \cup {statusTimer} ELSE statusAsks
    /\ panels' = [panels EXCEPT !.status = None]
    /\ statusTimer' = None
    /\ UNCHANGED <<insightsDevice, insightsReady, contentShown, refreshes, allMetrics, badge,
                   liveTimer, liveLoads, lately>>

\* A status arrives, or could not be found out, and is put into the badge of the
\* page, whichever device that is of; scheduleStatusUpdates replaces the timer.
StatusArrives(d) ==
    /\ d \in statusAsks
    /\ statusAsks' \in Answered(statusAsks, d)
    /\ panels' = [panels EXCEPT !.status = IF badge THEN d ELSE None]
    /\ statusTimer' = d
    /\ UNCHANGED <<insightsDevice, insightsReady, contentShown, refreshes, allMetrics, badge,
                   liveTimer, liveLoads, lately>>

Next ==
    \/ \E r \in Requests : \/ \E d \in Devices : Choose(d, r)
                           \/ Start(r) \/ RefreshButton(r)
                           \/ \E found \in BOOLEAN : ListLoaded(r, found)
                           \/ MetricsLoaded(r) \/ Draw(r)
    \/ ChooseNone \/ DevicesPublished \/ LiveTick \/ StatusTick
    \/ \E d \in Devices : LiveArrives(d) \/ StatusArrives(d)

Spec == Init /\ [][Next]_insightsVars

-----------------------------------------------------------------------------
(* Properties *)

AtRest == insightsReady /\ insightsDevice # None /\ \A r \in Requests : ~Running(r)

\* Once the refreshes have ended, each part of the page is drawn, and for a device
\* that was refreshed since the page was last quiet: the device that is chosen,
\* if it is the only one of them.  No older answer or timer brings back another.
PanelsAreOfRefreshed ==
    AtRest => /\ contentShown
              /\ insightsDevice \in lately
              /\ panels.summary \in lately /\ panels.charts \in lately
              /\ panels.newest \in IF badge THEN lately ELSE {None}
              /\ panels.status \in lately \cup {None}

\* The page stays alive then: an interval runs for such a device, and if the
\* summary has a badge, a status is on its way or has a timer.
PageIsWatched ==
    AtRest => /\ liveTimer \in lately
              /\ badge => statusTimer \in lately \/ statusAsks # {}
=============================================================================
