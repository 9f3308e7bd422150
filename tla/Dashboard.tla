----------------------------- MODULE Dashboard ------------------------------
(***************************************************************************)
(* The pages of the dashboard and the services of shared.js they share.    *)
(* Every page is an HTML document with a JavaScript world of its own, in   *)
(* which the services live as well; opening another page ends it, and the  *)
(* new one starts from its initial state.  So a run of this module is a    *)
(* run of the part that is open, and the parts are checked side by side.   *)
(* Two parts are the server's: what it does behind the pages with the      *)
(* ranges and with the tasks that they ask for.                            *)
(***************************************************************************)
EXTENDS PageValues, Sequences

CONSTANTS
    Openings,             \* of ConfirmDialog
    Highlights, Summaries,        \* of Agent
    Sizes, Plans, Pointers,       \* of TopologyLayout
    Ages, Pings, Bandwidths,      \* of DisplayRules
    Callers, Listeners,           \* of DeviceStore
    Names, Undeclared, Callbacks, \* of PageStartup
    MaxAsked,                     \* of InsightsPage
    Networks, Scans,              \* of ScanPage
    MaxErrands,                   \* bound: what the user of AccountPages does
    ManualRanges, DetectedRanges, \* of NetworkMedium
    MaxJobs                       \* bound: its requests

VARIABLES
    open,  \* the part that is open
    \* the services
    now, createdAt, ping, statusCache, pending, asks, overlap,
    ovNow, ovCreated, overviewCache, pageCache,
    clock, cache, promise, lookups, frame, shown, failedAt,
    barTime, tasks, visible, visibleAt, hideAt, autoLoop, progress,
    dialogShown, promises, resolver, onConfirm, confirmListeners, escListeners,
    handlers, ran,
    routeActive, routeContext, routeSignature, currentContext, tooltips, panelOpen,
    hasUnread, attention, spoken, research, missed,
    age, linkPing, linkBandwidth,
    \* the topology
    loadStage, loadList, topoDevices, deviceMap, selectedDevice, hoveredDevice,
    insightPanel, customPositions, dragged, dragCursor, renderFrame,
    box, rows, own, ownOffset, ownBox,
    \* the devices
    edit, editLoads, editSave, editCheck, editLately,
    tableDevices, chosen, tableRows, controls, imports,
    keys, keysLoading, keysView, keyLoads, adding, viewer, keyViews, viewedLately,
    \* logs, settings, maps, insights
    logDevices, logFilter, logLoads, entries, logsLoading, logsStatus, results,
    agentTold,
    stored, form, formOf, formEdited, passwordAsked, settingsLoad, settingsSave,
    standalone,
    mapGroups, savedMaps, mapGroup, mapSearch, openedMap, mapRows, mapTree, activeGroup,
    mapCounted, mapCanvas, mapRefreshes,
    insightsDevice, insightsReady, contentShown, refreshes, allMetrics, panels, badge,
    liveTimer, liveLoads, statusTimer, statusAsks, lately,
    \* the overview
    ovDevices, summaries, fetching, running, suspended, ovToken, ovFrame, cards,
    activeMenu,
    adviceStatus, adviceSummary, adviceLoading, adviceShown, adviceFrame, adviceTold,
    \* the store, the accounts, the start of a page, the scans
    onServer, data, loadingPromise, requests, calls, seen, newest,
    setupDone, accounts, session, setupCalls, tab, ask, reply, leaving, hops, errands,
    undeclared, stage, isDashboard, sharedSet, servicesReady, template, viewStarts, ready,
    readyQueue, callbacksRun,
    ranges, selected, rangeLoads, rangeEdit, removing, scanning, toScan, scanWaits,
    scanResults, lastScan,
    \* the server behind them
    manualRows, mediumRows, link, hostIn, jobs, mediumErrands, linkOvertaken, linkApart,
    taskRow, lastTask, runner, deviceRows, lostNotes

statusVars == <<now, createdAt, ping, statusCache, pending, asks, overlap>>
ovStatusVars == <<ovNow, ovCreated, overviewCache, pageCache>>
geoVars == <<clock, cache, promise, lookups, frame, shown, failedAt>>
barVars == <<barTime, tasks, visible, visibleAt, hideAt, autoLoop, progress>>
dialogVars == <<dialogShown, promises, resolver, onConfirm, confirmListeners,
                escListeners, handlers, ran>>
agentVars == <<routeActive, routeContext, routeSignature, currentContext, tooltips,
               panelOpen, hasUnread, attention, spoken, research, missed>>
displayVars == <<age, linkPing, linkBandwidth>>
topoVars == <<loadStage, loadList, topoDevices, deviceMap, selectedDevice,
              hoveredDevice, insightPanel, customPositions, dragged, dragCursor,
              renderFrame>>
layoutVars == <<box, rows, own, ownOffset, ownBox>>
editVars == <<edit, editLoads, editSave, editCheck, editLately>>
tableVars == <<tableDevices, chosen, tableRows, controls, imports>>
keysVars == <<keys, keysLoading, keysView, keyLoads, adding, viewer, keyViews,
              viewedLately>>
logsVars == <<logDevices, logFilter, logLoads, entries, logsLoading, logsStatus,
              results, agentTold>>
settingsVars == <<stored, form, formOf, formEdited, passwordAsked, settingsLoad,
                  settingsSave, standalone>>
mapVars == <<mapGroups, savedMaps, mapGroup, mapSearch, openedMap, mapRows, mapTree,
             activeGroup, mapCounted, mapCanvas, mapRefreshes>>
insightsVars == <<insightsDevice, insightsReady, contentShown, refreshes, allMetrics,
                  panels, badge, liveTimer, liveLoads, statusTimer, statusAsks, lately>>
overviewVars == <<ovDevices, summaries, fetching, running, suspended, ovToken,
                  ovFrame, cards, activeMenu>>
adviceVars == <<adviceStatus, adviceSummary, adviceLoading, adviceShown, adviceFrame,
                adviceTold>>
storeVars == <<onServer, data, loadingPromise, requests, calls, seen, newest>>
accountVars == <<setupDone, accounts, session, setupCalls, tab, ask, reply, leaving, hops,
                 errands>>
startupVars == <<undeclared, stage, isDashboard, sharedSet, servicesReady, template, viewStarts, ready,
                 readyQueue, callbacksRun>>
scanVars == <<ranges, selected, rangeLoads, rangeEdit, removing, scanning, toScan,
              scanWaits, scanResults, lastScan>>
mediumVars == <<manualRows, mediumRows, link, hostIn, jobs, mediumErrands, linkOvertaken,
                linkApart>>
taskVars == <<taskRow, lastTask, runner, deviceRows, lostNotes>>

dashboardVars ==
    <<open, statusVars, ovStatusVars, geoVars, barVars, dialogVars, agentVars,
      displayVars, topoVars, layoutVars, editVars, tableVars, keysVars, logsVars,
      settingsVars, mapVars, insightsVars, overviewVars, adviceVars, storeVars,
      accountVars, startupVars, scanVars, mediumVars, taskVars>>

Status == INSTANCE DeviceStatus
Verdicts == INSTANCE OverviewStatus
Geo == INSTANCE GeoLookup
Bar == INSTANCE LoadingBar
Dialog == INSTANCE ConfirmDialog
Assistant == INSTANCE Agent
Rules == INSTANCE DisplayRules
Topo == INSTANCE Topology
Layout == INSTANCE TopologyLayout
Editor == INSTANCE DeviceEditor
Table == INSTANCE DevicesTable
Keys == INSTANCE KeysPage
Logs == INSTANCE LogsPage
Settings == INSTANCE SettingsPage
Maps == INSTANCE MapPage
Insights == INSTANCE InsightsPage
Cards == INSTANCE Overview
Advice == INSTANCE OverviewAdvice
Store == INSTANCE DeviceStore
Accounts == INSTANCE AccountPages WITH MaxChanges <- MaxErrands
Startup == INSTANCE PageStartup
Scanner == INSTANCE ScanPage
Medium == INSTANCE NetworkMedium WITH MaxChanges <- MaxJobs
Runners == INSTANCE DeviceTasks

ASSUME Inputs ==
    /\ Layout!LayoutBounds /\ Rules!DisplayNumbers /\ Accounts!NoneIsNothing
    /\ Status!NoneIsNoSample /\ Advice!FinitelyMany /\ Medium!NoneIsNoMedium
    /\ Logs!NoneIsNoQuery /\ Keys!ListsDiffer /\ Assistant!NoneIsNoContext
    /\ Settings!NoneIsNoAnswer
    /\ Bar!FinitelyMany
    /\ None \notin Openings \cup Callbacks \cup Networks \cup Scans
    /\ {MaxChanges, MaxErrands, MaxJobs} \subseteq Nat

Parts == {"status", "verdict", "geo", "bar", "dialog", "agent", "rules", "topology",
          "layout", "editor", "table", "keys", "logs", "settings", "maps", "insights", "cards",
          "advice", "store", "accounts", "startup", "scan", "medium", "tasks"}

TypeOK ==
    /\ open \in Parts
    /\ Status!TypeOK /\ Verdicts!TypeOK /\ Geo!TypeOK /\ Bar!TypeOK /\ Dialog!TypeOK /\ Assistant!TypeOK
    /\ Rules!TypeOK /\ Topo!TypeOK /\ Layout!TypeOK /\ Editor!TypeOK /\ Table!TypeOK
    /\ Keys!TypeOK /\ Logs!TypeOK /\ Settings!TypeOK /\ Maps!TypeOK
    /\ Insights!TypeOK /\ Cards!TypeOK /\ Advice!TypeOK
    /\ Store!TypeOK /\ Accounts!TypeOK /\ Startup!TypeOK /\ Scanner!TypeOK
    /\ Medium!TypeOK /\ Runners!TypeOK

\* What varies in the initial state of a part is fixed while another part is open.
Init ==
    /\ open \in Parts
    /\ Status!Init /\ Verdicts!Init /\ Geo!Init /\ Bar!Init /\ Dialog!Init /\ Assistant!Init
    /\ Rules!Init /\ Topo!Init /\ Layout!Init /\ Editor!Init /\ Table!Init
    /\ Keys!Init /\ Logs!Init /\ Settings!Init /\ Maps!Init
    /\ Insights!Init /\ Cards!Init /\ Advice!Init
    /\ Store!Init /\ Accounts!Init /\ Startup!Init /\ Scanner!Init
    /\ Medium!Init /\ Runners!Init
    /\ open # "status" => createdAt = None
    /\ open # "verdict" => ovCreated = None
    /\ open # "layout" => box = CHOOSE b \in Layout!Boxes : TRUE
    /\ open # "layout" => rows = CHOOSE p \in Plans : TRUE
    /\ open # "settings" => stored = [fields |-> "default", password |-> ""]
    /\ open # "insights" => insightsDevice = None
    /\ open # "startup" => isDashboard /\ undeclared = CHOOSE u \in Undeclared : TRUE

-----------------------------------------------------------------------------
(* A step is one of the part that is open; the others rest.                *)

Step ==
    \/ open = "status"   /\ Status!Next
    \/ open = "verdict"  /\ Verdicts!Next
    \/ open = "geo"      /\ Geo!Next
    \/ open = "bar"      /\ Bar!Next
    \/ open = "dialog"   /\ Dialog!Next
    \/ open = "agent"    /\ Assistant!Next
    \/ open = "rules"    /\ Rules!Next
    \/ open = "topology" /\ Topo!Next
    \/ open = "layout"   /\ Layout!Next
    \/ open = "editor"   /\ Editor!Next
    \/ open = "table"    /\ Table!Next
    \/ open = "keys"     /\ Keys!Next
    \/ open = "logs"     /\ Logs!Next
    \/ open = "settings" /\ Settings!Next
    \/ open = "maps"     /\ Maps!Next
    \/ open = "insights" /\ Insights!Next
    \/ open = "cards"    /\ Cards!Next
    \/ open = "advice"   /\ Advice!Next
    \/ open = "store"    /\ Store!Next
    \/ open = "accounts" /\ Accounts!Next
    \/ open = "startup"  /\ Startup!Next
    \/ open = "scan"     /\ Scanner!Next
    \/ open = "medium"   /\ Medium!Next
    \/ open = "tasks"    /\ Runners!Next

Rest ==
    /\ IF open = "status"   THEN TRUE ELSE UNCHANGED statusVars
    /\ IF open = "verdict"  THEN TRUE ELSE UNCHANGED ovStatusVars
    /\ IF open = "geo"      THEN TRUE ELSE UNCHANGED geoVars
    /\ IF open = "bar"      THEN TRUE ELSE UNCHANGED barVars
    /\ IF open = "dialog"   THEN TRUE ELSE UNCHANGED dialogVars
    /\ IF open = "agent"    THEN TRUE ELSE UNCHANGED agentVars
    /\ IF open = "rules"    THEN TRUE ELSE UNCHANGED displayVars
    /\ IF open = "topology" THEN TRUE ELSE UNCHANGED topoVars
    /\ IF open = "layout"   THEN TRUE ELSE UNCHANGED layoutVars
    /\ IF open = "editor"   THEN TRUE ELSE UNCHANGED editVars
    /\ IF open = "table"    THEN TRUE ELSE UNCHANGED tableVars
    /\ IF open = "keys"     THEN TRUE ELSE UNCHANGED keysVars
    /\ IF open = "logs"     THEN TRUE ELSE UNCHANGED logsVars
    /\ IF open = "settings" THEN TRUE ELSE UNCHANGED settingsVars
    /\ IF open = "maps"     THEN TRUE ELSE UNCHANGED mapVars
    /\ IF open = "insights" THEN TRUE ELSE UNCHANGED insightsVars
    /\ IF open = "cards"    THEN TRUE ELSE UNCHANGED overviewVars
    /\ IF open = "advice"   THEN TRUE ELSE UNCHANGED adviceVars
    /\ IF open = "store"    THEN TRUE ELSE UNCHANGED storeVars
    /\ IF open = "accounts" THEN TRUE ELSE UNCHANGED accountVars
    /\ IF open = "startup"  THEN TRUE ELSE UNCHANGED startupVars
    /\ IF open = "scan"     THEN TRUE ELSE UNCHANGED scanVars
    /\ IF open = "medium"   THEN TRUE ELSE UNCHANGED mediumVars
    /\ IF open = "tasks"    THEN TRUE ELSE UNCHANGED taskVars

Next == Step /\ Rest /\ UNCHANGED open

Spec == Init /\ [][Next]_dashboardVars

-----------------------------------------------------------------------------
(* Properties.  Each is one question about several parts; the parts state  *)
(* what it means for them.                                                 *)

\* What says that it is busy - the bar at the top, a spinner, a card that is
\* "loading", a watched panel, a load or scan button that is taken away, a task that
\* is "queued" or "running" - stands for work that is under way, and is not left over
\* when a request fails or overtakes another; but a task whose runner could not note
\* its end, or was stopped under it, stays open.  Not the other way round: the first
\* of two loads to end takes the spinner of the log and of the keys away.
BusyMeansWork ==
    /\ open = "bar" => Bar!BarMatchesTasks
    /\ open = "keys" => Keys!SpinnerMeansLoading
    /\ open = "editor" => Editor!LoadingEnds
    /\ open = "logs" => Logs!LogsSettle
    /\ open = "insights" => Insights!PageIsWatched
    /\ open = "cards" => Cards!TokenIsHeldForFetches
                         /\ Cards!BusyCardsSettle /\ Cards!FetchesAreRunning
    /\ open = "scan" => Scanner!ScanEnds
    /\ open = "tasks" => Runners!OpenTasksRun /\ Runners!EndsAreTheirOwn

\* What several callers share - a promise kept for others that ask the same, a frame
\* that is asked for - is under way as long as it is kept, so that nobody waits for
\* what has ended; and no address is looked up twice at a time.
SharedIsUnderWay ==
    /\ open = "status" => Status!PendingIsRunning
    /\ open = "geo" => Geo!OneLookupAtATime /\ Geo!ResolvingEnds
    /\ open = "store" => Store!LoadsSettle

\* The store of devices never falls back to an older list of the server, and each of
\* its subscribers has the list it holds.
StoreIsCurrent == open = "store" => Store!NoOldList /\ Store!SubscribersUpToDate

\* A form or panel shows what was opened or selected last, whatever answers arrive in
\* whatever order: the panels of the insights are filled for the device of the newest
\* refresh, and the open map is one that the user opened or the first of a list that
\* has come since.  The viewer of the keys shows one of the keys that were asked for
\* since it was closed, not always the last of them.
ShownIsOfOpened ==
    /\ open = "editor" => Editor!FormIsOfOpened
    /\ open = "topology" => Topo!SelectionIsDrawn /\ Topo!PanelShowsSelection
    /\ open = "maps" => Maps!PreviewIsOfOpened
    /\ open = "insights" => Insights!PanelsAreOfRefreshed
    /\ open = "keys" => Keys!ViewerIsOfAsked

\* What is drawn, offered or ticked is in the list the page holds: the positions of
\* nodes, the rows of the maps while none of their answers is out, the choices of a
\* filter, the rows to export, the results of a scan.
DrawnIsListed ==
    /\ open = "topology" => Topo!PositionsAreDrawn
    /\ open = "maps" => Maps!DrawnFromLists
    /\ open = "logs" => Logs!FilterIsListed
    /\ open = "table" => Table!ExportIsWhatIsTicked
    /\ open = "scan" => Scanner!ResultsOfOneScan

\* The overview and the other pages, with rules and caches of their own, hold no
\* contrary statuses of a device that rest on the same ping, and the overview calls
\* a device online only as long after its ping as the limit and its cache allow.
PartsAgree == open = "verdict" => Verdicts!PagesAgree /\ Verdicts!OnlineIsRecent

\* The agent's last words are about what its page shows, its badge stands for words
\* that were not seen, it was told of the entries the log page shows, and by the
\* overview of what its list, filters and summaries say.
AgentIsToldTheLatest ==
    /\ open = "agent" => Assistant!LastWordIsCurrent /\ Assistant!AttentionMeansUnseen
    /\ open = "logs" => Logs!AgentKnowsEntries
    /\ open = "advice" => Advice!WordsAreCurrent

\* A question of the dialog is answered once: its callback runs once if the answer
\* is yes and never otherwise, and the dialog is shown as long as it waits.
QuestionsAreAnswered ==
    open = "dialog" => Dialog!CallbackOncePerYes /\ Dialog!ShownWhileAsked

\* The settings form sends a password only if one was typed or is to be cleared; and
\* if it was not edited, the answer it was filled from, which changes nothing unless
\* settings were stored since, or else the defaults.
SettingsAreKept ==
    open = "settings" => Settings!PasswordIsAsked /\ Settings!UneditedIsKept

\* No two pages send the browser to and fro, and a server that counts as set up has
\* an account to log in with.
AccountsAreReachable ==
    open = "accounts" => Accounts!RedirectsEnd /\ Accounts!SetupLeavesAnAccount

\* What the scripts of a page leave with whenReady runs, and not before the page has
\* gone through its start: it finds the view started, and the services bound if
\* shared.js declares all it exposes (as it is, it does not, and they never are).
CallbacksAreRun ==
    open = "startup" => Startup!CallbacksRun /\ Startup!CallbacksFindPageStarted

\* The topology is drawn inside its container - a node that was dragged inside the
\* one it was dragged in - and the layout keeps the devices of a row, and two rows,
\* apart where they fit.
DrawingFits ==
    open = "layout" => Layout!DrawnInside /\ Layout!RowsAreApart

\* A relative time is within half a unit and a bit of the age it stands for, and the
\* parts of an uptime add up to it.
TimesAreTold ==
    open = "rules" => Rules!RelativeTimeIsClose /\ Rules!UptimeAddsUp

\* A device keeps the medium that the user forced on it, unless a pass had listed it
\* before, and one without has that of its range, through ranges and devices that are
\* made, changed and deleted side by side, failures and stops - or one of the causes
\* that FollowsItsRange names has parted them.
ConnectionsAreRight ==
    open = "medium" => Medium!OverrideIsKept /\ Medium!FollowsItsRange

\* A status does not get better by silence, nor change for an older ping but by requests
\* that overlapped; and the class of a link, of which the same is known as before, not
\* without a quicker ping or more bandwidth.
BetterNeedsAReading ==
    Status!SilenceDegrades /\ Status!SamplesInOrder /\ Rules!ClassNeedsAReading

\* "Select all" selects all.  A list that is loaded again keeps of the networks that
\* are chosen those it holds, and adds none; if none is chosen any more, it chooses all.
ChoicesAreKept == Table!SelectAllDoesAsItSays /\ Scanner!ReloadKeepsChoice

\* The bar does not move backwards or flash, and an address that failed is not asked
\* for again at once.
PaceIsKept == Bar!NeverBackwards /\ Bar!NoFlash /\ Geo!FailureHolds
=============================================================================
