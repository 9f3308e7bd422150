# PulseOps: formal models

TLA+ models of PulseOps, the network monitoring server in this repository and its
dashboard: what their parts do to the state they share, checked with TLC on small
instances and, for the safety properties that matter most, proved with TLAPS for all
instances.

    tlc -config DeviceRegistry.cfg MCDeviceRegistry      # model-check
    tlc -workers 2 -config DashboardViews.cfg MCDashboard     # about a minute and a half
    tlapm DeviceRegistry_proofs.tla                      # check the proofs
    tlapm DashboardViews_proofs.tla                      # a few minutes

`PROJECT.json` lists the components, the runs, the mutants, the lines of code
each definition stands for, the findings, the hazards and the theorems.

## 1. The system

One Go process (`cmd/pulseops/main.go`) with one SQLite file, and a web page in
plain JavaScript that polls it. `main` opens the store, makes the key manager,
the backup manager and the scheduler, registers the HTTP routes (which starts
the deletion sweeper), starts the scheduler (start-up pass over the configured
devices, then its loops), serves HTTP in a goroutine and waits for a signal;
then the deferred `Shutdown` and `db.Close` run. Requests in progress and task
goroutines are not waited for.

The store opens **one connection** (`SetMaxOpenConns(1)`), so every SQL
statement is atomic and statements of all goroutines are in one order. Only
`DeleteDevice`, `SetSettings` and the deletion of a map use a transaction.
Foreign keys are declared but never enabled (`PRAGMA foreign_keys` is absent), so
neither references nor `ON DELETE CASCADE` are enforced. Everything that spans
two statements can interleave with everything else: that is where the models look.

| Part | State | Operations | Interacts with | What is hard | Correct means |
|---|---|---|---|---|---|
| Device registry (`store`, device handlers, sweeper, start-up pass) | `devices`, `pending_device_deletions`, `deleted_devices` | create, import, edit, delete now or after 20 s, restore, sweep, bootstrap | read by the scheduler, tasks, backups | check-then-act handlers, the sweeper's list, the start-up pass racing the sweeper, restarts | identifiers final; no early deletion; restores and tombstones hold; deletions end |
| Scheduler (`scheduler`) | `Svc.devices`, goroutines, wait group, `Stop` | sync every 10 s, collect, re-provision, shut down | reads `devices`; writes `metrics`, `device_logs`; used by `/api/devices/{id}/reprovision` | the listing is read before the lock; old and new collectors overlap; `select` picks at random; shutdown order | one active collector per device, none lost; clean shutdown; catches up |
| Backups (`backups`, part of the scheduler and of the handlers) | `device_backups`, a timer per collector | schedule, capture, capture on request | collectors, keys | the decision is stale when the timer fires; captures outlive their collector; failing lookups | spacing; timers not late; due backups happen |
| SSH keys (`keys`) | `ssh_keys`, references in `devices.ssh_key`, temporary files | store, delete, resolve, clean up | tasks, backups, collectors, re-provisioning | late resolution, error paths, process stops, another secret | the right key or none; no file left |
| Task runner (`/api/tasks`, `runTask`) | `tasks`, a goroutine per task | enqueue, run, note | devices, keys | device deleted meanwhile, lost notes, stops | an open task has its runner; an end is its own |
| Network medium | `network_range_medium`, `devices.connection*` | set, clear, apply to devices, resolve for a host | device handlers | overlapping ranges, list-then-update | an override is kept; the rest follow their range |
| Discovery ranges, scan | `manual_discovery_ranges` | create, edit, delete, expand, scan | network medium, analysis page | overlapping loads, a scan in many requests | results of one scan, choices kept |
| Collectors (ping, SNMP, iperf3, SSH) | counters, recent errors, last SNMP time per device | collect | scheduler, keys | counter resets, deduplication, the remote iperf server | not modelled beyond that they end |
| Accounts | `users`, `sessions`, `settings.setup_completed` | set up, log in and out, check | every page | check-then-act set-up, redirects between pages | no endless redirects; an account to log in with |
| Settings | `settings` | load, edit, save | settings page | late answers filling an edited form | no password sent that was not asked for |
| Map groups, saved maps, canvases | their tables | CRUD | map page | two lists that arrive apart | what is drawn is in the lists |
| Geolocation cache | `ip_geolocation`, a cache in the page | look up, refresh | external service, overview | shared requests, two ages | one request at a time; failures not repeated at once |
| Classifier (`network`) | snapshot of the ARP table and interfaces | refresh, classify | scheduler | concurrent refreshes | not modelled beyond its loop |
| Logs, templates, configuration loader, drivers, `executil` | - | queries, parsing, I/O | - | - | not modelled |
| Dashboard: services of `shared.js` | device store, statuses, loading bar, dialog, agent | load, subscribe, ask, publish | every view, the API | callers that share a request; timers that race the next event | see `Dashboard` below |
| Dashboard: views | the state of each page | render, refresh, edit, drag, scan | the services, the API | answers that arrive late, failed, or out of order | see `Dashboard` below |
| `web/archives/pulseops.js` | - | - | loaded by no page | - | not modelled |

## 2. Modules

### The server

| Module | Models | Checked by |
|---|---|---|
| `DeviceLifecycle` | abstract: the life of one device identifier | refined by `DeviceRegistry` |
| `DeviceRegistry` | the three tables and everything that changes them | `MCDeviceRegistry` with 4 cfgs, `Progress` |
| `DeviceScheduler` | sync loop, collectors, re-provisioning, shutdown | `MCDeviceScheduler` with 2 cfgs, `Progress` |
| `Progress` | the liveness of the two, each with its fairness | `Progress.cfg` |
| `BackupSchedule` | timers and captures of one device | `MCBackupSchedule` |
| `KeyStore` | stored keys and the operations that borrow them | `MCKeyStore` |
| `NetworkMedium` | media of ranges, overrides of devices | `MCDashboard` |
| `DeviceTasks` | the task runner | `MCDashboard` |
| `AccountPages` | set-up, login and logout, pages and handlers | `MCDashboard`, `FirstRun.cfg` |
| `*_proofs` | theorems | tlapm |

A definition whose comment begins with "Mutant" is a wrong version of the next one,
used to see that a property notices the mistake; no `Next` contains it. Where a
property of a run has several conjuncts, there is a mutant for most of them, of which
`PROJECT.json` names one.

**DeviceRegistry.** An action is one SQL statement with the Go code up to the next
one, so that a handler is a sequence of actions (`req[r].at` is the statement it
stands before). `CreateExists`, `CreateClear`, `CreateInsert` are POST;
`ImportSelect`, `ImportUpdate` and the last two are one entry of an import (entries
are handled one after the other and share nothing, so an import is as many requests);
`Put`; `DeleteGet`, then `DeleteNow` or `DeleteCheckPending`, `DeleteSchedule`;
`RestoreGet`, `RestoreCancel`. `RequestFails` is an error answer at any statement,
with what came before left done. The sweeper is `SweepRead` (the due rows become a
list in memory), `SweepDelete`, `SweepDeleteFails`; it may run during the start-up
pass, as in the code. The pass is `BootCheck`, `BootClear`, `BootInsert`,
`BootFails`, `BootDone`. `Crash` also stands for the ordinary stop: neither waits
for handlers or the sweeper. Time is abstracted: a pending row is `waiting`, `near`
(the clock is in the second of `delete_at`) or `due`, and `GraceLapses` may happen at
any moment, also while the process is down. The sweeper's query compares times as
RFC3339Nano text, in which "05.5Z" sorts after "05.512Z", so that within one second
either answer is possible: a `near` row may be read or not. Of a device only the name is
kept. `overtaken`, `kept`, `gone` and `bootTombs` are history: a device is `overtaken`
while it is in the sweeper's list and a handler has cancelled or replaced its schedule
since the list was read, which ends when the sweeper comes to it. `SweepHonoursGrace`
excepts only this, and what it leads to is the run `DeviceRegistryRestore`.

**DeviceScheduler.** A record is a model value of `Versions`: `deviceChanged` compares
records for equality (of the fields it looks at). `SyncList` is the query outside the
lock; `SyncCancel`, `SyncStart` and `SyncEnd` hold `devicesMu`, hence `ReproBegin` is
disabled between them; the stop of all collectors by the leaving loop is `SyncStop`. A
collector is `collecting`, `logging` (stored, its log row not yet) or `waiting` at its
`select`, where both `Tick` and `Return` may be enabled. The tables change under it
through `TableChange`.

**BackupSchedule.** Minutes are counted relatively: the age of the newest row, the
time left to a timer. A capture in the places `checked`, `blind` (the lookup failed)
and `doomed` (begun by a cancelled collector) has a time-out. An edit may change the
interval: the new collector is started with another one while the old one captures.

**KeyStore.** `ReadRecord` takes the reference with the record; `Resolve`, `Write`,
`WriteFails`, `CreateTempFails` are `ResolvePath`; `Cleanup` is the deferred removal. A
reference may be one that was not handed out yet, since device lists can be imported
from another installation. `Restart` may bring another secret.

**NetworkMedium.** Each action is a statement of a handler of `/api/discovery/ranges`
or of the edit of a device, which run side by side and may fail anywhere. One device
stands for all, since a pass treats each row by itself; the arithmetic of addresses is
membership in a range, and of overlapping ranges any may come first, as in the query.
`Restart` ends all handlers and has the start-up pass, which asks no range, insert the
device as wired if it is configured. The two properties hold through all of that but for
named causes, which are history: `linkOvertaken`, a pass that had listed the device
before its last edit wrote after it (finding `http.go:1151`); and `linkApart`, what last
happened to the medium left it apart from its range. The latter is set by a write of a
medium resolved before the range changed, a failure or stop of a pass, a deletion without
a pass, another range of the device, or the start-up pass, and by nothing else; it does
not survive the next write or pass that brings the medium of a range.

**DeviceTasks.** A task is a row and a goroutine; a note of the goroutine in its row
may be lost, the command ends any way at any time, the device and its rows may be
deleted under it, and a stop of the process ends all goroutines.

### The dashboard

Each page is an HTML document with a JavaScript world of its own, in which the
services of `shared.js` live too. JavaScript runs to completion, so **an action is
what happens between two events** (a click, a timer, an animation frame, an answer or
failure) up to the next `await`; answers arrive in any order. `PageValues` holds the
common constants.

| Module | Source (`web/js`) | Models |
|---|---|---|
| `PageStartup` | `dashboard/main.js`, `shared.js` | script order, template, services, controller, `whenReady` |
| `DeviceStore` | `shared.js` | loads that share a request, subscribers, cache |
| `StatusRules` | `device-status.js` | how a status is worked out from a ping |
| `DeviceStatus` | `device-status.js` | the cache of statuses, requests that share and overlap |
| `OverviewStatus` | `views/overview.js` | the overview's own rule and cache, beside another page's |
| `GeoLookup` | `shared.js`, `views/overview.js` | lookups, two ages, the frame that draws again |
| `LoadingBar` | `shared.js` | tokens, minimal time, hide timer |
| `ConfirmDialog` | `shared.js` | openings, listeners, promises, callbacks |
| `Agent` | `shared.js` | contexts, signatures, attention, tooltips |
| `Overview`, `OverviewAdvice` | `views/overview.js` | cards, summaries and their tokens; what the agent is told |
| `DisplayRules` | `overview-formatters.js`, `network-visualisation.js` | relative times, uptimes, classes of links |
| `Topology`, `TopologyLayout` | `views/network-visualisation.js` | loads under the pointer; the arithmetic of the layout |
| `DevicesTable`, `DeviceEditor` | `views/devices.js`, `device-interactions.js` | selection, export, import; the editor's overlay |
| `KeysPage`, `LogsPage`, `MapPage`, `InsightsPage`, `ScanPage` | `views/keys.js`, `logs.js`, `overview-map.js`, `insights.js`, `network-analysis.js` | their loads, choices, timers and drawings |
| `SettingsPage` | `views/settings.js`, `http.go` | the form and its handler |

`Dashboard` composes them. Opening another page ends the one before, and with it its
world, so a behaviour is one of the part that is `open` while the others rest
(`Rest`): the parts are checked side by side. `MCDashboard` divides the behaviours
between between two runs by the part that is open, which leaves none out., which leaves none out. `NetworkMedium` and
`DeviceTasks` are parts of it as well, the server behind the pages that ask for
ranges and tasks. Its properties are questions about several parts (`BusyMeansWork`:
whatever says that it is busy stands for work under way), which each part answers
with invariants of its own; the comments there say what the code does.

What the page modules take for granted:

* As the scripts are, `shared.js` ends with a ReferenceError before it assigns
  `PulseOps.shared` (finding `shared.js:2028`). In `PageStartup` the names that are not
  declared are fixed at the start as one of the sets in `Undeclared`; the run takes both
  `{n2}`, the file as it is, and `{}`, the file with them declared. What is said of
  callbacks holds for both; that they find the services bound, for the second only. The
  other modules model the functions as they are written.
* On a dashboard page a view is initialised twice (finding `insights.js:1319`);
  `PageStartup` counts it in `viewStarts`. The other modules take one initialisation: a
  handler that is bound twice is two events in a row.
* "In the end" on a page is stated as safety: what waits has a request, a timer or a
  frame under way, and no such work is left without an end. Whether the browser
  delivers an answer is not the code's.

## 3. What the runs show

| Run | Instance | Shows |
|---|---|---|
| `DeviceRegistry` | 2 names (1 configured), 2 requests, 2 identifiers, 1 stop | `IdsNeverReused`, `SweepHonoursGrace`, `RestoreHoldsOutsideSweep`, `StartupHonoursTombstones`, and that the registry implements `DeviceLifecycle` |
| `DeviceScheduler` | 2 devices, 2 versions, 3 goroutines, 1 handler, 2 changes | map, goroutines and wait group agree; at most one active collector a device; quiet after shutdown; deleted devices are retired |
| `Progress` | registry with 1 name, 2 requests, 1 stop; scheduler with 1 device, 2 goroutines, 3 changes | a scheduled deletion ends, also after a restart; a shutdown ends; collectors catch up |
| `BackupSchedule` | intervals 3 and 5, 2 collectors, capture limit 2, 2 cancellations or crashes | timers are not late; scheduled backups keep their distance; a due backup is stored |
| `KeyStore` | 1 device, 2 materials, 2 secrets, 2 operations, 2 keys, 1 stop | the right key; no file outlives its use |
| `DashboardServices` | 2 devices, 2 requests under way, 3 ticks, 2 changes of the server; more in the cfg | 11 questions about what the views share, the arithmetic they draw with, settings, accounts, and the ranges |
| `DashboardViews` | the same | 6 questions (`TypeOK`, which is proved, is not among them) about the views, the start of their pages, and the tasks |

The properties of the two `Dashboard` runs:

| Property | Says |
|---|---|
| `BusyMeansWork` | bars, spinners, "loading" cards, watched panels, disabled buttons and open tasks stand for work under way; not the converse: the first of two overlapping loads to end takes the spinner of the log and of the keys away |
| `SharedIsUnderWay` | a promise, lookup or frame kept for several callers has not ended; no address is looked up twice at a time |
| `StoreIsCurrent` | the device store never falls back, and its subscribers have its list |
| `ShownIsOfOpened` | a form or panel shows what was opened last, once what was opened while older loads ran has been left behind; the key viewer shows one of the keys asked for since it was closed |
| `DrawnIsListed` | what is drawn, offered, ticked or exported is in the list held, that of the maps while none of their answers is out |
| `PartsAgree` | the overview and another page, each with a rule and a cache of its own, hold no contrary statuses from the same ping; "online" on the overview outlives its ping by no more than limit and cache |
| `AgentIsToldTheLatest` | the agent's last words are about what is shown, and the overview's are current after every load that ends, fails or is overtaken |
| `QuestionsAreAnswered` | a dialog's callback runs once for a yes, never otherwise |
| `SettingsAreKept` | a password is sent only if asked for; an unedited form sends the answer it was filled from, which is what is stored unless someone stored since; after a failed load, the defaults |
| `AccountsAreReachable` | redirects end; a server that is set up has an account |
| `CallbacksAreRun` | callbacks of `whenReady` run, and find the page started; the services too, if `shared.js` declares what it exposes |
| `DrawingFits` | the topology is inside its container, a dragged node inside the one it was dragged in; devices of a row, and rows, are apart where they fit |
| `TimesAreTold` | relative times within 0.55 of their unit; the parts of an uptime add up |
| `ConnectionsAreRight` | an override is kept, other devices have the medium of their range, through overlapping requests, failures and restarts, but for the causes named above |
| `BetterNeedsAReading` | silence improves no status; older samples change none unless requests overlapped; a link of which the same metrics are known needs a better one for a better class |
| `ChoicesAreKept` | "select all" selects all; a list that arrives adds nothing to a choice that is not empty, and selects all if it is |
| `PaceIsKept` | the bar goes forward and does not flash; failed lookups wait |

Runs that end in a violation, each a disagreement between the code and what it or
its documents say (details in `PROJECT.json`, findings):

| Run | Property | Counterexample |
|---|---|---|
| `DeviceRegistryRestore` | `RestoreHolds` | the sweeper reads its list, a restore is answered, the sweeper deletes |
| `DeviceRegistryBoot` | `StartupNeverResurrects` | the pass checks, the sweeper deletes, the pass clears the tombstone and inserts |
| `DeviceRegistryOrphan` | `PendingHasDevice` | an immediate deletion between the two statements of a delayed one |
| `DeviceSchedulerRemains` | `RemovalIsComplete` | `DeleteDevice` leaves `device_logs`, and a collector stores rows for a deleted device |
| `FirstRun` | `FirstRunShowsSetup` | the set-up page is itself redirected to `/setup` until the browser gives up |

**Bounds.** *Server.* Two requests are enough for each pair of handlers to interleave,
and the sweeper and the start-up pass are always there as well; two identifiers allow
a deletion and a re-creation under the same name; three goroutines allow two
overlapping collectors of one device beside one of another. Two intervals of which
neither divides the other cover lengthening and shortening across an edit, and a
capture limit of two minutes is the code's (`backupTimeout`, in minutes). `MaxJobs` is
3 in `NetworkMedium`, for a range that is made, an edit and a deletion; a manual and a
detected range overlap. Two tasks are enough for one to outlive its row.
*Pages.* Two requests under way can overtake each other; two devices are one that is
shown and one that is not (or is deleted); caches of statuses last two ticks and a ping
is recent for one, so that within three a cache outlives what it was worked out from
and expires; the sizes, plans and pointers of the layout are the cases of its
clamps, and `MCAges`, `MCPings`, `MCBandwidths` the values around every limit in the
code, where the proofs have all of them. Three openings let a dialog be opened while
one waits and one is forgotten. `MaxId`, `MaxCrashes`, `MaxChanges`, `MaxEdits`,
`MaxKey`, `MaxStops`, `MaxErrands`, `MaxJobs` and `MaxTime` only bound counters, and
`MaxAsked` the requests of the insights' timers: one of them is late beside a refresh. When
they are used up the actions they guard are disabled; no property rests on it.

**Symmetry.** `DeviceRegistry` permutes requests, `DeviceScheduler` goroutines and
versions, `KeyStore` operations, materials, secrets and devices, the `Dashboard` runs
requests and devices: nothing orders or names one of them. The runs with liveness properties
(`Progress`, `FirstRun`, `BackupSchedule`) use none.

**Fairness.** The loops (`SyncLoop`, `Sweeper`, `Boot`, collectors) are goroutines
that are always ready, hence weak fairness. `Return`, `SyncStop` compete with a tick
in a `select`, which picks among ready cases at random: strong fairness. Collections
end because all run under a time-out. `SweepDelete` and `Store` are strongly fair:
an attempt that is repeated for ever is assumed not to fail for ever (the database,
the device). `Start` stands for the supervisor. In `FirstRun`, `ByItself` is weakly
fair: the browser loads what it is sent to, and answers arrive. Requests, clicks,
signals and edits get no fairness.

**Deadlock** is checked where the system cannot stop; the scheduler's process exits,
a page may have nothing left to do within the bounds, and the liveness run closes
its counters.

## 4. Proofs

| Module | Theorems |
|---|---|
| `DeviceRegistry_proofs` | type correctness, the four action properties, refinement of `DeviceLifecycle` |
| `DeviceScheduler_proofs` | type correctness, `NoStrayCollector`, `OneActivePerDevice`, `WaitGroupCounts`, `QuietAfterShutdown`, `DeletedStaysRetired` |
| `BackupSchedule_proofs` | type correctness, `TimersNotLate`, `ScheduledBackupsSpaced` |
| `KeyStore_proofs` | type correctness, `RightKey`, `NoFileOutlivesUse` |
| `DashboardServices_proofs` | `StoreIsCurrent`, `SharedIsUnderWay`, `QuestionsAreAnswered`, `PaceIsKept`, `TimesAreTold`, `PartsAgree`, `BetterNeedsAReading` |
| `DashboardPages_proofs` | `CallbacksAreRun`, `SettingsAreKept`, `AccountsAreReachable`, `ChoicesAreKept` |
| `DashboardServer_proofs` | `ConnectionsAreRight`, the tasks' part of `BusyMeansWork` |
| `DashboardViews_proofs` | the properties of `Dashboard` to which many parts contribute: `TypeOK`, `BusyMeansWork`, `ShownIsOfOpened`, `DrawnIsListed`, `AgentIsToldTheLatest`, `DrawingFits` |

So every invariant and every action property of the passing runs is proved. The
theorems hold for every value of the constants under the `ASSUME`s of the modules:
bounds are natural numbers, the values that stand for "nothing" are none of the
others, configured names are names, the goroutines are a finite set, the intervals are
positive and have a largest one. For the dashboard: `PageNames`, `PageTimes` and
`Inputs`, which gathers what the parts assume:

* `NoneIsNoSample`, `NoneIsNothing`, `NoneIsNoMedium`, `NoneIsNoQuery`,
  `NoneIsNoContext`, `NoneIsNoAnswer`, `ListsDiffer`: nothing is not something. In the code these are
  `null`, an empty array or an empty object; here they are values of a type of their
  own.
* `FinitelyMany` devices for the advice and requests for the loading bar, which counts
  its tasks: lists and maps of a page are finite.
* `DisplayNumbers`: ages, pings and bandwidths are numbers.
* `LayoutBounds`: a container has one margin of the layout on each axis. `style.css`
  gives the topology a height of 420 pixels or more, and the width of the page.
* `MaxChanges`, `MaxErrands`, `MaxJobs` are natural numbers.

The arguments:

* *Registry.* Rows at `nextId` and above are unused and no device is pending,
  listed or requested there; for everything in the sweeper's list, while its device
  exists, the last schedule has come to its second, or it is `overtaken`; a
  `safe` device is not in the list; during the start-up pass a name being inserted
  was not in `deleted_devices` at the start. The refinement needs the first part
  (a step of `Insert` is `Born`) and that a pending row changes only as `Doom`,
  `Restore` and `Vanish` allow; a pending row of a missing device is invisible to it.
* *Scheduler.* `NoStrayCollector` is nearly inductive; it needs that goroutines
  in the map are of that device. `DeletedStaysRetired` needs that the list of a
  running sync contains no device removed before an earlier completed sync.
  `QuietAfterShutdown` needs `WaitGroupCounts`, that no goroutine is active once
  the loop has ended, and finiteness of the goroutines.
* *Backups.* The collector in `checked` found the newest row old enough; no
  scheduled row was stored since, because only one collector can be live at a time:
  a cancelled one is `doomed` or finishes before time passes. Spacing follows from
  `age <= schedAge`.
* *Keys.* Between `ReadRecord` and `Resolve` a number that had been handed out
  names the key it named, or none, because a fresh identifier is never an old one.
* *Dashboard.* For each part a lemma says that a step of `Dashboard` is one of the
  part or leaves its variables alone; then the part has its own inductive invariant.
  The device store's says that what the request under way has read is not older than
  anything the store has held, and that callers share this request; the status cache's,
  that its entries were computed from samples in the order of their times, but for the
  requests that overlap, and that each promise kept is that of a running request. For
  two pages, that each worked out what it holds from its sample at the time of its
  entry; the two rules are one function, and that gets no better with time. The dialog's says that
  the opening that waits is the one whose callback will run. The bar's, that its hide
  timer leaves it its minimal time, and that no timer runs while anything loads; the
  geolocation cache's, that a failure in it is the last one. The settings form needs that an answer
  it holds, or that is on its way, has what is stored unless it was overtaken. For the accounts, that a set-up call which
  passed its check has an account before it writes the setting, and that the page
  a tab rests on and its last redirect determine how many can follow. Times are
  arithmetic over the integers, unit by unit.
* *Views.* What is shown and what is drawn depends on answers that arrive late, so each
  page's invariant says for whom the work under way is. It uses a history of what was
  opened, refreshed or asked for since the page was last quiet (`editLately`, `lately`,
  `viewedLately`): all work under way and all that is filled is of those, so that where
  there is only one, everything is of it. The advice's: the words are those of the list,
  the filters and the summaries, or a frame is asked for that will say them. The overview's: the summaries that are loading are those whose
  request is known, and no device without a summary is suspended. The maps': a refresh
  whose maps have come leaves some. The topology's: `deviceMap` has the devices that are
  drawn, save while a load has emptied it. The agent's: a context is that of the route, the
  one signed and the current one. The device table's: each device of the list has a row,
  ticked exactly if the device is chosen. The scan's: only the last scan waits. The
  layout's: a device that was dragged stands inside the container it was dragged in,
  whatever the container is now; drawn in another one it is clamped. Snapping moves a
  point by half a cell at most, and neither devices of a row nor rows that fit are
  clamped, hence they stay apart.
* *Media and tasks.* `FollowsItsRange` is inductive as it stands: every step that changes
  the medium of a range leaves a pass that `Brings` it, every end of a pass either has
  written the medium or sets `linkApart`. For an override it is enough that every pass
  that has listed the device before its last edit is marked `early`, and that the write of
  such a pass sets `linkOvertaken`. Of
  the tasks: none above the sequence has a row or a runner, so that a new row is
  nobody's; and a runner's row is open and names the runner's device.

What the proofs showed about the models, each corrected against the source:

* `Overview.CardOf` was a `CASE` whose guards overlapped, so that TLA+ left open which
  card a device has; `createCard` is an if-else chain, and so is the operator now.
* `LoadingBar.ManualTarget` summed by recursion over a set, which cannot be reasoned
  about; it counts the tasks per reported value now, with the same mean.
* `MaxErrands` and `MaxJobs` had no assumption; with a bound that is no number nothing can
  be said of the counters.
* The drawing is inside its container only if the container has room for one margin;
  in a smaller one the clamp gives a negative place.

**Only model-checked:** liveness (`DueBackupsHappen`, the three properties of
`Progress`), which needs fairness and ENABLED, and the violations.

## 5. Not modelled, and why

* The collectors' measurements, the drivers, `executil`, the classifier's tables and
  the server's side of a scan: I/O with devices, whose answer is any value to the rest.
* Configuration loader, templates, the read-only queries: no state, or no change of it.
* Map groups, maps and canvases on the server: single statements; no page calls the
  ones that change them.
* Address parsing and expansion of ranges: `NetworkMedium` has membership only.
* `web/archives/pulseops.js`, 8 400 lines: loaded by no page.
* Styling, formatting and charts of the pages.

Hazards that are real but in no property: the lookup of the newest backup that fails
(`scheduler.go:1378`), a key directory that could not be made (`keys/manager.go:80`), the
iperf server left on a device (`scheduler.go:1118`), the bounds of recent errors and
counters that start again (`:885`, `:1050`), times compared as text where a second
matters (`sqlite.go:1612`; for `:1339` see `DeviceRegistry`), and decrypted keys left on disk by a stop
(`keys/manager.go:165`; in `KeyStore` as `left`, which no document promises to clean).

Defects of the pages met on the way that no property is about: the delete button of
the key page throws (`shared.confirm` is an object, `keys.js:294`); the editor's
`deviceDeleted` event has no listener, and its reboot request is answered 404; the
uptime of a card is a ReferenceError (`overview.js:1455`); the badge of a device row
stays "Checking..."; a drag to the side shrinks a corridor's offset for good
(`network-visualisation.js:677`); in a very narrow container nodes cover each other; a
drop of the uptime is reported as an improvement; two set-ups at the same time make
two accounts; an older answer of the log replaces a newer query's, and the first of two
answers takes the spinner away; the key viewer shows the key whose answer is last, not the
one asked for last; a refresh of the maps may put the first map in the place of the one
that is open; a settings form whose load failed saves defaults, as its message says it
will; a key in use can be deleted, though `KEY_MANAGER_IMPLEMENTATION.md:116` says it
cannot. Others are findings in `PROJECT.json` without a run of their own: "all monitored
devices are operating within expected thresholds" over offline cards (`overview.js:494`),
a link that is classed better for lack of a ping (`network-visualisation.js:153`), forced
status requests that answer out of order (`device-status.js:304`), a dragged node outside
a smaller container (`network-visualisation.js:805`), and all ranges chosen after a list
without the chosen one (`network-analysis.js:613`).

Where to go on: one composition of `DeviceRegistry` and `DeviceScheduler` over a single
devices table, with the scheduler's `TableChange` implemented by the registry's steps;
abstract specifications of the device store and of the task runner, and the proof that
those implement them; a model of the collectors' error window and counters.
