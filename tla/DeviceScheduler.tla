-------------------------- MODULE DeviceScheduler --------------------------
(***************************************************************************)
(* The scheduler service (internal/scheduler): the loop that every 10 s    *)
(* compares the devices table with the running collectors, the collector   *)
(* goroutine of each device, the re-provisioning handler that borrows a    *)
(* collector's state, and the shutdown that waits for all of them.         *)
(*                                                                         *)
(* The HTTP handlers and the deletion sweeper change the devices table     *)
(* underneath; DeviceRegistry models them in detail, here they are the     *)
(* three actions AddDevice, EditDevice and RemoveDevice.  Of a record only *)
(* the fields deviceChanged compares matter, so a record is one of a set   *)
(* of Versions, and an edit may bring an earlier version back.             *)
(***************************************************************************)
EXTENDS Integers, FiniteSets

CONSTANTS
    Ids,         \* device identifiers
    Versions,    \* contents a device record may have
    Goroutines,  \* bound: collector goroutines alive at the same time
    Handlers,    \* HTTP handlers running a re-provisioning
    None,        \* no record, no goroutine, no device
    MaxChanges   \* bound: changes made to the devices table

ASSUME NoneAssumption ==
    None \notin Ids /\ None \notin Versions /\ None \notin Goroutines
ASSUME BoundAssumption == MaxChanges \in Nat /\ IsFiniteSet(Goroutines)

VARIABLES
    rec,       \* devices: the record of each identifier, None if no row
    removed,   \* identifiers that had a row and lost it (never reused)
    changes,   \* number of changes made to the table
    metrics,   \* identifiers with rows in metrics
    logs,      \* identifiers with rows in device_logs
    phase,     \* "running", "stopping" (Stop is closed), "down"
    sync,      \* the sync loop: where it is, and the records it listed
    devices,   \* Svc.devices: the goroutine of each active device
    gor,       \* the collector goroutines
    wg,        \* Svc.wg
    refresher, \* classifierRefreshLoop is alive
    repro,     \* the device each re-provisioning handler works on
    settled    \* history: deleted before the listing of a completed sync

table == <<rec, removed, changes>>
vars == <<rec, removed, changes, metrics, logs, phase, sync, devices, gor,
          wg, refresher, repro, settled>>

Record == Versions \cup {None}

\* A goroutine that has not been started, or has returned.
Unused == [at |-> "unused", dev |-> None, rec |-> None, cancelled |-> FALSE]
Alive(g) == gor[g].at # "unused"
Active(g) == Alive(g) /\ ~gor[g].cancelled

TypeOK ==
    /\ rec \in [Ids -> Record]
    /\ removed \subseteq Ids
    /\ changes \in 0..MaxChanges
    /\ metrics \subseteq Ids
    /\ logs \subseteq Ids
    /\ phase \in {"running", "stopping", "down"}
    /\ sync \in [at : {"idle", "listed", "starting", "ended"},
                 list : [Ids -> Record]]
    /\ devices \in [Ids -> Goroutines \cup {None}]
    /\ gor \in [Goroutines ->
                  [at : {"unused", "collecting", "logging", "waiting"},
                   dev : Ids \cup {None}, rec : Record, cancelled : BOOLEAN]]
    /\ wg \in Int
    /\ refresher \in BOOLEAN
    /\ repro \in [Handlers -> Ids \cup {None}]
    /\ settled \subseteq Ids

\* Start has run: the table is what the last process left, both loops are up.
Init ==
    /\ rec \in [Ids -> Record]
    /\ removed = {}
    /\ changes = 0
    /\ metrics = {}
    /\ logs = {}
    /\ phase = "running"
    /\ sync = [at |-> "idle", list |-> [i \in Ids |-> None]]
    /\ devices = [i \in Ids |-> None]
    /\ gor = [g \in Goroutines |-> Unused]
    /\ wg = 2
    /\ refresher = TRUE
    /\ repro = [h \in Handlers |-> None]
    /\ settled = {}

-----------------------------------------------------------------------------
(* The devices table, changed by the HTTP handlers and the sweeper.        *)

Change == /\ phase # "down"
          /\ changes < MaxChanges
          /\ changes' = changes + 1
          /\ UNCHANGED <<phase, sync, devices, gor, wg, refresher, repro,
                         settled>>

AddDevice(i) ==
    /\ Change
    /\ rec[i] = None /\ i \notin removed
    /\ \E v \in Versions : rec' = [rec EXCEPT ![i] = v]
    /\ UNCHANGED <<removed, metrics, logs>>

EditDevice(i) ==
    /\ Change
    /\ rec[i] # None
    /\ \E v \in Versions \ {rec[i]} : rec' = [rec EXCEPT ![i] = v]
    /\ UNCHANGED <<removed, metrics, logs>>

\* DeleteDevice deletes the rows of metrics and tasks with the device; the
\* rows of device_logs stay, since no foreign key is enforced.
RemoveDevice(i) ==
    /\ Change
    /\ rec[i] # None
    /\ rec' = [rec EXCEPT ![i] = None]
    /\ removed' = removed \cup {i}
    /\ metrics' = metrics \ {i}
    /\ UNCHANGED logs

-----------------------------------------------------------------------------
(* deviceSyncLoop and syncDevices.                                         *)

\* ListDeviceRecords: read before devicesMu is taken.
SyncList ==
    /\ phase # "down"
    /\ sync.at = "idle"
    /\ sync' = [at |-> "listed", list |-> rec]
    /\ UNCHANGED <<table, metrics, logs, phase, devices, gor, wg, refresher,
                   repro, settled>>

\* Mutant: only devices that are no longer listed.
Unlisted == {i \in Ids : devices[i] # None /\ sync.list[i] = None}

\* Mutant: only devices that are listed with another record.
Edited == {i \in Ids : /\ devices[i] # None /\ sync.list[i] # None
                       /\ sync.list[i] # gor[devices[i]].rec}

\* The active devices that are no longer listed, or are listed with another
\* record than the one their goroutine was started with.
Outdated == {i \in Ids : /\ devices[i] # None
                         /\ sync.list[i] # gor[devices[i]].rec}

\* Mutant: the devices are forgotten, their goroutines are not cancelled.
ForgetAll(D) ==
    /\ devices' = [i \in Ids |-> IF i \in D THEN None ELSE devices[i]]
    /\ UNCHANGED gor

\* Cancel the goroutines of the devices in D and forget them.
CancelAll(D) ==
    /\ devices' = [i \in Ids |-> IF i \in D THEN None ELSE devices[i]]
    /\ gor' = [g \in Goroutines |->
                 IF \E i \in D : devices[i] = g
                 THEN [gor[g] EXCEPT !.cancelled = TRUE] ELSE gor[g]]

\* First loop of syncDevices, with devicesMu held from here to SyncEnd.
SyncCancel ==
    /\ sync.at = "listed"
    /\ CancelAll(Outdated)
    /\ sync' = [sync EXCEPT !.at = "starting"]
    /\ UNCHANGED <<table, metrics, logs, phase, wg, refresher, repro, settled>>

\* Mutant: devices that already have a goroutine are not left out.
Listed == {i \in Ids : sync.list[i] # None}

Missing == {i \in Ids : sync.list[i] # None /\ devices[i] = None}

\* Mutant: no wg.Add.
SyncStartNoAdd(i, g) ==
    /\ sync.at = "starting"
    /\ i \in Missing
    /\ ~Alive(g)
    /\ gor' = [gor EXCEPT ![g] = [at |-> "collecting", dev |-> i,
                                  rec |-> sync.list[i], cancelled |-> FALSE]]
    /\ devices' = [devices EXCEPT ![i] = g]
    /\ UNCHANGED <<table, metrics, logs, phase, sync, wg, refresher, repro,
                   settled>>

\* Second loop, one turn: startDeviceLocked.  The new goroutine does not wait
\* for a cancelled one of the same device.
SyncStart(i, g) ==
    /\ sync.at = "starting"
    /\ i \in Missing
    /\ ~Alive(g)
    /\ gor' = [gor EXCEPT ![g] = [at |-> "collecting", dev |-> i,
                                  rec |-> sync.list[i], cancelled |-> FALSE]]
    /\ devices' = [devices EXCEPT ![i] = g]
    /\ wg' = wg + 1
    /\ UNCHANGED <<table, metrics, logs, phase, sync, refresher, repro,
                   settled>>

SyncEnd ==
    /\ sync.at = "starting"
    /\ Missing = {}
    /\ sync' = [at |-> "idle", list |-> [i \in Ids |-> None]]
    /\ settled' = settled \cup {i \in removed : sync.list[i] = None}
    /\ UNCHANGED <<table, metrics, logs, phase, devices, gor, wg, refresher,
                   repro>>

\* Mutant: no stopAllDevices.
SyncStopOnly ==
    /\ phase = "stopping"
    /\ sync.at = "idle"
    /\ sync' = [sync EXCEPT !.at = "ended"]
    /\ wg' = wg - 1
    /\ UNCHANGED <<table, metrics, logs, phase, devices, gor, refresher, repro,
                   settled>>

\* The loop sees Stop: its deferred calls are stopAllDevices, then wg.Done.
\* A select with a tick ready as well may first take the tick.
SyncStop ==
    /\ phase = "stopping"
    /\ sync.at = "idle"
    /\ sync' = [sync EXCEPT !.at = "ended"]
    /\ CancelAll(Ids)
    /\ wg' = wg - 1
    /\ UNCHANGED <<table, metrics, logs, phase, refresher, repro, settled>>

RefresherStop ==
    /\ phase = "stopping"
    /\ refresher
    /\ refresher' = FALSE
    /\ wg' = wg - 1
    /\ UNCHANGED <<table, metrics, logs, phase, sync, devices, gor, repro,
                   settled>>

-----------------------------------------------------------------------------
(* runDeviceLoop: it collects once, then on every tick, until cancelled.   *)

Step(g, from, to) ==
    /\ gor[g].at = from
    /\ gor' = [gor EXCEPT ![g].at = to]
    /\ UNCHANGED <<table, phase, sync, devices, wg, refresher, repro, settled>>

\* A tick; the select may prefer it to a Done that is ready as well.
Tick(g) == Step(g, "waiting", "collecting") /\ UNCHANGED <<metrics, logs>>

\* A collector got its answer and stores it, cancelled or not: InsertMetric
\* does not ask whether the device exists.
StoreMetric(g) ==
    /\ Step(g, "collecting", "logging")
    /\ metrics' = metrics \cup {gor[g].dev}
    /\ UNCHANGED logs

\* The log row that follows a stored metric.
StoreLog(g) ==
    /\ Step(g, "logging", "waiting")
    /\ logs' = logs \cup {gor[g].dev}
    /\ UNCHANGED metrics

\* A collector failed: logged, unless the failure is the cancellation.
CollectFails(g) ==
    /\ Step(g, "collecting", "waiting")
    /\ logs' = IF gor[g].cancelled THEN logs ELSE logs \cup {gor[g].dev}
    /\ UNCHANGED metrics

\* ctx.Done(): the goroutine returns and its deferred wg.Done runs.
Return(g) ==
    /\ gor[g].at = "waiting"
    /\ gor[g].cancelled
    /\ gor' = [gor EXCEPT ![g] = Unused]
    /\ wg' = wg - 1
    /\ UNCHANGED <<table, metrics, logs, phase, sync, devices, refresher,
                   repro, settled>>

-----------------------------------------------------------------------------
(* ReprovisionDevice, and Shutdown.                                        *)

\* The runner is looked up under devicesMu, its state is used after it.
ReproBegin(h, i) ==
    /\ phase # "down"
    /\ repro[h] = None
    /\ sync.at # "starting"
    /\ devices[i] # None
    /\ repro' = [repro EXCEPT ![h] = i]
    /\ UNCHANGED <<table, metrics, logs, phase, sync, devices, gor, wg,
                   refresher, settled>>

\* Mutant: the device is read after it has been given up.
ReproEndLate(h) ==
    /\ phase # "down"
    /\ repro[h] # None
    /\ repro' = [repro EXCEPT ![h] = None]
    /\ logs' \in {logs, logs \cup {repro'[h]}}
    /\ UNCHANGED <<table, metrics, phase, sync, devices, gor, wg, refresher,
                   settled>>

\* The outcome is logged for the device, which may be gone by now; nothing
\* is logged when the client has gone away.
ReproEnd(h) ==
    /\ phase # "down"
    /\ repro[h] # None
    /\ logs' \in {logs, logs \cup {repro[h]}}
    /\ repro' = [repro EXCEPT ![h] = None]
    /\ UNCHANGED <<table, metrics, phase, sync, devices, gor, wg, refresher,
                   settled>>

\* Shutdown closes Stop ...
ShutdownBegin ==
    /\ phase = "running"
    /\ phase' = "stopping"
    /\ UNCHANGED <<table, metrics, logs, sync, devices, gor, wg, refresher,
                   repro, settled>>

\* Mutant: Shutdown does not wait.
ShutdownNoWait ==
    /\ phase = "stopping"
    /\ phase' = "down"
    /\ UNCHANGED <<table, metrics, logs, sync, devices, gor, wg, refresher,
                   repro, settled>>

\* ... and waits for the group; then main closes the database and exits.
ShutdownEnd ==
    /\ phase = "stopping"
    /\ wg = 0
    /\ phase' = "down"
    /\ UNCHANGED <<table, metrics, logs, sync, devices, gor, wg, refresher,
                   repro, settled>>

-----------------------------------------------------------------------------

TableChange ==
    \E i \in Ids : AddDevice(i) \/ EditDevice(i) \/ RemoveDevice(i)

SyncStarts == \E i \in Ids, g \in Goroutines : SyncStart(i, g)
SyncLoop == SyncList \/ SyncCancel \/ SyncStarts \/ SyncEnd \/ SyncStop

Collector(g) ==
    Tick(g) \/ StoreMetric(g) \/ StoreLog(g) \/ CollectFails(g) \/ Return(g)

Reprovision == \E h \in Handlers : ReproEnd(h) \/ \E i \in Ids : ReproBegin(h, i)

Next ==
    \/ TableChange
    \/ SyncLoop
    \/ RefresherStop
    \/ \E g \in Goroutines : Collector(g)
    \/ Reprovision
    \/ ShutdownBegin
    \/ ShutdownEnd

Spec == Init /\ [][Next]_vars

\* The sync loop runs on.  A collector always comes back to its select, for
\* every collector runs under a time-out; there, and at the select of the
\* sync loop, Done (Stop) is taken in the end, since select picks among the
\* ready cases at random.  Nothing is assumed of handlers and of the signal.
Fairness ==
    /\ WF_vars(SyncLoop)
    /\ SF_vars(SyncStop)
    /\ WF_vars(RefresherStop)
    /\ WF_vars(ShutdownEnd)
    /\ \A g \in Goroutines : WF_vars(Collector(g)) /\ SF_vars(Return(g))

FairSpec == Spec /\ Fairness

-----------------------------------------------------------------------------
(* Properties.                                                             *)

\* Svc.devices and the goroutines agree: an entry refers to a goroutine of
\* that device that is alive and not cancelled, and every such goroutine is
\* in the map, so that a later sync or the shutdown can cancel it.
NoStrayCollector ==
    /\ \A i \in Ids : devices[i] # None =>
          Active(devices[i]) /\ gor[devices[i]].dev = i
    /\ \A g \in Goroutines : Active(g) => devices[gor[g].dev] = g

\* No device has two collectors that are both meant to run on.
OneActivePerDevice ==
    \A g, h \in Goroutines :
        Active(g) /\ Active(h) /\ gor[g].dev = gor[h].dev => g = h

\* The wait group counts the two loops and the collectors that are alive.
LoopCount == (IF sync.at = "ended" THEN 0 ELSE 1) + (IF refresher THEN 1 ELSE 0)
WaitGroupCounts == wg = LoopCount + Cardinality({g \in Goroutines : Alive(g)})

\* When Shutdown has returned and main closes the database, no collector and
\* no loop is left that could still use it.
QuietAfterShutdown ==
    phase = "down" => /\ \A g \in Goroutines : ~Alive(g)
                      /\ sync.at = "ended" /\ ~refresher

\* A device that was gone before the records of some completed sync were
\* listed is not collected any more, though the list is read before the lock.
DeletedStaysRetired == \A i \in settled : devices[i] = None

\* Shutdown ends once it has begun.
ShutdownEnds == phase = "stopping" ~> phase = "down"

\* When the table has stopped changing, the collectors end up in step with
\* it: one for each device, started with its current record, and no other.
InStep(i) ==
    /\ \A g \in Goroutines : gor[g].dev = i => Active(g) /\ gor[g].rec = rec[i]
    /\ (rec[i] # None) = (\E g \in Goroutines : gor[g].dev = i)
CatchesUp == [](phase = "running") => <>[](\A i \in Ids : InStep(i))

\* Nothing of a removed device stays: neither rows its removal left behind nor
\* rows a collector of it stored afterwards.
RemovalIsComplete == removed \cap (metrics \cup logs) = {}

=============================================================================
