------------------------------ MODULE Progress ------------------------------
(***************************************************************************)
(* What must happen in the end on the server: the device registry and the  *)
(* scheduler, each under the fairness its module states.  They meet in the *)
(* devices table, which either takes to be changed by others at any time;  *)
(* so their runs are kept apart, and a run of this module is a run of the  *)
(* one that is open.                                                       *)
(***************************************************************************)

CONSTANTS
    None,
    Names, ConfigNames, NoName, Requests, MaxId, MaxCrashes,  \* of DeviceRegistry
    DeviceIds, Versions, Goroutines, Handlers, MaxChanges     \* of DeviceScheduler

VARIABLES
    open,  \* the part that runs
    \* DeviceRegistry
    rowName, nextId, pendingDeletions, tombstones, process, boot, sweep, req,
    crashes, overtaken, kept, gone, bootTombs,
    \* DeviceScheduler
    rec, removed, changes, metrics, logs, service, sync, devices, gor, wg,
    refresher, repro, settled

registryVars == <<rowName, nextId, pendingDeletions, tombstones, process, boot,
                  sweep, req, crashes, overtaken, kept, gone, bootTombs>>
schedulerVars == <<rec, removed, changes, metrics, logs, service, sync, devices,
                   gor, wg, refresher, repro, settled>>

progressVars == <<open, registryVars, schedulerVars>>

Registry == INSTANCE DeviceRegistry WITH phase <- process, pending <- pendingDeletions
Scheduler == INSTANCE DeviceScheduler WITH phase <- service, Ids <- DeviceIds

Parts == {"registry", "scheduler"}

\* The initial state of the scheduler that varies is fixed while it is not open.
Init ==
    /\ open \in Parts
    /\ Registry!Init /\ Scheduler!Init
    /\ open # "scheduler" => rec = [i \in DeviceIds |-> None]

Next ==
    /\ \/ open = "registry"  /\ Registry!Next  /\ UNCHANGED schedulerVars
       \/ open = "scheduler" /\ Scheduler!Next /\ UNCHANGED registryVars
    /\ UNCHANGED open

\* The fairness each part states, while it is open: nothing is assumed of the other.
RegistryFairness ==
    /\ WF_registryVars(open = "registry" /\ Registry!Start)
    /\ WF_registryVars(open = "registry" /\ Registry!Boot)
    /\ WF_registryVars(open = "registry" /\ Registry!Sweeper)
    /\ \A i \in Registry!Ids :
        /\ WF_registryVars(open = "registry" /\ Registry!GraceLapses(i))
        /\ SF_registryVars(open = "registry" /\ Registry!SweepDelete(i))

SchedulerFairness ==
    /\ WF_schedulerVars(open = "scheduler" /\ Scheduler!SyncLoop)
    /\ SF_schedulerVars(open = "scheduler" /\ Scheduler!SyncStop)
    /\ WF_schedulerVars(open = "scheduler" /\ Scheduler!RefresherStop)
    /\ WF_schedulerVars(open = "scheduler" /\ Scheduler!ShutdownEnd)
    /\ \A g \in Goroutines :
        /\ WF_schedulerVars(open = "scheduler" /\ Scheduler!Collector(g))
        /\ SF_schedulerVars(open = "scheduler" /\ Scheduler!Return(g))

FairSpec == Init /\ [][Next]_progressVars /\ RegistryFairness /\ SchedulerFairness

-----------------------------------------------------------------------------
(* Properties *)

\* A deletion that was scheduled ends, in the removal of the device or in its
\* restoration, though the process may stop at any point and the sweeper fail.
ScheduledDeletionEnds == Registry!ScheduledDeletionEnds

\* Once it has begun the shutdown of the scheduler ends: nothing it waits for waits
\* for it.
ShutdownEnds == Scheduler!ShutdownEnds

\* When the table of devices has stopped changing, the collectors end up in step
\* with it.
CatchesUp == open = "scheduler" => Scheduler!CatchesUp
=============================================================================
