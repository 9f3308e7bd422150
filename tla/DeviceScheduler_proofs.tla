----------------------- MODULE DeviceScheduler_proofs -----------------------
(***************************************************************************)
(* Proofs about DeviceScheduler for every set of devices, record contents, *)
(* goroutines and handlers.  SchedulerInv is inductive; the safety         *)
(* properties follow from it.                                              *)
(***************************************************************************)
EXTENDS DeviceScheduler, FiniteSetTheorems, TLAPS

\* A live collector works for a device, with a record that was in the table.
LiveHasDevice ==
    \A g \in Goroutines : Alive(g) => gor[g].dev \in Ids /\ gor[g].rec \in Versions

\* After the first loop of syncDevices every entry left agrees with the list,
\* and the second loop adds only entries that do.
StartingAgrees ==
    sync.at = "starting" =>
        \A i \in Ids : devices[i] # None => sync.list[i] = gor[devices[i]].rec

\* Identifiers do not come back, so neither a later list nor a later state
\* of the table shows a settled one.
SettledIsGone ==
    /\ settled \subseteq removed
    /\ \A i \in removed : rec[i] = None
    /\ sync.at \in {"listed", "starting"} => \A i \in settled : sync.list[i] = None

\* stopAllDevices has run when the sync loop has ended.
EndedMapEmpty ==
    sync.at = "ended" => phase # "running" /\ \A i \in Ids : devices[i] = None

SchedulerInv ==
    /\ TypeOK
    /\ LiveHasDevice
    /\ NoStrayCollector
    /\ StartingAgrees
    /\ SettledIsGone
    /\ DeletedStaysRetired
    /\ EndedMapEmpty

-----------------------------------------------------------------------------

\* The initial state satisfies the invariant.
LEMMA SchedulerInit == Init => SchedulerInv
BY NoneAssumption, BoundAssumption
DEF Init, SchedulerInv, TypeOK, LiveHasDevice, NoStrayCollector, Alive, Active,
    StartingAgrees, SettledIsGone, DeletedStaysRetired, EndedMapEmpty, Unused,
    Record

\* CancelAll keeps the map and the goroutines in agreement.
LEMMA CancelAllAgrees ==
    ASSUME SchedulerInv, NEW D \in SUBSET Ids, CancelAll(D)
    PROVE  /\ devices' \in [Ids -> Goroutines \cup {None}]
           /\ gor' \in [Goroutines ->
                  [at : {"unused", "collecting", "logging", "waiting"},
                   dev : Ids \cup {None}, rec : Record, cancelled : BOOLEAN]]
           /\ \A g \in Goroutines : /\ gor'[g].at = gor[g].at
                                    /\ gor'[g].dev = gor[g].dev
                                    /\ gor'[g].rec = gor[g].rec
           /\ \A i \in Ids : devices'[i] = IF i \in D THEN None ELSE devices[i]
           /\ NoStrayCollector'
<1>1. TypeOK /\ NoStrayCollector /\ LiveHasDevice
  BY DEF SchedulerInv
<1>2. ASSUME NEW g \in Goroutines
      PROVE  /\ gor'[g].at = gor[g].at
             /\ gor'[g].dev = gor[g].dev
             /\ gor'[g].rec = gor[g].rec
             /\ gor'[g].cancelled =
                   (gor[g].cancelled \/ \E i \in D : devices[i] = g)
             /\ gor'[g] \in
                  [at : {"unused", "collecting", "logging", "waiting"},
                   dev : Ids \cup {None}, rec : Record, cancelled : BOOLEAN]
  <2>1. CASE \E i \in D : devices[i] = g
    <3>1. gor'[g] = [gor[g] EXCEPT !.cancelled = TRUE]
      BY <2>1 DEF CancelAll
    <3>2. gor[g] \in [at : {"unused", "collecting", "logging", "waiting"},
                     dev : Ids \cup {None}, rec : Record, cancelled : BOOLEAN]
      BY <1>1 DEF TypeOK
    <3>3. QED
      BY <2>1, <3>1, <3>2
  <2>2. CASE ~\E i \in D : devices[i] = g
    BY <2>2, <1>1 DEF CancelAll, TypeOK
  <2>3. QED
    BY <2>1, <2>2
<1>3. \A i \in Ids : devices'[i] = IF i \in D THEN None ELSE devices[i]
  BY DEF CancelAll
<1>4. devices' \in [Ids -> Goroutines \cup {None}]
  BY <1>1 DEF CancelAll, TypeOK
<1>5. gor' \in [Goroutines ->
                  [at : {"unused", "collecting", "logging", "waiting"},
                   dev : Ids \cup {None}, rec : Record, cancelled : BOOLEAN]]
  <2>1. gor' = [g \in Goroutines |-> gor'[g]]
    BY DEF CancelAll
  <2>2. QED
    BY <1>2, <2>1
<1>6. NoStrayCollector'
  <2>1. ASSUME NEW i \in Ids, devices'[i] # None
        PROVE  Active(devices[i])' /\ gor'[devices'[i]].dev = i
    <3>1. i \notin D /\ devices'[i] = devices[i] /\ devices[i] \in Goroutines
      BY <1>1, <1>3, <2>1 DEF TypeOK
    <3>2. \A j \in D : devices[j] # devices[i]
      BY <1>1, <2>1, <3>1 DEF NoStrayCollector
    <3>3. QED
      BY <1>1, <1>2, <2>1, <3>1, <3>2 DEF NoStrayCollector, Active, Alive
  <2>2. ASSUME NEW g \in Goroutines, Active(g)' PROVE devices'[gor'[g].dev] = g
    BY <1>1, <1>2, <1>3, <2>2
    DEF NoStrayCollector, LiveHasDevice, Active, Alive
  <2>3. QED
    BY <2>1, <2>2 DEF NoStrayCollector
<1>7. QED
  BY <1>2, <1>3, <1>4, <1>5, <1>6

-----------------------------------------------------------------------------

\* Changes of the table preserve the invariant.
LEMMA TablePreserves ==
    ASSUME SchedulerInv, TableChange PROVE SchedulerInv'
<1> USE NoneAssumption, BoundAssumption
    DEF SchedulerInv, TypeOK, LiveHasDevice, NoStrayCollector, Alive, Active,
        StartingAgrees, SettledIsGone, DeletedStaysRetired, EndedMapEmpty,
        Record, Change
<1>1. ASSUME NEW i \in Ids, AddDevice(i) PROVE SchedulerInv'
  BY <1>1 DEF AddDevice
<1>2. ASSUME NEW i \in Ids, EditDevice(i) PROVE SchedulerInv'
  BY <1>2 DEF EditDevice
<1>3. ASSUME NEW i \in Ids, RemoveDevice(i) PROVE SchedulerInv'
  BY <1>3 DEF RemoveDevice
<1>4. QED
  BY <1>1, <1>2, <1>3 DEF TableChange

\* Steps of the sync loop preserve the invariant.
LEMMA SyncPreserves ==
    ASSUME SchedulerInv, SyncLoop PROVE SchedulerInv'
<1>1. CASE SyncList
  BY <1>1 DEF SyncList, table, SchedulerInv, TypeOK, LiveHasDevice,
     NoStrayCollector, Alive, Active, StartingAgrees, SettledIsGone,
     DeletedStaysRetired, EndedMapEmpty
<1>2. CASE SyncCancel
  <2>1. Outdated \in SUBSET Ids /\ CancelAll(Outdated)
    BY <1>2 DEF SyncCancel, Outdated
  <2>2. /\ sync.at = "listed" /\ sync'.at = "starting" /\ sync'.list = sync.list
        /\ sync' \in [at : {"idle", "listed", "starting", "ended"},
                     list : [Ids -> Record]]
    BY <1>2 DEF SyncCancel, SchedulerInv, TypeOK
  <2>3. TypeOK' /\ LiveHasDevice' /\ NoStrayCollector'
    BY <1>2, <2>1, <2>2, CancelAllAgrees
    DEF SyncCancel, table, SchedulerInv, TypeOK, LiveHasDevice, Alive
  <2>4. ASSUME NEW i \in Ids, devices'[i] # None
        PROVE  sync'.list[i] = gor'[devices'[i]].rec
    <3>1. i \notin Outdated /\ devices'[i] = devices[i] /\ devices[i] \in Goroutines
      BY <2>1, <2>4, CancelAllAgrees DEF SchedulerInv, TypeOK
    <3>2. sync.list[i] = gor[devices[i]].rec
      BY <2>4, <3>1 DEF Outdated
    <3>3. QED
      BY <2>1, <2>2, <3>1, <3>2, CancelAllAgrees
  <2>5. DeletedStaysRetired'
    BY <1>2, <2>1, CancelAllAgrees
    DEF SyncCancel, SchedulerInv, DeletedStaysRetired, TypeOK
  <2>6. SettledIsGone' /\ EndedMapEmpty'
    BY <1>2, <2>2 DEF SyncCancel, table, SchedulerInv, SettledIsGone, EndedMapEmpty
  <2>7. QED
    BY <2>3, <2>4, <2>5, <2>6 DEF SchedulerInv, StartingAgrees
<1>3. ASSUME NEW i \in Ids, NEW g \in Goroutines, SyncStart(i, g)
      PROVE  SchedulerInv'
  <2> USE NoneAssumption DEF SchedulerInv, Record
  <2>1. /\ sync.at = "starting" /\ sync.list[i] \in Versions
        /\ devices[i] = None /\ ~Alive(g)
    BY <1>3 DEF SyncStart, Missing, TypeOK
  <2>2. gor' = [gor EXCEPT ![g] = [at |-> "collecting", dev |-> i,
                                   rec |-> sync.list[i], cancelled |-> FALSE]]
    BY <1>3 DEF SyncStart
  <2>3. TypeOK' /\ LiveHasDevice'
    BY <1>3, <2>1, <2>2 DEF SyncStart, table, TypeOK, LiveHasDevice, Alive
  <2>4. NoStrayCollector'
    BY <1>3, <2>1, <2>2 DEF SyncStart, TypeOK, NoStrayCollector, LiveHasDevice,
       Alive, Active
  <2>5. StartingAgrees'
    BY <1>3, <2>1, <2>2 DEF SyncStart, TypeOK, StartingAgrees, NoStrayCollector,
       Alive, Active
  <2>6. SettledIsGone' /\ DeletedStaysRetired' /\ EndedMapEmpty'
    BY <1>3, <2>1 DEF SyncStart, table, TypeOK, SettledIsGone,
       DeletedStaysRetired, EndedMapEmpty
  <2>7. QED
    BY <2>3, <2>4, <2>5, <2>6
<1>4. CASE SyncEnd
  <2> USE NoneAssumption DEF SchedulerInv, Record
  <2>1. /\ sync'.at = "idle" /\ sync.at = "starting" /\ Missing = {}
        /\ UNCHANGED <<table, metrics, logs, phase, devices, gor, wg,
                       refresher, repro>>
        /\ settled' = settled \cup {i \in removed : sync.list[i] = None}
    BY <1>4 DEF SyncEnd
  <2>2. TypeOK' /\ LiveHasDevice' /\ NoStrayCollector'
    BY <1>4, <2>1 DEF SyncEnd, table, TypeOK, LiveHasDevice, NoStrayCollector,
       Alive, Active
  <2>3. ASSUME NEW i \in Ids, sync.list[i] = None PROVE devices[i] = None
    <3>1. ASSUME devices[i] # None PROVE FALSE
      BY <2>1, <2>3, <3>1 DEF StartingAgrees, NoStrayCollector, LiveHasDevice,
         Active, TypeOK
    <3>2. QED
      BY <3>1
  <2>4. DeletedStaysRetired'
    BY <2>1, <2>3 DEF DeletedStaysRetired, TypeOK
  <2>5. SettledIsGone' /\ StartingAgrees' /\ EndedMapEmpty'
    BY <2>1 DEF table, SettledIsGone, StartingAgrees, EndedMapEmpty
  <2>6. QED
    BY <2>2, <2>4, <2>5
<1>5. CASE SyncStop
  <2>1. CancelAll(Ids) /\ sync'.at = "ended" /\ phase' = "stopping"
    BY <1>5 DEF SyncStop, SchedulerInv, TypeOK
  <2>2. TypeOK' /\ LiveHasDevice' /\ NoStrayCollector'
    BY <1>5, <2>1, CancelAllAgrees
    DEF SyncStop, table, SchedulerInv, TypeOK, LiveHasDevice, Alive
  <2>3. \A i \in Ids : devices'[i] = None
    BY <2>1, CancelAllAgrees
  <2>4. StartingAgrees' /\ SettledIsGone' /\ DeletedStaysRetired' /\ EndedMapEmpty'
    BY <1>5, <2>1, <2>3 DEF SyncStop, table, SchedulerInv, TypeOK,
       StartingAgrees, SettledIsGone, DeletedStaysRetired, EndedMapEmpty
  <2>5. QED
    BY <2>2, <2>4 DEF SchedulerInv
<1>6. QED
  BY <1>1, <1>2, <1>3, <1>4, <1>5 DEF SyncLoop, SyncStarts

\* Steps of a collector preserve the invariant: a live one stays live but for
\* Return, and Return is taken by a cancelled one only.
LEMMA CollectorPreserves ==
    ASSUME SchedulerInv, NEW g \in Goroutines, Collector(g) PROVE SchedulerInv'
<1> USE NoneAssumption
    DEF SchedulerInv, TypeOK, LiveHasDevice, NoStrayCollector, Alive, Active,
        StartingAgrees, SettledIsGone, DeletedStaysRetired, EndedMapEmpty,
        Record, table
<1>1. ASSUME NEW from \in {"collecting", "logging", "waiting"},
             NEW to \in {"collecting", "logging", "waiting"},
             Step(g, from, to), metrics' \subseteq Ids, logs' \subseteq Ids
      PROVE  SchedulerInv'
  BY <1>1 DEF Step
<1>2. gor[g].at \in {"collecting", "logging", "waiting"} => gor[g].dev \in Ids
  OBVIOUS
<1>3. CASE Tick(g)
  BY ONLY <1>1, <1>3, SchedulerInv DEF Tick, SchedulerInv, TypeOK
<1>4. CASE StoreMetric(g)
  BY ONLY <1>1, <1>2, <1>4, SchedulerInv DEF StoreMetric, Step, SchedulerInv, TypeOK
<1>5. CASE StoreLog(g)
  BY ONLY <1>1, <1>2, <1>5, SchedulerInv DEF StoreLog, Step, SchedulerInv, TypeOK
<1>6. CASE CollectFails(g)
  BY ONLY <1>1, <1>2, <1>6, SchedulerInv DEF CollectFails, Step, SchedulerInv, TypeOK
<1>7. CASE Return(g)
  BY <1>7 DEF Return, Unused
<1>8. QED
  BY <1>3, <1>4, <1>5, <1>6, <1>7 DEF Collector

\* The remaining steps preserve the invariant.
LEMMA OthersPreserve ==
    ASSUME SchedulerInv,
           \/ RefresherStop \/ Reprovision \/ ShutdownBegin \/ ShutdownEnd
           \/ UNCHANGED vars
    PROVE  SchedulerInv'
<1> USE DEF SchedulerInv, TypeOK, LiveHasDevice, NoStrayCollector, Alive, Active,
        StartingAgrees, SettledIsGone, DeletedStaysRetired, EndedMapEmpty, table
<1>1. CASE RefresherStop
  <2>1. wg' \in Int
    BY <1>1 DEF RefresherStop
  <2>0. refresher' \in BOOLEAN
    BY <1>1, Zenon DEF RefresherStop
  <2>2. UNCHANGED <<rec, removed, changes, metrics, logs, phase, sync, devices,
                    gor, repro, settled>>
    BY <1>1 DEF RefresherStop
  <2>3. QED
    BY <2>0, <2>1, <2>2
<1>2. ASSUME NEW h \in Handlers, NEW i \in Ids, ReproBegin(h, i)
      PROVE  SchedulerInv'
  BY <1>2 DEF ReproBegin
<1>3. ASSUME NEW h \in Handlers, ReproEnd(h) PROVE SchedulerInv'
  BY <1>3 DEF ReproEnd
<1>4. CASE ShutdownBegin
  BY <1>4 DEF ShutdownBegin
<1>5. CASE ShutdownEnd
  BY <1>5 DEF ShutdownEnd
<1>6. CASE UNCHANGED vars
  BY <1>6 DEF vars
<1>7. QED
  BY <1>1, <1>2, <1>3, <1>4, <1>5, <1>6 DEF Reprovision

-----------------------------------------------------------------------------
(* The wait group.  AliveSet changes by at most one goroutine in a step.   *)

AliveSet == {g \in Goroutines : Alive(g)}

LEMMA AliveIsFinite == IsFiniteSet(AliveSet) /\ Cardinality(AliveSet) \in Nat
BY BoundAssumption, FS_Subset, FS_CardinalityType DEF AliveSet

\* The count is right initially.
LEMMA CountInit == Init => WaitGroupCounts
<1> SUFFICES ASSUME Init PROVE WaitGroupCounts
  OBVIOUS
<1>1. AliveSet = {}
  BY DEF Init, AliveSet, Alive, Unused
<1>2. Cardinality(AliveSet) = 0
  BY <1>1, FS_EmptySet
<1>3. LoopCount = 2 /\ wg = 2
  BY DEF Init, LoopCount
<1>4. QED
  BY <1>2, <1>3 DEF WaitGroupCounts, AliveSet

\* A step that neither starts nor ends a goroutine or a loop keeps the count.
LEMMA CountKept ==
    ASSUME WaitGroupCounts, UNCHANGED <<wg, refresher>>, AliveSet' = AliveSet,
           (sync'.at = "ended") = (sync.at = "ended")
    PROVE  WaitGroupCounts'
BY DEF WaitGroupCounts, LoopCount, AliveSet

\* Every step keeps the count.
LEMMA CountStep ==
    ASSUME SchedulerInv, WaitGroupCounts, [Next]_vars PROVE WaitGroupCounts'
<1>0. TypeOK
  BY DEF SchedulerInv
<1>1. CASE TableChange \/ Reprovision \/ ShutdownBegin \/ ShutdownEnd \/ UNCHANGED vars
  <2>1. UNCHANGED <<wg, refresher, sync, gor>>
    BY <1>1 DEF TableChange, AddDevice, EditDevice, RemoveDevice, Change,
       Reprovision, ReproBegin, ReproEnd, ShutdownBegin, ShutdownEnd, vars
  <2>2. QED
    BY <2>1, CountKept DEF AliveSet, Alive
<1>2. CASE SyncList \/ SyncEnd
  <2>1. UNCHANGED <<wg, refresher, gor>> /\ sync.at # "ended" /\ sync'.at # "ended"
    BY <1>2 DEF SyncList, SyncEnd
  <2>2. QED
    BY <2>1, CountKept DEF AliveSet, Alive
<1>3. CASE SyncCancel
  <2>1. Outdated \in SUBSET Ids /\ CancelAll(Outdated)
    BY <1>3 DEF SyncCancel, Outdated
  <2>2. AliveSet' = AliveSet
    BY <2>1, CancelAllAgrees DEF AliveSet, Alive
  <2>3. UNCHANGED <<wg, refresher>> /\ sync.at # "ended" /\ sync'.at # "ended"
    BY <1>0, <1>3 DEF SyncCancel, TypeOK
  <2>4. QED
    BY <2>2, <2>3, CountKept
<1>4. CASE SyncStop
  <2>1. AliveSet' = AliveSet
    BY <1>4, CancelAllAgrees DEF SyncStop, AliveSet, Alive
  <2>2. /\ sync.at = "idle" /\ sync'.at = "ended" /\ refresher' = refresher
        /\ wg' = wg - 1
    BY <1>0, <1>4 DEF SyncStop, TypeOK
  <2>3. LoopCount' = LoopCount - 1 /\ LoopCount \in Int
    BY <2>2 DEF LoopCount
  <2>4. wg = LoopCount + Cardinality(AliveSet)
    BY DEF WaitGroupCounts, AliveSet
  <2>5. wg' = LoopCount' + Cardinality(AliveSet')
    BY <1>0, <2>1, <2>2, <2>3, <2>4, AliveIsFinite DEF TypeOK
  <2>6. QED
    BY <2>5 DEF WaitGroupCounts, AliveSet
<1>5. CASE RefresherStop
  <2>1. AliveSet' = AliveSet
    BY <1>5 DEF RefresherStop, AliveSet, Alive
  <2>2. refresher /\ ~refresher' /\ sync' = sync /\ wg' = wg - 1
    BY <1>5 DEF RefresherStop
  <2>3. LoopCount' = LoopCount - 1 /\ LoopCount \in Int
    BY <2>2 DEF LoopCount
  <2>4. wg = LoopCount + Cardinality(AliveSet)
    BY DEF WaitGroupCounts, AliveSet
  <2>5. wg' = LoopCount' + Cardinality(AliveSet')
    BY <1>0, <2>1, <2>2, <2>3, <2>4, AliveIsFinite DEF TypeOK
  <2>6. QED
    BY <2>5 DEF WaitGroupCounts, AliveSet
<1>6. ASSUME NEW i \in Ids, NEW g \in Goroutines, SyncStart(i, g)
      PROVE  WaitGroupCounts'
  <2>1. AliveSet' = AliveSet \cup {g} /\ g \notin AliveSet
    BY <1>0, <1>6 DEF SyncStart, AliveSet, Alive, TypeOK
  <2>2. Cardinality(AliveSet') = Cardinality(AliveSet) + 1
    BY <2>1, AliveIsFinite, FS_AddElement
  <2>3. UNCHANGED <<sync, refresher>> /\ wg' = wg + 1 /\ LoopCount \in Int
    BY <1>6 DEF SyncStart, LoopCount
  <2>4. QED
    BY <1>0, <2>2, <2>3, AliveIsFinite
    DEF WaitGroupCounts, LoopCount, AliveSet, TypeOK
<1>7. ASSUME NEW g \in Goroutines, Return(g) PROVE WaitGroupCounts'
  <2>1. AliveSet' = AliveSet \ {g} /\ g \in AliveSet
    BY <1>0, <1>7 DEF Return, AliveSet, Alive, Unused, TypeOK
  <2>2. Cardinality(AliveSet') = Cardinality(AliveSet) - 1
    BY <2>1, AliveIsFinite, FS_RemoveElement
  <2>3. UNCHANGED <<sync, refresher>> /\ wg' = wg - 1 /\ LoopCount \in Int
    BY <1>7 DEF Return, LoopCount
  <2>4. QED
    BY <1>0, <2>2, <2>3, AliveIsFinite
    DEF WaitGroupCounts, LoopCount, AliveSet, TypeOK
<1>8. ASSUME NEW g \in Goroutines,
             Tick(g) \/ StoreMetric(g) \/ StoreLog(g) \/ CollectFails(g)
      PROVE  WaitGroupCounts'
  <2>1. \E from, to \in {"collecting", "logging", "waiting"} : Step(g, from, to)
    BY <1>8 DEF Tick, StoreMetric, StoreLog, CollectFails
  <2>2. AliveSet' = AliveSet /\ UNCHANGED <<sync, wg, refresher>>
    BY <1>0, <2>1 DEF Step, AliveSet, Alive, TypeOK
  <2>3. QED
    BY <2>2, CountKept
<1>9. QED
  BY <1>1, <1>2, <1>3, <1>4, <1>5, <1>6, <1>7, <1>8
  DEF Next, SyncLoop, SyncStarts, Collector

\* When Shutdown has returned the count was zero, and nothing runs again.
LEMMA DownIsQuiet ==
    ASSUME SchedulerInv, WaitGroupCounts, QuietAfterShutdown, [Next]_vars
    PROVE  QuietAfterShutdown'
<1>0. TypeOK
  BY DEF SchedulerInv
<1>1. CASE phase = "down"
  <2>1. /\ \A g \in Goroutines : gor[g].at = "unused"
        /\ sync.at = "ended" /\ ~refresher
    BY <1>1 DEF QuietAfterShutdown, Alive
  <2>2. UNCHANGED <<gor, sync, refresher>>
    BY <1>1, <2>1 DEF Next, vars, TableChange, AddDevice, EditDevice,
       RemoveDevice, Change, SyncLoop, SyncList, SyncCancel, SyncStarts,
       SyncStart, SyncEnd, SyncStop, RefresherStop, Collector, Tick,
       StoreMetric, StoreLog, CollectFails, Return, Step, Reprovision,
       ReproBegin, ReproEnd, ShutdownBegin, ShutdownEnd
  <2>3. QED
    BY <2>1, <2>2 DEF QuietAfterShutdown, Alive
<1>2. CASE phase # "down" /\ phase' = "down"
  <2>1. ShutdownEnd
    BY <1>2 DEF Next, vars, TableChange, AddDevice, EditDevice,
       RemoveDevice, Change, SyncLoop, SyncList, SyncCancel, SyncStarts,
       SyncStart, SyncEnd, SyncStop, RefresherStop, Collector, Tick,
       StoreMetric, StoreLog, CollectFails, Return, Step, Reprovision,
       ReproBegin, ReproEnd, ShutdownBegin
  <2>2. wg = 0 /\ UNCHANGED <<gor, sync, refresher>>
    BY <2>1 DEF ShutdownEnd
  <2>3. LoopCount = 0 /\ Cardinality(AliveSet) = 0
    BY <2>2, AliveIsFinite DEF WaitGroupCounts, LoopCount, AliveSet
  <2>4. AliveSet = {}
    BY <2>3, AliveIsFinite, FS_EmptySet
  <2>5. sync.at = "ended" /\ ~refresher
    BY <2>3 DEF LoopCount
  <2>6. QED
    BY <2>2, <2>4, <2>5 DEF QuietAfterShutdown, AliveSet, Alive
<1>3. CASE phase' # "down"
  BY <1>3 DEF QuietAfterShutdown
<1>4. QED
  BY <1>1, <1>2, <1>3

-----------------------------------------------------------------------------

\* The invariant holds throughout.
THEOREM SchedulerInvariant == Spec => []SchedulerInv
<1>1. SchedulerInv /\ [Next]_vars => SchedulerInv'
  BY TablePreserves, SyncPreserves, CollectorPreserves, OthersPreserve DEF Next
<1>2. QED
  BY SchedulerInit, <1>1, PTL DEF Spec

\* Shutdown waits for exactly the loops and collectors that are alive, and
\* when it has returned none of them is left to use the closed database.
THEOREM ShutdownIsClean == Spec => [](WaitGroupCounts /\ QuietAfterShutdown)
<1> DEFINE Clean == WaitGroupCounts /\ QuietAfterShutdown
<1>1. Init => Clean
  BY CountInit DEF Init, QuietAfterShutdown
<1>2. SchedulerInv /\ Clean /\ [Next]_vars => Clean'
  BY CountStep, DownIsQuiet
<1> HIDE DEF Clean
<1>3. Spec => []Clean
  BY <1>1, <1>2, SchedulerInvariant, PTL DEF Spec
<1>4. QED
  BY <1>3 DEF Clean

\* The wait group that Shutdown waits for never counts a loop or collector
\* that has ended, nor misses one that runs.
THEOREM WaitGroupIsExact == Spec => []WaitGroupCounts
<1>1. QED
  BY ShutdownIsClean, PTL

\* The variables of the scheduler keep their types.
THEOREM SchedulerTypeCorrect == Spec => []TypeOK
<1>1. SchedulerInv => TypeOK
  BY DEF SchedulerInv
<1>2. QED
  BY <1>1, SchedulerInvariant, PTL

\* Svc.devices and the goroutines always agree.
THEOREM CollectorsAreTracked == Spec => []NoStrayCollector
<1>1. SchedulerInv => NoStrayCollector
  BY DEF SchedulerInv
<1>2. QED
  BY <1>1, SchedulerInvariant, PTL

\* At most one collector of a device is not cancelled.
THEOREM OneCollectorPerDevice == Spec => []OneActivePerDevice
<1>1. SchedulerInv => OneActivePerDevice
  BY DEF SchedulerInv, NoStrayCollector, OneActivePerDevice
<1>2. QED
  BY <1>1, SchedulerInvariant, PTL

\* A device seen gone by a completed sync is never collected again.
THEOREM DeletedDevicesAreRetired == Spec => []DeletedStaysRetired
<1>1. SchedulerInv => DeletedStaysRetired
  BY DEF SchedulerInv
<1>2. QED
  BY <1>1, SchedulerInvariant, PTL

=============================================================================
