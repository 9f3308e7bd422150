------------------------ MODULE DeviceRegistry_proofs ------------------------
(***************************************************************************)
(* Proofs about DeviceRegistry for every set of names, configured names    *)
(* and handlers and every bound.  RegistryInv is inductive; the safety     *)
(* properties and the refinement of DeviceLifecycle follow from it.        *)
(***************************************************************************)
EXTENDS DeviceRegistry, TLAPS

\* A handler past its first statement holds the identifier or the name that
\* the statement found or was given.
RequestsHoldOperands ==
    \A r \in Requests :
        /\ req[r].at \in {"clear", "insert", "update"} => req[r].name \in Names
        /\ req[r].at \in {"update", "drop", "pending", "schedule", "cancel"}
              => req[r].id \in Ids

BootHoldsName == boot.at # "next" => boot.name \in Names

\* AUTOINCREMENT: the next identifier is above every row.
RowsBelowNext == \A i \in Ids : Exists(i) => i < nextId

\* Nothing is scheduled for an identifier that was never handed out.
UnbornUnscheduled ==
    /\ \A i \in Ids : i >= nextId => pending[i] = "none"
    /\ \A r \in Requests :
          req[r].at \in {"update", "drop", "pending", "schedule", "cancel"}
             => req[r].id < nextId

\* What the sweeper holds had a row when it read it, so its identifier is used;
\* while the device exists, its schedule has come or a handler changed it since.
SweepIsDue ==
    \A i \in sweep :
        /\ i < nextId
        /\ Exists(i) => pending[i] \in {"near", "due"} \/ i \in overtaken

\* A restore that found the sweeper without the device leaves nothing behind
\* that could bring the sweeper back to it.
SafeIsUnscheduled ==
    \A i \in Ids : kept[i] = "safe" => pending[i] = "none" /\ i \notin sweep

\* During the start-up pass the tombstones it found stay, and the name the
\* pass is inserting is none of them.
BootTombsKept ==
    phase = "boot" => /\ bootTombs \subseteq tombstones
                      /\ boot.at # "next" => boot.name \notin bootTombs

RegistryInv ==
    /\ TypeOK
    /\ RequestsHoldOperands
    /\ BootHoldsName
    /\ RowsBelowNext
    /\ UnbornUnscheduled
    /\ SweepIsDue
    /\ SafeIsUnscheduled
    /\ BootTombsKept

-----------------------------------------------------------------------------

\* The initial state satisfies the invariant.
LEMMA RegistryInit == Init => RegistryInv
BY NamesAssumption, BoundAssumption
DEF Init, RegistryInv, TypeOK, RequestsHoldOperands, BootHoldsName, Exists,
    RowsBelowNext, UnbornUnscheduled, SweepIsDue, SafeIsUnscheduled, BootTombsKept, Ids, Idle,
    Steps, NotBooting

\* Every step of a handler preserves the invariant.
LEMMA HandlerPreserves ==
    ASSUME RegistryInv, NEW r \in Requests, Handler(r)
    PROVE  RegistryInv'
<1> USE NamesAssumption, BoundAssumption
    DEF RegistryInv, TypeOK, RequestsHoldOperands, BootHoldsName,
        RowsBelowNext, UnbornUnscheduled, SweepIsDue, SafeIsUnscheduled, BootTombsKept,
        Exists, Ids, Steps, Idle, Serving, Goto, Finish, Replan, dbVars, histVars
<1>1. ASSUME NEW n \in Names, CreateExists(r, n) PROVE RegistryInv'
  BY <1>1 DEF CreateExists
<1>2. ASSUME NEW n \in Names, ImportSelect(r, n) PROVE RegistryInv'
  <2>1. CASE \E i \in Ids : rowName[i] = n /\ Goto(r, "update", i, n)
    BY <1>2, <2>1 DEF ImportSelect
  <2>2. CASE Goto(r, "clear", 0, n)
    BY <1>2, <2>2 DEF ImportSelect
  <2>3. QED
    BY <1>2, <2>1, <2>2 DEF ImportSelect
<1>3. CASE ImportUpdate(r)
  BY <1>3 DEF ImportUpdate, UpdateDevice
<1>4. CASE CreateClear(r)
  BY <1>4 DEF CreateClear
<1>5. CASE CreateInsert(r)
  BY <1>5 DEF CreateInsert, Insert
<1>6. ASSUME NEW i \in Ids, NEW n \in Names, Put(r, i, n) PROVE RegistryInv'
  BY <1>6 DEF Put, UpdateDevice
<1>7. ASSUME NEW i \in Ids, NEW immediate \in BOOLEAN, DeleteGet(r, i, immediate)
      PROVE RegistryInv'
  BY <1>7 DEF DeleteGet
<1>8. CASE DeleteNow(r)
  BY <1>8 DEF DeleteNow, DeleteDevice
<1>9. CASE DeleteCheckPending(r)
  <2>1. CASE Goto(r, "schedule", req[r].id, NoName)
    BY <1>9, <2>1 DEF DeleteCheckPending
  <2>2. CASE Finish(r)
    BY <1>9, <2>2 DEF DeleteCheckPending
  <2>3. QED
    BY <1>9, <2>1, <2>2 DEF DeleteCheckPending
<1>10. CASE DeleteSchedule(r)
  <2>1. req[r].id \in Ids
    BY <1>10 DEF DeleteSchedule
  <2>2. TypeOK'
    BY <1>10, <2>1 DEF DeleteSchedule
  <2>3. SweepIsDue'
    BY <1>10, <2>1 DEF DeleteSchedule
  <2>4. (RequestsHoldOperands /\ BootHoldsName /\ RowsBelowNext
         /\ UnbornUnscheduled /\ SafeIsUnscheduled /\ BootTombsKept)'
    BY <1>10, <2>1 DEF DeleteSchedule
  <2>5. QED
    BY <2>2, <2>3, <2>4
<1>11. ASSUME NEW i \in Ids, RestoreGet(r, i) PROVE RegistryInv'
  BY <1>11 DEF RestoreGet
<1>12. CASE RestoreCancel(r)
  BY <1>12 DEF RestoreCancel
<1>13. CASE RequestFails(r)
  BY <1>13 DEF RequestFails
<1>14. QED
  BY <1>1, <1>2, <1>3, <1>4, <1>5, <1>6, <1>7, <1>8, <1>9, <1>10, <1>11,
     <1>12, <1>13 DEF Handler

\* Every step of the sweeper, the clock and the process preserves it.
LEMMA BackgroundPreserves ==
    ASSUME RegistryInv,
           Sweeper \/ (\E i \in Ids : GraceLapses(i)) \/ Start \/ Boot \/ Crash
    PROVE  RegistryInv'
<1> USE NamesAssumption, BoundAssumption
    DEF RegistryInv, TypeOK, RequestsHoldOperands, BootHoldsName,
        RowsBelowNext, UnbornUnscheduled, SweepIsDue, SafeIsUnscheduled, BootTombsKept,
        Exists, Ids, Steps, dbVars, histVars
<1>1. CASE SweepRead
  <2>1. PICK early \in SUBSET {i \in Ids : pending[i] = "near"} :
                sweep' = {i \in Ids : pending[i] = "due"} \cup early
    BY <1>1 DEF SweepRead, DueDeviceDeletions
  <2>2. sweep' \subseteq Ids /\ overtaken = {}
    BY <1>1, <2>1 DEF SweepRead
  <2>3. SweepIsDue'
    BY <1>1, <2>1 DEF SweepRead
  <2>4. \A i \in sweep' : pending[i] # "none"
    BY <1>1, <2>1
  <2>5. TypeOK' /\ SafeIsUnscheduled'
    BY <1>1, <2>2, <2>4 DEF SweepRead
  <2>6. (RequestsHoldOperands /\ BootHoldsName /\ RowsBelowNext
         /\ UnbornUnscheduled /\ BootTombsKept)'
    BY <1>1 DEF SweepRead
  <2>7. QED
    BY <2>3, <2>5, <2>6
<1>2. ASSUME NEW i \in Ids, SweepDelete(i) PROVE RegistryInv'
  BY <1>2 DEF SweepDelete, LeaveSweep, DeleteDevice
<1>3. ASSUME NEW i \in Ids, SweepDeleteFails(i) PROVE RegistryInv'
  BY <1>3 DEF SweepDeleteFails, LeaveSweep
<1>4. ASSUME NEW i \in Ids, GraceLapses(i) PROVE RegistryInv'
  BY <1>4 DEF GraceLapses
<1>5. CASE Start
  BY <1>5 DEF Start
<1>6. ASSUME NEW n \in ConfigNames, BootCheck(n) PROVE RegistryInv'
  BY <1>6 DEF BootCheck, Booting
<1>7. CASE BootClear
  BY <1>7 DEF BootClear, Booting
<1>8. CASE BootInsert
  <2>1. CASE NameTaken(boot.name)
    BY <1>8, <2>1 DEF BootInsert, BootNext, Booting
  <2>2. CASE ~NameTaken(boot.name)
    BY <1>8, <2>2 DEF BootInsert, BootNext, Booting, Insert
  <2>3. QED
    BY <2>1, <2>2
<1>9. CASE BootFails
  <2>1. CASE boot.at = "next" /\ \E n \in boot.todo :
                 boot' = [boot EXCEPT !.todo = @ \ {n}]
    <3>1. PICK n \in boot.todo : boot' = [boot EXCEPT !.todo = @ \ {n}]
      BY <2>1
    <3>2. boot'.todo = boot.todo \ {n} /\ boot'.name = boot.name /\ boot'.at = "next"
      BY <2>1, <3>1
    <3>3. boot' \in [todo : SUBSET Names, name : Names \cup {NoName},
                     at : {"next", "clear", "insert"}]
      BY <2>1, <3>1
    <3>4. QED
      BY <1>9, <2>1, <3>2, <3>3 DEF BootFails
  <2>2. CASE boot.at # "next" /\ BootNext
    BY <1>9, <2>2 DEF BootFails, BootNext
  <2>3. QED
    BY <1>9, <2>1, <2>2 DEF BootFails
<1>10. CASE BootDone
  BY <1>10 DEF BootDone, Booting
<1>11. CASE Crash
  BY <1>11 DEF Crash, NotBooting, Idle
<1>12. QED
  BY <1>1, <1>2, <1>3, <1>4, <1>5, <1>6, <1>7, <1>8, <1>9, <1>10, <1>11
  DEF Sweeper, Boot

\* The invariant holds throughout.
THEOREM RegistryInvariant == Spec => []RegistryInv
<1>1. RegistryInv /\ [Next]_vars => RegistryInv'
  <2> SUFFICES ASSUME RegistryInv, [Next]_vars PROVE RegistryInv'
    OBVIOUS
  <2>1. ASSUME NEW r \in Requests, Handler(r) PROVE RegistryInv'
    BY <2>1, HandlerPreserves
  <2>2. CASE Sweeper \/ (\E i \in Ids : GraceLapses(i)) \/ Start \/ Boot \/ Crash
    BY <2>2, BackgroundPreserves
  <2>3. CASE UNCHANGED vars
    BY <2>3 DEF vars, RegistryInv, TypeOK, RequestsHoldOperands,
       BootHoldsName, RowsBelowNext, UnbornUnscheduled, SweepIsDue, SafeIsUnscheduled,
       BootTombsKept, Exists
  <2>4. QED
    BY <2>1, <2>2, <2>3 DEF Next
<1>2. QED
  BY RegistryInit, <1>1, PTL DEF Spec

\* The variables of the registry keep their types.
THEOREM RegistryTypeCorrect == Spec => []TypeOK
<1>1. RegistryInv => TypeOK
  BY DEF RegistryInv
<1>2. QED
  BY <1>1, RegistryInvariant, PTL

-----------------------------------------------------------------------------
(* Safety properties.                                                      *)

\* Whatever removes a row, it is one of these four steps; only the last is
\* the sweeper's.  A row appears at the next identifier, by an insertion.
LEMMA RowSteps ==
    ASSUME RegistryInv, [Next]_vars, NEW i \in Ids
    PROVE  /\ ~Exists(i) /\ rowName'[i] # NoName =>
                 /\ i = nextId
                 /\ phase = "boot" => boot.at # "next" /\ rowName'[i] = boot.name
           /\ SweptNow(i) => i \in sweep
<1> USE NamesAssumption, BoundAssumption
    DEF RegistryInv, TypeOK, RequestsHoldOperands, BootHoldsName, Exists, Ids,
        Serving, dbVars, SweptNow, Removed
<1>1. ASSUME NEW r \in Requests, Handler(r)
      PROVE  ~Exists(i) /\ rowName'[i] # NoName => i = nextId /\ phase # "boot"
  BY <1>1 DEF Handler, CreateExists, ImportSelect, ImportUpdate, UpdateDevice,
     CreateClear, CreateInsert, Insert, Put, DeleteGet, DeleteNow,
     DeleteDevice, DeleteCheckPending, DeleteSchedule, RestoreGet,
     RestoreCancel, RequestFails
<1>2. ASSUME Boot
      PROVE  ~Exists(i) /\ rowName'[i] # NoName =>
                i = nextId /\ boot.at # "next" /\ rowName'[i] = boot.name
  BY <1>2 DEF Boot, BootCheck, BootClear, BootInsert, Insert, BootFails,
     BootDone, Booting
<1>3. CASE Sweeper \/ (\E j \in Ids : GraceLapses(j)) \/ Start \/ Crash
           \/ UNCHANGED vars
  BY <1>3 DEF Sweeper, SweepRead, SweepDelete, SweepDeleteFails, LeaveSweep,
     DeleteDevice, GraceLapses, Start, Crash, vars
<1>4. QED
  BY <1>1, <1>2, <1>3 DEF Next

\* An identifier whose device is gone never names a device again.
THEOREM IdentifiersAreFinal == Spec => IdsNeverReused
<1>1. RegistryInv /\ [Next]_vars =>
        \A i \in Ids : i < nextId /\ ~Exists(i) => rowName'[i] = NoName
  BY RowSteps, BoundAssumption DEF RegistryInv, TypeOK, Ids
<1>2. QED
  BY <1>1, RegistryInvariant, PTL DEF Spec, IdsNeverReused

\* The sweeper removes a device in the second of its last scheduled delete_at or
\* later, or after a handler changed the schedule behind the sweeper's list.
THEOREM GraceIsHonoured == Spec => SweepHonoursGrace
<1>1. RegistryInv /\ [Next]_vars => 
        \A i \in Ids : SweptNow(i) => pending[i] \in {"near", "due"} \/ i \in overtaken
  BY RowSteps DEF RegistryInv, SweepIsDue, SweptNow, Removed
<1>2. QED
  BY <1>1, RegistryInvariant, PTL DEF Spec, SweepHonoursGrace

\* A restore answered outside the sweeper's hold is not undone by it.
THEOREM RestoreIsHonoured == Spec => RestoreHoldsOutsideSweep
<1>1. RegistryInv /\ [Next]_vars =>
        \A i \in Ids : SweptNow(i) => kept[i] # "safe"
  BY RowSteps DEF RegistryInv, SafeIsUnscheduled
<1>2. QED
  BY <1>1, RegistryInvariant, PTL DEF Spec, RestoreHoldsOutsideSweep

\* The start-up pass inserts no name it found among the deleted ones.
THEOREM TombstonesAreHonoured == Spec => StartupHonoursTombstones
<1>1. RegistryInv /\ [Next]_vars =>
        \A i \in Ids : phase = "boot" /\ ~Exists(i) /\ rowName'[i] # NoName
             => rowName'[i] \notin bootTombs
  BY RowSteps DEF RegistryInv, BootTombsKept
<1>2. QED
  BY <1>1, RegistryInvariant, PTL DEF Spec, StartupHonoursTombstones

-----------------------------------------------------------------------------
(* The registry implements the life cycle of device identifiers.           *)

\* A step moves the life of each identifier as DeviceLifecycle allows, and of
\* at most one identifier.  Orphaned rows of pending_device_deletions do not
\* show: an identifier without a row is gone whatever is scheduled for it.
LEMMA StepsImplementLifecycle ==
    ASSUME RegistryInv, RegistryInv', [Next]_vars
    PROVE  [Lifecycle!LifeNext]_lifeOf
<1> DEFINE LifeStep(i) == Lifecycle!Born(i) \/ Lifecycle!Doom(i)
                             \/ Lifecycle!Restore(i) \/ Lifecycle!Vanish(i)
<1> USE DEF dbVars
<1>1. /\ rowName \in [Ids -> Names \cup {NoName}]
      /\ pending \in [Ids -> {"none", "waiting", "near", "due"}]
      /\ nextId \in 1..(MaxId + 1) /\ MaxId \in Nat /\ NoName \notin Names
  BY NamesAssumption, BoundAssumption DEF RegistryInv, TypeOK
<1>2. ASSUME NEW i \in Ids, \A j \in Ids \ {i} : LifeOf(j)' = LifeOf(j)
      PROVE  lifeOf' = [lifeOf EXCEPT ![i] = LifeOf(i)']
  BY <1>2 DEF lifeOf
<1>3. ASSUME NEW n \in Names, Insert(n), UNCHANGED pending
      PROVE  \E k \in Ids : LifeStep(k)
  <2>1. PICK k \in Ids : k = nextId
    BY <1>1, <1>3 DEF Insert, Ids
  <2>2. k \in Nat /\ nextId' = k + 1
    BY <1>1, <1>3, <2>1 DEF Insert, Ids
  <2>3. LifeOf(k) = "unborn"
    BY <2>1, <2>2 DEF LifeOf, RegistryInv, RowsBelowNext
  <2>4. LifeOf(k)' = "live"
    <3>1. pending'[k] = "none"
      BY <1>3, <2>1, <2>2 DEF RegistryInv, UnbornUnscheduled
    <3>2. rowName'[k] = n /\ n # NoName
      BY <1>1, <1>3, <2>1 DEF Insert
    <3>3. QED
      BY <3>1, <3>2 DEF LifeOf, Exists
  <2>5. \A j \in Ids : j < k => LifeOf(j) # "unborn"
    BY <2>1 DEF LifeOf
  <2>6. ASSUME NEW j \in Ids \ {k} PROVE LifeOf(j)' = LifeOf(j)
    <3>1. j \in Nat /\ j # k
      BY <1>1 DEF Ids
    <3>2. (j < nextId') = (j < nextId)
      BY <2>1, <2>2, <3>1
    <3>3. rowName'[j] = rowName[j]
      BY <1>1, <1>3, <2>1, <3>1 DEF Insert
    <3>4. QED
      BY <1>3, <3>2, <3>3 DEF LifeOf, Exists
  <2>7. lifeOf' = [lifeOf EXCEPT ![k] = "live"]
    BY <1>2, <2>4, <2>6
  <2>8. Lifecycle!Born(k)
    BY <2>1, <2>3, <2>5, <2>7
    DEF Lifecycle!Born, Lifecycle!Become, Lifecycle!LifeIds, lifeOf, Ids
  <2>9. QED
    BY <2>8
<1>4. ASSUME NEW i \in Ids, DeleteDevice(i), UNCHANGED nextId
      PROVE  LifeStep(i)
  <2>1. /\ LifeOf(i) \in {"live", "doomed"} /\ LifeOf(i)' = "gone"
        /\ \A j \in Ids \ {i} : LifeOf(j)' = LifeOf(j)
    BY <1>1, <1>4 DEF DeleteDevice, LifeOf, Exists, RegistryInv, RowsBelowNext
  <2>2. Lifecycle!Vanish(i)
    BY <1>2, <2>1 DEF Lifecycle!Vanish, Lifecycle!Become, lifeOf
  <2>3. QED
    BY <2>2
<1>5. ASSUME NEW i \in Ids, NEW n \in Names, UpdateDevice(i, n),
             UNCHANGED <<nextId, pending>>
      PROVE  UNCHANGED lifeOf
  BY <1>1, <1>5 DEF UpdateDevice, lifeOf, LifeOf, Exists
<1>6. ASSUME NEW i \in Ids, UNCHANGED <<rowName, nextId>>,
             NEW v \in {"none", "waiting", "near", "due"},
             pending' = [pending EXCEPT ![i] = v]
      PROVE  LifeStep(i) \/ UNCHANGED lifeOf
  <2>1. \A j \in Ids \ {i} : LifeOf(j)' = LifeOf(j)
    BY <1>1, <1>6 DEF LifeOf, Exists
  <2>2. CASE LifeOf(i)' = LifeOf(i)
    BY <2>1, <2>2 DEF lifeOf
  <2>3. CASE LifeOf(i) = "live" /\ LifeOf(i)' = "doomed"
    BY <1>2, <2>1, <2>3 DEF Lifecycle!Doom, Lifecycle!Become, lifeOf
  <2>4. CASE LifeOf(i) = "doomed" /\ LifeOf(i)' = "live"
    BY <1>2, <2>1, <2>4 DEF Lifecycle!Restore, Lifecycle!Become, lifeOf
  <2>5. QED
    BY <1>1, <1>6, <2>2, <2>3, <2>4 DEF LifeOf, Exists
<1>7. ASSUME UNCHANGED <<rowName, nextId, pending>> PROVE UNCHANGED lifeOf
  BY <1>7 DEF lifeOf, LifeOf, Exists
<1> HIDE DEF LifeStep
<1>8. ASSUME NEW r \in Requests, Handler(r)
      PROVE  (\E i \in Ids : LifeStep(i)) \/ UNCHANGED lifeOf
  <2>1. /\ req[r].at \in {"clear", "insert", "update"} => req[r].name \in Names
        /\ req[r].at \in {"update", "drop", "schedule", "cancel"}
              => req[r].id \in Ids
    BY DEF RegistryInv, RequestsHoldOperands
  <2>2. CASE ImportUpdate(r)
    BY <2>1, <2>2, <1>5 DEF ImportUpdate, Serving
  <2>3. CASE \E i \in Ids, n \in Names : Put(r, i, n)
    BY <2>3, <1>5 DEF Put
  <2>4. CASE CreateInsert(r)
    BY <2>1, <2>4, <1>3 DEF CreateInsert, Serving
  <2>5. CASE DeleteNow(r)
    BY <2>1, <2>5, <1>4 DEF DeleteNow, Serving
  <2>6. CASE DeleteSchedule(r)
    BY <2>1, <2>6, <1>6 DEF DeleteSchedule, Serving
  <2>7. CASE RestoreCancel(r)
    BY <2>1, <2>7, <1>6 DEF RestoreCancel, Serving
  <2>8. CASE \/ \E n \in Names : CreateExists(r, n) \/ ImportSelect(r, n)
             \/ CreateClear(r)
             \/ \E i \in Ids, now \in BOOLEAN : DeleteGet(r, i, now)
             \/ DeleteCheckPending(r)
             \/ \E i \in Ids : RestoreGet(r, i)
             \/ RequestFails(r)
    BY <2>8, <1>7 DEF CreateExists, ImportSelect, CreateClear, DeleteGet,
       DeleteCheckPending, RestoreGet, RequestFails
  <2>9. QED
    BY <1>8, <2>2, <2>3, <2>4, <2>5, <2>6, <2>7, <2>8 DEF Handler
<1>9. ASSUME Sweeper
      PROVE  (\E i \in Ids : LifeStep(i)) \/ UNCHANGED lifeOf
  <2>1. CASE SweepRead \/ \E i \in Ids : SweepDeleteFails(i)
    BY <2>1, <1>7 DEF SweepRead, SweepDeleteFails
  <2>2. CASE \E i \in Ids : SweepDelete(i)
    <3>1. PICK i \in Ids : DeleteDevice(i) /\ UNCHANGED nextId
      BY <2>2 DEF SweepDelete
    <3>2. QED
      BY <1>4, <3>1
  <2>3. QED
    BY <1>9, <2>1, <2>2 DEF Sweeper
<1>10. ASSUME NEW i \in Ids, GraceLapses(i)
       PROVE  LifeStep(i) \/ UNCHANGED lifeOf
  BY <1>10, <1>6 DEF GraceLapses
<1>11. ASSUME Boot
       PROVE  (\E i \in Ids : LifeStep(i)) \/ UNCHANGED lifeOf
  <2>1. CASE BootInsert
    <3>1. boot.name \in Names
      BY <2>1 DEF BootInsert, Booting, RegistryInv, BootHoldsName
    <3>2. CASE NameTaken(boot.name)
      BY <2>1, <3>2, <1>7 DEF BootInsert
    <3>3. CASE ~NameTaken(boot.name)
      BY <2>1, <3>1, <3>3, <1>3 DEF BootInsert
    <3>4. QED
      BY <3>2, <3>3
  <2>2. CASE (\E n \in ConfigNames : BootCheck(n)) \/ BootClear \/ BootFails
             \/ BootDone
    BY <2>2, <1>7 DEF BootCheck, BootClear, BootFails, BootDone
  <2>3. QED
    BY <1>11, <2>1, <2>2 DEF Boot
<1>12. CASE Start \/ Crash \/ UNCHANGED vars
  BY <1>12, <1>7 DEF Start, Crash, vars
<1>13. ASSUME NEW i \in Ids, LifeStep(i) PROVE Lifecycle!LifeNext
  BY <1>13 DEF LifeStep, Lifecycle!LifeNext, Lifecycle!LifeIds, Ids
<1>14. QED
  BY <1>8, <1>9, <1>10, <1>11, <1>12, <1>13 DEF Next

\* DeviceRegistry implements DeviceLifecycle under the mapping lifeOf.
THEOREM RegistryImplementsLifecycle == Spec => ImplementsLifecycle
<1>1. Init => Lifecycle!LifeInit
  BY BoundAssumption DEF Init, Lifecycle!LifeInit, Lifecycle!LifeIds, lifeOf, LifeOf, Ids, Exists
<1>2. RegistryInv /\ RegistryInv' /\ [Next]_vars => [Lifecycle!LifeNext]_lifeOf
  BY StepsImplementLifecycle
<1>3. QED
  BY <1>1, <1>2, RegistryInvariant, PTL
  DEF Spec, ImplementsLifecycle, Lifecycle!LifeSpec

=============================================================================
