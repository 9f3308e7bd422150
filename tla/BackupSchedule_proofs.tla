------------------------ MODULE BackupSchedule_proofs ------------------------
(***************************************************************************)
(* Proofs about BackupSchedule for every set of intervals and collectors.  *)
(* ScheduleInv is inductive; the safety properties follow from it.         *)
(***************************************************************************)
EXTENDS BackupSchedule, TLAPS

\* A row a collector stored is a row.
AgesOrdered == age <= schedAge

\* A capture that follows a successful lookup was due when it began, and
\* still is as far as the rows of collectors go.
CheckedIsDue ==
    \A c \in Collectors : run[c].at = "checked" => schedAge >= run[c].interval

\* While one collector's capture may succeed no other one's may; and while it
\* lasts beyond the cancellation, the successor's timer is still running.
OneLive ==
    \A c, d \in Collectors : Live(c) /\ c # d =>
        /\ ~Live(d)
        /\ Cancelled(c) /\ run[d].at = "waiting" =>
              run[d].clock >= 1 \/ Cancelled(d)

ScheduleInv ==
    TypeOK /\ TimersNotLate /\ AgesOrdered /\ CheckedIsDue /\ OneLive

-----------------------------------------------------------------------------

\* The longest interval exists and bounds the others.
LEMMA CapBounds ==
    /\ Cap \in Intervals /\ Cap \in Nat /\ Cap >= 1
    /\ \A i \in Intervals : i \in Nat /\ 1 <= i /\ i <= Cap
<1>1. Cap \in Intervals /\ \A i \in Intervals : i <= Cap
  BY IntervalsAssumption, Zenon DEF Cap
<1>2. QED
  BY <1>1, IntervalsAssumption

\* The remainder keeps the next date in the future and within an interval.
LEMMA NextInFuture ==
    ASSUME NEW a \in Nat, NEW i \in Nat \ {0}
    PROVE  /\ NextScheduled(a, i) \in 1..i
           /\ a < i => NextScheduled(a, i) = i - a
BY DEF NextScheduled

\* The types of the numbers.
LEMMA Numbers ==
    ASSUME TypeOK
    PROVE  /\ age \in Nat /\ age <= Cap /\ schedAge \in Nat /\ schedAge <= Cap
           /\ \A c \in Collectors :
                 /\ run[c].clock \in Nat /\ run[c].clock <= Cap + CaptureLimit
                 /\ run[c].interval \in Intervals
                 /\ run[c].interval \in Nat /\ run[c].interval <= Cap
                 /\ run[c].interval >= 1
<1>1. /\ age \in Nat /\ age <= Cap /\ schedAge \in Nat /\ schedAge <= Cap
  BY CapBounds DEF TypeOK
<1>2. ASSUME NEW c \in Collectors
      PROVE  /\ run[c].clock \in 0..(Cap + CaptureLimit)
             /\ run[c].interval \in Intervals
  BY DEF TypeOK
<1>3. ASSUME NEW c \in Collectors
      PROVE  /\ run[c].clock \in Nat /\ run[c].clock <= Cap + CaptureLimit
             /\ run[c].interval \in Nat /\ run[c].interval <= Cap
             /\ run[c].interval >= 1
  <2>1. run[c].clock \in Nat /\ run[c].clock <= Cap + CaptureLimit
    BY <1>2, CapBounds, CountAssumption
  <2>2. QED
    BY <1>2, <2>1, CapBounds
<1>4. QED
  BY <1>1, <1>2, <1>3

LEMMA ScheduleInit == Init => ScheduleInv
BY CapBounds, CountAssumption
DEF Init, ScheduleInv, TypeOK, TimersNotLate, AgesOrdered, CheckedIsDue,
    OneLive, Live, Off, Places

-----------------------------------------------------------------------------

\* Setting the timer preserves the invariant: it is set at least a minute
\* ahead, and no later than the moment the next backup becomes due.
LEMMA SchedulePreserves ==
    ASSUME ScheduleInv, NEW c \in Collectors, Schedule(c) PROVE ScheduleInv'
<1>0. TypeOK /\ TimersNotLate /\ AgesOrdered /\ CheckedIsDue /\ OneLive
  BY DEF ScheduleInv
<1>1. PICK d \in {Delay(c), 1} : Goto(c, "waiting", d)
  BY DEF Schedule
<1>2. d \in 1..Cap /\ (d = 1 \/ d <= run[c].interval - age)
  <2>1. CASE d = 1
    BY <2>1, CapBounds
  <2>2. CASE d # 1
    <3>1. age < run[c].interval
      BY <1>0, <2>2, Numbers DEF Delay, Due
    <3>2. d = NextScheduled(age, run[c].interval)
      BY <2>2, <3>1, <1>0, Numbers DEF Delay, Due
    <3>3. NextScheduled(age, run[c].interval) = run[c].interval - age
      BY <1>0, <3>1, Numbers, NextInFuture
    <3>4. QED
      BY <1>0, <3>1, <3>2, <3>3, Numbers, CapBounds
  <2>3. QED
    BY <2>1, <2>2
<1>3. run[c].at = "arming" /\ UNCHANGED <<age, schedAge, current, edits>>
  BY DEF Schedule
<1>4. run' = [run EXCEPT ![c] = [at |-> "waiting", clock |-> d,
                                 interval |-> run[c].interval]]
  BY <1>1 DEF Goto
<1>5. TypeOK'
  BY <1>0, <1>2, <1>3, <1>4, CapBounds, CountAssumption DEF TypeOK, Places
<1>6. TimersNotLate'
  BY <1>0, <1>2, <1>3, <1>4 DEF TypeOK, TimersNotLate
<1>7. AgesOrdered' /\ CheckedIsDue'
  BY <1>0, <1>3, <1>4 DEF TypeOK, AgesOrdered, CheckedIsDue
<1>8. OneLive'
  BY <1>0, <1>2, <1>3, <1>4 DEF TypeOK, OneLive, Live, Cancelled
<1>9. QED
  BY <1>5, <1>6, <1>7, <1>8 DEF ScheduleInv

\* A timer that fires preserves the invariant: a capture that may succeed
\* begins only when no other one is on.
LEMMA FirePreserves ==
    ASSUME ScheduleInv, NEW c \in Collectors, Fire(c) PROVE ScheduleInv'
<1>0. /\ TypeOK /\ TimersNotLate /\ AgesOrdered /\ CheckedIsDue /\ OneLive
      /\ run[c].at = "waiting" /\ run[c].clock = 0
      /\ UNCHANGED <<age, schedAge, current, edits>>
  BY DEF ScheduleInv, Fire, Fires
<1>1. PICK at \in {"arming", "checked", "blind", "doomed"},
           clock \in {0, CaptureLimit} :
         /\ run' = [run EXCEPT ![c] = [at |-> at, clock |-> clock,
                                       interval |-> run[c].interval]]
         /\ at = "checked" => age >= run[c].interval
         /\ at \in {"checked", "blind"} => ~Cancelled(c)
  BY DEF Fire, Begin, Goto, Due
<1>2. TypeOK'
  BY <1>0, <1>1, CapBounds, CountAssumption DEF TypeOK, Places
<1>3. TimersNotLate' /\ AgesOrdered'
  BY <1>0, <1>1 DEF TypeOK, TimersNotLate, AgesOrdered
<1>4. at = "checked" => schedAge >= run[c].interval
  BY <1>0, <1>1, Numbers DEF AgesOrdered
<1>5. CheckedIsDue'
  BY <1>0, <1>1, <1>4 DEF TypeOK, CheckedIsDue
<1>6. ASSUME NEW d \in Collectors, d # c, Live(d) PROVE Cancelled(c)
  <2>1. CASE Cancelled(d)
    BY <1>0, <1>6, <2>1 DEF OneLive
  <2>2. CASE ~Cancelled(d)
    BY <1>6, <2>2 DEF Cancelled
  <2>3. QED
    BY <2>1, <2>2
<1>7. ASSUME NEW d \in Collectors
      PROVE  run'[d] = IF d = c THEN [at |-> at, clock |-> clock,
                                      interval |-> run[c].interval] ELSE run[d]
  BY <1>0, <1>1 DEF TypeOK
<1>8. OneLive'
  BY <1>0, <1>1, <1>6, <1>7 DEF OneLive, Live, Cancelled
<1>9. QED
  BY <1>2, <1>3, <1>5, <1>8 DEF ScheduleInv

\* The end of a capture preserves the invariant.
LEMMA EndPreserves ==
    ASSUME ScheduleInv, NEW c \in Collectors, Store(c) \/ CaptureFails(c)
    PROVE  ScheduleInv'
<1>0. TypeOK /\ TimersNotLate /\ AgesOrdered /\ CheckedIsDue /\ OneLive
  BY DEF ScheduleInv
<1>1. /\ run' = [run EXCEPT ![c] = [at |-> "arming", clock |-> 0,
                                    interval |-> run[c].interval]]
      /\ UNCHANGED <<current, edits>>
  BY DEF Store, CaptureFails, Goto
<1>2. /\ age' \in 0..Cap /\ schedAge' \in 0..Cap /\ age' <= schedAge'
      /\ age' <= age
      /\ schedAge' # schedAge => Live(c)
  BY <1>0, Numbers, CapBounds DEF Store, CaptureFails, TypeOK, AgesOrdered
<1>3. TypeOK'
  BY <1>0, <1>1, <1>2, CapBounds, CountAssumption DEF TypeOK, Places
<1>4. TimersNotLate' /\ AgesOrdered'
  BY <1>0, <1>1, <1>2, Numbers DEF TypeOK, TimersNotLate, AgesOrdered
<1>5. OneLive'
  BY <1>0, <1>1 DEF TypeOK, OneLive, Live, Cancelled
<1>6. CheckedIsDue'
  BY <1>0, <1>1, <1>2 DEF TypeOK, CheckedIsDue, OneLive, Live
<1>7. QED
  BY <1>3, <1>4, <1>5, <1>6 DEF ScheduleInv

\* A minute that passes preserves the invariant.
LEMMA TickPreserves == ASSUME ScheduleInv, Tick PROVE ScheduleInv'
<1>0. TypeOK /\ TimersNotLate /\ AgesOrdered /\ CheckedIsDue /\ OneLive
  BY DEF ScheduleInv
<1>1. run' = [c \in Collectors |->
                 [at |-> run[c].at, interval |-> run[c].interval,
                  clock |-> IF run[c].clock = 0 THEN 0 ELSE run[c].clock - 1]]
  BY DEF Tick
<1>2. /\ age' \in 0..Cap /\ schedAge' \in 0..Cap /\ age' <= schedAge'
      /\ age' <= age + 1 /\ schedAge' >= schedAge
      /\ UNCHANGED <<current, edits>>
  BY <1>0, CapBounds, Numbers DEF Tick, AgesOrdered
<1>3. TypeOK'
  <2>1. ASSUME NEW c \in Collectors
        PROVE  run'[c] \in [at : Places, clock : 0..(Cap + CaptureLimit),
                            interval : Intervals]
    <3>1. run[c].at \in Places
      BY <1>0 DEF TypeOK
    <3>2. QED
      BY <1>0, <1>1, <3>1, Numbers, CountAssumption, CapBounds
  <2>2. run' \in [Collectors -> [at : Places, clock : 0..(Cap + CaptureLimit),
                                 interval : Intervals]]
    BY <1>1, <2>1
  <2>3. QED
    BY <1>0, <1>2, <2>2 DEF TypeOK
<1>4. TimersNotLate'
  BY <1>0, <1>1, <1>2, Numbers DEF TimersNotLate
<1>5. AgesOrdered' /\ CheckedIsDue'
  BY <1>0, <1>1, <1>2, Numbers DEF AgesOrdered, CheckedIsDue
<1>6. \A c \in Collectors : Live(c) => ~Cancelled(c)
  BY DEF Tick, MayTick, Capturing
<1>7. OneLive'
  BY <1>0, <1>1, <1>2, <1>6 DEF OneLive, Live, Cancelled
<1>8. QED
  BY <1>3, <1>4, <1>5, <1>7 DEF ScheduleInv

\* The remaining steps preserve the invariant.
LEMMA RestPreserve ==
    ASSUME ScheduleInv,
           \/ \E c \in Collectors : Return(c)
           \/ \E c \in Collectors, i \in Intervals : StartCollector(c, i)
           \/ ManualBackup \/ Cancel \/ Crash \/ UNCHANGED vars
    PROVE  ScheduleInv'
<1> USE CapBounds, CountAssumption
    DEF ScheduleInv, TypeOK, TimersNotLate, AgesOrdered, CheckedIsDue, OneLive,
        Live, Cancelled, Places
<1>1. ASSUME NEW c \in Collectors, Return(c) PROVE ScheduleInv'
  BY <1>1 DEF Return, Off
<1>2. ASSUME NEW c \in Collectors, NEW i \in Intervals, StartCollector(c, i)
      PROVE  ScheduleInv'
  BY <1>2 DEF StartCollector
<1>3. CASE ManualBackup
  BY <1>3, Numbers DEF ManualBackup
<1>4. CASE Cancel
  BY <1>4 DEF Cancel
<1>5. CASE Crash
  BY <1>5 DEF Crash, Off
<1>6. CASE UNCHANGED vars
  BY <1>6 DEF vars
<1>7. QED
  BY <1>1, <1>2, <1>3, <1>4, <1>5, <1>6

-----------------------------------------------------------------------------

\* The invariant holds throughout.
THEOREM ScheduleInvariant == Spec => []ScheduleInv
<1>1. ScheduleInv /\ [Next]_vars => ScheduleInv'
  BY SchedulePreserves, FirePreserves, EndPreserves, TickPreserves, RestPreserve
  DEF Next, CollectorStep
<1>2. QED
  BY ScheduleInit, <1>1, PTL DEF Spec

\* The variables of the schedule keep their types.
THEOREM ScheduleTypeCorrect == Spec => []TypeOK
<1>1. ScheduleInv => TypeOK
  BY DEF ScheduleInv
<1>2. QED
  BY <1>1, ScheduleInvariant, PTL

\* No timer is set beyond the moment the next backup becomes due.
THEOREM TimersFireInTime == Spec => []TimersNotLate
<1>1. ScheduleInv => TimersNotLate
  BY DEF ScheduleInv
<1>2. QED
  BY <1>1, ScheduleInvariant, PTL

\* Backups stored by collectors of a device keep their distance, across edits
\* and restarts and for every interval.
THEOREM BackupsAreSpaced == Spec => ScheduledBackupsSpaced
<1>1. ScheduleInv => \A c \in Collectors :
         Store(c) /\ run[c].at = "checked" => schedAge >= run[c].interval
  BY DEF ScheduleInv, CheckedIsDue
<1>2. QED
  BY <1>1, ScheduleInvariant, PTL DEF ScheduledBackupsSpaced

=============================================================================
