--------------------------- MODULE BackupSchedule ---------------------------
(***************************************************************************)
(* Scheduled configuration backups of one device (internal/backups and the *)
(* backup part of the collector loop in internal/scheduler).  The decision *)
(* rests on the newest row of device_backups, read when the timer is set   *)
(* and again when it fires; a capture takes time, during which the device  *)
(* may be edited (its collector cancelled and replaced) and a request may  *)
(* store a backup of its own.                                              *)
(*                                                                         *)
(* Time is counted in minutes, the shortest delay the code sets, and only  *)
(* relatively: the age of the newest row, the time left on each timer.     *)
(* Ages are capped at the longest interval, which also stands for "no row":*)
(* either way a backup is due.                                             *)
(***************************************************************************)
EXTENDS Integers

CONSTANTS
    Intervals,     \* intervals a device record may ask for, after clamping
    Collectors,    \* bound: collectors of the device alive at one time
    None,          \* no active collector
    CaptureLimit,  \* backupTimeout
    MaxEdits       \* bound: cancellations and crashes

ASSUME IntervalsAssumption ==
    /\ Intervals \subseteq Nat \ {0}
    /\ \E i \in Intervals : \A j \in Intervals : j <= i
ASSUME CountAssumption ==
    CaptureLimit \in Nat /\ MaxEdits \in Nat /\ None \notin Collectors

VARIABLES
    age,       \* time since the newest row of device_backups was stored
    schedAge,  \* history: the same, for the rows a collector stored
    run,       \* the collectors
    current,   \* the one in Svc.devices, None if there is none
    edits      \* number of cancellations and crashes

vars == <<age, schedAge, run, current, edits>>

Cap == CHOOSE i \in Intervals : \A j \in Intervals : j <= i

\* Where a collector is: "arming" before scheduleBackup sets the timer,
\* "waiting" at the select, or inside Capture: "checked" when the newest row
\* had been found old enough, "blind" when its lookup had failed, "doomed"
\* when the collector had been cancelled before, so that it cannot succeed.
Places == {"off", "arming", "waiting", "checked", "blind", "doomed"}

\* clock: the time left until the timer fires, or the capture times out.
TypeOK ==
    /\ age \in 0..Cap
    /\ schedAge \in 0..Cap
    /\ run \in [Collectors -> [at : Places, clock : 0..(Cap + CaptureLimit),
                               interval : Intervals]]
    /\ current \in Collectors \cup {None}
    /\ edits \in 0..MaxEdits

Off == [at |-> "off", clock |-> 0, interval |-> Cap]

Init ==
    /\ age = Cap
    /\ schedAge = Cap
    /\ run = [c \in Collectors |-> Off]
    /\ current = None
    /\ edits = 0

Live(c) == run[c].at \in {"checked", "blind"}
Capturing(c) == Live(c) \/ run[c].at = "doomed"
Cancelled(c) == current # c

Goto(c, at, clock) ==
    run' = [run EXCEPT ![c] = [at |-> at, clock |-> clock,
                               interval |-> run[c].interval]]

-----------------------------------------------------------------------------
(* The schedule.                                                           *)

\* Mutant: the interval is counted from now.
NextFromNow(a, i) == i

\* NextScheduled, as the time from now, for a newest row of age a: the first
\* multiple of the interval after the row that lies in the future.
NextScheduled(a, i) == i - (a % i)

\* backupSchedule, when the lookup of the newest row succeeds.
Due(c) == age >= run[c].interval

\* Mutant: no minute's delay when a backup is due.
DelayFromRow(c) == run[c].interval - age

\* The delay scheduleBackup chooses: a minute if a backup is due.
Delay(c) == IF Due(c) THEN 1 ELSE NextScheduled(age, run[c].interval)

\* Mutant: no timer is set when a backup is due.
ScheduleUnlessDue(c) ==
    /\ run[c].at = "arming"
    /\ ~Due(c)
    /\ Goto(c, "waiting", Delay(c))
    /\ UNCHANGED <<age, schedAge, current, edits>>

\* scheduleBackup.  A lookup that fails counts as due.
Schedule(c) ==
    /\ run[c].at = "arming"
    /\ \E d \in {Delay(c), 1} : Goto(c, "waiting", d)
    /\ UNCHANGED <<age, schedAge, current, edits>>

Fires(c) == run[c].at = "waiting" /\ run[c].clock = 0

Begin(c, at) ==
    Goto(c, IF Cancelled(c) THEN "doomed" ELSE at, CaptureLimit)

\* Mutant: the timer's word is taken.
FireUnchecked(c) ==
    /\ Fires(c)
    /\ Begin(c, "checked")
    /\ UNCHANGED <<age, schedAge, current, edits>>

\* The timer fires and the newest row is read once more; if that fails the
\* capture begins all the same.
Fire(c) ==
    /\ Fires(c)
    /\ \/ Due(c) /\ Begin(c, "checked")
       \/ ~Due(c) /\ Goto(c, "arming", 0)
       \/ Begin(c, "blind")
    /\ UNCHANGED <<age, schedAge, current, edits>>

-----------------------------------------------------------------------------
(* Capture.                                                                *)

\* The archive was fetched and InsertDeviceBackup stores it, even if the
\* collector was cancelled after the fetch.
Store(c) ==
    /\ Live(c)
    /\ Goto(c, "arming", 0)
    /\ age' = 0
    /\ schedAge' = 0
    /\ UNCHANGED <<current, edits>>

\* The fetch failed, timed out, or was killed by the cancellation.
CaptureFails(c) ==
    /\ Capturing(c)
    /\ Goto(c, "arming", 0)
    /\ UNCHANGED <<age, schedAge, current, edits>>

\* POST /api/device-backups: the insertion that ends createDeviceBackup.
ManualBackup ==
    /\ age' = 0
    /\ UNCHANGED <<schedAge, run, current, edits>>

-----------------------------------------------------------------------------
(* The collectors of the device.                                           *)

\* startDeviceLocked, for a record that supports backups every i minutes.
StartCollector(c, i) ==
    /\ current = None
    /\ run[c].at = "off"
    /\ current' = c
    /\ run' = [run EXCEPT ![c] = [at |-> "arming", clock |-> 0, interval |-> i]]
    /\ UNCHANGED <<age, schedAge, edits>>

\* syncDevices found the record changed or gone, or the process shuts down.
Cancel ==
    /\ current # None
    /\ edits < MaxEdits
    /\ edits' = edits + 1
    /\ current' = None
    /\ UNCHANGED <<age, schedAge, run>>

Return(c) ==
    /\ run[c].at = "waiting"
    /\ Cancelled(c)
    /\ run' = [run EXCEPT ![c] = Off]
    /\ UNCHANGED <<age, schedAge, current, edits>>

Crash ==
    /\ edits < MaxEdits
    /\ edits' = edits + 1
    /\ run' = [c \in Collectors |-> Off]
    /\ current' = None
    /\ UNCHANGED <<age, schedAge>>

\* A minute passes.  A capture is over when its time-out is, and a cancelled
\* one at once: the cancellation kills ssh, and one INSERT is left at most.
MayTick(c) == Capturing(c) => run[c].clock > 0 /\ ~Cancelled(c)

Tick ==
    /\ \A c \in Collectors : MayTick(c)
    /\ age' = IF age < Cap THEN age + 1 ELSE Cap
    /\ schedAge' = IF schedAge < Cap THEN schedAge + 1 ELSE Cap
    /\ run' = [c \in Collectors |->
                 [at |-> run[c].at, interval |-> run[c].interval,
                  clock |-> IF run[c].clock = 0 THEN 0 ELSE run[c].clock - 1]]
    /\ UNCHANGED <<current, edits>>

-----------------------------------------------------------------------------

CollectorStep(c) ==
    Schedule(c) \/ Fire(c) \/ Store(c) \/ CaptureFails(c) \/ Return(c)

Next ==
    \/ \E c \in Collectors : CollectorStep(c)
    \/ \E c \in Collectors, i \in Intervals : StartCollector(c, i)
    \/ ManualBackup
    \/ Cancel
    \/ Crash
    \/ Tick

Spec == Init /\ [][Next]_vars

\* Time passes, collectors run on, a timer that stays ready is taken by the
\* select in the end, and a device tried again and again answers in the end.
Fairness ==
    /\ WF_vars(Tick)
    /\ \A c \in Collectors : WF_vars(CollectorStep(c)) /\ SF_vars(Store(c))

FairSpec == Spec /\ Fairness

-----------------------------------------------------------------------------
(* Properties.                                                             *)

\* A backup a collector stores is at least its interval younger than the last
\* one any collector of the device stored, though the collector may have been
\* started while the one it replaces was capturing.  (Not claimed when the
\* lookup failed, nor against backups stored by requests during a capture.)
ScheduledBackupsSpaced ==
    [][\A c \in Collectors :
          Store(c) /\ run[c].at = "checked" => schedAge >= run[c].interval]_vars

\* A timer never fires later than the moment the next backup becomes due, or
\* a minute from now if one is due already, whatever rows appear meanwhile.
TimersNotLate ==
    \A c \in Collectors : run[c].at = "waiting" =>
        \/ run[c].clock <= 1
        \/ run[c].clock <= run[c].interval - age

\* A backup that is due gets stored unless the collector is replaced.
DueBackupsHappen ==
    \A c \in Collectors : current = c /\ Due(c) ~> ~Due(c) \/ current # c

=============================================================================
