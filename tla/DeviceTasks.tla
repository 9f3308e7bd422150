---------------------------- MODULE DeviceTasks -----------------------------
(***************************************************************************)
(* The task runner: POST /api/tasks and runTask of internal/server/http.go *)
(* with the table tasks.  A request inserts a row and starts a goroutine,  *)
(* which runs a command on the device and notes in the row how far it is;  *)
(* nobody waits for it, no error of a note is looked at, and no start of   *)
(* the process takes up the rows of the one before.                        *)
(***************************************************************************)
EXTENDS PageValues

VARIABLES
    taskRow,    \* table tasks, by identifier: a row, or None
    lastTask,   \* the AUTOINCREMENT sequence of tasks
    runner,     \* the goroutines of runTask
    deviceRows, \* the devices that have a row
    lostNotes   \* history: tasks with a lost note or cut off by a stop

taskVars == <<taskRow, lastTask, runner, deviceRows, lostNotes>>

TaskIds == 1..MaxChanges   \* bound: the tasks there are

Ended == {"done", "error"}
NoRunner == [at |-> "none", task |-> 0, device |-> None, status |-> "running"]
Runs(q, id) == runner[q].at # "none" /\ runner[q].task = id

TypeOK ==
    /\ taskRow \in [TaskIds -> [device : Devices, status : {"queued", "running"} \cup Ended] \cup {None}]
    /\ lastTask \in 0..MaxChanges
    /\ runner \in [Requests -> [at : {"none", "start", "read", "note"},
                                task : 0..MaxChanges, device : Devices \cup {None},
                                status : {"running"} \cup Ended]]
    /\ deviceRows \subseteq Devices
    /\ lostNotes \subseteq TaskIds

Init ==
    /\ taskRow = [id \in TaskIds |-> None]
    /\ lastTask = 0
    /\ runner = [q \in Requests |-> NoRunner]
    /\ deviceRows = Devices
    /\ lostNotes = {}

Goes(q, id, d) ==
    /\ runner[q].at = "none"
    /\ taskRow' = [taskRow EXCEPT ![id] = [device |-> d, status |-> "queued"]]
    /\ runner' = [runner EXCEPT ![q] = [NoRunner EXCEPT !.at = "start", !.task = id, !.device = d]]
    /\ UNCHANGED <<deviceRows, lostNotes>>

\* Mutant: no AUTOINCREMENT; an identifier is one more than the largest in use.
EnqueueLargest(q, d) ==
    LET id == 1 + (CHOOSE n \in 0..MaxChanges :
                       /\ n = 0 \/ taskRow[n] # None
                       /\ \A m \in TaskIds : m > n => taskRow[m] = None)
    IN  /\ id \in TaskIds
        /\ lastTask' = IF id > lastTask THEN id ELSE lastTask
        /\ Goes(q, id, d)

\* Nothing asks whether the device is there, and no foreign key is enforced.
EnqueueTask(q, d) ==
    /\ lastTask < MaxChanges
    /\ lastTask' = lastTask + 1
    /\ Goes(q, lastTask + 1, d)

\* The row of a task with the status that its runner has to note.
UpdateTaskStatus(q) ==
    LET id == runner[q].task IN
    IF taskRow[id] = None THEN taskRow
    ELSE [taskRow EXCEPT ![id].status = runner[q].status]

\* A note that fails is not noticed; a runner goes on either way.
Note(q) ==
    \/ taskRow' = UpdateTaskStatus(q) /\ UNCHANGED lostNotes
    \/ /\ lostNotes' = lostNotes \cup {runner[q].task}
       /\ UNCHANGED taskRow

MarkRunning(q) ==
    /\ runner[q].at = "start"
    /\ Note(q)
    /\ runner' = [runner EXCEPT ![q].at = "read"]
    /\ UNCHANGED <<lastTask, deviceRows>>

\* The device is read, and the command of its platform is run: without a row, or
\* with a key that is not there, it is an error; with one, it ends any way, at any
\* time (ssh has no timeout here).
RunCommand(q) ==
    /\ runner[q].at = "read"
    /\ \E status \in IF runner[q].device \in deviceRows THEN Ended ELSE {"error"} :
          runner' = [runner EXCEPT ![q].at = "note", ![q].status = status]
    /\ UNCHANGED <<taskRow, lastTask, deviceRows, lostNotes>>

NoteEnd(q) ==
    /\ runner[q].at = "note"
    /\ Note(q)
    /\ runner' = [runner EXCEPT ![q] = NoRunner]
    /\ UNCHANGED <<lastTask, deviceRows>>

\* DeleteDevice: the device and its tasks in one transaction; their commands run on.
DeleteDevice(d) ==
    /\ d \in deviceRows
    /\ deviceRows' = deviceRows \ {d}
    /\ taskRow' = [id \in TaskIds |-> IF taskRow[id] # None /\ taskRow[id].device = d
                                      THEN None ELSE taskRow[id]]
    /\ UNCHANGED <<lastTask, runner, lostNotes>>

\* Neither main nor the next start looks at goroutines or rows.
Restart ==
    /\ \E q \in Requests : runner[q].at # "none"
    /\ runner' = [q \in Requests |-> NoRunner]
    /\ lostNotes' = lostNotes \cup {runner[q].task : q \in {p \in Requests : runner[p].at # "none"}}
    /\ UNCHANGED <<taskRow, lastTask, deviceRows>>

Next ==
    \/ \E q \in Requests, d \in Devices : EnqueueTask(q, d)
    \/ \E q \in Requests : MarkRunning(q) \/ RunCommand(q) \/ NoteEnd(q)
    \/ \E d \in Devices : DeleteDevice(d)
    \/ Restart

Spec == Init /\ [][Next]_taskVars

-----------------------------------------------------------------------------
(* Properties *)

\* A task that is said to be queued or running has its goroutine, unless a note of
\* it was lost or the process stopped under it: only those stay "running" for ever.
OpenTasksRun ==
    \A id \in TaskIds :
        taskRow[id] # None /\ taskRow[id].status \notin Ended /\ id \notin lostNotes =>
            \E q \in Requests : Runs(q, id)

\* A task that has ended has no goroutine left that could write another end, and a
\* row is written by the one runner of its task, whatever devices and rows were
\* deleted and made while commands ran on.
EndsAreTheirOwn ==
    \A id \in TaskIds :
        taskRow[id] # None =>
            /\ taskRow[id].status \in Ended => \A q \in Requests : ~Runs(q, id)
            /\ \A q \in Requests : Runs(q, id) => runner[q].device = taskRow[id].device
            /\ \A p, q \in Requests : Runs(p, id) /\ Runs(q, id) => p = q
=============================================================================
