--------------------------- MODULE DeviceRegistry ---------------------------
(***************************************************************************)
(* The device registry of PulseOps: the tables devices,                    *)
(* pending_device_deletions and deleted_devices (internal/store), the HTTP *)
(* handlers that change them (internal/server), the deletion sweeper and   *)
(* the start-up pass over the configured devices (internal/scheduler).     *)
(*                                                                         *)
(* The store opens one connection, so every SQL statement, and the one     *)
(* transaction of DeleteDevice, is atomic; everything between two          *)
(* statements interleaves.  An action is one statement together with the   *)
(* Go code that runs up to the next one.  The 20 s grace period is         *)
(* abstracted to four values of a pending row: "none" (no row), "waiting"  *)
(* (the clock is in a second before that of delete_at), "near" (it is in   *)
(* the second of delete_at) and "due" (in a later one).                    *)
(*                                                                         *)
(* The sweeper compares delete_at and the clock as RFC3339Nano text, which *)
(* leaves trailing zeros out: "05.512Z" sorts before "05.5Z" and "05Z".    *)
(* Seconds compare as they should, fractions of one second need not: a     *)
(* "near" row may be read as due before delete_at or missed after it.      *)
(***************************************************************************)
EXTENDS Naturals, FiniteSets

CONSTANTS
    Names,        \* device names
    ConfigNames,  \* the names listed in the configuration file
    NoName,       \* stands for "no such row"
    Requests,     \* HTTP handlers that may run at the same time
    MaxId,        \* bound: identifiers the run may hand out
    MaxCrashes    \* bound: how often the process stops and starts again

ASSUME NamesAssumption ==
    /\ ConfigNames \subseteq Names
    /\ NoName \notin Names
ASSUME BoundAssumption == MaxId \in Nat /\ MaxCrashes \in Nat

VARIABLES
    rowName,     \* devices: the name of each row, NoName where there is none
    nextId,      \* sqlite_sequence: the next AUTOINCREMENT identifier
    pending,     \* pending_device_deletions, by device_id
    tombstones,  \* deleted_devices
    phase,       \* "down", "boot" (before the HTTP server), "serving"
    boot,        \* bootstrapConfigDevices: names to do, current name, step
    sweep,       \* the identifiers the sweeper read as due and has yet to do
    req,         \* the state of each HTTP handler
    crashes,     \* how often the process has stopped
    \* History, read by the properties only:
    overtaken,   \* in the sweeper's list when a handler changed their pending row
    kept,        \* [i] "safe"/"late": restored since it was last scheduled
    gone,        \* names deleted and not created by a request since
    bootTombs    \* deleted_devices as the current process found it

dbVars == <<rowName, nextId, pending, tombstones>>
histVars == <<overtaken, kept, gone, bootTombs>>
vars == <<rowName, nextId, pending, tombstones, phase, boot, sweep, req,
          crashes, overtaken, kept, gone, bootTombs>>

Ids == 1..MaxId

Idle == [at |-> "idle", id |-> 0, name |-> NoName]

Steps == {"idle", "clear", "insert", "update", "drop", "pending",
          "schedule", "cancel"}

NotBooting == [todo |-> {}, name |-> NoName, at |-> "next"]

Exists(i) == rowName[i] # NoName
NameTaken(n) == \E i \in Ids : rowName[i] = n

TypeOK ==
    /\ rowName \in [Ids -> Names \cup {NoName}]
    /\ nextId \in 1..(MaxId + 1)
    /\ pending \in [Ids -> {"none", "waiting", "near", "due"}]
    /\ tombstones \subseteq Names
    /\ phase \in {"down", "boot", "serving"}
    /\ boot \in [todo : SUBSET Names, name : Names \cup {NoName},
                 at : {"next", "clear", "insert"}]
    /\ sweep \subseteq Ids
    /\ req \in [Requests -> [at : Steps, id : Ids \cup {0},
                             name : Names \cup {NoName}]]
    /\ crashes \in 0..MaxCrashes
    /\ overtaken \subseteq sweep
    /\ kept \in [Ids -> {"no", "safe", "late"}]
    /\ gone \subseteq Names
    /\ bootTombs \subseteq Names

Init ==
    /\ rowName = [i \in Ids |-> NoName]
    /\ nextId = 1
    /\ pending = [i \in Ids |-> "none"]
    /\ tombstones = {}
    /\ phase = "down"
    /\ boot = NotBooting
    /\ sweep = {}
    /\ req = [r \in Requests |-> Idle]
    /\ crashes = 0
    /\ overtaken = {}
    /\ kept = [i \in Ids |-> "no"]
    /\ gone = {}
    /\ bootTombs = {}

-----------------------------------------------------------------------------
(* Store statements (internal/store/sqlite.go).                            *)

\* Mutant: no AUTOINCREMENT, the identifier is one above the largest in use.
InsertAtMaxRowid(n) ==
    \E i \in Ids :
        /\ ~NameTaken(n)
        /\ \A j \in Ids : Exists(j) => j < i
        /\ i > 1 => Exists(i - 1)
        /\ rowName' = [rowName EXCEPT ![i] = n]
        /\ nextId' = IF i < nextId THEN nextId ELSE i + 1

\* INSERT INTO devices: a fresh identifier, never one used before.
Insert(n) ==
    /\ nextId <= MaxId
    /\ ~NameTaken(n)
    /\ rowName' = [rowName EXCEPT ![nextId] = n]
    /\ nextId' = nextId + 1

\* UPDATE devices SET name=... WHERE id=?: no row is no error; a name that
\* another row holds fails the UNIQUE constraint and changes nothing.
UpdateDevice(i, n) ==
    rowName' = IF Exists(i) /\ \A j \in Ids \ {i} : rowName[j] # n
               THEN [rowName EXCEPT ![i] = n] ELSE rowName

\* Mutant: the name is selected after the row has been deleted.
DeleteDeviceNameLate(i) ==
    /\ Exists(i)
    /\ rowName' = [rowName EXCEPT ![i] = NoName]
    /\ pending' = [pending EXCEPT ![i] = "none"]
    /\ tombstones' = tombstones \cup {rowName'[i]}
    /\ gone' = gone \cup {rowName[i]}
    /\ kept' = [kept EXCEPT ![i] = "no"]

\* The transaction of DeleteDevice: it fails when the row is already gone.
DeleteDevice(i) ==
    /\ Exists(i)
    /\ rowName' = [rowName EXCEPT ![i] = NoName]
    /\ pending' = [pending EXCEPT ![i] = "none"]
    /\ tombstones' = tombstones \cup {rowName[i]}
    /\ gone' = gone \cup {rowName[i]}
    /\ kept' = [kept EXCEPT ![i] = "no"]

\* Mutant: the WHERE clause is missing.
AllDeviceDeletions == {{i \in Ids : pending[i] # "none"}}

\* SELECT ... WHERE delete_at<=now, a comparison of texts: the sets it may return.
DueDeviceDeletions ==
    LET due  == {i \in Ids : pending[i] = "due"}
        near == {i \in Ids : pending[i] = "near"}
    IN  {due \cup early : early \in SUBSET near}

-----------------------------------------------------------------------------
(* HTTP handlers.  The first statement is taken with the request's arrival. *)

Serving(r, step) == phase = "serving" /\ req[r].at = step
Goto(r, step, i, n) ==
    req' = [req EXCEPT ![r] = [at |-> step, id |-> i, name |-> n]]
Finish(r) == req' = [req EXCEPT ![r] = Idle]

\* POST /api/devices: DeviceExists; a taken name is answered 409.
CreateExists(r, n) ==
    /\ Serving(r, "idle")
    /\ ~NameTaken(n)
    /\ Goto(r, "clear", 0, n)
    /\ UNCHANGED <<dbVars, phase, boot, sweep, crashes, histVars>>

\* POST /api/devices/import, one entry: SELECT id ... WHERE name=?
ImportSelect(r, n) ==
    /\ Serving(r, "idle")
    /\ \/ \E i \in Ids : rowName[i] = n /\ Goto(r, "update", i, n)
       \/ ~NameTaken(n) /\ Goto(r, "clear", 0, n)
    /\ UNCHANGED <<dbVars, phase, boot, sweep, crashes, histVars>>

ImportUpdate(r) ==
    /\ Serving(r, "update")
    /\ UpdateDevice(req[r].id, req[r].name)
    /\ Finish(r)
    /\ UNCHANGED <<nextId, pending, tombstones, phase, boot, sweep, crashes,
                   histVars>>

\* CreateDevice, first statement: clearDeletedDevice.
CreateClear(r) ==
    /\ Serving(r, "clear")
    /\ tombstones' = tombstones \ {req[r].name}
    /\ gone' = gone \ {req[r].name}
    /\ Goto(r, "insert", 0, req[r].name)
    /\ UNCHANGED <<rowName, nextId, pending, phase, boot, sweep, crashes,
                   overtaken, kept, bootTombs>>

\* CreateDevice, second statement.  A row of that name inserted meanwhile
\* fails the UNIQUE constraint: that outcome is RequestFails.
CreateInsert(r) ==
    /\ Serving(r, "insert")
    /\ Insert(req[r].name)
    /\ Finish(r)
    /\ UNCHANGED <<pending, tombstones, phase, boot, sweep, crashes, histVars>>

\* PUT /api/devices/{id}: UpdateDevice is its only statement.
Put(r, i, n) ==
    /\ Serving(r, "idle")
    /\ UpdateDevice(i, n)
    /\ UNCHANGED <<nextId, pending, tombstones, phase, boot, sweep, req,
                   crashes, histVars>>

\* DELETE /api/devices/{id}: GetDevice, then the immediate or the delayed way.
DeleteGet(r, i, immediate) ==
    /\ Serving(r, "idle")
    /\ Exists(i)
    /\ Goto(r, IF immediate THEN "drop" ELSE "pending", i, NoName)
    /\ UNCHANGED <<dbVars, phase, boot, sweep, crashes, histVars>>

DeleteNow(r) ==
    /\ Serving(r, "drop")
    /\ DeleteDevice(req[r].id)
    /\ Finish(r)
    /\ UNCHANGED <<nextId, phase, boot, sweep, crashes, overtaken, bootTombs>>

\* GetPendingDeviceDeletion: an existing row is answered 409.
DeleteCheckPending(r) ==
    /\ Serving(r, "pending")
    /\ IF pending[req[r].id] = "none"
       THEN Goto(r, "schedule", req[r].id, NoName) ELSE Finish(r)
    /\ UNCHANGED <<dbVars, phase, boot, sweep, crashes, histVars>>

\* History: the pending row of i is replaced or removed by a handler.
Replan(i) == overtaken' = overtaken \cup (sweep \cap {i})

\* ScheduleDeviceDeletion: an upsert, whether or not the device still exists.
DeleteSchedule(r) ==
    /\ Serving(r, "schedule")
    /\ pending' = [pending EXCEPT ![req[r].id] = "waiting"]
    /\ Replan(req[r].id)
    /\ kept' = [kept EXCEPT ![req[r].id] = "no"]
    /\ Finish(r)
    /\ UNCHANGED <<rowName, nextId, tombstones, phase, boot, sweep, crashes,
                   gone, bootTombs>>

\* POST /api/devices/restore: GetDevice, then CancelDeviceDeletion.
RestoreGet(r, i) ==
    /\ Serving(r, "idle")
    /\ Exists(i)
    /\ Goto(r, "cancel", i, NoName)
    /\ UNCHANGED <<dbVars, phase, boot, sweep, crashes, histVars>>

\* Mutant: only a row whose grace period still runs is deleted.
RestoreCancelWaiting(r) ==
    LET i == req[r].id IN
    /\ Serving(r, "cancel")
    /\ pending' = [pending EXCEPT ![i] = IF @ = "waiting" THEN "none" ELSE @]
    /\ Replan(i)
    /\ kept' = IF pending[i] = "none" THEN kept
               ELSE [kept EXCEPT ![i] = IF i \in sweep THEN "late" ELSE "safe"]
    /\ Finish(r)
    /\ UNCHANGED <<rowName, nextId, tombstones, phase, boot, sweep, crashes,
                   gone, bootTombs>>

\* A deleted row is answered {"restored": id}, none is answered 404.
RestoreCancel(r) ==
    LET i == req[r].id IN
    /\ Serving(r, "cancel")
    /\ pending' = [pending EXCEPT ![i] = "none"]
    /\ Replan(i)
    /\ kept' = IF pending[i] = "none" THEN kept
               ELSE [kept EXCEPT ![i] = IF i \in sweep THEN "late" ELSE "safe"]
    /\ Finish(r)
    /\ UNCHANGED <<rowName, nextId, tombstones, phase, boot, sweep, crashes,
                   gone, bootTombs>>

\* A statement fails (constraint, disk) and the handler answers an error:
\* what its earlier statements did stays done.
RequestFails(r) ==
    /\ phase = "serving"
    /\ req[r].at # "idle"
    /\ Finish(r)
    /\ UNCHANGED <<dbVars, phase, boot, sweep, crashes, histVars>>

-----------------------------------------------------------------------------
(* The deletion sweeper: every second, read the due rows, then delete them  *)
(* one by one.  RegisterRoutes starts it before the start-up pass.          *)

\* Mutant: one pass at start-up, no ticker.
SweepReadAtStart ==
    /\ phase = "boot"
    /\ sweep = {}
    /\ sweep' \in DueDeviceDeletions \ {{}}
    /\ UNCHANGED <<dbVars, phase, boot, req, crashes, histVars>>

SweepRead ==
    /\ phase # "down"
    /\ sweep = {}
    /\ sweep' \in DueDeviceDeletions \ {{}}
    /\ UNCHANGED <<dbVars, phase, boot, req, crashes, histVars>>

LeaveSweep(i) ==
    /\ sweep' = sweep \ {i}
    /\ overtaken' = overtaken \ {i}

SweepDelete(i) ==
    /\ phase # "down"
    /\ i \in sweep
    /\ LeaveSweep(i)
    /\ DeleteDevice(i)
    /\ UNCHANGED <<nextId, phase, boot, req, crashes, bootTombs>>

\* DeleteDevice failed (the row is gone, or the database erred): the error
\* is logged, the loop goes on, and the row waits for the next tick.
SweepDeleteFails(i) ==
    /\ phase # "down"
    /\ i \in sweep
    /\ LeaveSweep(i)
    /\ UNCHANGED <<dbVars, phase, boot, req, crashes, kept, gone, bootTombs>>

\* The wall clock enters the second of delete_at, then leaves it, whether or
\* not the process runs.
GraceLapses(i) ==
    /\ pending[i] \in {"waiting", "near"}
    /\ pending' = [pending EXCEPT ![i] = IF @ = "waiting" THEN "near" ELSE "due"]
    /\ UNCHANGED <<rowName, nextId, tombstones, phase, boot, sweep, req,
                   crashes, overtaken, kept, gone, bootTombs>>

-----------------------------------------------------------------------------
(* Process start, bootstrapConfigDevices, and stop.                        *)

Start ==
    /\ phase = "down"
    /\ phase' = "boot"
    /\ boot' = [todo |-> ConfigNames, name |-> NoName, at |-> "next"]
    /\ bootTombs' = tombstones
    /\ UNCHANGED <<dbVars, sweep, req, crashes, overtaken, kept, gone>>

Booting(step) == phase = "boot" /\ boot.at = step
BootNext == boot' = [todo |-> boot.todo, name |-> NoName, at |-> "next"]

\* Mutant: no IsDeviceDeleted.
BootNoCheck(n) ==
    /\ Booting("next")
    /\ n \in boot.todo
    /\ boot' = [todo |-> boot.todo \ {n}, name |-> n, at |-> "clear"]
    /\ UNCHANGED <<dbVars, phase, sweep, req, crashes, histVars>>

\* IsDeviceDeleted: a tombstoned name is skipped, others go to UpsertDevice.
BootCheck(n) ==
    /\ Booting("next")
    /\ n \in boot.todo
    /\ boot' = IF n \in tombstones
               THEN [boot EXCEPT !.todo = @ \ {n}]
               ELSE [todo |-> boot.todo \ {n}, name |-> n, at |-> "clear"]
    /\ UNCHANGED <<dbVars, phase, sweep, req, crashes, histVars>>

\* UpsertDevice, first statement: clearDeletedDevice.
BootClear ==
    /\ Booting("clear")
    /\ tombstones' = tombstones \ {boot.name}
    /\ boot' = [boot EXCEPT !.at = "insert"]
    /\ UNCHANGED <<rowName, nextId, pending, phase, sweep, req, crashes,
                   histVars>>

\* Mutant: INSERT OR REPLACE.
BootReplace ==
    /\ Booting("insert")
    /\ nextId <= MaxId
    /\ rowName' = [i \in Ids |-> IF i = nextId THEN boot.name
                                ELSE IF rowName[i] = boot.name THEN NoName
                                ELSE rowName[i]]
    /\ nextId' = nextId + 1
    /\ BootNext
    /\ UNCHANGED <<pending, tombstones, phase, sweep, req, crashes, histVars>>

\* UpsertDevice, second statement: INSERT OR IGNORE.
BootInsert ==
    /\ Booting("insert")
    /\ IF NameTaken(boot.name) THEN UNCHANGED <<rowName, nextId>>
                               ELSE Insert(boot.name)
    /\ BootNext
    /\ UNCHANGED <<pending, tombstones, phase, sweep, req, crashes, histVars>>

\* A statement of the pass fails, be it IsDeviceDeleted or one of
\* UpsertDevice: it is logged, and the next name is tried.
BootFails ==
    /\ phase = "boot"
    /\ \/ /\ boot.at = "next"
          /\ \E n \in boot.todo : boot' = [boot EXCEPT !.todo = @ \ {n}]
       \/ /\ boot.at # "next"
          /\ BootNext
    /\ UNCHANGED <<dbVars, phase, sweep, req, crashes, histVars>>

\* The pass is over and the HTTP server starts.
BootDone ==
    /\ Booting("next")
    /\ boot.todo = {}
    /\ phase' = "serving"
    /\ UNCHANGED <<dbVars, boot, sweep, req, crashes, histVars>>

\* The process ends, by a signal or a crash: the handlers and the sweeper
\* end wherever they are (nothing waits for them), the database stays.
Crash ==
    /\ phase # "down"
    /\ crashes < MaxCrashes
    /\ crashes' = crashes + 1
    /\ phase' = "down"
    /\ boot' = NotBooting
    /\ sweep' = {}
    /\ overtaken' = {}
    /\ req' = [r \in Requests |-> Idle]
    /\ UNCHANGED <<dbVars, kept, gone, bootTombs>>

-----------------------------------------------------------------------------

Handler(r) ==
    \/ \E n \in Names : CreateExists(r, n) \/ ImportSelect(r, n)
    \/ ImportUpdate(r)
    \/ CreateClear(r)
    \/ CreateInsert(r)
    \/ \E i \in Ids, n \in Names : Put(r, i, n)
    \/ \E i \in Ids, immediate \in BOOLEAN : DeleteGet(r, i, immediate)
    \/ DeleteNow(r)
    \/ DeleteCheckPending(r)
    \/ DeleteSchedule(r)
    \/ \E i \in Ids : RestoreGet(r, i)
    \/ RestoreCancel(r)
    \/ RequestFails(r)

Boot ==
    \/ \E n \in ConfigNames : BootCheck(n)
    \/ BootClear
    \/ BootInsert
    \/ BootFails
    \/ BootDone

Sweeper == SweepRead \/ \E i \in Ids : SweepDelete(i) \/ SweepDeleteFails(i)

Next ==
    \/ \E r \in Requests : Handler(r)
    \/ Sweeper
    \/ \E i \in Ids : GraceLapses(i)
    \/ Start
    \/ Boot
    \/ Crash

Spec == Init /\ [][Next]_vars

\* The supervisor restarts the process; the start-up pass and the sweeper are
\* goroutines that always run on; time passes; and a deletion the sweeper
\* attempts again and again does not fail each time.  Handlers get none.
Fairness ==
    /\ WF_vars(Start)
    /\ WF_vars(Boot)
    /\ WF_vars(Sweeper)
    /\ \A i \in Ids : WF_vars(GraceLapses(i)) /\ SF_vars(SweepDelete(i))

FairSpec == Spec /\ Fairness

-----------------------------------------------------------------------------
(* Properties.                                                             *)

Removed(i) == Exists(i) /\ rowName'[i] = NoName
SweptNow(i) == Removed(i) /\ i \in sweep /\ i \notin sweep'

\* An identifier whose device is gone never names a device again.  The
\* sweeper's list, the handlers and the scheduler hold identifiers across
\* statements, so a reused one would delete or edit the wrong device.
IdsNeverReused ==
    [][\A i \in Ids : i < nextId /\ ~Exists(i) => rowName'[i] = NoName]_vars

\* The sweeper removes a device no earlier than in the second of the delete_at
\* that was scheduled last, unless a handler cancelled or replaced the schedule
\* after the sweeper had read its list and before it came to this device (what
\* happens then is RestoreHolds).  A grace period that was cancelled, or that a
\* new one replaced, counts for nothing, and the comparison of texts is never
\* wrong by a second or more.
SweepHonoursGrace ==
    [][\A i \in Ids : SweptNow(i) => pending[i] \in {"near", "due"} \/ i \in overtaken]_vars

\* A device whose restore was answered while the sweeper did not yet hold it
\* in its list is not removed by the sweeper until it is scheduled again.
RestoreHoldsOutsideSweep ==
    [][\A i \in Ids : SweptNow(i) => kept[i] # "safe"]_vars

\* A device whose restore was answered is not removed by the sweeper until it
\* is scheduled again, whenever the restore came.
RestoreHolds ==
    [][\A i \in Ids : SweptNow(i) => kept[i] = "no"]_vars

\* The start-up pass never inserts a configured device whose name the process
\* found in deleted_devices when it started.
StartupHonoursTombstones ==
    [][\A i \in Ids : phase = "boot" /\ ~Exists(i) /\ rowName'[i] # NoName
            => rowName'[i] \notin bootTombs]_vars

\* The start-up pass never brings back a device that was deleted and that no
\* request has created since.
StartupNeverResurrects ==
    [][\A i \in Ids : phase = "boot" /\ ~Exists(i) /\ rowName'[i] # NoName
            => rowName'[i] \notin gone]_vars

\* Every pending deletion refers to a device, as its foreign key declares.
PendingHasDevice == \A i \in Ids : pending[i] # "none" => Exists(i)

\* A scheduled deletion ends: the device is removed or restored.
ScheduledDeletionEnds ==
    \A i \in Ids : Exists(i) /\ pending[i] # "none"
                     ~> ~Exists(i) \/ pending[i] = "none"

\* The registry implements the life cycle of device identifiers.
LifeOf(i) ==
    IF Exists(i) THEN IF pending[i] = "none" THEN "live" ELSE "doomed"
    ELSE IF i < nextId THEN "gone" ELSE "unborn"
lifeOf == [i \in Ids |-> LifeOf(i)]

Lifecycle == INSTANCE DeviceLifecycle WITH status <- lifeOf
ImplementsLifecycle == Lifecycle!LifeSpec

=============================================================================
