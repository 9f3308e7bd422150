------------------------------ MODULE KeyStore ------------------------------
(***************************************************************************)
(* Stored SSH keys (internal/keys, table ssh_keys, the /api/ssh-keys       *)
(* handlers) and the operations that borrow one: tasks, backups,           *)
(* re-provisioning and the collectors read the ssh_key field of a device   *)
(* record, later resolve it to a temporary file with the decrypted key,    *)
(* run ssh with that file, and remove it.                                  *)
(*                                                                         *)
(* Key material is a model value that stands for the PEM text; a stored    *)
(* row holds it sealed with the secret the process was started with.  A    *)
(* device's field holds the number of a stored key, or 0 for no key (paths *)
(* in the file system are used as they are and left out).                  *)
(***************************************************************************)
EXTENDS Naturals, FiniteSets

CONSTANTS
    Devices,    \* devices whose ssh_key field is considered
    Materials,  \* private keys users may paste
    Secrets,    \* values of PULSEOPS_KEY_SECRET
    None,       \* no material, no secret
    Ops,        \* operations that may use a key at the same time
    MaxKey,     \* bound: key identifiers handed out
    MaxStops    \* bound: how often the process stops

ASSUME NoneAssumption == None \notin Materials \cup Secrets
ASSUME BoundAssumption == MaxKey \in Nat /\ MaxStops \in Nat

VARIABLES
    keys,     \* ssh_keys: the row of each identifier
    nextKey,  \* sqlite_sequence: the next AUTOINCREMENT identifier
    ref,      \* devices.ssh_key
    secret,   \* the secret of the running process
    dir,      \* keyDir as dirOnce left it
    files,    \* the temporary key files, by the operation that made them
    op,       \* the operations
    left,     \* material in files that a stop of the process left behind
    stops     \* how often the process has stopped

vars == <<keys, nextKey, ref, secret, dir, files, op, left, stops>>

KeyIds == 1..MaxKey

NoRow == [pem |-> None, sealed |-> None]
Row == [pem : Materials, sealed : Secrets]

\* History: issued tells whether the number had been handed out when the
\* record was read, want the material it named then, None if deleted.
Idle == [at |-> "idle", key |-> 0, issued |-> FALSE, want |-> None]

TypeOK ==
    /\ keys \in [KeyIds -> Row \cup {NoRow}]
    /\ nextKey \in 1..(MaxKey + 1)
    /\ ref \in [Devices -> KeyIds \cup {0}]
    /\ secret \in Secrets
    /\ dir \in {"untried", "made", "missing"}
    /\ files \in [Ops -> Materials \cup {None}]
    /\ op \in [Ops -> [at : {"idle", "read", "opened", "using"},
                       key : KeyIds \cup {0}, issued : BOOLEAN,
                       want : Materials \cup {None}]]
    /\ left \subseteq Materials
    /\ stops \in 0..MaxStops

Stored(k) == keys[k] # NoRow

Init ==
    /\ keys = [k \in KeyIds |-> NoRow]
    /\ nextKey = 1
    /\ ref = [d \in Devices |-> 0]
    /\ secret \in Secrets
    /\ dir = "untried"
    /\ files = [o \in Ops |-> None]
    /\ op = [o \in Ops |-> Idle]
    /\ left = {}
    /\ stops = 0

-----------------------------------------------------------------------------
(* The handlers.                                                           *)

\* Mutant: no AUTOINCREMENT, the identifier is one above the largest in use.
SaveKeyAtMaxRowid(m) ==
    \E k \in KeyIds :
        /\ \A j \in KeyIds : Stored(j) => j < k
        /\ k > 1 => Stored(k - 1)
        /\ keys' = [keys EXCEPT ![k] = [pem |-> m, sealed |-> secret]]
        /\ nextKey' = IF k < nextKey THEN nextKey ELSE k + 1
        /\ UNCHANGED <<ref, secret, dir, files, op, left, stops>>

\* Mutant: the key is stored without encrypt.
SaveKeyInClear(m) ==
    /\ nextKey <= MaxKey
    /\ keys' = [keys EXCEPT ![nextKey] = [pem |-> m, sealed |-> None]]
    /\ nextKey' = nextKey + 1
    /\ UNCHANGED <<ref, secret, dir, files, op, left, stops>>

\* POST /api/ssh-keys: one INSERT of the sealed key under a fresh identifier.
SaveKey(m) ==
    /\ nextKey <= MaxKey
    /\ keys' = [keys EXCEPT ![nextKey] = [pem |-> m, sealed |-> secret]]
    /\ nextKey' = nextKey + 1
    /\ UNCHANGED <<ref, secret, dir, files, op, left, stops>>

\* DELETE /api/ssh-keys/{id}: no look at the devices that use the key.
DeleteKey(k) ==
    /\ Stored(k)
    /\ keys' = [keys EXCEPT ![k] = NoRow]
    /\ UNCHANGED <<nextKey, ref, secret, dir, files, op, left, stops>>

\* POST, PUT and import of devices store the reference unchecked: the key may
\* be gone, or not exist yet when the devices come from another installation.
Assign(d, k) ==
    /\ k # ref[d]
    /\ ref' = [ref EXCEPT ![d] = k]
    /\ UNCHANGED <<keys, nextKey, secret, dir, files, op, left, stops>>

-----------------------------------------------------------------------------
(* An operation on a device.                                               *)

Goto(o, step) == op' = [op EXCEPT ![o].at = step]

\* The device record is read: by the operation itself, or long ago by the
\* sync of the scheduler.  A record without a key needs no file.
ReadRecord(o, d) ==
    /\ op[o].at = "idle"
    /\ ref[d] # 0
    /\ op' = [op EXCEPT ![o] = [at |-> "read", key |-> ref[d],
                                issued |-> ref[d] < nextKey,
                                want |-> keys[ref[d]].pem]]
    /\ UNCHANGED <<keys, nextKey, ref, secret, dir, files, left, stops>>

\* ensureDir tries to make the directory once in the life of the process: a
\* failure is reported to the first caller and success to all others.
EnsureDir ==
    \/ dir = "untried" /\ dir' \in {"made", "missing"}
    \/ dir # "untried" /\ UNCHANGED dir

\* GetDecryptedKey succeeds: the row is there, sealed with this secret.
Opens(k) == keys[k].sealed = secret

\* ResolvePath up to CreateTemp: the directory, the row, the empty file.
Resolve(o) ==
    /\ op[o].at = "read"
    /\ EnsureDir
    /\ IF dir' = "made" /\ Opens(op[o].key)
       THEN /\ files' = [files EXCEPT ![o] = keys[op[o].key].pem]
            /\ Goto(o, "opened")
       ELSE /\ op' = [op EXCEPT ![o] = Idle]
            /\ UNCHANGED files
    /\ UNCHANGED <<keys, nextKey, ref, secret, left, stops>>

\* CreateTemp fails (no space, a directory removed from outside).
CreateTempFails(o) ==
    /\ op[o].at = "read"
    /\ EnsureDir
    /\ op' = [op EXCEPT ![o] = Idle]
    /\ UNCHANGED <<keys, nextKey, ref, secret, files, left, stops>>

\* Chmod, WriteString and Close succeed: the path goes to the caller.
Write(o) ==
    /\ op[o].at = "opened"
    /\ Goto(o, "using")
    /\ UNCHANGED <<keys, nextKey, ref, secret, dir, files, left, stops>>

\* Mutant: the error paths return without os.Remove.
WriteFailsKeeping(o) ==
    /\ op[o].at = "opened"
    /\ op' = [op EXCEPT ![o] = Idle]
    /\ UNCHANGED <<keys, nextKey, ref, secret, dir, files, left, stops>>

\* One of them fails: the file is removed on each error path.
WriteFails(o) ==
    /\ op[o].at = "opened"
    /\ op' = [op EXCEPT ![o] = Idle]
    /\ files' = [files EXCEPT ![o] = None]
    /\ UNCHANGED <<keys, nextKey, ref, secret, dir, left, stops>>

\* The operation ends, well or not: its deferred cleanup removes the file.
Cleanup(o) ==
    /\ op[o].at = "using"
    /\ op' = [op EXCEPT ![o] = Idle]
    /\ files' = [files EXCEPT ![o] = None]
    /\ UNCHANGED <<keys, nextKey, ref, secret, dir, left, stops>>

\* The process stops, by a signal or a crash, and starts again, perhaps with
\* another secret.  Nothing waits for tasks and handlers, no deferred call of
\* theirs runs, and the start looks at no file; a directory made stays.
Restart(s) ==
    /\ stops < MaxStops
    /\ stops' = stops + 1
    /\ secret' = s
    /\ dir' = "untried"
    /\ left' = left \cup ({files[o] : o \in Ops} \ {None})
    /\ files' = [o \in Ops |-> None]
    /\ op' = [o \in Ops |-> Idle]
    /\ UNCHANGED <<keys, nextKey, ref>>

-----------------------------------------------------------------------------

Operation(o) ==
    \/ \E d \in Devices : ReadRecord(o, d)
    \/ Resolve(o)
    \/ CreateTempFails(o)
    \/ Write(o)
    \/ WriteFails(o)
    \/ Cleanup(o)

Next ==
    \/ \E m \in Materials : SaveKey(m)
    \/ \E k \in KeyIds : DeleteKey(k)
    \/ \E d \in Devices, k \in KeyIds \cup {0} : Assign(d, k)
    \/ \E o \in Ops : Operation(o)
    \/ \E s \in Secrets : Restart(s)

Spec == Init /\ [][Next]_vars

-----------------------------------------------------------------------------
(* Properties.                                                             *)

\* An operation works with the key its record named when it was read, however
\* late it resolves it and whatever was deleted and stored in between: a
\* number never comes to mean another key.  (A number that had not been
\* handed out when the record was read may come to mean a key.)
RightKey ==
    \A o \in Ops : op[o].at \in {"opened", "using"} /\ op[o].issued
                      => files[o] = op[o].want

\* A decrypted key is on disk only while an operation holds it, except for
\* what a stop of the process left behind.
NoFileOutlivesUse ==
    \A o \in Ops : files[o] # None => op[o].at \in {"opened", "using"}
=============================================================================
