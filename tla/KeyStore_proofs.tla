--------------------------- MODULE KeyStore_proofs ---------------------------
(***************************************************************************)
(* Proofs about KeyStore, for every set of devices, keys, secrets and      *)
(* operations.                                                             *)
(***************************************************************************)
EXTENDS KeyStore, TLAPS

\* Identifiers that have not been handed out name no row.
UnissuedIsFree == \A k \in KeyIds : k >= nextKey => keys[k] = NoRow

\* Between reading the record and resolving it, a number that had been handed
\* out names the key it named then, or no key any more.
ReadNamesSame ==
    \A o \in Ops : op[o].at = "read" /\ op[o].issued =>
        /\ op[o].key < nextKey
        /\ keys[op[o].key] = NoRow \/ keys[op[o].key].pem = op[o].want

\* An operation that has not idled away has a number of a key.
BusyHasKey == \A o \in Ops : op[o].at # "idle" => op[o].key \in KeyIds

\* The inductive invariant.
KeyInv ==
    /\ TypeOK
    /\ UnissuedIsFree
    /\ ReadNamesSame
    /\ BusyHasKey
    /\ RightKey
    /\ NoFileOutlivesUse

\* What the numbers and the two rows of None are.
LEMMA Basics ==
    /\ MaxKey \in Nat /\ MaxStops \in Nat
    /\ None \notin Materials /\ None \notin Secrets
    /\ 0 \notin KeyIds
    /\ KeyIds \subseteq Nat
  BY NoneAssumption, BoundAssumption DEF KeyIds

LEMMA InitKeyInv == Init => KeyInv
<1> SUFFICES ASSUME Init PROVE KeyInv
  OBVIOUS
<1>1. TypeOK
  BY Basics DEF Init, TypeOK, NoRow, Idle, KeyIds
<1>2. UnissuedIsFree
  BY DEF Init, UnissuedIsFree
<1>3. ReadNamesSame /\ BusyHasKey /\ RightKey /\ NoFileOutlivesUse
  BY DEF Init, ReadNamesSame, BusyHasKey, RightKey, NoFileOutlivesUse, Idle
<1> QED
  BY <1>1, <1>2, <1>3 DEF KeyInv

-----------------------------------------------------------------------------
(* Steps that change rows or records but no operation.                     *)

LEMMA SaveKeyPreserves ==
    ASSUME KeyInv, NEW m \in Materials, SaveKey(m)
    PROVE  KeyInv'
<1> DEFINE row == [pem |-> m, sealed |-> secret]
<1>0. /\ nextKey \in KeyIds /\ nextKey \in Nat
      /\ row \in Row
      /\ keys \in [KeyIds -> Row \cup {NoRow}]
      /\ nextKey' = nextKey + 1
      /\ keys' = [keys EXCEPT ![nextKey] = row]
      /\ UNCHANGED <<ref, secret, dir, files, op, left, stops>>
  BY Basics DEF KeyInv, TypeOK, SaveKey, KeyIds, Row
<1>1. TypeOK'
  <2>1. keys' \in [KeyIds -> Row \cup {NoRow}]
    BY <1>0
  <2>2. nextKey' \in 1..(MaxKey + 1)
    BY <1>0, Basics DEF SaveKey, KeyIds
  <2> QED
    BY <1>0, <2>1, <2>2 DEF KeyInv, TypeOK
<1>2. UnissuedIsFree'
  BY <1>0, Basics DEF KeyInv, UnissuedIsFree
<1>3. ReadNamesSame'
  <2> SUFFICES ASSUME NEW o \in Ops, op[o].at = "read", op[o].issued
               PROVE  /\ op[o].key < nextKey'
                      /\ \/ keys'[op[o].key] = NoRow
                         \/ keys'[op[o].key].pem = op[o].want
    BY <1>0 DEF ReadNamesSame
  <2>1. op[o].key < nextKey /\ op[o].key \in KeyIds
    BY DEF KeyInv, ReadNamesSame, BusyHasKey
  <2>2. keys[op[o].key] = NoRow \/ keys[op[o].key].pem = op[o].want
    BY DEF KeyInv, ReadNamesSame
  <2>3. op[o].key \in Nat /\ op[o].key # nextKey
    <3>1. op[o].key \in Nat
      BY <2>1, Basics
    <3> QED
      BY <1>0, <2>1, <3>1
  <2>4. keys'[op[o].key] = keys[op[o].key]
    BY <1>0, <2>1, <2>3
  <2>5. op[o].key < nextKey'
    BY <1>0, <2>1, <2>3
  <2> QED
    BY <2>2, <2>4, <2>5
<1>4. BusyHasKey' /\ RightKey' /\ NoFileOutlivesUse'
  BY <1>0 DEF KeyInv, BusyHasKey, RightKey, NoFileOutlivesUse
<1> QED
  BY <1>1, <1>2, <1>3, <1>4 DEF KeyInv

LEMMA DeleteKeyPreserves ==
    ASSUME KeyInv, NEW k \in KeyIds, DeleteKey(k)
    PROVE  KeyInv'
<1>0. /\ keys' = [keys EXCEPT ![k] = NoRow]
      /\ keys \in [KeyIds -> Row \cup {NoRow}]
      /\ UNCHANGED <<nextKey, ref, secret, dir, files, op, left, stops>>
  BY DEF KeyInv, TypeOK, DeleteKey
<1>1. TypeOK'
  BY <1>0 DEF KeyInv, TypeOK
<1>2. UnissuedIsFree'
  BY <1>0 DEF KeyInv, UnissuedIsFree
<1>3. ReadNamesSame'
  BY <1>0 DEF KeyInv, ReadNamesSame, BusyHasKey
<1>4. BusyHasKey' /\ RightKey' /\ NoFileOutlivesUse'
  BY <1>0 DEF KeyInv, BusyHasKey, RightKey, NoFileOutlivesUse
<1> QED
  BY <1>1, <1>2, <1>3, <1>4 DEF KeyInv

LEMMA AssignPreserves ==
    ASSUME KeyInv, NEW d \in Devices, NEW k \in KeyIds \cup {0}, Assign(d, k)
    PROVE  KeyInv'
<1>0. /\ ref' = [ref EXCEPT ![d] = k]
      /\ UNCHANGED <<keys, nextKey, secret, dir, files, op, left, stops>>
  BY DEF Assign
<1>1. TypeOK'
  BY <1>0 DEF KeyInv, TypeOK
<1>2. UnissuedIsFree' /\ ReadNamesSame' /\ BusyHasKey' /\ RightKey'
        /\ NoFileOutlivesUse'
  BY <1>0 DEF KeyInv, UnissuedIsFree, ReadNamesSame, BusyHasKey, RightKey,
              NoFileOutlivesUse
<1> QED
  BY <1>1, <1>2 DEF KeyInv

LEMMA RestartPreserves ==
    ASSUME KeyInv, NEW s \in Secrets, Restart(s)
    PROVE  KeyInv'
<1>0. /\ files' = [o \in Ops |-> None]
      /\ op' = [o \in Ops |-> Idle]
      /\ UNCHANGED <<keys, nextKey, ref>>
  BY DEF Restart
<1>1. TypeOK'
  <2>1. {files[o] : o \in Ops} \ {None} \subseteq Materials
    BY DEF KeyInv, TypeOK
  <2>2. stops' \in 0..MaxStops
    BY Basics DEF KeyInv, TypeOK, Restart
  <2> QED
    BY <1>0, <2>1, <2>2 DEF KeyInv, TypeOK, Restart, Idle
<1>2. UnissuedIsFree'
  BY <1>0 DEF KeyInv, UnissuedIsFree
<1>3. ReadNamesSame' /\ BusyHasKey' /\ RightKey' /\ NoFileOutlivesUse'
  BY <1>0 DEF ReadNamesSame, BusyHasKey, RightKey, NoFileOutlivesUse, Idle
<1> QED
  BY <1>1, <1>2, <1>3 DEF KeyInv

-----------------------------------------------------------------------------
(* Steps of an operation.                                                  *)

LEMMA ReadRecordPreserves ==
    ASSUME KeyInv, NEW o \in Ops, NEW d \in Devices, ReadRecord(o, d)
    PROVE  KeyInv'
<1> DEFINE new == [at |-> "read", key |-> ref[d], issued |-> ref[d] < nextKey,
                   want |-> keys[ref[d]].pem]
<1>0. /\ op' = [op EXCEPT ![o] = new]
      /\ ref[d] \in KeyIds
      /\ keys[ref[d]] \in Row \cup {NoRow}
      /\ UNCHANGED <<keys, nextKey, ref, secret, dir, files, left, stops>>
  <2>1. ref[d] \in KeyIds
    BY DEF KeyInv, TypeOK, ReadRecord
  <2> QED
    BY <2>1 DEF KeyInv, TypeOK, ReadRecord
<1>1. TypeOK'
  <2>1. keys[ref[d]].pem \in Materials \cup {None}
    BY <1>0 DEF Row, NoRow
  <2>2. (ref[d] < nextKey) \in BOOLEAN
    OBVIOUS
  <2>3. new \in [at : {"idle", "read", "opened", "using"},
                 key : KeyIds \cup {0}, issued : BOOLEAN,
                 want : Materials \cup {None}]
    BY <1>0, <2>1, <2>2
  <2>4. op' \in [Ops -> [at : {"idle", "read", "opened", "using"},
                         key : KeyIds \cup {0}, issued : BOOLEAN,
                         want : Materials \cup {None}]]
    BY <1>0, <2>3 DEF KeyInv, TypeOK
  <2> QED
    BY <1>0, <2>4 DEF KeyInv, TypeOK
<1>2. UnissuedIsFree'
  BY <1>0 DEF KeyInv, UnissuedIsFree
<1>3. \A p \in Ops : op'[p] = IF p = o THEN new ELSE op[p]
  BY <1>0 DEF KeyInv, TypeOK
<1>4. ReadNamesSame'
  <2> SUFFICES ASSUME NEW p \in Ops, op'[p].at = "read", op'[p].issued
               PROVE  /\ op'[p].key < nextKey
                      /\ \/ keys[op'[p].key] = NoRow
                         \/ keys[op'[p].key].pem = op'[p].want
    BY <1>0 DEF ReadNamesSame
  <2>1. CASE p = o
    <3>1. op'[p] = new
      BY <1>3, <2>1
    <3>2. new.issued
      BY <3>1
    <3>3. ref[d] < nextKey
      BY <3>2, Zenon
    <3>4. op'[p].key = ref[d] /\ op'[p].want = keys[ref[d]].pem
      BY <3>1
    <3> QED
      BY <3>3, <3>4
  <2>2. CASE p # o
    <3>1. op'[p] = op[p]
      BY <1>3, <2>2
    <3> QED
      BY <3>1 DEF KeyInv, ReadNamesSame
  <2> QED
    BY <2>1, <2>2
<1>5. BusyHasKey'
  BY <1>0, <1>3 DEF KeyInv, BusyHasKey
<1>6. RightKey' /\ NoFileOutlivesUse'
  <2>1. \A p \in Ops : op'[p].at \in {"opened", "using"} => p # o
    BY <1>3
  <2>2. op[o].at = "idle" /\ files' = files
    BY DEF ReadRecord
  <2>3. RightKey'
    BY <2>1, <2>2, <1>3 DEF KeyInv, RightKey
  <2>4. files'[o] = None
    BY <2>2 DEF KeyInv, NoFileOutlivesUse
  <2>5. NoFileOutlivesUse'
    BY <2>2, <2>4, <1>3 DEF KeyInv, NoFileOutlivesUse
  <2> QED
    BY <2>3, <2>5
<1> QED
  BY <1>1, <1>2, <1>4, <1>5, <1>6 DEF KeyInv

\* The directory stays one of its three values.
LEMMA EnsureDirType ==
    ASSUME EnsureDir, dir \in {"untried", "made", "missing"}
    PROVE  dir' \in {"untried", "made", "missing"}
  BY DEF EnsureDir

\* An operation that ends and removes its file, if it has one.
LEMMA EndPreserves ==
    ASSUME KeyInv, NEW o \in Ops,
           op' = [op EXCEPT ![o] = Idle],
           files' = [files EXCEPT ![o] = None],
           dir' \in {"untried", "made", "missing"},
           UNCHANGED <<keys, nextKey, ref, secret, left, stops>>
    PROVE  KeyInv'
<1>1. TypeOK'
  BY DEF KeyInv, TypeOK, Idle
<1>2. UnissuedIsFree'
  BY DEF KeyInv, UnissuedIsFree
<1>3. \A p \in Ops : /\ op'[p] = IF p = o THEN Idle ELSE op[p]
                     /\ files'[p] = IF p = o THEN None ELSE files[p]
  BY DEF KeyInv, TypeOK
<1>4. ReadNamesSame' /\ BusyHasKey' /\ RightKey' /\ NoFileOutlivesUse'
  BY <1>3 DEF KeyInv, ReadNamesSame, BusyHasKey, RightKey, NoFileOutlivesUse,
              Idle
<1> QED
  BY <1>1, <1>2, <1>4 DEF KeyInv

\* An operation that has no file ends: that is the same as removing it.
LEMMA NoFileYet ==
    ASSUME KeyInv, NEW o \in Ops, op[o].at = "read"
    PROVE  files = [files EXCEPT ![o] = None]
  BY DEF KeyInv, TypeOK, NoFileOutlivesUse

LEMMA ResolvePreserves ==
    ASSUME KeyInv, NEW o \in Ops, Resolve(o)
    PROVE  KeyInv'
<1>0. /\ op[o].at = "read"
      /\ dir' \in {"untried", "made", "missing"}
      /\ UNCHANGED <<keys, nextKey, ref, secret, left, stops>>
  BY EnsureDirType DEF KeyInv, TypeOK, Resolve
<1>1. CASE dir' = "made" /\ Opens(op[o].key)
  <2>0. /\ files' = [files EXCEPT ![o] = keys[op[o].key].pem]
        /\ op' = [op EXCEPT ![o].at = "opened"]
    BY <1>1 DEF Resolve, Goto
  <2>1. op[o].key \in KeyIds
    BY <1>0 DEF KeyInv, BusyHasKey
  <2>2. keys[op[o].key] \in Row
    <3>1. keys[op[o].key] \in Row \cup {NoRow}
      BY <2>1 DEF KeyInv, TypeOK
    <3>2. keys[op[o].key].sealed = secret /\ secret \in Secrets
      BY <1>1 DEF KeyInv, TypeOK, Opens
    <3>3. NoRow.sealed = None
      BY DEF NoRow
    <3> QED
      BY <3>1, <3>2, <3>3, Basics
  <2>3. keys[op[o].key] # NoRow /\ keys[op[o].key].pem \in Materials
    BY <2>2, Basics DEF Row, NoRow
  <2>4. TypeOK'
    BY <1>0, <2>0, <2>3 DEF KeyInv, TypeOK
  <2>5. \A p \in Ops :
          /\ op'[p] = IF p = o THEN [op[o] EXCEPT !.at = "opened"] ELSE op[p]
          /\ files'[p] = IF p = o THEN keys[op[o].key].pem ELSE files[p]
    BY <2>0 DEF KeyInv, TypeOK
  <2>6. op[o].issued => keys[op[o].key].pem = op[o].want
    BY <1>0, <2>3 DEF KeyInv, ReadNamesSame
  <2>7. /\ op'[o].at = "opened" /\ op'[o].key = op[o].key
        /\ op'[o].issued = op[o].issued /\ op'[o].want = op[o].want
    BY <2>5 DEF KeyInv, TypeOK
  <2>8. UnissuedIsFree' /\ ReadNamesSame' /\ BusyHasKey'
    BY <1>0, <2>1, <2>5, <2>7
      DEF KeyInv, UnissuedIsFree, ReadNamesSame, BusyHasKey
  <2>9. RightKey' /\ NoFileOutlivesUse'
    BY <2>5, <2>6, <2>7 DEF KeyInv, RightKey, NoFileOutlivesUse
  <2> QED
    BY <2>4, <2>8, <2>9 DEF KeyInv
<1>2. CASE ~(dir' = "made" /\ Opens(op[o].key))
  <2>1. op' = [op EXCEPT ![o] = Idle] /\ files' = files
    BY <1>2 DEF Resolve
  <2> QED
    BY <1>0, <2>1, NoFileYet, EndPreserves
<1> QED
  BY <1>1, <1>2

LEMMA WritePreserves ==
    ASSUME KeyInv, NEW o \in Ops, Write(o)
    PROVE  KeyInv'
<1>0. /\ op[o].at = "opened"
      /\ op' = [op EXCEPT ![o].at = "using"]
      /\ UNCHANGED <<keys, nextKey, ref, secret, dir, files, left, stops>>
  BY DEF Write, Goto
<1>1. TypeOK'
  BY <1>0 DEF KeyInv, TypeOK
<1>2. \A p \in Ops :
        /\ op'[p].at = IF p = o THEN "using" ELSE op[p].at
        /\ op'[p].key = op[p].key
        /\ op'[p].issued = op[p].issued
        /\ op'[p].want = op[p].want
  BY <1>0 DEF KeyInv, TypeOK
<1>3. UnissuedIsFree' /\ ReadNamesSame' /\ BusyHasKey'
  BY <1>0, <1>2 DEF KeyInv, UnissuedIsFree, ReadNamesSame, BusyHasKey
<1>4. RightKey' /\ NoFileOutlivesUse'
  BY <1>0, <1>2 DEF KeyInv, RightKey, NoFileOutlivesUse
<1> QED
  BY <1>1, <1>3, <1>4 DEF KeyInv

LEMMA OperationPreserves ==
    ASSUME KeyInv, NEW o \in Ops, Operation(o)
    PROVE  KeyInv'
<1>1. CASE \E d \in Devices : ReadRecord(o, d)
  BY <1>1, ReadRecordPreserves
<1>2. CASE Resolve(o)
  BY <1>2, ResolvePreserves
<1>3. CASE CreateTempFails(o)
  <2>1. /\ op[o].at = "read" /\ op' = [op EXCEPT ![o] = Idle] /\ files' = files
        /\ dir' \in {"untried", "made", "missing"}
        /\ UNCHANGED <<keys, nextKey, ref, secret, left, stops>>
    BY <1>3, EnsureDirType DEF KeyInv, TypeOK, CreateTempFails
  <2> QED
    BY <2>1, NoFileYet, EndPreserves
<1>4. CASE Write(o)
  BY <1>4, WritePreserves
<1>5. CASE WriteFails(o)
  BY <1>5, EndPreserves DEF KeyInv, TypeOK, WriteFails
<1>6. CASE Cleanup(o)
  BY <1>6, EndPreserves DEF KeyInv, TypeOK, Cleanup
<1> QED
  BY <1>1, <1>2, <1>3, <1>4, <1>5, <1>6 DEF Operation

-----------------------------------------------------------------------------

LEMMA NextKeyInv == KeyInv /\ [Next]_vars => KeyInv'
<1> SUFFICES ASSUME KeyInv, [Next]_vars PROVE KeyInv'
  OBVIOUS
<1>1. CASE \E m \in Materials : SaveKey(m)
  BY <1>1, SaveKeyPreserves
<1>2. CASE \E k \in KeyIds : DeleteKey(k)
  BY <1>2, DeleteKeyPreserves
<1>3. CASE \E d \in Devices, k \in KeyIds \cup {0} : Assign(d, k)
  BY <1>3, AssignPreserves
<1>4. CASE \E o \in Ops : Operation(o)
  BY <1>4, OperationPreserves
<1>5. CASE \E s \in Secrets : Restart(s)
  BY <1>5, RestartPreserves
<1>6. CASE UNCHANGED vars
  BY <1>6 DEF vars, KeyInv, TypeOK, UnissuedIsFree, ReadNamesSame, BusyHasKey,
              RightKey, NoFileOutlivesUse
<1> QED
  BY <1>1, <1>2, <1>3, <1>4, <1>5, <1>6 DEF Next

\* The inductive invariant holds in every reachable state.
THEOREM KeyStoreInvariant == Spec => []KeyInv
  BY InitKeyInv, NextKeyInv, PTL DEF Spec

\* Type correctness of the key store.
THEOREM KeyStoreTypeCorrect == Spec => []TypeOK
<1>1. KeyInv => TypeOK
  BY DEF KeyInv
<1> QED
  BY <1>1, KeyStoreInvariant, PTL

\* However late an operation resolves the reference it read, it gets the key
\* the reference meant then, or none (ResolvePath and AUTOINCREMENT).
THEOREM ReferencesAreStable == Spec => []RightKey
<1>1. KeyInv => RightKey
  BY DEF KeyInv
<1> QED
  BY <1>1, KeyStoreInvariant, PTL

\* While the process runs, every path out of ResolvePath and its users
\* removes the temporary file it made.
THEOREM FilesAreRemoved == Spec => []NoFileOutlivesUse
<1>1. KeyInv => NoFileOutlivesUse
  BY DEF KeyInv
<1> QED
  BY <1>1, KeyStoreInvariant, PTL

=============================================================================
