---------------------- MODULE DashboardServices_proofs ----------------------
(***************************************************************************)
(* What Dashboard.tla says of the services of shared.js and                *)
(* device-status.js - the store of devices, the status of a device, the    *)
(* geolocation, the dialog, the loading bar and the agent - and of how     *)
(* readings are put into words and advice, for any number of devices,      *)
(* requests, callers, listeners, openings and ticks.                       *)
(*                                                                         *)
(* Each part has an inductive invariant of its own: a step of Dashboard is *)
(* one of that part, or leaves its variables alone.                        *)
(***************************************************************************)
EXTENDS Dashboard, FiniteSetTheorems, TLAPS

\* The values of PageValues that are told apart below.
LEMMA PageValuesDiffer ==
    /\ None \notin Requests /\ None \notin Openings
    /\ None \notin Int /\ Waiting \notin Int /\ Sample \notin Int /\ Empty \notin Int
    /\ None # Sample /\ None # Empty /\ None # Waiting /\ Waiting # Sample /\ Waiting # Empty
    /\ MaxChanges \in Nat /\ MaxTime \in Nat
    /\ OnlineFor \in Nat /\ UnreachableIn \in Nat
<1>1. \A x \in {None, Sample, Empty, Waiting} : x \notin Int
  BY PageNames
<1>2. None \notin Requests \cup Devices \cup {Sample, Empty, Waiting}
  BY PageNames
<1>3. None \notin Openings
  BY Inputs
<1> QED BY <1>1, <1>2, <1>3, PageNames, PageTimes

\* A step of Dashboard is one of the part, or leaves it alone.
LEMMA StorePart == [Next]_dashboardVars => Store!Next \/ UNCHANGED storeVars
BY DEF Next, Step, Rest, dashboardVars

LEMMA StatusPart == [Next]_dashboardVars => Status!Next \/ UNCHANGED statusVars
BY DEF Next, Step, Rest, dashboardVars

LEMMA VerdictPart == [Next]_dashboardVars => Verdicts!Next \/ UNCHANGED ovStatusVars
BY DEF Next, Step, Rest, dashboardVars

LEMMA GeoPart == [Next]_dashboardVars => Geo!Next \/ UNCHANGED geoVars
BY DEF Next, Step, Rest, dashboardVars

LEMMA DialogPart == [Next]_dashboardVars => Dialog!Next \/ UNCHANGED dialogVars
BY DEF Next, Step, Rest, dashboardVars

LEMMA BarPart == [Next]_dashboardVars => Bar!Next \/ UNCHANGED barVars
BY DEF Next, Step, Rest, dashboardVars

LEMMA AgentPart == [Next]_dashboardVars => Assistant!Next \/ UNCHANGED agentVars
BY DEF Next, Step, Rest, dashboardVars

LEMMA RulesPart == [Next]_dashboardVars => Rules!Next \/ UNCHANGED displayVars
BY DEF Next, Step, Rest, dashboardVars

LEMMA AdvicePart == [Next]_dashboardVars => Advice!Next \/ UNCHANGED adviceVars
BY DEF Next, Step, Rest, dashboardVars

-----------------------------------------------------------------------------
(* The store of devices *)

\* A request under way is the one that callers share; what it has read of the
\* server is not older than what the store has held.
StoreInv ==
    /\ Store!TypeOK
    /\ \A r \in Requests : requests[r] # None <=> r = loadingPromise
    /\ \A c \in Callers : calls[c] # None => calls[c] = loadingPromise
    /\ newest <= onServer
    /\ \A r \in Requests : requests[r] \in 0..MaxChanges =>
          requests[r] <= onServer /\ newest <= requests[r]
    /\ data \in 0..MaxChanges => data = newest
    /\ data = None => newest = 0
    /\ Store!SubscribersUpToDate

LEMMA StoreInit == Store!Init => StoreInv
<1> SUFFICES ASSUME Store!Init PROVE StoreInv
  OBVIOUS
<1> USE PageValuesDiffer DEF Store!Init
<1>1. Store!TypeOK
  BY DEF Store!TypeOK, Store!List, Store!Version
<1>2. \A r \in Requests : requests[r] # None <=> r = loadingPromise
  OBVIOUS
<1>3. data \notin Int /\ Store!SubscribersUpToDate
  BY DEF Store!SubscribersUpToDate
<1>4. \A r \in Requests : requests[r] \notin 0..MaxChanges
  OBVIOUS
<1>5. \A c \in Callers : calls[c] = None
  OBVIOUS
<1>6. newest <= onServer /\ newest = 0 /\ data \notin 0..MaxChanges
  OBVIOUS
<1> HIDE DEF Store!Init
<1> QED BY <1>1, <1>2, <1>3, <1>4, <1>5, <1>6 DEF StoreInv

LEMMA StoreStep == StoreInv /\ [Next]_dashboardVars => StoreInv'
<1> SUFFICES ASSUME StoreInv, Store!Next \/ UNCHANGED storeVars PROVE StoreInv'
  BY StorePart
<1> USE PageValuesDiffer DEF StoreInv, Store!TypeOK, Store!List, Store!Version,
        Store!SubscribersUpToDate
<1>1. CASE Store!ServerChange
  BY <1>1 DEF Store!ServerChange
<1>2. ASSUME NEW r \in Requests, Store!ServerRead(r) PROVE StoreInv'
  BY <1>2 DEF Store!ServerRead
<1>3. ASSUME NEW r \in Requests, NEW list \in Store!List, Store!UnderWay(r),
             Store!Settle(r, list), list \in Store!Version => list = requests[r]
      PROVE StoreInv'
  <2>1. r = loadingPromise
    BY <1>3 DEF Store!UnderWay
  <2> QED BY <1>3, <2>1 DEF Store!Settle, Store!Answered
<1>4. ASSUME NEW r \in Requests, Store!Answer(r) PROVE StoreInv'
  <2>1. PICK list \in {requests[r], Empty} : Store!Settle(r, list)
    BY <1>4 DEF Store!Answer, Store!ListsOf
  <2>2. /\ requests[r] # None /\ list \in Store!List
        /\ list \in Store!Version => list = requests[r]
    BY <1>4 DEF Store!Answer
  <2> QED BY <2>1, <2>2, <1>3 DEF Store!UnderWay
<1>5. ASSUME NEW r \in Requests, Store!Fail(r) PROVE StoreInv'
  <2>1. Sample \in Store!List /\ Sample \notin Store!Version
    OBVIOUS
  <2> QED BY <2>1, <1>3, <1>5 DEF Store!Fail
<1>6. ASSUME NEW c \in Callers, NEW force \in BOOLEAN, Store!Load(c, force)
      PROVE StoreInv'
  BY <1>6 DEF Store!Load, Store!LoadSends, Store!LoadJoins, Store!CallWaits, Store!UnderWay
<1>7. ASSUME NEW l \in Listeners, Store!Subscribe(l) \/ Store!Unsubscribe(l)
      PROVE StoreInv'
  BY <1>7 DEF Store!Subscribe, Store!Unsubscribe
<1>8. CASE UNCHANGED storeVars
  BY <1>8 DEF storeVars
<1> QED BY <1>1, <1>2, <1>4, <1>5, <1>6, <1>7, <1>8 DEF Store!Next

\* The store of devices never falls back to an older list of the server, and every
\* subscriber has the list it holds, for any number of views, requests and changes.
THEOREM StoreStaysCurrent == Spec => []StoreIsCurrent
<1>1. Init => StoreInv
  BY StoreInit DEF Init
<1>2. StoreInv => StoreIsCurrent
  BY PageValuesDiffer DEF StoreInv, StoreIsCurrent, Store!NoOldList, Store!Version,
     Store!TypeOK
<1> QED BY <1>1, <1>2, StoreStep, PTL DEF Spec

-----------------------------------------------------------------------------
(* Statuses *)

\* What a page keeps of a device was worked out from its sample, at the time it
\* was fetched; no sample is newer than the server's.
Computed ==
    statusCache # None =>
        /\ statusCache.fetchedAt <= now
        /\ statusCache.status =
              Status!ComputeStatus(createdAt, statusCache.sample, statusCache.fetchedAt)

SamplesAreOld ==
    /\ statusCache # None /\ statusCache.sample # None =>
          ping # None /\ statusCache.sample.ts <= ping.ts
    /\ \A a \in Requests : asks[a].at = "read" /\ asks[a].sample # None =>
          ping # None /\ asks[a].sample.ts <= ping.ts

\* A request that no other runs beside brings no older sample.
AloneInOrder ==
    \A a \in Requests \ overlap : Status!Running(a) =>
        /\ \A b \in Requests : Status!Running(b) => b = a
        /\ asks[a].at = "read" /\ asks[a].sample # None
             /\ statusCache # None /\ statusCache.sample # None
           => statusCache.sample.ts <= asks[a].sample.ts

StatusInv == Status!TypeOK /\ Computed /\ SamplesAreOld /\ AloneInOrder

LEMMA StatusInit == Status!Init => StatusInv
<1> SUFFICES ASSUME Status!Init PROVE StatusInv
  OBVIOUS
<1>1. now \in Status!Time /\ createdAt \in Status!Time \cup {None}
  BY PageValuesDiffer DEF Status!Init, Status!Time
<1>2. asks \in [Requests -> [at : {"unused", "sent", "read"},
                             sample : Status!PingSample \cup {None}]]
  BY DEF Status!Init, Status!Unused
<1>3. Computed /\ SamplesAreOld /\ AloneInOrder
  BY DEF Status!Init, Status!Unused, Status!Running, Computed, SamplesAreOld, AloneInOrder
<1> QED BY <1>1, <1>2, <1>3 DEF Status!Init, StatusInv, Status!TypeOK, Status!AskRecord, Status!CacheRecord

LEMMA ComputeStatusType ==
    ASSUME NEW created \in Status!Time \cup {None}, NEW t \in Status!Time,
           NEW sample \in Status!PingSample \cup {None}
    PROVE  Status!ComputeStatus(created, sample, t) \in Status!Status
BY PageValuesDiffer
DEF Status!ComputeStatus, Status!OfValue, Status!Status, Status!PingSample, Status!Quality

\* Time alone takes a status down: the same sample never reads better later.
LEMMA StatusDegrades ==
    ASSUME NEW created \in Status!Time \cup {None}, NEW sample \in Status!PingSample \cup {None},
           NEW s \in Status!Time, NEW t \in Status!Time, s <= t
    PROVE  Status!Rank(Status!ComputeStatus(created, sample, t)) <=
             Status!Rank(Status!ComputeStatus(created, sample, s))
<1> DEFINE before == Status!ComputeStatus(created, sample, s)
           after == Status!ComputeStatus(created, sample, t)
<1> SUFFICES Status!Rank(after) <= Status!Rank(before)
  OBVIOUS
<1>1. /\ Status!Rank("online") = 2 /\ Status!Rank("unreachable") = 0
      /\ Status!Rank("offline") = 1 /\ Status!Rank("unknown") = 1
  BY DEF Status!Rank
<1>2. s \in Nat /\ t \in Nat /\ created \in Nat \cup {None}
  BY PageValuesDiffer DEF Status!Time
<1>3. Status!OldEnough(created, s) => Status!OldEnough(created, t)
  BY <1>2, PageValuesDiffer DEF Status!OldEnough
<1>4. CASE sample = None
  <2>1. /\ before = IF Status!OldEnough(created, s) THEN "unreachable" ELSE "unknown"
        /\ after = IF Status!OldEnough(created, t) THEN "unreachable" ELSE "unknown"
    BY <1>4 DEF Status!ComputeStatus
  <2> HIDE DEF before, after
  <2> QED BY <1>1, <1>3, <2>1
<1>5. CASE sample # None
  <2>1. /\ sample.ts \in Nat /\ sample.value \in Status!Quality
    BY <1>5, PageValuesDiffer DEF Status!PingSample, Status!Time
  <2>2. /\ before = IF s - sample.ts <= OnlineFor
                    THEN Status!OfValue(sample)
                    ELSE IF Status!OldEnough(created, s) THEN "unreachable" ELSE "offline"
        /\ after = IF t - sample.ts <= OnlineFor
                   THEN Status!OfValue(sample)
                   ELSE IF Status!OldEnough(created, t) THEN "unreachable" ELSE "offline"
    BY <1>5, <2>1 DEF Status!ComputeStatus
  <2> HIDE DEF before, after
  <2>0. Status!OfValue(sample) \in {"online", "offline"}
    BY DEF Status!OfValue
  <2>3. CASE s - sample.ts <= OnlineFor
    BY <1>1, <1>3, <2>0, <2>2, <2>3
  <2>4. CASE ~(s - sample.ts <= OnlineFor)
    <3>1. ~(t - sample.ts <= OnlineFor)
      BY <1>2, <2>1, <2>4, PageValuesDiffer
    <3> QED BY <1>1, <1>3, <2>2, <2>4, <3>1
  <2> QED BY <2>3, <2>4
<1> QED BY <1>4, <1>5

LEMMA ComputedLater ==
    Status!ComputeStatus(createdAt, statusCache.sample, statusCache.fetchedAt)' =
      Status!ComputeStatus(createdAt', statusCache'.sample, statusCache'.fetchedAt)
BY DEF Status!ComputeStatus, Status!OldEnough

\* What an answer does to the invariant: "answer" is the sample it brings.
LEMMA ArriveKeeps ==
    ASSUME StatusInv, NEW a \in Requests, NEW sample \in Status!PingSample \cup {None},
           Status!Running(a),
           sample # None => asks[a].at = "read" /\ sample = asks[a].sample,
           Status!Arrive(a, sample)
    PROVE  StatusInv'
<1>1. /\ statusCache' = [status |-> Status!ComputeStatus(createdAt, sample, now),
                         sample |-> sample, fetchedAt |-> now]
      /\ pending' = None
      /\ asks' = [asks EXCEPT ![a] = Status!Unused]
      /\ overlap' = overlap \ {a}
      /\ UNCHANGED <<now, createdAt, ping>>
  BY DEF Status!Arrive
<1>2. /\ now \in Status!Time /\ createdAt \in Status!Time \cup {None} /\ now \in Nat
      /\ asks \in [Requests -> [at : {"unused", "sent", "read"},
                               sample : Status!PingSample \cup {None}]]
  BY PageValuesDiffer DEF StatusInv, Status!TypeOK, Status!AskRecord, Status!CacheRecord, Status!Time
<1>3. /\ statusCache'.sample = sample /\ statusCache'.fetchedAt = now
      /\ statusCache'.status = Status!ComputeStatus(createdAt, sample, now)
  BY <1>1
<1>4. \A b \in Requests : asks'[b].at = "read" \/ Status!Running(b)' =>
         b # a /\ asks'[b] = asks[b]
  BY <1>1, <1>2 DEF Status!Unused, Status!Running
<1>5. Status!TypeOK'
  <2>1. statusCache' \in [status : Status!Status, sample : Status!PingSample \cup {None},
                          fetchedAt : Status!Time]
    BY <1>1, <1>2, ComputeStatusType
  <2>2. asks' \in [Requests -> [at : {"unused", "sent", "read"},
                               sample : Status!PingSample \cup {None}]]
    BY <1>1, <1>2 DEF Status!Unused
  <2> QED BY <1>1, <2>1, <2>2 DEF StatusInv, Status!TypeOK, Status!AskRecord, Status!CacheRecord
<1>6. Computed'
  <2>1. statusCache'.fetchedAt <= now'
    <3>1. now' = now /\ now \in Nat /\ statusCache'.fetchedAt = now
      BY <1>1, <1>2, <1>3
    <3> QED BY <3>1
  <2>2. statusCache'.status = Status!ComputeStatus(createdAt', statusCache'.sample,
                                                   statusCache'.fetchedAt)
    BY <1>1, <1>3
  <2> QED BY <2>1, <2>2, ComputedLater DEF Computed
<1>7. SamplesAreOld'
  BY <1>1, <1>3, <1>4 DEF SamplesAreOld, StatusInv
<1>8. AloneInOrder'
  <2>1. SUFFICES ASSUME NEW c \in Requests, c \notin overlap', Status!Running(c)' PROVE FALSE
    BY DEF AloneInOrder
  <2>2. c # a /\ asks'[c] = asks[c]
    BY <1>4, <2>1
  <2>3. c \notin overlap /\ Status!Running(c)
    BY <1>1, <2>1, <2>2 DEF Status!Running
  <2> QED BY <2>2, <2>3 DEF StatusInv, AloneInOrder
<1> QED BY <1>5, <1>6, <1>7, <1>8 DEF StatusInv

LEMMA StatusStep == StatusInv /\ [Next]_dashboardVars => StatusInv'
<1> SUFFICES ASSUME StatusInv, Status!Next \/ UNCHANGED statusVars PROVE StatusInv'
  BY StatusPart
<1>1. /\ now \in Nat /\ now \in Status!Time
      /\ ping \in Status!PingSample \cup {None}
      /\ asks \in [Requests -> [at : {"unused", "sent", "read"},
                               sample : Status!PingSample \cup {None}]]
      /\ \A s \in Status!PingSample : s.ts \in Nat
  BY PageValuesDiffer DEF StatusInv, Status!TypeOK, Status!AskRecord, Status!CacheRecord, Status!Time, Status!PingSample
<1>2. CASE Status!Tick
  <2>1. now' \in Status!Time /\ now' = now + 1
    BY <1>1, <1>2, PageValuesDiffer DEF Status!Tick, Status!Time
  <2>2. Status!TypeOK'
    BY <1>2, <2>1 DEF Status!Tick, Status!TypeOK, Status!AskRecord, Status!CacheRecord, StatusInv
  <2>3. Computed'
    <3>1. SUFFICES ASSUME statusCache # None PROVE Computed'
      BY <1>2 DEF Status!Tick, Computed
    <3>2. statusCache.fetchedAt \in Nat
      BY <3>1, PageValuesDiffer DEF StatusInv, Status!TypeOK, Status!AskRecord, Status!CacheRecord, Status!Time
    <3>3. statusCache'.fetchedAt <= now'
      <4>1. /\ statusCache'.fetchedAt = statusCache.fetchedAt
            /\ statusCache.fetchedAt <= now /\ now \in Nat
        BY <1>1, <1>2, <3>1 DEF Status!Tick, StatusInv, Computed
      <4> QED BY <2>1, <3>2, <4>1
    <3>4. statusCache'.status = Status!ComputeStatus(createdAt', statusCache'.sample,
                                                     statusCache'.fetchedAt)
      BY <1>2, <3>1 DEF Status!Tick, StatusInv, Computed
    <3> QED BY <3>3, <3>4, ComputedLater DEF Computed
  <2>4. SamplesAreOld' /\ AloneInOrder'
    BY <1>2 DEF Status!Tick, StatusInv, SamplesAreOld, AloneInOrder, Status!Running
  <2> QED BY <2>2, <2>3, <2>4 DEF StatusInv
<1>3. CASE Status!ClearCache
  BY <1>3 DEF Status!ClearCache, StatusInv, Status!TypeOK, Status!AskRecord, Status!CacheRecord, Computed, SamplesAreOld, AloneInOrder,
     Status!Running
<1>4. ASSUME NEW v \in Status!Quality, Status!Pinged(v) PROVE StatusInv'
  <2>1. /\ ping' = [ts |-> now, value |-> v] /\ ping'.ts = now
        /\ ping' \in Status!PingSample
        /\ ping # None => ping.ts < now
        /\ UNCHANGED <<now, createdAt, statusCache, pending, asks, overlap>>
    BY <1>1, <1>4 DEF Status!Pinged, Status!PingSample
  <2>2. ping' # None
    BY <2>1, Inputs DEF Status!NoneIsNoSample
  <2>3. Status!TypeOK'
    BY <2>1 DEF Status!TypeOK, Status!AskRecord, Status!CacheRecord, StatusInv
  <2>4. Computed' /\ AloneInOrder'
    BY <2>1, ComputedLater DEF StatusInv, Computed, AloneInOrder, Status!Running
  <2>5. SamplesAreOld'
    BY <1>1, <2>1, <2>2 DEF StatusInv, SamplesAreOld, Status!TypeOK, Status!AskRecord, Status!CacheRecord
  <2> QED BY <2>3, <2>4, <2>5 DEF StatusInv
<1>5. ASSUME NEW a \in Requests, Status!ReadPing(a) PROVE StatusInv'
  <2>1. /\ asks' = [asks EXCEPT ![a] = [at |-> "read", sample |-> ping]]
        /\ asks[a].at = "sent" /\ Status!Running(a)
        /\ UNCHANGED <<now, createdAt, ping, statusCache, pending, overlap>>
    BY <1>5 DEF Status!ReadPing, Status!Running, Status!Unused
  <2>2. Status!TypeOK'
    BY <1>1, <2>1 DEF Status!TypeOK, Status!AskRecord, Status!CacheRecord, StatusInv
  <2>3. Computed'
    BY <2>1, ComputedLater DEF StatusInv, Computed
  <2>4. SamplesAreOld'
    BY <1>1, <2>1 DEF StatusInv, SamplesAreOld
  <2>5. AloneInOrder'
    BY <1>1, <2>1 DEF StatusInv, SamplesAreOld, AloneInOrder, Status!Running
  <2> QED BY <2>2, <2>3, <2>4, <2>5 DEF StatusInv
<1>6. ASSUME NEW a \in Requests, Status!Answer(a) PROVE StatusInv'
  <2>1. asks[a].sample \in Status!PingSample \cup {None} /\ Status!Running(a)
    BY <1>1, <1>6 DEF Status!Answer, Status!Running, Status!Unused
  <2> QED BY <1>6, <2>1, ArriveKeeps DEF Status!Answer
<1>7. ASSUME NEW a \in Requests, Status!Fail(a) PROVE StatusInv'
  BY <1>7, ArriveKeeps DEF Status!Fail
<1>8. ASSUME NEW a \in Requests, NEW force \in BOOLEAN, Status!GetStatus(a, force)
      PROVE  StatusInv'
  <2>1. /\ asks' = [asks EXCEPT ![a].at = "sent"] /\ ~Status!Running(a)
        /\ pending' = a
        /\ overlap' = IF \E b \in Requests : Status!Running(b)
                      THEN overlap \cup {a} \cup {b \in Requests : Status!Running(b)}
                      ELSE overlap
        /\ UNCHANGED <<now, createdAt, ping, statusCache>>
    BY <1>8 DEF Status!GetStatus, Status!Send
  <2>2. asks' = [asks EXCEPT ![a] = [at |-> "sent", sample |-> None]]
    <3>1. asks[a] = [at |-> "unused", sample |-> None]
      BY <2>1 DEF Status!Running, Status!Unused
    <3>2. [asks[a] EXCEPT !.at = "sent"] = [at |-> "sent", sample |-> None]
      BY <3>1
    <3> QED BY <1>1, <2>1, <3>2
  <2>3. Status!TypeOK'
    <3>1. overlap' \subseteq Requests
      BY <2>1 DEF Status!TypeOK, Status!AskRecord, Status!CacheRecord, StatusInv
    <3> QED BY <1>1, <2>1, <2>2, <3>1 DEF Status!TypeOK, Status!AskRecord, Status!CacheRecord, StatusInv
  <2>4. Computed'
    BY <2>1, ComputedLater DEF StatusInv, Computed
  <2>5. SamplesAreOld'
    BY <1>1, <2>1, <2>2 DEF StatusInv, SamplesAreOld
  <2>6. AloneInOrder'
    <3>1. SUFFICES ASSUME NEW c \in Requests, c \notin overlap', Status!Running(c)'
                   PROVE  /\ \A b \in Requests : Status!Running(b)' => b = c
                          /\ asks'[c].at # "read"
      BY DEF AloneInOrder
    <3>2. \A b \in Requests : b # a => (Status!Running(b)' <=> Status!Running(b))
      BY <1>1, <2>2 DEF Status!Running
    <3>3. c = a /\ \A b \in Requests : ~Status!Running(b)
      BY <2>1, <3>1, <3>2
    <3>4. asks'[a].at = "sent"
      BY <1>1, <2>2
    <3> QED BY <3>2, <3>3, <3>4
  <2> QED BY <2>3, <2>4, <2>5, <2>6 DEF StatusInv
<1>9. CASE UNCHANGED statusVars
  BY <1>9 DEF statusVars, StatusInv, Status!TypeOK, Status!AskRecord, Status!CacheRecord, Computed, SamplesAreOld, AloneInOrder,
     Status!Running
<1> QED BY <1>2, <1>3, <1>4, <1>5, <1>6, <1>7, <1>8, <1>9 DEF Status!Next

\* The steps that change what the page keeps of the device and keep it.
LEMMA CacheChanges ==
    ASSUME Status!Next, statusCache' # statusCache, statusCache' # None
    PROVE  \E a \in Requests : \E sample \in {asks[a].sample, None} :
              /\ Status!Running(a) /\ Status!Arrive(a, sample)
              /\ sample # None => asks[a].at = "read"
<1>1. ~Status!Tick /\ ~Status!ClearCache /\ ~\E v \in Status!Quality : Status!Pinged(v)
  BY DEF Status!Tick, Status!ClearCache, Status!Pinged
<1>2. ASSUME NEW a \in Requests
      PROVE  ~Status!ReadPing(a) /\ \A force \in BOOLEAN : ~Status!GetStatus(a, force)
  BY DEF Status!ReadPing, Status!GetStatus, Status!Send
<1>3. PICK a \in Requests : Status!Answer(a) \/ Status!Fail(a)
  BY <1>1, <1>2 DEF Status!Next
<1>4. CASE Status!Answer(a)
  <2>1. Status!Running(a)
    BY <1>4 DEF Status!Answer, Status!Running, Status!Unused
  <2> QED BY <1>4, <2>1 DEF Status!Answer
<1>5. CASE Status!Fail(a)
  BY <1>5 DEF Status!Fail
<1> QED BY <1>3, <1>4, <1>5

LEMMA SilenceStep ==
    StatusInv /\ [Next]_dashboardVars =>
      [ (statusCache # None /\ statusCache' # None
           /\ statusCache.sample = statusCache'.sample)
        => Status!Rank(statusCache'.status) <= Status!Rank(statusCache.status) ]_Status!statusVars
<1> SUFFICES ASSUME StatusInv, Status!Next, statusCache # None, statusCache' # None,
                    statusCache.sample = statusCache'.sample
             PROVE  Status!Rank(statusCache'.status) <= Status!Rank(statusCache.status)
  BY StatusPart DEF statusVars, Status!statusVars
<1>1. /\ statusCache.status \in Status!Status /\ statusCache.fetchedAt \in Status!Time
      /\ statusCache.sample \in Status!PingSample \cup {None}
      /\ now \in Status!Time /\ createdAt \in Status!Time \cup {None}
      /\ statusCache.fetchedAt <= now
      /\ statusCache.status =
            Status!ComputeStatus(createdAt, statusCache.sample, statusCache.fetchedAt)
  BY DEF StatusInv, Status!TypeOK, Status!AskRecord, Status!CacheRecord, Computed
<1>2. CASE statusCache' = statusCache
  <2>1. Status!Rank(statusCache.status) \in Nat
    BY <1>1 DEF Status!Status, Status!Rank
  <2> QED BY <1>2, <2>1
<1>3. CASE statusCache' # statusCache
  <2>0. PICK a \in Requests : \E sample \in {asks[a].sample, None} : Status!Arrive(a, sample)
    BY <1>3, CacheChanges
  <2>1. PICK sample \in {asks[a].sample, None} : Status!Arrive(a, sample)
    BY <2>0
  <2>2. statusCache'.sample = sample
        /\ statusCache'.status = Status!ComputeStatus(createdAt, sample, now)
    BY <2>1 DEF Status!Arrive
  <2>3. statusCache'.status = Status!ComputeStatus(createdAt, statusCache.sample, now)
    BY <2>2
  <2> QED BY <1>1, <2>3, StatusDegrades
<1> QED BY <1>2, <1>3

\* A request ends with its own answer.
LEMMA EndsByArrival ==
    ASSUME Status!TypeOK, Status!Next, NEW a \in Requests, Status!Running(a), ~Status!Running(a)'
    PROVE  \E sample \in {asks[a].sample, None} :
              Status!Arrive(a, sample) /\ (sample # None => asks[a].at = "read")
<1>0. asks \in [Requests -> Status!AskRecord]
  BY DEF Status!TypeOK
<1>1. asks[a] # Status!Unused /\ asks'[a] = Status!Unused
  BY DEF Status!Running, Status!Unused
<1>2. ~Status!Tick /\ ~Status!ClearCache /\ ~\E v \in Status!Quality : Status!Pinged(v)
  BY <1>1 DEF Status!Tick, Status!ClearCache, Status!Pinged
<1>3. ASSUME NEW b \in Requests
      PROVE  ~Status!ReadPing(b) /\ \A force \in BOOLEAN : ~Status!GetStatus(b, force)
  <2>1. ASSUME Status!ReadPing(b) PROVE FALSE
    BY <1>0, <1>1, <2>1 DEF Status!ReadPing, Status!Unused
  <2>2. ASSUME NEW force \in BOOLEAN, Status!GetStatus(b, force) PROVE FALSE
    BY <1>0, <1>1, <2>2 DEF Status!GetStatus, Status!Send, Status!Running
  <2> QED BY <2>1, <2>2
<1>4. PICK b \in Requests : Status!Answer(b) \/ Status!Fail(b)
  BY <1>2, <1>3 DEF Status!Next
<1>5. b = a
  BY <1>0, <1>1, <1>4 DEF Status!Answer, Status!Fail, Status!Arrive
<1> QED BY <1>4, <1>5 DEF Status!Answer, Status!Fail

LEMMA OrderStep ==
    StatusInv /\ [Next]_dashboardVars =>
      [ \A a \in Requests \ overlap :
            (Status!Running(a) /\ ~Status!Running(a)' /\ statusCache # None
               /\ statusCache.sample # None /\ statusCache'.sample # None)
            => statusCache'.sample.ts >= statusCache.sample.ts ]_Status!statusVars
<1> SUFFICES ASSUME StatusInv, Status!Next, NEW a \in Requests, a \notin overlap,
                    Status!Running(a), ~Status!Running(a)', statusCache # None,
                    statusCache.sample # None, statusCache'.sample # None
             PROVE  statusCache'.sample.ts >= statusCache.sample.ts
  BY StatusPart DEF statusVars, Status!statusVars
<1>1. statusCache.sample.ts \in Nat
  BY PageValuesDiffer
  DEF StatusInv, Status!TypeOK, Status!CacheRecord, Status!PingSample, Status!Time
<1>2. PICK sample \in {asks[a].sample, None} :
          Status!Arrive(a, sample) /\ (sample # None => asks[a].at = "read")
  BY EndsByArrival DEF StatusInv
<1>3. statusCache'.sample = sample
  BY <1>2 DEF Status!Arrive
<1>4. asks[a].at = "read" /\ sample = asks[a].sample /\ sample # None
  BY <1>2, <1>3
<1>5. statusCache.sample.ts <= sample.ts
  BY <1>4 DEF StatusInv, AloneInOrder
<1>6. sample.ts \in Nat
  BY <1>4, PageValuesDiffer
  DEF StatusInv, Status!TypeOK, Status!AskRecord, Status!PingSample, Status!Time
<1> QED BY <1>1, <1>3, <1>5, <1>6

\* The request that callers share is in use.
PendingInv == pending # None => asks[pending].at # "unused"

LEMMA PendingStep == StatusInv /\ PendingInv /\ [Next]_dashboardVars => PendingInv'
<1> SUFFICES ASSUME StatusInv, PendingInv, Status!Next \/ UNCHANGED statusVars
             PROVE  PendingInv'
  BY StatusPart
<1> USE PageValuesDiffer DEF PendingInv, StatusInv, Status!TypeOK, Status!AskRecord, Status!CacheRecord
<1>1. CASE Status!Tick \/ Status!ClearCache \/ UNCHANGED statusVars
  BY <1>1 DEF Status!Tick, Status!ClearCache, statusVars
<1>2. ASSUME NEW v \in Status!Quality, Status!Pinged(v) PROVE PendingInv'
  BY <1>2 DEF Status!Pinged
<1>3. ASSUME NEW a \in Requests, NEW force \in BOOLEAN, Status!GetStatus(a, force)
      PROVE PendingInv'
  BY <1>3 DEF Status!GetStatus, Status!Send
<1>4. ASSUME NEW a \in Requests, Status!ReadPing(a) PROVE PendingInv'
  BY <1>4 DEF Status!ReadPing
<1>5. ASSUME NEW a \in Requests, NEW sample, Status!Arrive(a, sample) PROVE PendingInv'
  BY <1>5 DEF Status!Arrive, Status!Unused
<1> QED
  BY <1>1, <1>2, <1>3, <1>4, <1>5
  DEF Status!Next, Status!Answer, Status!Fail

-----------------------------------------------------------------------------
(* The statuses of the overview, beside those of another page *)

\* Each page worked out what it holds from its sample when it fetched it, and the
\* two computations are one function.
VerdictInv ==
    /\ Verdicts!TypeOK
    /\ overviewCache # None =>
          /\ overviewCache.fetchedAt <= ovNow
          /\ overviewCache.status =
               Status!ComputeStatus(ovCreated, overviewCache.sample, overviewCache.fetchedAt)
    /\ pageCache # None =>
          /\ pageCache.fetchedAt <= ovNow
          /\ pageCache.status =
               Status!ComputeStatus(ovCreated, pageCache.sample, pageCache.fetchedAt)

LEMMA SameRules ==
    /\ Verdicts!Time = Status!Time /\ Verdicts!PingSample = Status!PingSample
    /\ Verdicts!Status = Status!Status /\ Verdicts!CacheRecord = Status!CacheRecord
    /\ \A status \in Status!Status : Verdicts!Rank(status) = Status!Rank(status)
    /\ \A created, sample, t :
          /\ Verdicts!ComputeStatus(created, sample, t) =
               Status!ComputeStatus(created, sample, t)
          /\ Verdicts!OverviewStatus(created, sample, t) =
               Status!ComputeStatus(created, sample, t)
<1>1. /\ Verdicts!Time = Status!Time /\ Verdicts!PingSample = Status!PingSample
      /\ Verdicts!Status = Status!Status /\ Verdicts!CacheRecord = Status!CacheRecord
  BY DEF Verdicts!Time, Status!Time, Verdicts!PingSample, Status!PingSample, Verdicts!Quality,
     Status!Quality, Verdicts!Status, Status!Status, Verdicts!CacheRecord, Status!CacheRecord
<1>2. \A status \in Status!Status : Verdicts!Rank(status) = Status!Rank(status)
  BY DEF Status!Status, Verdicts!Rank, Status!Rank
<1>3. ASSUME NEW created, NEW sample, NEW t
      PROVE  /\ Verdicts!ComputeStatus(created, sample, t) =
                  Status!ComputeStatus(created, sample, t)
             /\ Verdicts!OverviewStatus(created, sample, t) =
                  Status!ComputeStatus(created, sample, t)
  <2>1. /\ Verdicts!OldEnough(created, t) <=> Status!OldEnough(created, t)
        /\ Verdicts!OfValue(sample) = Status!OfValue(sample)
    BY DEF Verdicts!OldEnough, Status!OldEnough, Verdicts!OfValue, Status!OfValue
  <2> QED BY <2>1
          DEF Verdicts!ComputeStatus, Status!ComputeStatus, Verdicts!OverviewStatus
<1> QED BY <1>1, <1>2, <1>3

LEMMA VerdictInit == Verdicts!Init => VerdictInv
BY PageValuesDiffer DEF Verdicts!Init, VerdictInv, Verdicts!TypeOK, Verdicts!Time

LEMMA VerdictStep == VerdictInv /\ [Next]_dashboardVars => VerdictInv'
<1> SUFFICES ASSUME VerdictInv, Verdicts!Next \/ UNCHANGED ovStatusVars PROVE VerdictInv'
  BY VerdictPart
<1>1. /\ ovNow \in Nat /\ ovNow \in Status!Time /\ ovCreated \in Status!Time \cup {None}
      /\ {overviewCache, pageCache} \subseteq Status!CacheRecord \cup {None}
  BY SameRules, PageValuesDiffer DEF VerdictInv, Verdicts!TypeOK, Status!Time
<1>2. ASSUME NEW r \in Status!CacheRecord PROVE r.fetchedAt \in Nat
  BY PageValuesDiffer DEF Status!CacheRecord, Status!Time
<1>3. ASSUME NEW sample \in Status!PingSample \cup {None}
      PROVE  [status |-> Status!ComputeStatus(ovCreated, sample, ovNow), sample |-> sample,
              fetchedAt |-> ovNow] \in Status!CacheRecord
  BY <1>1, ComputeStatusType DEF Status!CacheRecord
<1>4. CASE Verdicts!Passes
  <2>1. /\ ovNow' = ovNow + 1 /\ ovNow' \in Status!Time
        /\ UNCHANGED <<ovCreated, overviewCache, pageCache>>
    BY <1>1, <1>4, PageValuesDiffer DEF Verdicts!Passes, Status!Time
  <2>2. ASSUME NEW r \in {overviewCache, pageCache}, r # None, r.fetchedAt <= ovNow
        PROVE  r.fetchedAt <= ovNow'
    BY <1>1, <1>2, <2>1, <2>2
  <2>3. Verdicts!TypeOK'
    BY <1>1, <2>1, SameRules DEF Verdicts!TypeOK
  <2> QED BY <2>1, <2>2, <2>3 DEF VerdictInv, Status!ComputeStatus, Status!OldEnough
<1>5. ASSUME NEW sample \in Verdicts!Stored, Verdicts!GetDeviceStatus(sample)
      PROVE  VerdictInv'
  <2>1. /\ overviewCache' = [status |-> Status!ComputeStatus(ovCreated, sample, ovNow),
                             sample |-> sample, fetchedAt |-> ovNow]
        /\ sample \in Status!PingSample \cup {None}
        /\ UNCHANGED <<ovNow, ovCreated, pageCache>>
    BY <1>5, SameRules DEF Verdicts!GetDeviceStatus, Verdicts!Stored
  <2>2. Verdicts!TypeOK'
    BY <1>1, <1>3, <2>1, SameRules DEF Verdicts!TypeOK
  <2>3. /\ overviewCache'.fetchedAt = ovNow /\ overviewCache'.sample = sample
        /\ overviewCache'.status = Status!ComputeStatus(ovCreated, sample, ovNow)
    BY <2>1
  <2> QED BY <1>1, <2>1, <2>2, <2>3 DEF VerdictInv, Status!ComputeStatus, Status!OldEnough
<1>6. ASSUME NEW sample \in Verdicts!Stored, Verdicts!OtherPageJudges(sample)
      PROVE  VerdictInv'
  <2>1. /\ pageCache' = [status |-> Status!ComputeStatus(ovCreated, sample, ovNow),
                         sample |-> sample, fetchedAt |-> ovNow]
        /\ sample \in Status!PingSample \cup {None}
        /\ UNCHANGED <<ovNow, ovCreated, overviewCache>>
    BY <1>6, SameRules DEF Verdicts!OtherPageJudges, Verdicts!Stored
  <2>2. Verdicts!TypeOK'
    BY <1>1, <1>3, <2>1, SameRules DEF Verdicts!TypeOK
  <2>3. /\ pageCache'.fetchedAt = ovNow /\ pageCache'.sample = sample
        /\ pageCache'.status = Status!ComputeStatus(ovCreated, sample, ovNow)
    BY <2>1
  <2> QED BY <1>1, <2>1, <2>2, <2>3 DEF VerdictInv, Status!ComputeStatus, Status!OldEnough
<1>7. CASE UNCHANGED ovStatusVars
  BY <1>7 DEF ovStatusVars, VerdictInv, Verdicts!TypeOK, Status!ComputeStatus, Status!OldEnough
<1> QED BY <1>4, <1>5, <1>6, <1>7 DEF Verdicts!Next

\* Two pages that judged one sample, one not later than the other.
LEMMA LaterIsNotBetter ==
    ASSUME VerdictInv, NEW one \in {overviewCache, pageCache},
           NEW other \in {overviewCache, pageCache}, one # None, other # None,
           one.sample = other.sample, one.fetchedAt <= other.fetchedAt
    PROVE  /\ Verdicts!Rank(other.status) <= Verdicts!Rank(one.status)
           /\ one.fetchedAt = other.fetchedAt => one.status = other.status
<1>1. /\ one \in Status!CacheRecord /\ other \in Status!CacheRecord
      /\ ovCreated \in Status!Time \cup {None}
  BY SameRules DEF VerdictInv, Verdicts!TypeOK
<1>2. /\ one.sample \in Status!PingSample \cup {None}
      /\ one.fetchedAt \in Status!Time /\ other.fetchedAt \in Status!Time
      /\ one.status \in Status!Status /\ other.status \in Status!Status
  BY <1>1 DEF Status!CacheRecord
<1>3. /\ one.status = Status!ComputeStatus(ovCreated, one.sample, one.fetchedAt)
      /\ other.status = Status!ComputeStatus(ovCreated, one.sample, other.fetchedAt)
  BY DEF VerdictInv
<1>4. Status!Rank(other.status) <= Status!Rank(one.status)
  BY <1>1, <1>2, <1>3, StatusDegrades
<1> QED BY <1>2, <1>3, <1>4, SameRules

LEMMA VerdictsAgree == VerdictInv => Verdicts!PagesAgree
<1> SUFFICES ASSUME VerdictInv PROVE Verdicts!PagesAgree
  OBVIOUS
<1> SUFFICES ASSUME pageCache # None, overviewCache # None,
                    pageCache.sample = overviewCache.sample
             PROVE  /\ pageCache.fetchedAt = overviewCache.fetchedAt =>
                           pageCache.status = overviewCache.status
                    /\ pageCache.fetchedAt <= overviewCache.fetchedAt =>
                           Verdicts!Rank(overviewCache.status) <= Verdicts!Rank(pageCache.status)
                    /\ overviewCache.fetchedAt <= pageCache.fetchedAt =>
                           Verdicts!Rank(pageCache.status) <= Verdicts!Rank(overviewCache.status)
  BY DEF Verdicts!PagesAgree
<1>1. /\ pageCache \in {overviewCache, pageCache}
      /\ overviewCache \in {overviewCache, pageCache}
  OBVIOUS
<1>2. pageCache.fetchedAt \in Nat /\ overviewCache.fetchedAt \in Nat
  <2>1. pageCache \in Status!CacheRecord /\ overviewCache \in Status!CacheRecord
    BY SameRules DEF VerdictInv, Verdicts!TypeOK
  <2> QED BY <2>1 DEF Status!CacheRecord, Status!Time
<1>3. CASE pageCache.fetchedAt <= overviewCache.fetchedAt
  <2>1. /\ Verdicts!Rank(overviewCache.status) <= Verdicts!Rank(pageCache.status)
        /\ pageCache.fetchedAt = overviewCache.fetchedAt =>
               pageCache.status = overviewCache.status
    BY <1>1, <1>3, LaterIsNotBetter
  <2>2. ASSUME overviewCache.fetchedAt <= pageCache.fetchedAt
        PROVE  Verdicts!Rank(pageCache.status) <= Verdicts!Rank(overviewCache.status)
    <3> USE <2>2
    <3> QED BY <1>1, LaterIsNotBetter
  <2> QED BY <2>1, <2>2
<1>4. CASE overviewCache.fetchedAt <= pageCache.fetchedAt
  <2>1. /\ Verdicts!Rank(pageCache.status) <= Verdicts!Rank(overviewCache.status)
        /\ overviewCache.fetchedAt = pageCache.fetchedAt =>
               overviewCache.status = pageCache.status
    BY <1>1, <1>4, LaterIsNotBetter
  <2>2. ASSUME pageCache.fetchedAt <= overviewCache.fetchedAt
        PROVE  Verdicts!Rank(overviewCache.status) <= Verdicts!Rank(pageCache.status)
    <3> USE <2>2
    <3> QED BY <1>1, LaterIsNotBetter
  <2> QED BY <2>1, <2>2
<1> QED BY <1>2, <1>3, <1>4

\* An online device was heard of when the overview judged it, and the cache is young.
LEMMA VerdictsAreRecent == VerdictInv => Verdicts!OnlineIsRecent
<1> SUFFICES ASSUME VerdictInv, Verdicts!OverviewFresh, overviewCache.status = "online"
             PROVE  ovNow - overviewCache.sample.ts < OnlineFor + OverviewTTL
  BY DEF Verdicts!OnlineIsRecent
<1>1. /\ overviewCache # None /\ overviewCache.sample # None
      /\ ovNow - overviewCache.fetchedAt < OverviewTTL
  BY DEF Verdicts!OverviewFresh
<1>2. /\ overviewCache \in Status!CacheRecord /\ ovNow \in Nat
      /\ OnlineFor \in Nat /\ OverviewTTL \in Nat
  BY <1>1, SameRules, PageValuesDiffer, PageTimes DEF VerdictInv, Verdicts!TypeOK, Status!Time
<1>3. overviewCache.fetchedAt \in Nat /\ overviewCache.sample.ts \in Nat
  BY <1>1, <1>2, PageValuesDiffer DEF Status!CacheRecord, Status!PingSample, Status!Time
<1>4. overviewCache.fetchedAt - overviewCache.sample.ts <= OnlineFor
  BY <1>1 DEF VerdictInv, Status!ComputeStatus
<1> QED BY <1>1, <1>2, <1>3, <1>4

-----------------------------------------------------------------------------
(* The geolocation of an address *)

\* A failure in the cache is the last one.
GeoInv ==
    /\ Geo!TypeOK
    /\ Geo!OneLookupAtATime /\ Geo!ResolvingEnds
    /\ cache # None /\ cache.error => failedAt = cache.at

LEMMA GeoInit == Geo!Init => GeoInv
BY PageValuesDiffer DEF Geo!Init, GeoInv, Geo!TypeOK, Geo!Texts, Geo!OneLookupAtATime,
                        Geo!ResolvingEnds

LEMMA GeoStep == GeoInv /\ [Next]_dashboardVars => GeoInv'
<1> SUFFICES ASSUME GeoInv, Geo!Next \/ UNCHANGED geoVars PROVE GeoInv'
  BY GeoPart
<1> USE PageValuesDiffer DEF GeoInv, Geo!TypeOK, Geo!OneLookupAtATime, Geo!ResolvingEnds
<1>1. CASE Geo!Tick \/ Geo!ClearExpired \/ UNCHANGED geoVars
  BY <1>1 DEF Geo!Tick, Geo!ClearExpired, geoVars
<1>2. CASE Geo!Render
  <2>1. lookups' = IF promise' = None THEN {} ELSE {promise'}
    BY <1>2 DEF Geo!Render, Geo!Get
  <2>2. promise' \in Requests \cup {None} /\ cache' \in {cache, None}
    BY <1>2 DEF Geo!Render, Geo!Get, Geo!Peeked
  <2>3. shown' = "Resolving" => promise' # None
    BY <1>2 DEF Geo!Render, Geo!Entry
  <2>4. shown' \in Geo!Texts /\ frame' = FALSE /\ UNCHANGED <<clock, failedAt>>
    BY <1>2 DEF Geo!Render, Geo!Entry, Geo!Texts
  <2> QED BY <2>1, <2>2, <2>3, <2>4
<1>3. ASSUME NEW l \in Requests, Geo!Lookup(l) PROVE GeoInv'
  <2>1. PICK outcome \in Geo!Outcomes : l \in lookups /\ Geo!LookupEnds(l, outcome)
    BY <1>3 DEF Geo!Lookup
  <2>2. /\ cache' = [data |-> outcome, at |-> clock, error |-> outcome \in {"error", "failed"}]
        /\ promise' = None /\ lookups' = {} /\ frame' = TRUE
        /\ failedAt' = IF outcome \in {"error", "failed"} THEN clock ELSE failedAt
        /\ UNCHANGED <<clock, shown>>
    BY <2>1 DEF Geo!LookupEnds
  <2>3. cache' \in [data : Geo!Outcomes, at : 0..MaxTime, error : BOOLEAN]
    BY <2>2
  <2>4. cache'.error => cache'.at = failedAt'
    BY <2>2
  <2> QED BY <2>2, <2>3, <2>4
<1> QED
  BY <1>1, <1>2, <1>3 DEF Geo!Next, Geo!AnimationFrame, Geo!RenderAgain

LEMMA FailureStep ==
    GeoInv /\ [Next]_dashboardVars =>
      [ (lookups' \ lookups # {} /\ failedAt # None /\ cache # None /\ cache.error)
        => clock - failedAt >= GeoErrorTTL ]_Geo!geoVars
<1> SUFFICES ASSUME GeoInv, Geo!Next, lookups' \ lookups # {}, cache # None, cache.error
             PROVE  clock - failedAt >= GeoErrorTTL
  BY GeoPart DEF geoVars, Geo!geoVars
<1>1. Geo!Get
  BY DEF Geo!Next, Geo!Tick, Geo!AnimationFrame, Geo!RenderAgain, Geo!Render, Geo!ClearExpired,
     Geo!Lookup, Geo!LookupEnds
<1>2. ~Geo!EntryValid
  BY <1>1 DEF Geo!Get, Geo!Peeked
<1>3. clock \in Int /\ cache.at \in Int /\ failedAt = cache.at
  BY DEF GeoInv, Geo!TypeOK
<1> QED BY <1>2, <1>3, PageTimes DEF Geo!EntryValid

\* What callers share - the promise of a status, of an address, of the list of
\* devices - stands for a request that is under way, for any number of requests and
\* any thresholds.
THEOREM SharedStaysUnderWay == Spec => []SharedIsUnderWay
<1>1. Init => StoreInv /\ StatusInv /\ PendingInv /\ GeoInv
  <2>1. Init => PendingInv
    BY DEF Init, Status!Init, PendingInv
  <2> QED BY <2>1, StoreInit, StatusInit, GeoInit DEF Init
<1>2. StoreInv /\ StatusInv /\ PendingInv /\ GeoInv => SharedIsUnderWay
  <2> SUFFICES ASSUME StoreInv, StatusInv, PendingInv, GeoInv PROVE SharedIsUnderWay
    OBVIOUS
  <2>1. Status!PendingIsRunning
    BY DEF PendingInv, Status!PendingIsRunning, Status!Running, Status!Unused
  <2>2. Store!LoadsSettle
    BY PageValuesDiffer DEF StoreInv, Store!TypeOK, Store!LoadsSettle, Store!CallWaits,
       Store!UnderWay
  <2> QED BY <2>1, <2>2 DEF GeoInv, SharedIsUnderWay
<1> QED BY <1>1, <1>2, StoreStep, StatusStep, PendingStep, GeoStep, PTL DEF Spec

-----------------------------------------------------------------------------
(* The dialog *)

\* The opening that waits for its answer is the one whose callback will run.
DialogInv ==
    /\ Dialog!TypeOK
    /\ Dialog!CallbackOncePerYes /\ Dialog!ShownWhileAsked
    /\ onConfirm = resolver

LEMMA DialogInit == Dialog!Init => DialogInv
<1> SUFFICES ASSUME Dialog!Init PROVE DialogInv
  OBVIOUS
<1>1. Dialog!TypeOK
  BY DEF Dialog!Init, Dialog!TypeOK
<1>2. Dialog!CallbackOncePerYes /\ Dialog!ShownWhileAsked
  BY DEF Dialog!Init, Dialog!CallbackOncePerYes, Dialog!ShownWhileAsked
<1> QED BY <1>1, <1>2 DEF Dialog!Init, DialogInv

LEMMA DialogStep == DialogInv /\ [Next]_dashboardVars => DialogInv'
<1> SUFFICES ASSUME DialogInv, Dialog!Next \/ UNCHANGED dialogVars PROVE DialogInv'
  BY DialogPart
<1> USE PageValuesDiffer DEF DialogInv, Dialog!TypeOK, Dialog!CallbackOncePerYes,
        Dialog!ShownWhileAsked
<1>1. ASSUME NEW o \in Openings, Dialog!Open(o) PROVE DialogInv'
  BY <1>1 DEF Dialog!Open
<1>2. CASE Dialog!ConfirmClick
  <2>1. resolver \in Openings /\ promises[resolver] = "waiting"
    BY <1>2 DEF Dialog!ConfirmClick
  <2>2. ran' = [o \in Openings |-> ran[o] + IF o = resolver THEN 1 ELSE 0]
    BY <1>2, <2>1 DEF Dialog!ConfirmClick, Dialog!CallbackAfterClose
  <2>3. /\ dialogShown' = FALSE /\ resolver' = None /\ onConfirm' = None
        /\ promises' = [promises EXCEPT ![resolver] = "yes"]
        /\ UNCHANGED handlers
        /\ confirmListeners' = confirmListeners \ {handlers}
        /\ escListeners' = escListeners \ {handlers}
    BY <1>2, <2>1 DEF Dialog!ConfirmClick, Dialog!Close, Dialog!CallbackAfterClose
  <2>4. Dialog!TypeOK'
    <3>1. ran' \in [Openings -> Nat]
      BY <2>2
    <3>2. promises' \in [Openings -> {"unused", "waiting", "yes", "no"}]
      BY <2>3
    <3> QED BY <2>3, <3>1, <3>2
  <2>5. ran[resolver] = 0 /\ ran'[resolver] = 1
    BY <2>1, <2>2
  <2>6. Dialog!CallbackOncePerYes'
    BY <2>1, <2>2, <2>3, <2>5
  <2> QED BY <2>3, <2>4, <2>6
<1>3. CASE Dialog!CancelClick \/ Dialog!EscapeKey
  BY <1>3 DEF Dialog!CancelClick, Dialog!EscapeKey, Dialog!Close, Dialog!CallbackAfterClose
<1>4. CASE Dialog!OtherKey \/ UNCHANGED dialogVars
  BY <1>4 DEF Dialog!OtherKey, dialogVars
<1> QED BY <1>1, <1>2, <1>3, <1>4 DEF Dialog!Next

\* A question of the dialog is answered once, and its callback runs once for "yes",
\* though the listeners of any number of earlier openings are still on the button.
THEOREM QuestionsStayAnswered == Spec => []QuestionsAreAnswered
<1>1. Init => DialogInv
  BY DialogInit DEF Init
<1>2. DialogInv => QuestionsAreAnswered
  BY DEF DialogInv, QuestionsAreAnswered
<1> QED BY <1>1, <1>2, DialogStep, PTL DEF Spec

-----------------------------------------------------------------------------
(* The loading bar *)

\* The timer leaves the bar its time; there is none while anything loads.
BarInv ==
    /\ Bar!TypeOK
    /\ Bar!BarMatchesTasks
    /\ visibleAt <= barTime
    /\ visible /\ hideAt # None => hideAt - visibleAt >= MinVisible

LEMMA BarCounts ==
    ASSUME NEW S
    PROVE  Bar!Cardinality(S) = Cardinality(S) /\ Bar!IsFiniteSet(S) = IsFiniteSet(S)
BY DEF Bar!Cardinality, Cardinality, Bar!IsFiniteSet, IsFiniteSet

LEMMA TargetIsNumber ==
    ASSUME NEW ts \in [Requests -> Bar!Reported \cup {None, 0}]
    PROVE  /\ Bar!ManualTarget(ts) \in Int \cup {None}
           /\ (\E t \in Requests : ts[t] \in Bar!Reported) => Bar!ManualTarget(ts) \in Int
<1> DEFINE reports(p) == Bar!Cardinality({t \in Requests : ts[t] = p})
           manual == reports(2) + reports(12) + reports(19)
           total == 2 * reports(2) + 12 * reports(12) + 19 * reports(19)
<1>1. ASSUME NEW p \in Int
      PROVE  reports(p) \in Nat /\ (reports(p) = 0 => \A t \in Requests : ts[t] # p)
  <2>1. IsFiniteSet({t \in Requests : ts[t] = p})
    <3>1. IsFiniteSet(Requests)
      BY Inputs, BarCounts DEF Bar!FinitelyMany
    <3> QED BY <3>1, FS_Subset
  <2>2. reports(p) = Cardinality({t \in Requests : ts[t] = p})
    BY BarCounts
  <2> QED BY <2>1, <2>2, FS_CardinalityType, FS_EmptySet
<1>2. reports(2) \in Nat /\ reports(12) \in Nat /\ reports(19) \in Nat
  BY <1>1
<1>3. Bar!ManualTarget(ts) = IF manual = 0 THEN None ELSE total \div manual
  BY DEF Bar!ManualTarget
<1>4. ASSUME NEW t \in Requests, ts[t] \in Bar!Reported PROVE manual # 0
  <2>1. reports(2) # 0 \/ reports(12) # 0 \/ reports(19) # 0
    BY <1>1, <1>4 DEF Bar!Reported
  <2> HIDE DEF reports
  <2> QED BY <1>2, <2>1
<1> HIDE DEF reports
<1>5. manual # 0 => total \div manual \in Int
  BY <1>2
<1> QED BY <1>3, <1>4, <1>5

LEMMA BarInit == Bar!Init => BarInv
<1> SUFFICES ASSUME Bar!Init PROVE BarInv
  OBVIOUS
<1>1. Bar!TypeOK
  <2>1. 0 \in 0..MaxTime /\ 0 \in 0..Bar!Full
    BY PageTimes DEF Bar!Full
  <2> QED BY <2>1 DEF Bar!Init, Bar!TypeOK
<1> QED BY <1>1, PageTimes DEF Bar!Init, BarInv, Bar!BarMatchesTasks, Bar!Active

LEMMA BarStep == BarInv /\ [Next]_dashboardVars => BarInv'
<1> SUFFICES ASSUME BarInv, Bar!Next \/ UNCHANGED barVars PROVE BarInv'
  BY BarPart
<1>0. None \notin Int /\ None \notin Bar!Reported \cup {0} /\ MaxTime \in Nat
      /\ MinVisible \in Nat /\ HideDelay \in Nat
  BY PageValuesDiffer, PageTimes DEF Bar!Reported
<1> USE <1>0 DEF BarInv, Bar!TypeOK, Bar!BarMatchesTasks, Bar!Active, Bar!Full
<1>1. CASE Bar!Tick
  BY <1>1 DEF Bar!Tick
<1>2. CASE Bar!AutoStep
  <2>1. Bar!ManualTarget(tasks) \in Int \cup {None}
    BY TargetIsNumber
  <2>2. PICK target \in Int : target <= 19 /\ progress' \in (progress + 1)..target
    BY <1>2, <2>1 DEF Bar!AutoStep, Bar!Smaller
  <2>3. UNCHANGED <<barTime, tasks, visible, visibleAt, hideAt, autoLoop>>
    BY <1>2 DEF Bar!AutoStep
  <2> QED BY <2>2, <2>3
<1>3. CASE Bar!Hide
  <2>1. \A t \in Requests : tasks[t] = None
    BY <1>3 DEF Bar!Hide
  <2>2. /\ visible' = FALSE /\ visibleAt' = 0 /\ hideAt' = None /\ progress' = 0
        /\ UNCHANGED <<barTime, tasks, autoLoop>>
    BY <1>3 DEF Bar!Hide
  <2>3. Bar!TypeOK'
    <3>1. 0 \in 0..MaxTime /\ 0 \in 0..20 /\ FALSE \in BOOLEAN
      OBVIOUS
    <3>2. tasks' = tasks /\ barTime' = barTime /\ autoLoop' = autoLoop
      BY <2>2
    <3> QED BY <2>2, <3>1, <3>2
  <2> QED BY <2>1, <2>2, <2>3
<1>4. ASSUME NEW t \in Requests, Bar!Begin(t) PROVE BarInv'
  <2>1. tasks' \in [Requests -> Bar!Reported \cup {None, 0}] /\ tasks'[t] = 0
    BY <1>4 DEF Bar!Begin
  <2>2. progress' \in 0..20
    BY <1>4 DEF Bar!Begin, Bar!Larger
  <2> QED BY <1>4, <2>1, <2>2 DEF Bar!Begin
<1>5. ASSUME NEW t \in Requests, Bar!Done(t) PROVE BarInv'
  <2>1. tasks' \in [Requests -> Bar!Reported \cup {None, 0}] /\ \E u \in Requests : tasks[u] # None
    BY <1>5 DEF Bar!Done
  <2>2. CASE \E u \in Requests : tasks'[u] # None
    BY <1>5, <2>1, <2>2 DEF Bar!Done
  <2>3. CASE ~\E u \in Requests : tasks'[u] # None
    <3>1. /\ autoLoop' = FALSE /\ progress' = 20 /\ hideAt' = Bar!HideDue(visibleAt)
          /\ visible /\ UNCHANGED <<barTime, visible, visibleAt>>
      BY <1>5, <2>1, <2>3 DEF Bar!Done
    <3>2. hideAt' \in Nat /\ hideAt' - visibleAt >= MinVisible
      BY <3>1 DEF Bar!HideDue, Bar!Larger
    <3> QED BY <2>1, <2>3, <3>1, <3>2
  <2> QED BY <2>2, <2>3
<1>6. ASSUME NEW t \in Requests, NEW p \in Bar!Reported, Bar!Update(t, p) PROVE BarInv'
  <2>1. tasks' \in [Requests -> Bar!Reported \cup {None, 0}] /\ tasks'[t] = p
    BY <1>6 DEF Bar!Update
  <2>2. Bar!ManualTarget(tasks') \in Int
    BY <2>1, TargetIsNumber
  <2>3. progress' \in 0..20
    BY <1>6, <2>2 DEF Bar!Update, Bar!Smaller, Bar!Larger
  <2>4. tasks[t] # None /\ tasks'[t] # None
    BY <1>6, <2>1 DEF Bar!Update
  <2> QED BY <1>6, <2>1, <2>3, <2>4 DEF Bar!Update
<1>7. CASE UNCHANGED barVars
  BY <1>7 DEF barVars
<1> QED BY <1>1, <1>2, <1>3, <1>4, <1>5, <1>6, <1>7 DEF Bar!Next

LEMMA BackwardsStep ==
    BarInv /\ [Next]_dashboardVars =>
      [ visible /\ visible' /\ progress < Bar!Full => progress' >= progress ]_Bar!barVars
<1> SUFFICES ASSUME BarInv, Bar!Next, visible, visible', progress < Bar!Full
             PROVE  progress' >= progress
  BY BarPart DEF barVars, Bar!barVars
<1>0. progress \in 0..19
  BY DEF BarInv, Bar!TypeOK, Bar!Full
<1>1. CASE Bar!Tick \/ Bar!Hide
  BY <1>0, <1>1 DEF Bar!Tick, Bar!Hide
<1>2. CASE Bar!AutoStep
  <2>1. Bar!ManualTarget(tasks) \in Int \cup {None}
    BY TargetIsNumber DEF BarInv, Bar!TypeOK
  <2> QED BY <1>0, <1>2, <2>1 DEF Bar!AutoStep, Bar!Smaller
<1>3. ASSUME NEW t \in Requests, Bar!Begin(t) \/ Bar!Done(t) PROVE progress' >= progress
  BY <1>0, <1>3 DEF Bar!Begin, Bar!Done, Bar!Full
<1>4. ASSUME NEW t \in Requests, NEW p \in Bar!Reported, Bar!Update(t, p)
      PROVE  progress' >= progress
  <2>1. tasks' \in [Requests -> Bar!Reported \cup {None, 0}] /\ tasks'[t] = p
    BY <1>4 DEF Bar!Update, BarInv, Bar!TypeOK
  <2>2. Bar!ManualTarget(tasks') \in Int
    BY <2>1, TargetIsNumber
  <2> QED BY <1>0, <1>4, <2>2 DEF Bar!Update, Bar!Smaller, Bar!Larger
<1> QED BY <1>1, <1>2, <1>3, <1>4 DEF Bar!Next

LEMMA FlashStep ==
    BarInv /\ [Next]_dashboardVars =>
      [ visible /\ ~visible' => barTime - visibleAt >= MinVisible ]_Bar!barVars
<1> SUFFICES ASSUME BarInv, Bar!Next, visible, ~visible' PROVE barTime - visibleAt >= MinVisible
  BY BarPart DEF barVars, Bar!barVars
<1>1. hideAt # None /\ barTime >= hideAt
  BY DEF Bar!Next, Bar!Tick, Bar!AutoStep, Bar!Hide, Bar!Begin, Bar!Done, Bar!Update
<1> QED BY <1>1, PageTimes DEF BarInv, Bar!TypeOK

\* The bar does not go back or flash, and an address that failed is not asked for again
\* at once, for any number of requests, any clock and any of the times.
THEOREM PaceStaysKept == Spec => PaceIsKept
<1>1. Init => BarInv /\ GeoInv
  BY BarInit, GeoInit DEF Init
<1>2. Spec => Bar!NeverBackwards
  BY <1>1, BarStep, BackwardsStep, PTL DEF Spec, Bar!NeverBackwards
<1>3. Spec => Bar!NoFlash
  BY <1>1, BarStep, FlashStep, PTL DEF Spec, Bar!NoFlash
<1>4. Spec => Geo!FailureHolds
  BY <1>1, GeoStep, FailureStep, PTL DEF Spec, Geo!FailureHolds
<1> QED BY <1>2, <1>3, <1>4 DEF PaceIsKept

-----------------------------------------------------------------------------
(* The agent *)

\* One context is that of the route, the one signed and the current one; an open
\* panel has nothing unread.
AgentInv ==
    /\ Assistant!TypeOK
    /\ Assistant!LastWordIsCurrent /\ Assistant!AttentionMeansUnseen
    /\ routeContext = currentContext /\ routeSignature = currentContext
    /\ panelOpen => ~hasUnread

LEMMA AgentInit == Assistant!Init => AgentInv
BY DEF Assistant!Init, AgentInv, Assistant!TypeOK, Assistant!LastWordIsCurrent,
       Assistant!AttentionMeansUnseen

LEMMA ContextsAreContexts ==
    /\ None \notin Assistant!Context
    /\ \A c \in Assistant!Context :
          /\ Assistant!MaxSeverity(c) \in Assistant!Severity
          /\ Assistant!Present(c) \subseteq Highlights
          /\ Assistant!ContextResearch(c) \subseteq Highlights \cup Summaries
<1>1. None \notin Assistant!Context
  BY Inputs DEF Assistant!NoneIsNoContext, Assistant!Context, Assistant!Severity
<1>2. ASSUME NEW c \in Assistant!Context
      PROVE  /\ Assistant!MaxSeverity(c) \in Assistant!Severity
             /\ Assistant!Present(c) \subseteq Highlights
             /\ Assistant!ContextResearch(c) \subseteq Highlights \cup Summaries
  BY DEF Assistant!MaxSeverity, Assistant!Severity, Assistant!Present, Assistant!ContextResearch,
         Assistant!Context
<1> QED BY <1>1, <1>2

LEMMA AnnounceKeeps ==
    ASSUME AgentInv, NEW c \in Assistant!Context, NEW onPage \in SUBSET Highlights,
           Assistant!HandleContext(c, onPage)
    PROVE  AgentInv'
<1>1. /\ routeContext' = c /\ currentContext' = c /\ routeSignature' = c
      /\ tooltips' = Assistant!Present(c) \cap onPage
      /\ UNCHANGED <<routeActive, panelOpen>>
  BY DEF Assistant!HandleContext, Assistant!BuildSignature
<1>2. CASE c = routeSignature
  <2>1. UNCHANGED <<spoken, research, hasUnread, attention, missed>> /\ c = currentContext
    BY <1>2 DEF Assistant!HandleContext, Assistant!BuildSignature, AgentInv
  <2>2. Assistant!TypeOK'
    BY <1>1, <2>1, ContextsAreContexts DEF AgentInv, Assistant!TypeOK
  <2>3. currentContext' = currentContext
    BY <1>1, <2>1
  <2> QED
    BY <1>1, <2>1, <2>2, <2>3
    DEF AgentInv, Assistant!LastWordIsCurrent, Assistant!AttentionMeansUnseen,
        Assistant!MaxSeverity, Assistant!Present
<1>3. CASE c # routeSignature
  <2>1. Assistant!Announce(c)
    BY <1>3 DEF Assistant!HandleContext, Assistant!BuildSignature
  <2>2. spoken' = [severity |-> Assistant!MaxSeverity(c), about |-> Assistant!Present(c)]
    BY <2>1 DEF Assistant!Announce
  <2>3. research' \in Highlights \cup Summaries \cup {"question", None}
    BY <2>1, ContextsAreContexts DEF Assistant!Announce, AgentInv, Assistant!TypeOK
  <2>4. /\ {hasUnread', attention', missed'} \subseteq BOOLEAN
        /\ Assistant!AttentionMeansUnseen' /\ (panelOpen' => ~hasUnread')
    <3>1. CASE ~panelOpen /\ Assistant!Alarming(c)
      BY <1>1, <2>1, <3>1 DEF Assistant!Announce, Assistant!AttentionMeansUnseen
    <3>2. CASE ~(~panelOpen /\ Assistant!Alarming(c))
      BY <1>1, <2>1, <3>2
      DEF Assistant!Announce, AgentInv, Assistant!TypeOK, Assistant!AttentionMeansUnseen
    <3> QED BY <3>1, <3>2
  <2>5. spoken' \in Assistant!Message
    BY <2>2, ContextsAreContexts DEF Assistant!Message
  <2>6. Assistant!TypeOK'
    BY <1>1, <2>3, <2>4, <2>5, ContextsAreContexts DEF AgentInv, Assistant!TypeOK
  <2>7. Assistant!LastWordIsCurrent'
    BY <1>1, <2>2 DEF Assistant!LastWordIsCurrent, Assistant!MaxSeverity, Assistant!Present
  <2> QED BY <1>1, <2>4, <2>6, <2>7 DEF AgentInv
<1> QED BY <1>2, <1>3

LEMMA AgentStep == AgentInv /\ [Next]_dashboardVars => AgentInv'
<1> SUFFICES ASSUME AgentInv, Assistant!Next \/ UNCHANGED agentVars PROVE AgentInv'
  BY AgentPart
<1>1. ASSUME NEW c \in Assistant!Context, NEW onPage \in SUBSET Highlights,
             Assistant!HandleContext(c, onPage)
      PROVE  AgentInv'
  BY <1>1, AnnounceKeeps
<1> USE DEF AgentInv, Assistant!TypeOK, Assistant!LastWordIsCurrent,
        Assistant!AttentionMeansUnseen, Assistant!MaxSeverity, Assistant!Present
<1>2. ASSUME NEW onPage \in SUBSET Highlights, Assistant!SetActiveRoute(onPage) PROVE AgentInv'
  BY <1>2 DEF Assistant!SetActiveRoute, Assistant!BuildSignature
<1>3. ASSUME NEW h \in Highlights, Assistant!ShowHighlight(h) PROVE AgentInv'
  BY <1>3 DEF Assistant!ShowHighlight, Assistant!OpenPanel
<1>4. CASE Assistant!Open
  BY <1>4 DEF Assistant!Open, Assistant!OpenPanel
<1>5. CASE Assistant!Close
  BY <1>5 DEF Assistant!Close
<1>6. CASE Assistant!AskQuestion
  BY <1>6, ContextsAreContexts DEF Assistant!AskQuestion
<1>7. CASE UNCHANGED agentVars
  BY <1>7 DEF agentVars
<1> QED BY <1>1, <1>2, <1>3, <1>4, <1>5, <1>6, <1>7 DEF Assistant!Next

-----------------------------------------------------------------------------
(* Times *)

LEMMA RulesInit == Rules!Init => Rules!TypeOK
BY DEF Rules!Init, Rules!TypeOK

LEMMA RulesStep == Rules!TypeOK /\ [Next]_dashboardVars => Rules!TypeOK'
<1> SUFFICES ASSUME Rules!TypeOK, Rules!Next \/ UNCHANGED displayVars PROVE Rules!TypeOK'
  BY RulesPart
<1>1. Ages \subseteq Nat /\ Pings \subseteq Int \cup {None} /\ Bandwidths \subseteq Int \cup {None}
  BY Inputs DEF Rules!DisplayNumbers
<1>2. ASSUME NEW to \in Ages, Rules!Older(to) PROVE Rules!TypeOK'
  BY <1>1, <1>2 DEF Rules!Older, Rules!TypeOK
<1>3. ASSUME NEW p \in Pings, NEW b \in Bandwidths, Rules!Measured(p, b) PROVE Rules!TypeOK'
  BY <1>1, <1>3 DEF Rules!Measured, Rules!TypeOK
<1>4. CASE UNCHANGED displayVars
  BY <1>4 DEF displayVars, Rules!TypeOK
<1> QED BY <1>2, <1>3, <1>4 DEF Rules!Next

\* Math.round is within half of the unit, for the units in use.
LEMMA RoundedTo60 ==
    ASSUME NEW x \in Nat
    PROVE  /\ Rules!Rounded(x, 60) \in Nat
           /\ 60 * Rules!Rounded(x, 60) <= x + 30
           /\ x < 60 * Rules!Rounded(x, 60) + 30
BY DEF Rules!Rounded

LEMMA RoundedTo24 ==
    ASSUME NEW x \in Nat
    PROVE  /\ Rules!Rounded(x, 24) \in Nat
           /\ 24 * Rules!Rounded(x, 24) <= x + 12
           /\ x < 24 * Rules!Rounded(x, 24) + 12
BY DEF Rules!Rounded

LEMMA RoundedTo7 ==
    ASSUME NEW x \in Nat
    PROVE  /\ Rules!Rounded(x, 7) \in Nat
           /\ 7 * Rules!Rounded(x, 7) <= x + 3
           /\ x < 7 * Rules!Rounded(x, 7) + 4
BY DEF Rules!Rounded

LEMMA RoundedTo30 ==
    ASSUME NEW x \in Nat
    PROVE  /\ Rules!Rounded(x, 30) \in Nat
           /\ 30 * Rules!Rounded(x, 30) <= x + 15
           /\ x < 30 * Rules!Rounded(x, 30) + 15
BY DEF Rules!Rounded

LEMMA RoundedTo365 ==
    ASSUME NEW x \in Nat
    PROVE  /\ Rules!Rounded(x, 365) \in Nat
           /\ 365 * Rules!Rounded(x, 365) <= x + 182
           /\ x < 365 * Rules!Rounded(x, 365) + 183
BY DEF Rules!Rounded

LEMMA UptimeIsSum ==
    ASSUME age \in Nat
    PROVE  Rules!UptimeAddsUp
BY DEF Rules!UptimeAddsUp, Rules!UptimeParts, Rules!Year, Rules!Month, Rules!Day, Rules!Hour,
   Rules!Minute

\* How far each unit is from the seconds it was rounded from.
LEMMA UnitsAreNear ==
    ASSUME NEW s \in Nat
    PROVE  /\ Rules!Minutes(s) \in Nat /\ Rules!Hours(s) \in Nat /\ Rules!Days(s) \in Nat
           /\ 60 * Rules!Minutes(s) <= s + 30 /\ s < 60 * Rules!Minutes(s) + 30
           /\ 60 * Rules!Hours(s) <= Rules!Minutes(s) + 30
           /\ Rules!Minutes(s) < 60 * Rules!Hours(s) + 30
           /\ 24 * Rules!Days(s) <= Rules!Hours(s) + 12
           /\ Rules!Hours(s) < 24 * Rules!Days(s) + 12
<1>1. /\ Rules!Minutes(s) \in Nat
      /\ 60 * Rules!Minutes(s) <= s + 30 /\ s < 60 * Rules!Minutes(s) + 30
  BY RoundedTo60 DEF Rules!Minutes
<1>2. /\ Rules!Hours(s) \in Nat
      /\ 60 * Rules!Hours(s) <= Rules!Minutes(s) + 30
      /\ Rules!Minutes(s) < 60 * Rules!Hours(s) + 30
  BY <1>1, RoundedTo60 DEF Rules!Hours
<1>3. /\ Rules!Days(s) \in Nat
      /\ 24 * Rules!Days(s) <= Rules!Hours(s) + 12
      /\ Rules!Hours(s) < 24 * Rules!Days(s) + 12
  BY <1>2, RoundedTo24 DEF Rules!Days
<1> QED BY <1>1, <1>2, <1>3

LEMMA RelativeIsClose ==
    ASSUME age \in Nat
    PROVE  Rules!RelativeTimeIsClose
<1> DEFINE m == Rules!Minutes(age)
           h == Rules!Hours(age)
           d == Rules!Days(age)
           w == Rules!Rounded(d, 7)
           o == Rules!Rounded(d, 30)
           y == Rules!Rounded(d, 365)
           Close(unit, count, seconds) ==
               /\ Rules!RelativeTime(age) = [unit |-> unit, count |-> count]
               /\ Rules!UnitSeconds(unit) = seconds
               /\ count \in Nat /\ count >= 1
               /\ 20 * (count * seconds) <= 20 * age + 11 * seconds
               /\ 20 * age <= 20 * (count * seconds) + 11 * seconds
<1>1. /\ m \in Nat /\ h \in Nat /\ d \in Nat
      /\ 60 * m <= age + 30 /\ age < 60 * m + 30
      /\ 60 * h <= m + 30 /\ m < 60 * h + 30
      /\ 24 * d <= h + 12 /\ h < 24 * d + 12
  BY UnitsAreNear
<1> HIDE DEF m, h, d
<1>2. /\ w \in Nat /\ o \in Nat /\ y \in Nat
      /\ 7 * w <= d + 3 /\ d < 7 * w + 4
      /\ 30 * o <= d + 15 /\ d < 30 * o + 15
      /\ 365 * y <= d + 182 /\ d < 365 * y + 183
  BY <1>1, RoundedTo7, RoundedTo30, RoundedTo365
<1>3. /\ Rules!UnitSeconds(1) = 60 /\ Rules!UnitSeconds(2) = 3600
      /\ Rules!UnitSeconds(3) = 86400 /\ Rules!UnitSeconds(4) = 604800
      /\ Rules!UnitSeconds(5) = 2592000 /\ Rules!UnitSeconds(6) = 31536000
  BY DEF Rules!UnitSeconds, Rules!Minute, Rules!Hour, Rules!Day, Rules!Month, Rules!Year
<1>4. Rules!RelativeTime(age) =
         IF age < 30 THEN [unit |-> 0, count |-> 0]
         ELSE IF m < 60 THEN [unit |-> 1, count |-> m]
         ELSE IF h < 24 THEN [unit |-> 2, count |-> h]
         ELSE IF d < 7 THEN [unit |-> 3, count |-> d]
         ELSE IF w < 6 THEN [unit |-> 4, count |-> w]
         ELSE IF o < 12 THEN [unit |-> 5, count |-> o]
         ELSE [unit |-> 6, count |-> y]
  BY DEF Rules!RelativeTime, m, h, d
<1> HIDE DEF w, o, y
<1>5. ASSUME age >= 30, m < 60 PROVE Close(1, m, 60)
  BY <1>1, <1>3, <1>4, <1>5
<1>6. ASSUME age >= 30, ~(m < 60), h < 24 PROVE Close(2, h, 3600)
  BY <1>1, <1>3, <1>4, <1>6
<1>7. ASSUME age >= 30, ~(m < 60), ~(h < 24), d < 7 PROVE Close(3, d, 86400)
  BY <1>1, <1>3, <1>4, <1>7
<1>8. ASSUME age >= 30, ~(m < 60), ~(h < 24), ~(d < 7), w < 6 PROVE Close(4, w, 604800)
  BY <1>1, <1>2, <1>3, <1>4, <1>8
<1>9. ASSUME age >= 30, ~(m < 60), ~(h < 24), ~(d < 7), ~(w < 6), o < 12
      PROVE Close(5, o, 2592000)
  BY <1>1, <1>2, <1>3, <1>4, <1>9
<1>10. ASSUME age >= 30, ~(m < 60), ~(h < 24), ~(d < 7), ~(w < 6), ~(o < 12)
       PROVE Close(6, y, 31536000)
  BY <1>1, <1>2, <1>3, <1>4, <1>10
<1>11. ASSUME NEW unit, NEW count, NEW seconds \in Nat, Close(unit, count, seconds)
       PROVE  Rules!RelativeTimeIsClose
  <2>1. /\ Rules!RelativeTime(age).count = count /\ Rules!RelativeTime(age).unit = unit
    BY <1>11
  <2> DEFINE said == count * seconds
  <2>2. said \in Nat /\ 20 * said <= 20 * age + 11 * seconds /\ 20 * age <= 20 * said + 11 * seconds
    BY <1>11
  <2> HIDE DEF said
  <2>3. 20 * (IF said > age THEN said - age ELSE age - said) <= 11 * seconds
    BY <2>2
  <2> QED BY <1>11, <2>1, <2>3 DEF Rules!RelativeTimeIsClose, said
<1> HIDE DEF Close
<1>12. CASE age < 30
  BY <1>12 DEF Rules!RelativeTimeIsClose
<1> QED BY <1>1, <1>5, <1>6, <1>7, <1>8, <1>9, <1>10, <1>11, <1>12

\* The parts of an uptime add up to it, and a relative time is within 0.55 of its
\* unit, for every age.
THEOREM TimesStayTold == Spec => []TimesAreTold
<1>1. Init => Rules!TypeOK
  BY RulesInit DEF Init
<1>2. Rules!TypeOK => TimesAreTold
  BY RelativeIsClose, UptimeIsSum DEF Rules!TypeOK, TimesAreTold
<1> QED BY <1>1, <1>2, RulesStep, PTL DEF Spec

-----------------------------------------------------------------------------
(* Advice *)

\* Beside the types: what was said last, if no render is asked for.
AdviceInv == Advice!TypeOK /\ Advice!WordsAreCurrent

LEMMA WordsAreWords ==
    ASSUME NEW status, NEW summary, NEW drawn \in SUBSET Devices
    PROVE  Advice!Words(status, summary, drawn) \in
             [highlights : SUBSET (Devices \X {"critical", "warning", "success"}),
              network : {None, "critical", "warning"}, well : BOOLEAN]
<1> DEFINE words == Advice!Words(status, summary, drawn)
           offline == {d \in drawn : status[d] = "offline"}
           network == IF drawn = {} THEN None
                      ELSE Advice!Beyond(100 * Advice!Cardinality(offline),
                                         <<15 * Advice!Cardinality(drawn),
                                           30 * Advice!Cardinality(drawn)>>)
           highlights == {h \in drawn \X {"critical", "warning", "success"} :
                            h[2] \in {Advice!StatusSeverity(status[h[1]]),
                                      Advice!SeverityOf(summary[h[1]])}}
           well == /\ drawn # {}
                   /\ \A d \in drawn : /\ Advice!StatusSeverity(status[d]) = None
                                      /\ ~Advice!Counts(summary[d])
<1>1. words = [highlights |-> highlights, network |-> network, well |-> well]
  BY DEF Advice!Words
<1>2. \A value, limits : Advice!Beyond(value, limits) \in {None, "critical", "warning"}
  BY DEF Advice!Beyond
<1>3. network \in {None, "critical", "warning"}
  BY <1>2
<1>4. highlights \in SUBSET (Devices \X {"critical", "warning", "success"})
  OBVIOUS
<1>5. well \in BOOLEAN
  OBVIOUS
<1> HIDE DEF words, highlights, network, well
<1>6. words \in [highlights : SUBSET (Devices \X {"critical", "warning", "success"}),
                 network : {None, "critical", "warning"}, well : BOOLEAN]
  BY <1>1, <1>3, <1>4, <1>5
<1> QED BY <1>6 DEF words

\* The words are a function of the list, the summaries and the filters.
LEMMA SameWords ==
    Advice!Words(adviceStatus, adviceSummary, adviceShown)' =
      Advice!Words(adviceStatus', adviceSummary', adviceShown')
BY DEF Advice!Words, Advice!StatusSeverity, Advice!SeverityOf, Advice!Counts, Advice!Beyond,
   Advice!Threshold, Advice!TrendSeverity, Advice!Nothing, Advice!Cardinality

LEMMA AdviceInit == Advice!Init => AdviceInv
<1> SUFFICES ASSUME Advice!Init PROVE AdviceInv
  OBVIOUS
<1>1. Advice!TypeOK
  BY DEF Advice!Init, Advice!TypeOK, Advice!Given, Advice!Measured, Advice!NoSummaries
<1>2. adviceShown = {} /\ adviceTold = [highlights |-> {}, network |-> None, well |-> FALSE]
  BY DEF Advice!Init
<1>3. Advice!Words(adviceStatus, adviceSummary, {}) =
        [highlights |-> {}, network |-> None, well |-> FALSE]
  BY DEF Advice!Words
<1> QED BY <1>1, <1>2, <1>3 DEF AdviceInv, Advice!WordsAreCurrent

LEMMA AdviceRenderKeeps ==
    ASSUME AdviceInv, NEW status \in [Devices -> Advice!Given], Advice!Render(status)
    PROVE  AdviceInv'
<1>1. PICK drawn \in SUBSET {d \in Devices : status[d] # "absent"} :
        \E asked \in SUBSET (drawn \ adviceLoading) :
            /\ adviceStatus' = status /\ adviceShown' = drawn
            /\ adviceSummary' = Advice!Kept(status)
            /\ adviceLoading' = adviceLoading \cup asked
            /\ adviceFrame' = (asked # {})
            /\ adviceTold' = Advice!Words(status, Advice!Kept(status), drawn)
  BY DEF Advice!Render
<1>2. adviceTold' = Advice!Words(adviceStatus', adviceSummary', adviceShown')
  BY <1>1
<1>3. /\ adviceStatus' \in [Devices -> Advice!Given] /\ adviceShown' \subseteq Devices
      /\ adviceLoading' \subseteq Devices /\ adviceFrame' \in BOOLEAN
  BY <1>1 DEF AdviceInv, Advice!TypeOK
<1>4. adviceSummary' \in [Devices -> Advice!Measured]
  <2>1. Advice!Nothing \in Advice!Measured
    BY DEF Advice!Measured
  <2>2. adviceSummary \in [Devices -> Advice!Measured]
    BY DEF AdviceInv, Advice!TypeOK
  <2>3. Advice!Kept(status) \in [Devices -> Advice!Measured]
    BY <2>1, <2>2 DEF Advice!Kept
  <2> QED BY <1>1, <2>3
<1>5. Advice!TypeOK'
  BY <1>2, <1>3, <1>4, WordsAreWords DEF Advice!TypeOK
<1> QED BY <1>2, <1>5, SameWords DEF AdviceInv, Advice!WordsAreCurrent

LEMMA AdviceStep == AdviceInv /\ [Next]_dashboardVars => AdviceInv'
<1> SUFFICES ASSUME AdviceInv, Advice!Next \/ UNCHANGED adviceVars PROVE AdviceInv'
  BY AdvicePart
<1>1. ASSUME NEW status \in [Devices -> Advice!Given], Advice!ListArrives(status)
      PROVE  AdviceInv'
  BY <1>1, AdviceRenderKeeps DEF Advice!ListArrives
<1>2. CASE Advice!Redraw
  BY <1>2, AdviceRenderKeeps DEF Advice!Redraw, AdviceInv, Advice!TypeOK
<1>3. ASSUME NEW d \in Devices, NEW m \in Advice!Measured, Advice!Loaded(d, m)
      PROVE  AdviceInv'
  BY <1>3 DEF Advice!Loaded, AdviceInv, Advice!TypeOK, Advice!WordsAreCurrent
<1>4. CASE UNCHANGED adviceVars
  BY <1>4, SameWords DEF adviceVars, AdviceInv, Advice!TypeOK, Advice!WordsAreCurrent
<1> QED BY <1>1, <1>2, <1>3, <1>4 DEF Advice!Next

-----------------------------------------------------------------------------
(* The class of a link, and the theorems about readings *)

LEMMA ClassStep ==
    Rules!TypeOK /\ [Next]_dashboardVars =>
      [/\ linkPing # None <=> linkPing' # None
       /\ linkBandwidth # None <=> linkBandwidth' # None
       /\ Rules!LinkClass(linkPing', linkBandwidth') < Rules!LinkClass(linkPing, linkBandwidth)
       => \/ linkPing # None /\ linkPing' < linkPing
          \/ linkBandwidth # None /\ linkBandwidth' > linkBandwidth]_Rules!displayVars
<1> SUFFICES ASSUME Rules!TypeOK, Rules!TypeOK',
                    linkPing # None <=> linkPing' # None,
                    linkBandwidth # None <=> linkBandwidth' # None,
                    linkPing = None \/ ~(linkPing' < linkPing),
                    linkBandwidth = None \/ ~(linkBandwidth' > linkBandwidth)
             PROVE  ~(Rules!LinkClass(linkPing', linkBandwidth')
                        < Rules!LinkClass(linkPing, linkBandwidth))
  BY RulesStep
<1> DEFINE was == Rules!LinkClass(linkPing, linkBandwidth)
           is == Rules!LinkClass(linkPing', linkBandwidth')
<1>1. CASE linkPing = None /\ linkBandwidth = None
  BY <1>1 DEF Rules!LinkClass
<1>2. CASE linkPing # None /\ linkBandwidth = None
  <2>1. was = Rules!PingRank(linkPing) /\ is = Rules!PingRank(linkPing')
    BY <1>2 DEF Rules!LinkClass
  <2>2. linkPing \in Int /\ linkPing' \in Int /\ linkPing <= linkPing'
    BY <1>2 DEF Rules!TypeOK
  <2> QED BY <2>1, <2>2 DEF Rules!PingRank
<1>3. CASE linkPing = None /\ linkBandwidth # None
  <2>1. was = Rules!BandwidthRank(linkBandwidth) /\ is = Rules!BandwidthRank(linkBandwidth')
    BY <1>3 DEF Rules!LinkClass
  <2>2. linkBandwidth \in Int /\ linkBandwidth' \in Int /\ linkBandwidth' <= linkBandwidth
    BY <1>3 DEF Rules!TypeOK
  <2> QED BY <2>1, <2>2 DEF Rules!BandwidthRank
<1>4. CASE linkPing # None /\ linkBandwidth # None
  <2>1. /\ linkPing \in Int /\ linkPing' \in Int /\ linkPing <= linkPing'
        /\ linkBandwidth \in Int /\ linkBandwidth' \in Int /\ linkBandwidth' <= linkBandwidth
    BY <1>4 DEF Rules!TypeOK
  <2> QED BY <1>4, <2>1 DEF Rules!LinkClass
<1> QED BY <1>1, <1>2, <1>3, <1>4

\* What two pages hold of a device, by rules and caches of their own, agrees if it
\* rests on one ping, and the overview calls nothing online for longer than the limit
\* and its cache allow, whatever answers come late or not at all.
THEOREM PartsDoAgree == Spec => []PartsAgree
<1>1. Init => VerdictInv
  BY VerdictInit DEF Init
<1>2. VerdictInv => PartsAgree
  BY VerdictsAgree, VerdictsAreRecent DEF PartsAgree
<1> QED BY <1>1, <1>2, VerdictStep, PTL DEF Spec

\* A status gets better, or rests on an older ping, by no silence and by no request
\* that ran alone; the class of a link, of which the same is known, by no worse reading.
THEOREM BetterTakesAReading == Spec => BetterNeedsAReading
<1>1. Init => StatusInv /\ Rules!TypeOK
  BY StatusInit, RulesInit DEF Init
<1>2. Spec => Status!SilenceDegrades
  BY <1>1, StatusStep, SilenceStep, PTL DEF Spec, Status!SilenceDegrades
<1>3. Spec => Status!SamplesInOrder
  BY <1>1, StatusStep, OrderStep, PTL DEF Spec, Status!SamplesInOrder
<1>4. Spec => Rules!ClassNeedsAReading
  BY <1>1, RulesStep, ClassStep, PTL DEF Spec, Rules!ClassNeedsAReading
<1> QED BY <1>2, <1>3, <1>4 DEF BetterNeedsAReading
=============================================================================
