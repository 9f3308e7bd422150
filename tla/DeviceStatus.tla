---------------------------- MODULE DeviceStatus ----------------------------
(***************************************************************************)
(* The status of a device as most pages of the dashboard show it:          *)
(* getStatus of web/js/dashboard/device-status.js.  A page asks for the    *)
(* newest ping sample of the device on its own timers, with a cache and a  *)
(* map of the requests under way.                                          *)
(*                                                                         *)
(* Time is counted in ticks; one device stands for all, since both maps    *)
(* are keyed by device.                                                    *)
(***************************************************************************)
EXTENDS StatusRules

VARIABLES
    now,         \* Date.now()
    createdAt,   \* created_at of the device, None if it has none
    ping,        \* the newest sample on the server
    statusCache, \* the entry of the device in statusCache
    pending,     \* its entry in pendingFetches
    asks,        \* what the request of each running call has read
    overlap      \* history: the requests that were under way beside another one

statusVars == <<now, createdAt, ping, statusCache, pending, asks, overlap>>

-----------------------------------------------------------------------------
(* Requests *)

Unused == [at |-> "unused", sample |-> None]
Running(a) == asks[a] # Unused

AskRecord == [at : {"unused", "sent", "read"}, sample : PingSample \cup {None}]

CacheFresh == statusCache # None /\ now - statusCache.fetchedAt < StatusTTL

TypeOK ==
    /\ now \in Time
    /\ createdAt \in Time \cup {None}
    /\ ping \in PingSample \cup {None}
    /\ statusCache \in CacheRecord \cup {None}
    /\ pending \in Requests \cup {None}
    /\ asks \in [Requests -> AskRecord]
    /\ overlap \subseteq Requests

Init ==
    /\ now = 0
    /\ createdAt \in {0, None}
    /\ ping = None
    /\ statusCache = None
    /\ pending = None
    /\ asks = [a \in Requests |-> Unused]
    /\ overlap = {}

Tick ==
    /\ now < MaxTime
    /\ now' = now + 1
    /\ UNCHANGED <<createdAt, ping, statusCache, pending, asks, overlap>>

\* The scheduler stores a ping sample.
Pinged(value) ==
    /\ ping # None => ping.ts < now
    /\ ping' = [ts |-> now, value |-> value]
    /\ UNCHANGED <<now, createdAt, statusCache, pending, asks, overlap>>

\* A call that is not answered from the cache and does not share a request.
Send(a, force) ==
    /\ ~Running(a)
    /\ asks' = [asks EXCEPT ![a].at = "sent"]
    /\ pending' = a
    /\ overlap' = IF \E b \in Requests : Running(b)
                  THEN overlap \cup {a} \cup {b \in Requests : Running(b)} ELSE overlap
    /\ UNCHANGED <<now, createdAt, ping, statusCache>>

\* getStatus: only calls that send a request change anything.
GetStatus(a, force) ==
    /\ force \/ (~CacheFresh /\ pending = None)
    /\ Send(a, force)

\* The server reads the newest sample for a request.
ReadPing(a) ==
    /\ asks[a].at = "sent"
    /\ asks' = [asks EXCEPT ![a] = [at |-> "read", sample |-> ping]]
    /\ UNCHANGED <<now, createdAt, ping, statusCache, pending, overlap>>

\* The answer (or a failure, which counts as "no sample") is turned into a
\* status at the time it arrives, and the entry in pendingFetches is removed,
\* even if it is already another request's.
\* Mutant: the entry is left when the request failed.
ArriveKeepsPending(a, sample) ==
    /\ statusCache' = [status |-> ComputeStatus(createdAt, sample, now),
                       sample |-> sample, fetchedAt |-> now]
    /\ pending' = IF sample = None THEN pending ELSE None
    /\ asks' = [asks EXCEPT ![a] = Unused]
    /\ overlap' = overlap \ {a}
    /\ UNCHANGED <<now, createdAt, ping>>

Arrive(a, sample) ==
    /\ statusCache' = [status |-> ComputeStatus(createdAt, sample, now),
                       sample |-> sample, fetchedAt |-> now]
    /\ pending' = None
    /\ asks' = [asks EXCEPT ![a] = Unused]
    /\ overlap' = overlap \ {a}
    /\ UNCHANGED <<now, createdAt, ping>>

Answer(a) == asks[a].at = "read" /\ Arrive(a, asks[a].sample)

Fail(a) == Running(a) /\ Arrive(a, None)

\* clearCache
ClearCache ==
    /\ statusCache # None
    /\ statusCache' = None
    /\ UNCHANGED <<now, createdAt, ping, pending, asks, overlap>>

Next ==
    \/ Tick \/ ClearCache
    \/ \E v \in Quality : Pinged(v)
    \/ \E a \in Requests : ReadPing(a) \/ Answer(a) \/ Fail(a)
    \/ \E a \in Requests, force \in BOOLEAN : GetStatus(a, force)

Spec == Init /\ [][Next]_statusVars

-----------------------------------------------------------------------------
(* Properties *)

\* A device that is silent never gets better by itself: while the sample a
\* status was worked out from stays the same, time only takes a device down.
SilenceDegrades ==
    [][ (statusCache # None /\ statusCache' # None
           /\ statusCache.sample = statusCache'.sample)
        => Rank(statusCache'.status) <= Rank(statusCache.status) ]_statusVars

\* An answer replaces what a newer sample said only if its request was under way
\* beside another one, which a forced call sends (a failed request, and a server
\* without samples, know none).
SamplesInOrder ==
    [][ \A a \in Requests \ overlap :
            (Running(a) /\ ~Running(a)' /\ statusCache # None
               /\ statusCache.sample # None /\ statusCache'.sample # None)
            => statusCache'.sample.ts >= statusCache.sample.ts ]_statusVars

\* The entry in pendingFetches belongs to a call that is still running, so
\* that no later call waits for a promise that has been settled.
PendingIsRunning == pending # None => Running(pending)
=============================================================================
