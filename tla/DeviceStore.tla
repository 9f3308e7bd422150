---------------------------- MODULE DeviceStore ----------------------------
(***************************************************************************)
(* The dashboard's shared device store: createStore of                     *)
(* web/js/dashboard/shared.js around GET /api/devices.  Views load it,     *)
(* with or without force, and subscribe to it; calls that come while a     *)
(* request is under way share that request.                                *)
(*                                                                         *)
(* JavaScript runs to completion, so an action is what happens between two *)
(* events: a call of a view, the server reading its table for a request,   *)
(* and an answer (or a failure) arriving in the page.  A device list is    *)
(* the number of changes the server had made when it was read.             *)
(***************************************************************************)
EXTENDS PageValues

CONSTANTS
    Callers,   \* code that calls load
    Listeners  \* code that subscribes

VARIABLES
    onServer,        \* changes made to the devices table of the server
    data,            \* the store's list
    loadingPromise,  \* the request that callers share
    requests,        \* what each request under way has read of the server
    calls,           \* the request each caller waits for
    seen,            \* what each subscriber was given last
    newest           \* history: the newest version the store ever held

storeVars == <<onServer, data, loadingPromise, requests, calls, seen, newest>>

Version == 0..MaxChanges
List == Version \cup {Sample, Empty}

UnderWay(r) == requests[r] # None
CallWaits(c) == calls[c] # None

TypeOK ==
    /\ onServer \in Version
    /\ data \in List \cup {None}
    /\ loadingPromise \in Requests \cup {None}
    /\ requests \in [Requests -> Version \cup {None, Waiting}]
    /\ calls \in [Callers -> Requests \cup {None}]
    /\ seen \in [Listeners -> List \cup {None, Waiting}]
    /\ newest \in Version

Init ==
    /\ onServer = 0
    /\ data = None
    /\ loadingPromise = None
    /\ requests = [r \in Requests |-> None]
    /\ calls = [c \in Callers |-> None]
    /\ seen = [l \in Listeners |-> None]
    /\ newest = 0

-----------------------------------------------------------------------------
(* The server *)

\* Another page, or the API, changes the devices.
ServerChange ==
    /\ onServer < MaxChanges
    /\ onServer' = onServer + 1
    /\ UNCHANGED <<data, loadingPromise, requests, calls, seen, newest>>

\* The handler of GET /api/devices reads the table.
ServerRead(r) ==
    /\ requests[r] = Waiting
    /\ requests' = [requests EXCEPT ![r] = onServer]
    /\ UNCHANGED <<onServer, data, loadingPromise, calls, seen, newest>>

-----------------------------------------------------------------------------
(* The page *)

\* A call that starts the request others will share.
LoadSends(c) ==
    \E r \in Requests :
        /\ ~UnderWay(r)
        /\ loadingPromise' = r
        /\ requests' = [requests EXCEPT ![r] = Waiting]
        /\ calls' = [calls EXCEPT ![c] = r]

LoadJoins(c) ==
    /\ calls' = [calls EXCEPT ![c] = loadingPromise]
    /\ UNCHANGED <<loadingPromise, requests>>

\* load; a call with data in the cache, and no request under way, is answered at
\* once and leaves everything as it is.
\* Mutant: a load with force does not look for a request under way.
LoadForcedOverlaps(c, force) ==
    /\ ~CallWaits(c)
    /\ force \/ data = None \/ loadingPromise # None
    /\ IF force \/ loadingPromise = None THEN LoadSends(c) ELSE LoadJoins(c)
    /\ UNCHANGED <<onServer, data, seen, newest>>

Load(c, force) ==
    /\ ~CallWaits(c)
    /\ force \/ data = None \/ loadingPromise # None
    /\ IF loadingPromise = None THEN LoadSends(c) ELSE LoadJoins(c)
    /\ UNCHANGED <<onServer, data, seen, newest>>

\* The list made of an answer: the array itself, its devices or its items, else [].
ListsOf(read) == {read, Empty}

Answered(r) == [c \in Callers |-> IF calls[c] = r THEN None ELSE calls[c]]

\* Mutant: the promise is forgotten only when the request succeeded.
SettleKeepsFailed(r, list) ==
    /\ data' = list
    /\ loadingPromise' = IF list = Sample THEN loadingPromise ELSE None
    /\ requests' = [requests EXCEPT ![r] = None]
    /\ seen' = [l \in Listeners |-> IF seen[l] = None THEN None ELSE list]
    /\ calls' = Answered(r)
    /\ newest' = IF list \in Version /\ list > newest THEN list ELSE newest
    /\ UNCHANGED onServer

\* Mutant: subscribers are told of loaded lists only.
SettleQuietFailure(r, list) ==
    /\ data' = list
    /\ loadingPromise' = None
    /\ requests' = [requests EXCEPT ![r] = None]
    /\ seen' = [l \in Listeners |-> IF seen[l] = None \/ list = Sample THEN seen[l] ELSE list]
    /\ calls' = Answered(r)
    /\ newest' = IF list \in Version /\ list > newest THEN list ELSE newest
    /\ UNCHANGED onServer

\* The end of a request: the list is replaced, loadingPromise forgotten, every
\* subscriber called, and then the callers that wait for it go on.
Settle(r, list) ==
    /\ data' = list
    /\ loadingPromise' = None
    /\ requests' = [requests EXCEPT ![r] = None]
    /\ seen' = [l \in Listeners |-> IF seen[l] = None THEN None ELSE list]
    /\ calls' = Answered(r)
    /\ newest' = IF list \in Version /\ list > newest THEN list ELSE newest
    /\ UNCHANGED onServer

Answer(r) ==
    /\ requests[r] \in Version
    /\ \E list \in ListsOf(requests[r]) : Settle(r, list)

\* The request fails, before or after the server read its table.
Fail(r) ==
    /\ UnderWay(r)
    /\ Settle(r, Sample)

\* A subscriber is called at once when there is data.
\* Mutant: it is called with the next list only.
SubscribeLate(l) ==
    /\ seen[l] = None
    /\ seen' = [seen EXCEPT ![l] = Waiting]
    /\ UNCHANGED <<onServer, data, loadingPromise, requests, calls, newest>>

Subscribe(l) ==
    /\ seen[l] = None
    /\ seen' = [seen EXCEPT ![l] = IF data = None THEN Waiting ELSE data]
    /\ UNCHANGED <<onServer, data, loadingPromise, requests, calls, newest>>

Unsubscribe(l) ==
    /\ seen[l] # None
    /\ seen' = [seen EXCEPT ![l] = None]
    /\ UNCHANGED <<onServer, data, loadingPromise, requests, calls, newest>>

Next ==
    \/ ServerChange
    \/ \E r \in Requests : ServerRead(r) \/ Answer(r) \/ Fail(r)
    \/ \E c \in Callers, force \in BOOLEAN : Load(c, force)
    \/ \E l \in Listeners : Subscribe(l) \/ Unsubscribe(l)

Spec == Init /\ [][Next]_storeVars

-----------------------------------------------------------------------------
(* Properties *)

\* The store never falls back to a list older than one it has shown (except
\* to the samples): requests do not overlap, so answers cannot overtake.
NoOldList == data \in Version => data >= newest

\* Every subscriber was given exactly the list the store holds: a failure
\* reaches the subscribers as an answer does.
SubscribersUpToDate ==
    data # None => \A l \in Listeners : seen[l] \in {None, data}

\* A call that waits, waits for a request that is under way: no caller is left
\* behind on a promise that nothing will settle.
LoadsSettle == \A c \in Callers : CallWaits(c) => UnderWay(calls[c])
=============================================================================
