----------------------------- MODULE GeoLookup -----------------------------
(***************************************************************************)
(* Geolocation in the page: createGeolocationService of                    *)
(* web/js/dashboard/shared.js, and its one user, the overview, which asks  *)
(* for every device it draws, shows "Resolving" meanwhile and draws again  *)
(* when the answer is there (ensureDeviceGeolocation, requestRender,       *)
(* formatGeolocationEntry).                                                *)
(*                                                                         *)
(* One address stands for all: both maps are keyed by address.  Time is in *)
(* ticks; an entry is dropped after GeoTTL, or GeoErrorTTL for a failure.   *)
(***************************************************************************)
EXTENDS PageValues

VARIABLES
    clock,      \* Date.now()
    cache,      \* the entry of the address in cache
    promise,    \* its entry in pending
    lookups,    \* the requests under way
    frame,      \* renderScheduled: requestAnimationFrame(render) was called
    shown,      \* what the device card says
    failedAt    \* history: when a lookup failed last, None if none did

geoVars == <<clock, cache, promise, lookups, frame, shown, failedAt>>

\* What /api/ipinfo says: a place, a private address, nothing known about the
\* address, or an error; "failed" is a request that failed.
Answers == {"place", "private_ip", "unlocated", "error"}
Outcomes == Answers \cup {"failed"}
Texts == {"none", "Resolving", "label", "Private address", "Unavailable", "Lookup failed"}

TypeOK ==
    /\ clock \in 0..MaxTime
    /\ cache \in [data : Outcomes, at : 0..MaxTime, error : BOOLEAN] \cup {None}
    /\ promise \in Requests \cup {None}
    /\ lookups \subseteq Requests
    /\ frame \in BOOLEAN
    /\ shown \in Texts
    /\ failedAt \in 0..MaxTime \cup {None}

Init ==
    /\ clock = 0
    /\ cache = None
    /\ promise = None
    /\ lookups = {}
    /\ frame = TRUE
    /\ shown = "none"
    /\ failedAt = None

Tick ==
    /\ clock < MaxTime
    /\ clock' = clock + 1
    /\ UNCHANGED <<cache, promise, lookups, frame, shown, failedAt>>

EntryValid ==
    /\ cache # None
    /\ clock - cache.at < IF cache.error THEN GeoErrorTTL ELSE GeoTTL

\* peek drops an entry that is no longer valid.
Peeked == IF EntryValid THEN cache ELSE None

\* formatGeolocationEntry
Entry(entry, isPending) ==
    IF isPending THEN "Resolving"
    ELSE IF entry = None THEN "none"
    ELSE CASE entry.data = "private_ip"          -> "Private address"
           [] entry.data \in {"error", "failed"} -> "Lookup failed"
           [] entry.data = "unlocated"           -> "Unavailable"
           [] OTHER                              -> "label"

\* get: a valid entry, the request under way, or a new request.
\* Mutant: only answers count as valid, failures are looked up again at once.
GetRetriesFailures ==
    IF promise # None \/ (Peeked # None /\ ~Peeked.error)
    THEN UNCHANGED <<promise, lookups>>
    ELSE \E l \in Requests \ lookups : /\ promise' = l
                                      /\ lookups' = lookups \cup {l}

Get ==
    IF Peeked # None \/ promise # None
    THEN UNCHANGED <<promise, lookups>>
    ELSE \E l \in Requests \ lookups : /\ promise' = l
                                      /\ lookups' = lookups \cup {l}

\* render: ensureDeviceGeolocation asks, then the card is drawn with what is
\* known now.
Render ==
    /\ Get
    /\ cache' = Peeked
    /\ shown' = Entry(cache', promise' # None)
    /\ frame' = FALSE
    /\ UNCHANGED <<clock, failedAt>>

\* The frame that was asked for, or a render for another reason: a filter, the
\* device store.
AnimationFrame == frame /\ Render

RenderAgain == Render

\* A lookup ends; its "finally" asks for a frame.
\* Mutant: only answers bring a new frame.
LookupEndsFrameIfOk(l, outcome) ==
    /\ cache' = [data |-> outcome, at |-> clock, error |-> outcome \in {"error", "failed"}]
    /\ promise' = None
    /\ lookups' = lookups \ {l}
    /\ frame' = (frame \/ outcome # "failed")
    /\ failedAt' = IF outcome \in {"error", "failed"} THEN clock ELSE failedAt
    /\ UNCHANGED <<clock, shown>>

\* Mutant: the promise stays in the map when the request fails.
LookupEndsKeepsPromise(l, outcome) ==
    /\ cache' = [data |-> outcome, at |-> clock, error |-> outcome \in {"error", "failed"}]
    /\ promise' = IF outcome = "failed" THEN promise ELSE None
    /\ lookups' = lookups \ {l}
    /\ frame' = TRUE
    /\ failedAt' = IF outcome \in {"error", "failed"} THEN clock ELSE failedAt
    /\ UNCHANGED <<clock, shown>>

LookupEnds(l, outcome) ==
    /\ cache' = [data |-> outcome, at |-> clock, error |-> outcome \in {"error", "failed"}]
    /\ promise' = None
    /\ lookups' = lookups \ {l}
    /\ frame' = TRUE
    /\ failedAt' = IF outcome \in {"error", "failed"} THEN clock ELSE failedAt
    /\ UNCHANGED <<clock, shown>>

Lookup(l) == l \in lookups /\ \E outcome \in Outcomes : LookupEnds(l, outcome)

\* clearExpired
ClearExpired ==
    /\ cache # None /\ ~EntryValid
    /\ cache' = None
    /\ UNCHANGED <<clock, promise, lookups, frame, shown, failedAt>>

Next ==
    \/ Tick \/ AnimationFrame \/ RenderAgain \/ ClearExpired
    \/ \E l \in Requests : Lookup(l)

Spec == Init /\ [][Next]_geoVars

-----------------------------------------------------------------------------
(* Properties *)

\* There is a promise exactly while a request is under way, and never two
\* requests for one address, however often the overview draws.
OneLookupAtATime ==
    lookups = IF promise = None THEN {} ELSE {promise}

\* A failed lookup is not repeated before GeoErrorTTL is over: the page spares
\* the server (and the service behind it) while the address fails.
FailureHolds ==
    [][ (lookups' \ lookups # {} /\ failedAt # None /\ cache # None /\ cache.error)
        => clock - failedAt >= GeoErrorTTL ]_geoVars

\* "Resolving" is on the card only while there is a request or a frame to
\* come: no card stays in it after its lookup has ended.
ResolvingEnds == shown = "Resolving" => lookups # {} \/ frame
=============================================================================
