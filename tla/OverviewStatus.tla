--------------------------- MODULE OverviewStatus ---------------------------
(***************************************************************************)
(* The status of a device on the overview: getDeviceStatus of              *)
(* web/js/dashboard/views/overview.js, beside that of another page.  The   *)
(* overview has a computation of its own; it judges the ping sample of its *)
(* last summary, and keeps what it worked out from a sample in a cache.    *)
(*                                                                         *)
(* Summaries, and the answers on the other page, are late: the sample in   *)
(* them may be any that was stored by then, or none.                       *)
(***************************************************************************)
EXTENDS StatusRules

VARIABLES
    ovNow,         \* Date.now()
    ovCreated,     \* created_at of the device, None if it has none
    overviewCache, \* the entry of the device in its deviceStatusCache
    pageCache      \* that in the statusCache of another page, see DeviceStatus

ovStatusVars == <<ovNow, ovCreated, overviewCache, pageCache>>

TypeOK ==
    /\ ovNow \in Time /\ ovCreated \in Time \cup {None}
    /\ {overviewCache, pageCache} \subseteq CacheRecord \cup {None}

Init ==
    /\ ovNow = 0 /\ ovCreated \in {0, None}
    /\ overviewCache = None /\ pageCache = None

Stored == {sample \in PingSample : sample.ts <= ovNow} \cup {None}

Passes ==
    /\ ovNow < MaxTime
    /\ ovNow' = ovNow + 1
    /\ UNCHANGED <<ovCreated, overviewCache, pageCache>>

\* getDeviceStatus of the overview, past its cache.
\* Mutant: the threshold itself no longer counts as online.
OverviewStatusStrict(created, sample, t) ==
    IF sample # None /\ t - sample.ts < OnlineFor THEN OfValue(sample)
    ELSE IF OldEnough(created, t) THEN "unreachable"
    ELSE IF sample = None THEN "unknown" ELSE "offline"

OverviewStatus(created, sample, t) ==
    IF sample # None /\ t - sample.ts <= OnlineFor THEN OfValue(sample)
    ELSE IF OldEnough(created, t) THEN "unreachable"
    ELSE IF sample = None THEN "unknown" ELSE "offline"

\* A status that was worked out from a sample is given again for a while, whatever
\* the summary has by then.
OverviewFresh ==
    /\ overviewCache # None
    /\ ovNow - overviewCache.fetchedAt < OverviewTTL
    /\ overviewCache.sample # None

\* getDeviceStatus, for a card or a filter; the sample is that of the summary, or
\* none if its request failed.
GetDeviceStatus(sample) ==
    /\ ~OverviewFresh
    /\ overviewCache' = [status |-> OverviewStatus(ovCreated, sample, ovNow),
                         sample |-> sample, fetchedAt |-> ovNow]
    /\ UNCHANGED <<ovNow, ovCreated, pageCache>>

\* An answer of getStatus arrives on the other page.
OtherPageJudges(sample) ==
    /\ pageCache' = [status |-> ComputeStatus(ovCreated, sample, ovNow),
                     sample |-> sample, fetchedAt |-> ovNow]
    /\ UNCHANGED <<ovNow, ovCreated, overviewCache>>

Next ==
    \/ Passes
    \/ \E sample \in Stored : GetDeviceStatus(sample) \/ OtherPageJudges(sample)

Spec == Init /\ [][Next]_ovStatusVars

-----------------------------------------------------------------------------
(* Properties *)

\* Of the same sample the overview and the other page, each with a computation and
\* a cache of its own, hold the same status if they judged it at the same time, and
\* whoever judged it later does not hold a better one.
PagesAgree ==
    pageCache # None /\ overviewCache # None /\ pageCache.sample = overviewCache.sample =>
        /\ pageCache.fetchedAt = overviewCache.fetchedAt =>
               pageCache.status = overviewCache.status
        /\ pageCache.fetchedAt <= overviewCache.fetchedAt =>
               Rank(overviewCache.status) <= Rank(pageCache.status)
        /\ overviewCache.fetchedAt <= pageCache.fetchedAt =>
               Rank(pageCache.status) <= Rank(overviewCache.status)

\* What the overview gives out of its cache as online rests on a sample that is
\* older than OnlineFor by less than the cache may be used, though the summary
\* was loaded, or failed to load, since.
OnlineIsRecent ==
    OverviewFresh /\ overviewCache.status = "online" =>
        ovNow - overviewCache.sample.ts < OnlineFor + OverviewTTL
=============================================================================
