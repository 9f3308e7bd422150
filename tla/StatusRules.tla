---------------------------- MODULE StatusRules -----------------------------
(***************************************************************************)
(* How a status is worked out from a ping sample: computeStatus of         *)
(* web/js/dashboard/device-status.js.  A sample is its time and whether    *)
(* the answer was quick (below 1000 ms) or slow: a ping without an answer  *)
(* is not stored (internal/scheduler/scheduler.go).  The devices of the    *)
(* API have no status field to fall back to.                               *)
(***************************************************************************)
EXTENDS PageValues

Time == 0..MaxTime
Quality == {"quick", "slow"}
PingSample == [ts : Time, value : Quality]
Status == {"online", "offline", "unreachable", "unknown"}
\* What a page keeps of a verdict.
CacheRecord == [status : Status, sample : PingSample \cup {None}, fetchedAt : Time]

NoneIsNoSample == None \notin PingSample

\* Old enough to be flagged unreachable; an unknown age never is.
OldEnough(created, t) == created # None /\ t - created > UnreachableIn

\* The status that a recent sample stands for.
OfValue(sample) == IF sample.value = "quick" THEN "online" ELSE "offline"

\* computeStatus
\* Mutant: a silent device is called unreachable first and offline later.
ComputeSwapped(created, sample, t) ==
    IF sample = None THEN IF OldEnough(created, t) THEN "unreachable" ELSE "unknown"
    ELSE IF t - sample.ts <= OnlineFor THEN OfValue(sample)
    ELSE IF OldEnough(created, t) THEN "offline" ELSE "unreachable"

ComputeStatus(created, sample, t) ==
    IF sample = None THEN IF OldEnough(created, t) THEN "unreachable" ELSE "unknown"
    ELSE IF t - sample.ts <= OnlineFor THEN OfValue(sample)
    ELSE IF OldEnough(created, t) THEN "unreachable" ELSE "offline"

\* How much is known to work; a device that stays silent only goes down.
Rank(status) == CASE status = "online" -> 2
                  [] status \in {"offline", "unknown"} -> 1
                  [] status = "unreachable" -> 0
=============================================================================
