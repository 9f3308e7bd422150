----------------------------- MODULE LoadingBar -----------------------------
(***************************************************************************)
(* The loading bar at the top of a page: createLoadingIndicator of         *)
(* web/js/dashboard/shared.js, fed by jsonFetch (a task for every request  *)
(* that does not skip it) and by the views that report progress by hand.   *)
(*                                                                         *)
(* Progress is counted in twentieths, the 5 % a new bar starts with.  The  *)
(* easing of the bar is abstracted to "some way nearer to its target".     *)
(***************************************************************************)
EXTENDS PageValues, FiniteSets

VARIABLES
    barTime,   \* performance.now()
    tasks,     \* per token: None, or the progress reported by hand (0: none yet)
    visible,
    visibleAt,
    hideAt,    \* when hideTimer is due, None without a timer
    autoLoop,  \* autoTimer is set
    progress

barVars == <<barTime, tasks, visible, visibleAt, hideAt, autoLoop, progress>>

Full == 20
Reported == {2, 12, 19}   \* the steps of loadTopology, of which there are five

FinitelyMany == IsFiniteSet(Requests)

TypeOK ==
    /\ barTime \in 0..MaxTime
    /\ tasks \in [Requests -> Reported \cup {None, 0}]
    /\ visible \in BOOLEAN /\ autoLoop \in BOOLEAN
    /\ visibleAt \in 0..MaxTime
    /\ hideAt \in Nat \cup {None}
    /\ progress \in 0..Full

Init ==
    /\ barTime = 0
    /\ tasks = [t \in Requests |-> None]
    /\ visible = FALSE
    /\ visibleAt = 0
    /\ hideAt = None
    /\ autoLoop = FALSE
    /\ progress = 0

Active(ts) == {t \in Requests : ts[t] # None}
Larger(a, b) == IF a >= b THEN a ELSE b
Smaller(a, b) == IF a <= b THEN a ELSE b

\* updateManualTarget: the mean of what was reported by hand, None if nothing was.
ManualTarget(ts) ==
    LET reports(p) == Cardinality({t \in Requests : ts[t] = p})
        manual == reports(2) + reports(12) + reports(19)
    IN  IF manual = 0 THEN None
        ELSE (2 * reports(2) + 12 * reports(12) + 19 * reports(19)) \div manual

Tick ==
    /\ barTime < MaxTime
    /\ barTime' = barTime + 1
    /\ UNCHANGED <<tasks, visible, visibleAt, hideAt, autoLoop, progress>>

\* begin, with ensureVisible and startAutoLoop.
\* Mutant: a bar that is still visible keeps its hide timer.
BeginKeepsTimer(t) ==
    /\ tasks[t] = None
    /\ tasks' = [tasks EXCEPT ![t] = 0]
    /\ visible' = TRUE
    /\ visibleAt' = IF visible THEN visibleAt ELSE barTime
    /\ hideAt' = IF visible THEN hideAt ELSE None
    /\ progress' = IF visible THEN progress ELSE Larger(1, progress)
    /\ autoLoop' = TRUE
    /\ UNCHANGED barTime

Begin(t) ==
    /\ tasks[t] = None
    /\ tasks' = [tasks EXCEPT ![t] = 0]
    /\ visible' = TRUE
    /\ visibleAt' = IF visible THEN visibleAt ELSE barTime
    /\ hideAt' = None
    /\ progress' = IF visible THEN progress ELSE Larger(1, progress)
    /\ autoLoop' = TRUE
    /\ UNCHANGED barTime

\* update with a token
\* Mutant: the bar jumps to the reported mean, forwards or backwards.
UpdateJumps(t, p) ==
    /\ tasks[t] # None
    /\ tasks' = [tasks EXCEPT ![t] = p]
    /\ progress' = Smaller(19, ManualTarget(tasks'))
    /\ UNCHANGED <<barTime, visible, visibleAt, hideAt, autoLoop>>

Update(t, p) ==
    /\ tasks[t] # None
    /\ tasks' = [tasks EXCEPT ![t] = p]
    /\ progress' = Smaller(19, Larger(progress, ManualTarget(tasks')))
    /\ UNCHANGED <<barTime, visible, visibleAt, hideAt, autoLoop>>

\* complete: the bar stays a moment, and at least MinVisible in all.
\* Mutant: it always stays the same moment.
HideDueSoon(since) == barTime + HideDelay

HideDue(since) == barTime + Larger(HideDelay, MinVisible - (barTime - since))

\* done
Done(t) ==
    /\ tasks[t] # None
    /\ tasks' = [tasks EXCEPT ![t] = None]
    /\ IF Active(tasks') # {} THEN UNCHANGED <<hideAt, autoLoop, progress>>
       ELSE /\ autoLoop' = FALSE
            /\ progress' = IF visible THEN Full ELSE 0
            /\ hideAt' = IF visible THEN HideDue(visibleAt) ELSE hideAt
    /\ UNCHANGED <<barTime, visible, visibleAt>>

\* The interval of startAutoLoop: nearer to 90 %, or to what was reported.
AutoStep ==
    LET target == IF ManualTarget(tasks) = None THEN 18 ELSE Smaller(19, ManualTarget(tasks))
    IN  /\ autoLoop /\ Active(tasks) # {} /\ progress < target
        /\ progress' \in (progress + 1)..target
        /\ UNCHANGED <<barTime, tasks, visible, visibleAt, hideAt, autoLoop>>

\* The timer of complete: hide.
Hide ==
    /\ hideAt # None /\ barTime >= hideAt
    /\ visible' = FALSE /\ visibleAt' = 0
    /\ hideAt' = None
    /\ progress' = 0
    /\ UNCHANGED <<barTime, tasks, autoLoop>>

Next ==
    \/ Tick \/ AutoStep \/ Hide
    \/ \E t \in Requests : Begin(t) \/ Done(t)
    \/ \E t \in Requests, p \in Reported : Update(t, p)

Spec == Init /\ [][Next]_barVars

-----------------------------------------------------------------------------
(* Properties *)

\* The bar is on the page, moving and with no timer to hide it, as long as
\* anything loads; and a bar for nothing has its timer: it cannot stay, nor be
\* taken away by the timer of the load before.
BarMatchesTasks ==
    IF Active(tasks) # {} THEN visible /\ autoLoop /\ hideAt = None
    ELSE ~autoLoop /\ (visible => hideAt # None)

\* The bar never flashes: it stays for MinVisible however the loads follow.
NoFlash == [][ visible /\ ~visible' => barTime - visibleAt >= MinVisible ]_barVars

\* While the bar is up it never runs backwards.  (A load that begins while the
\* bar of the last one is still full starts from there, which is the exception.)
NeverBackwards ==
    [][ visible /\ visible' /\ progress < Full => progress' >= progress ]_barVars
=============================================================================
