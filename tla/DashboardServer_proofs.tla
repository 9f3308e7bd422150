----------------------- MODULE DashboardServer_proofs -----------------------
(***************************************************************************)
(* What Dashboard.tla says of the server behind the pages - the media of   *)
(* ranges and devices, and the tasks - for any number of requests, ranges, *)
(* devices and tasks.                                                      *)
(***************************************************************************)
EXTENDS Dashboard, TLAPS

\* A step of Dashboard is one of the part, or leaves it alone.
LEMMA MediumPart == [Next]_dashboardVars => Medium!Next \/ UNCHANGED mediumVars
BY DEF Next, Step, Rest, dashboardVars

LEMMA TasksPart == [Next]_dashboardVars => Runners!Next \/ UNCHANGED taskVars
BY DEF Next, Step, Rest, dashboardVars

-----------------------------------------------------------------------------
(* The media: what the jobs carry *)

Places == {"idle", "set", "setNew", "dropRow", "dropMedium", "dropOnly", "list", "update",
           "resolve", "write"}
Job == [at : Places, range : Medium!Ranges \cup {None}, medium : Medium!Media \cup {None},
        host : SUBSET Medium!Ranges, override : BOOLEAN, create : BOOLEAN, early : BOOLEAN]
Link == [row : {"new", "there", "deleted"}, medium : Medium!Media, override : BOOLEAN,
         asked : Medium!Media]

\* A job knows its range and its medium; a deletion leaves its devices wired.
JobsKnow ==
    \A q \in Requests :
        /\ jobs[q].at \in {"set", "setNew", "dropRow", "dropMedium", "dropOnly",
                           "list", "update"} =>
              jobs[q].range \in Medium!Ranges /\ jobs[q].medium \in Medium!Media
        /\ jobs[q].at \in {"dropRow", "dropMedium", "dropOnly"} => jobs[q].medium = "wired"
        /\ jobs[q].at = "write" => jobs[q].medium \in Medium!Media

\* A pass that stands before the update of an overridden device had listed it before
\* it was forced, for no other is listed.
OverrideHolds ==
    Medium!There /\ link.override =>
        /\ linkOvertaken \/ link.medium = link.asked
        /\ \A q \in Requests : jobs[q].at = "update" => jobs[q].early

RangeIsFollowed == Medium!FollowsItsRange

MediumTyped ==
    /\ manualRows \in [ManualRanges -> {"new", "there", "deleted"}]
    /\ mediumRows \in [Medium!Ranges -> Medium!Media \cup {None}]
    /\ link \in Link
    /\ hostIn \subseteq Medium!Ranges
    /\ jobs \in [Requests -> Job]
    /\ linkOvertaken \in BOOLEAN /\ linkApart \in BOOLEAN

MediumInv == MediumTyped /\ JobsKnow /\ OverrideHolds /\ RangeIsFollowed

LEMMA MediumNames == None \notin Medium!Media
BY Inputs DEF Medium!NoneIsNoMedium

\* The statements that make a job, or move it on, leave a job.
LEMMA IdleIsAJob == Medium!Idle \in Job
BY DEF Medium!Idle, Job, Places

GoneOn(q, at) ==
    /\ jobs'[q].at = at /\ jobs'[q].range = jobs[q].range
    /\ jobs'[q].medium = jobs[q].medium /\ jobs'[q].host = jobs[q].host
    /\ jobs'[q].override = jobs[q].override /\ jobs'[q].early = jobs[q].early
    /\ \A p \in Requests \ {q} : jobs'[p] = jobs[p]
    /\ jobs' \in [Requests -> Job]

LEMMA AfterGoesOn ==
    ASSUME jobs \in [Requests -> Job], NEW q \in Requests, NEW at \in Places,
           Medium!GoesOn(q, at)
    PROVE  GoneOn(q, at)
<1>1. [jobs[q] EXCEPT !.at = at] \in Job
  BY DEF Job
<1>2. jobs' \in [Requests -> Job]
  BY <1>1 DEF Medium!GoesOn
<1> QED BY <1>2 DEF Medium!GoesOn, Job, GoneOn

Ended(q) ==
    /\ jobs'[q].at = "idle"
    /\ \A p \in Requests \ {q} : jobs'[p] = jobs[p]
    /\ jobs' \in [Requests -> Job]

LEMMA AfterEnds ==
    ASSUME jobs \in [Requests -> Job], NEW q \in Requests, Medium!Ends(q)
    PROVE  Ended(q)
BY IdleIsAJob DEF Medium!Ends, Medium!Idle, Ended

\* The media a host can be given are media.
LEMMA ResolvedIsAMedium ==
    ASSUME MediumTyped, NEW host \in SUBSET Medium!Ranges
    PROVE  Medium!Resolved(host) \subseteq Medium!Media
<1>1. "wired" \in Medium!Media
  BY DEF Medium!Media
<1> QED BY <1>1 DEF Medium!Resolved, MediumTyped

LEMMA MediumInit == Medium!Init => MediumInv
<1> SUFFICES ASSUME Medium!Init PROVE MediumInv
  OBVIOUS
<1> USE DEF Medium!Init
<1>1. MediumTyped
  <2>1. jobs \in [Requests -> Job]
    BY IdleIsAJob
  <2>2. link \in Link
    BY DEF Medium!Media, Link
  <2> QED BY <2>1, <2>2 DEF MediumTyped
<1>2. \A q \in Requests : jobs[q].at = "idle"
  BY DEF Medium!Idle
<1>3. JobsKnow
  BY <1>2 DEF JobsKnow
<1>4. OverrideHolds /\ RangeIsFollowed
  BY DEF OverrideHolds, RangeIsFollowed, Medium!FollowsItsRange, Medium!There
<1> QED BY <1>1, <1>3, <1>4 DEF MediumInv

-----------------------------------------------------------------------------
(* The media: the requests, statement by statement *)

\* A step that changes neither the device nor a medium, and after which each pass
\* that brought the medium still does, or has found it there.
LEMMA QuietKeeps ==
    ASSUME MediumInv, MediumTyped', JobsKnow',
           link' = link, hostIn' = hostIn, mediumRows' = mediumRows,
           linkOvertaken' = linkOvertaken,
           linkApart' = FALSE => linkApart = FALSE,
           \A p \in Requests : jobs'[p].at = "update" =>
              \/ jobs[p].at = "update" /\ jobs'[p].early = jobs[p].early
              \/ Medium!There /\ ~link.override,
           \/ \A p \in Requests : Medium!Brings(p) => Medium!Brings(p)'
           \/ Medium!There /\ ~link.override /\ linkApart' = FALSE
                 => link.medium \in Medium!Resolved(hostIn)
                    \/ \E p \in Requests : Medium!Brings(p)'
    PROVE  MediumInv'
<1>1. MediumTyped /\ OverrideHolds /\ RangeIsFollowed
  BY DEF MediumInv
<1>2. Medium!Resolved(hostIn)' = Medium!Resolved(hostIn)
  BY DEF Medium!Resolved
<1>3. OverrideHolds'
  <2> SUFFICES ASSUME Medium!There', link.override'
               PROVE  /\ linkOvertaken' \/ link.medium' = link.asked'
                      /\ \A p \in Requests : jobs'[p].at = "update" => jobs'[p].early
    BY DEF OverrideHolds
  <2>1. Medium!There /\ link.override
    BY DEF Medium!There
  <2>2. /\ linkOvertaken \/ link.medium = link.asked
        /\ \A p \in Requests : jobs[p].at = "update" => jobs[p].early
    BY <1>1, <2>1 DEF OverrideHolds
  <2>3. ASSUME NEW p \in Requests, jobs'[p].at = "update" PROVE jobs'[p].early
    <3>1. jobs[p].at = "update" /\ jobs'[p].early = jobs[p].early
      BY <2>1, <2>3
    <3>2. jobs[p].early
      BY <2>2, <3>1
    <3> QED BY <3>1, <3>2
  <2> QED BY <2>2, <2>3
<1>4. Medium!There' <=> Medium!There
  BY DEF Medium!There
<1>5. RangeIsFollowed'
  <2> SUFFICES ASSUME Medium!There', ~link.override', ~linkApart'
               PROVE  \/ link.medium' \in Medium!Resolved(hostIn)'
                      \/ \E p \in Requests : Medium!Brings(p)'
    BY DEF RangeIsFollowed, Medium!FollowsItsRange
  <2>1. linkApart' = FALSE /\ ~linkApart
    BY DEF MediumInv, MediumTyped
  <2>2. \/ link.medium \in Medium!Resolved(hostIn)
        \/ \E p \in Requests : Medium!Brings(p)
    BY <1>1, <1>4, <2>1 DEF RangeIsFollowed, Medium!FollowsItsRange
  <2> QED BY <1>2, <1>4, <2>1, <2>2
<1> QED BY <1>3, <1>5 DEF MediumInv

LEMMA BeginKeeps ==
    ASSUME MediumInv, NEW q \in Requests, NEW job \in Job, Medium!Begin(q, job),
           manualRows' \in [ManualRanges -> {"new", "there", "deleted"}],
           job.at \in {"set", "setNew", "dropRow", "resolve", "write"},
           job.at \in {"set", "setNew", "dropRow"} =>
              job.range \in Medium!Ranges /\ job.medium \in Medium!Media,
           job.at = "dropRow" => job.medium = "wired",
           job.at = "write" => job.medium \in Medium!Media
    PROVE  MediumInv'
<1>1. MediumTyped /\ JobsKnow
  BY DEF MediumInv
<1>2. /\ jobs' \in [Requests -> Job] /\ jobs'[q] = job /\ jobs[q].at = "idle"
      /\ \A p \in Requests \ {q} : jobs'[p] = jobs[p]
      /\ link' = link /\ hostIn' = hostIn /\ mediumRows' = mediumRows
      /\ linkOvertaken' = linkOvertaken /\ linkApart' = linkApart
  BY <1>1 DEF Medium!Begin, Medium!Busy, MediumTyped
<1>3. MediumTyped' /\ JobsKnow'
  BY <1>1, <1>2 DEF MediumTyped, JobsKnow
<1>4. Medium!Resolved(hostIn)' = Medium!Resolved(hostIn)
  BY <1>2 DEF Medium!Resolved
<1>5. \A p \in Requests : Medium!Brings(p) => Medium!Brings(p)'
  BY <1>2, <1>4 DEF Medium!Brings
<1> QED BY <1>2, <1>3, <1>5, QuietKeeps

LEMMA SetKeeps ==
    ASSUME MediumInv, NEW q \in Requests, Medium!SetNetworkRangeMedium(q)
    PROVE  MediumInv'
<1>1. MediumTyped /\ JobsKnow /\ OverrideHolds /\ RangeIsFollowed
  BY DEF MediumInv
<1>2. /\ GoneOn(q, "list") /\ jobs[q].at \in {"set", "setNew"}
      /\ mediumRows' = [mediumRows EXCEPT ![jobs[q].range] = jobs[q].medium]
      /\ manualRows' = manualRows /\ link' = link /\ hostIn' = hostIn
      /\ linkOvertaken' = linkOvertaken /\ linkApart' = linkApart
      /\ jobs[q].range \in Medium!Ranges /\ jobs[q].medium \in Medium!Media
  BY <1>1, AfterGoesOn DEF Medium!SetNetworkRangeMedium, MediumTyped, Places, JobsKnow
<1>3. MediumTyped' /\ JobsKnow'
  BY <1>1, <1>2 DEF MediumTyped, JobsKnow, GoneOn
<1>4. OverrideHolds'
  BY <1>1, <1>2 DEF OverrideHolds, GoneOn, Medium!There
<1>5. RangeIsFollowed'
  <2>1. CASE jobs[q].range \in hostIn
    <3>1. mediumRows'[jobs[q].range] = jobs[q].medium /\ jobs[q].medium # None
      BY <1>1, <1>2, MediumNames DEF MediumTyped
    <3>2. jobs[q].medium \in Medium!Resolved(hostIn)'
      BY <1>2, <2>1, <3>1 DEF Medium!Resolved
    <3>3. Medium!Brings(q)'
      BY <1>2, <2>1, <3>2 DEF Medium!Brings, GoneOn
    <3> QED BY <3>3 DEF RangeIsFollowed, Medium!FollowsItsRange
  <2>2. CASE jobs[q].range \notin hostIn
    <3>1. \A r \in hostIn : mediumRows'[r] = mediumRows[r]
      BY <1>1, <1>2, <2>2 DEF MediumTyped
    <3>2. Medium!Resolved(hostIn)' = Medium!Resolved(hostIn)
      BY <3>1, <1>2 DEF Medium!Resolved
    <3>3. \A p \in Requests : Medium!Brings(p) => Medium!Brings(p)'
      BY <1>2, <3>2 DEF Medium!Brings, GoneOn
    <3> QED BY <1>1, <1>2, <3>2, <3>3 DEF RangeIsFollowed, Medium!FollowsItsRange, Medium!There
  <2> QED BY <2>1, <2>2
<1> QED BY <1>3, <1>4, <1>5 DEF MediumInv

LEMMA MoveKeeps ==
    ASSUME MediumInv, NEW q \in Requests, Medium!SetFails(q) \/ Medium!DropRow(q)
    PROVE  MediumInv'
<1>1. MediumTyped /\ JobsKnow
  BY DEF MediumInv
<1>2. PICK at \in {"list", "dropMedium", "dropOnly"} : Medium!GoesOn(q, at)
  BY DEF Medium!SetFails, Medium!DropRow
<1>3. /\ GoneOn(q, at) /\ jobs[q].at \in {"setNew", "dropRow"}
      /\ at # "list" => jobs[q].at = "dropRow"
      /\ mediumRows' = mediumRows /\ link' = link /\ hostIn' = hostIn
      /\ linkOvertaken' = linkOvertaken /\ linkApart' = linkApart
  <2>1. CASE Medium!SetFails(q)
    <3>1. Medium!GoesOn(q, "list") /\ "list" \in Places
      BY <2>1 DEF Medium!SetFails, Places
    <3>2. GoneOn(q, "list")
      BY <1>1, <3>1, AfterGoesOn DEF MediumTyped
    <3>3. at = "list"
      BY <1>1, <1>2, <3>1, AfterGoesOn DEF MediumTyped, GoneOn, Places
    <3> QED BY <2>1, <3>2, <3>3 DEF Medium!SetFails
  <2>2. CASE Medium!DropRow(q)
    BY <1>1, <1>2, <2>2, AfterGoesOn DEF Medium!DropRow, MediumTyped, Places
  <2> QED BY <2>1, <2>2
<1>4. MediumTyped'
  BY <1>1, <1>3 DEF MediumTyped, GoneOn, Medium!SetFails, Medium!DropRow
<1>5. JobsKnow'
  BY <1>1, <1>3 DEF JobsKnow, GoneOn
<1>6. Medium!Resolved(hostIn)' = Medium!Resolved(hostIn)
  BY <1>3 DEF Medium!Resolved
<1>7. \A p \in Requests : Medium!Brings(p) => Medium!Brings(p)'
  BY <1>3, <1>6 DEF Medium!Brings, GoneOn
<1>8. \A p \in Requests : jobs'[p].at = "update" => jobs'[p] = jobs[p]
  BY <1>3 DEF GoneOn
<1> QED BY <1>3, <1>4, <1>5, <1>7, <1>8, QuietKeeps

LEMMA DropMediumKeeps ==
    ASSUME MediumInv, NEW q \in Requests, Medium!DeleteNetworkRangeMedium(q)
    PROVE  MediumInv'
<1>1. MediumTyped /\ JobsKnow /\ OverrideHolds /\ RangeIsFollowed
  BY DEF MediumInv
<1>2. /\ mediumRows' = [mediumRows EXCEPT ![jobs[q].range] = None]
      /\ manualRows' = manualRows /\ link' = link /\ hostIn' = hostIn
      /\ linkOvertaken' = linkOvertaken
      /\ linkApart' = \/ linkApart
                      \/ /\ Medium!There /\ link.medium \notin Medium!Resolved(hostIn)'
                         /\ jobs[q].at = "dropOnly" \/ "wired" \notin Medium!Resolved(hostIn)'
      /\ jobs[q].at \in {"dropMedium", "dropOnly"}
      /\ jobs[q].range \in Medium!Ranges /\ jobs[q].medium = "wired"
  BY <1>1 DEF Medium!DeleteNetworkRangeMedium, JobsKnow
<1>3. /\ \A p \in Requests \ {q} : jobs'[p] = jobs[p]
      /\ jobs' \in [Requests -> Job]
      /\ IF jobs[q].at = "dropMedium" THEN GoneOn(q, "list") ELSE Ended(q)
  BY <1>1, AfterGoesOn, AfterEnds
  DEF Medium!DeleteNetworkRangeMedium, MediumTyped, Places, GoneOn, Ended
<1>4. MediumTyped' /\ JobsKnow'
  BY <1>1, <1>2, <1>3 DEF MediumTyped, JobsKnow, GoneOn, Ended
<1>5. OverrideHolds'
  BY <1>1, <1>2, <1>3 DEF OverrideHolds, GoneOn, Ended, Medium!There
<1>6. RangeIsFollowed'
  <2> SUFFICES ASSUME Medium!There', link'.override # TRUE, linkApart' = FALSE,
                      link'.medium \notin Medium!Resolved(hostIn)'
               PROVE  \E p \in Requests : Medium!Brings(p)'
    BY <1>4 DEF RangeIsFollowed, Medium!FollowsItsRange, MediumTyped
  <2>1. Medium!There /\ link.medium \notin Medium!Resolved(hostIn)' /\ linkApart = FALSE
    BY <1>1, <1>2 DEF Medium!There, MediumTyped
  <2>2. jobs[q].at = "dropMedium" /\ "wired" \in Medium!Resolved(hostIn)'
    BY <1>2, <2>1
  <2>3. CASE jobs[q].range \in hostIn
    BY <1>2, <1>3, <2>2, <2>3 DEF Medium!Brings, GoneOn
  <2>4. CASE jobs[q].range \notin hostIn
    <3>1. \A r \in hostIn : mediumRows'[r] = mediumRows[r]
      BY <1>1, <1>2, <2>4 DEF MediumTyped
    <3>2. Medium!Resolved(hostIn)' = Medium!Resolved(hostIn)
      BY <3>1, <1>2 DEF Medium!Resolved
    <3>3. PICK p \in Requests : Medium!Brings(p)
      BY <1>1, <1>2, <2>1, <3>2 DEF RangeIsFollowed, Medium!FollowsItsRange
    <3>4. Medium!Brings(p)'
      BY <1>2, <1>3, <3>2, <3>3 DEF Medium!Brings
    <3> QED BY <3>4
  <2> QED BY <2>3, <2>4
<1> QED BY <1>4, <1>5, <1>6 DEF MediumInv

\* A request that ends, in its pass only if the device has followed or is noted as
\* apart.
LEMMA EndKeeps ==
    ASSUME MediumInv, NEW q \in Requests, Medium!Ends(q), Medium!Busy(q),
           manualRows' = manualRows, mediumRows' = mediumRows, link' = link, hostIn' = hostIn,
           linkOvertaken' = linkOvertaken, linkApart' \in BOOLEAN,
           linkApart' = FALSE =>
               /\ linkApart = FALSE
               /\ Medium!Brings(q) /\ Medium!There /\ ~link.override
                     => link.medium \in Medium!Resolved(hostIn)
    PROVE  MediumInv'
<1>1. MediumTyped /\ JobsKnow /\ RangeIsFollowed
  BY DEF MediumInv
<1>2. Ended(q)
  BY <1>1, AfterEnds DEF MediumTyped
<1>3. MediumTyped' /\ JobsKnow'
  BY <1>1, <1>2 DEF MediumTyped, JobsKnow, Ended
<1>4. Medium!Resolved(hostIn)' = Medium!Resolved(hostIn)
  BY DEF Medium!Resolved
<1>5. \A p \in Requests \ {q} : Medium!Brings(p) => Medium!Brings(p)'
  BY <1>2, <1>4 DEF Medium!Brings, Ended
<1>6. Medium!There /\ ~link.override /\ linkApart' = FALSE
        => link.medium \in Medium!Resolved(hostIn) \/ \E p \in Requests : Medium!Brings(p)'
  BY <1>1, <1>5 DEF RangeIsFollowed, Medium!FollowsItsRange
<1>7. \A p \in Requests : jobs'[p].at = "update" => jobs'[p] = jobs[p]
  BY <1>2 DEF Ended
<1> QED BY <1>3, <1>6, <1>7, QuietKeeps

LEMMA ListKeeps ==
    ASSUME MediumInv, NEW q \in Requests, Medium!ListDeviceRecords(q)
    PROVE  MediumInv'
<1>1. MediumTyped /\ JobsKnow
  BY DEF MediumInv
<1>2. /\ jobs[q].at = "list" /\ mediumRows' = mediumRows /\ manualRows' = manualRows
      /\ link' = link /\ hostIn' = hostIn /\ linkOvertaken' = linkOvertaken
      /\ linkApart' = linkApart /\ linkApart' \in BOOLEAN
  BY <1>1 DEF Medium!ListDeviceRecords, MediumTyped
<1> DEFINE updates == /\ Medium!There /\ ~link.override
                      /\ jobs[q].range \in hostIn /\ link.medium # jobs[q].medium
<1>3. CASE ~updates
  <2>1. Medium!Ends(q) /\ Medium!Busy(q)
    BY <1>2, <1>3 DEF Medium!ListDeviceRecords, Medium!Busy
  <2>2. Medium!Brings(q) /\ Medium!There /\ ~link.override
          => link.medium \in Medium!Resolved(hostIn)
    BY <1>3 DEF Medium!Brings
  <2> QED BY <1>2, <2>1, <2>2, EndKeeps
<1>4. CASE updates
  <2>1. GoneOn(q, "update")
    BY <1>1, <1>2, <1>4, AfterGoesOn DEF Medium!ListDeviceRecords, MediumTyped, Places
  <2>2. MediumTyped' /\ JobsKnow'
    BY <1>1, <1>2, <2>1 DEF MediumTyped, JobsKnow, GoneOn
  <2>3. Medium!Resolved(hostIn)' = Medium!Resolved(hostIn)
    BY <1>2 DEF Medium!Resolved
  <2>4. \A p \in Requests : Medium!Brings(p) => Medium!Brings(p)'
    BY <1>2, <2>1, <2>3 DEF Medium!Brings, GoneOn
  <2>5. \A p \in Requests \ {q} : jobs'[p] = jobs[p]
    BY <2>1 DEF GoneOn
  <2> QED BY <1>2, <1>4, <2>2, <2>4, <2>5, QuietKeeps
<1> QED BY <1>3, <1>4

LEMMA UpdateKeeps ==
    ASSUME MediumInv, NEW q \in Requests, Medium!UpdateDeviceConnection(q)
    PROVE  MediumInv'
<1>1. MediumTyped /\ JobsKnow /\ OverrideHolds
  BY DEF MediumInv
<1>2. /\ jobs[q].at = "update" /\ mediumRows' = mediumRows /\ manualRows' = manualRows
      /\ hostIn' = hostIn /\ jobs[q].medium \in Medium!Media /\ Ended(q)
      /\ jobs[q] \in Job
  BY <1>1, AfterEnds DEF Medium!UpdateDeviceConnection, MediumTyped, JobsKnow
<1>3. CASE Medium!There
  <2>1. /\ link' = [link EXCEPT !.medium = jobs[q].medium]
        /\ linkOvertaken' = (linkOvertaken \/ jobs[q].early)
        /\ linkApart' = (jobs[q].medium \notin Medium!Resolved(hostIn))
    BY <1>3 DEF Medium!UpdateDeviceConnection
  <2>2. /\ link' \in Link /\ link'.medium = jobs[q].medium
        /\ link'.override = link.override /\ link'.row = link.row
    BY <1>1, <1>2, <2>1 DEF MediumTyped, Link
  <2>3. MediumTyped' /\ JobsKnow'
    BY <1>1, <1>2, <2>1, <2>2 DEF MediumTyped, JobsKnow, Ended, Job
  <2>4. OverrideHolds'
    BY <1>1, <1>2, <1>3, <2>1, <2>2 DEF OverrideHolds, Ended, Medium!There
  <2>5. Medium!Resolved(hostIn)' = Medium!Resolved(hostIn)
    BY <1>2 DEF Medium!Resolved
  <2>6. RangeIsFollowed'
    BY <2>1, <2>2, <2>5 DEF RangeIsFollowed, Medium!FollowsItsRange
  <2> QED BY <2>3, <2>4, <2>6 DEF MediumInv
<1>4. CASE ~Medium!There
  <2>1. link' = link /\ linkOvertaken' = linkOvertaken /\ linkApart' = linkApart
    BY <1>4 DEF Medium!UpdateDeviceConnection
  <2>2. Medium!Ends(q) /\ Medium!Busy(q) /\ linkApart' \in BOOLEAN
    BY <1>1, <1>2, <2>1 DEF Medium!UpdateDeviceConnection, Medium!Busy, MediumTyped
  <2> QED BY <1>2, <1>4, <2>1, <2>2, EndKeeps
<1> QED BY <1>3, <1>4

LEMMA FailKeeps ==
    ASSUME MediumInv, NEW q \in Requests, Medium!StatementFails(q)
    PROVE  MediumInv'
<1>1. linkApart \in BOOLEAN
  BY DEF MediumInv, MediumTyped
<1>2. /\ Medium!Ends(q) /\ Medium!Busy(q)
      /\ manualRows' = manualRows /\ mediumRows' = mediumRows /\ link' = link
      /\ hostIn' = hostIn /\ linkOvertaken' = linkOvertaken
      /\ linkApart' = (linkApart \/ (jobs[q].at \in {"list", "update"} /\ Medium!IsApart))
  BY DEF Medium!StatementFails, Medium!Busy
<1>3. linkApart' = FALSE => linkApart = FALSE /\ (Medium!Brings(q) => ~Medium!IsApart)
  BY <1>1, <1>2 DEF Medium!Brings
<1>4. linkApart' \in BOOLEAN
  BY <1>1, <1>2
<1> QED BY <1>2, <1>3, <1>4, EndKeeps DEF Medium!IsApart

-----------------------------------------------------------------------------
(* The media: the device *)

LEMMA ResolvesKeep ==
    ASSUME MediumInv, NEW q \in Requests, Medium!Resolve(q) \/ Medium!ResolveFails(q)
    PROVE  MediumInv'
<1>1. MediumTyped /\ JobsKnow
  BY DEF MediumInv
<1>2. jobs[q] \in Job /\ jobs[q].host \in SUBSET Medium!Ranges /\ jobs[q].at = "resolve"
  BY <1>1 DEF MediumTyped, Job, Medium!Resolve, Medium!ResolveFails
<1>3. PICK medium \in Medium!Media :
          jobs' = [jobs EXCEPT ![q] = [[jobs[q] EXCEPT !.at = "write"] EXCEPT !.medium = medium]]
  <2>1. "wired" \in Medium!Media
    BY DEF Medium!Media
  <2>2. Medium!Resolved(jobs[q].host) \subseteq Medium!Media
    BY <1>1, <1>2, ResolvedIsAMedium
  <2> QED BY <1>1, <2>1, <2>2 DEF Medium!Resolve, Medium!ResolveFails, MediumTyped
<1>4. [[jobs[q] EXCEPT !.at = "write"] EXCEPT !.medium = medium] \in Job
  BY <1>2 DEF Job, Places
<1>5. /\ jobs' \in [Requests -> Job] /\ jobs'[q].at = "write" /\ jobs'[q].medium = medium
      /\ \A p \in Requests \ {q} : jobs'[p] = jobs[p]
  BY <1>1, <1>2, <1>3, <1>4 DEF MediumTyped, Job
<1>6. /\ manualRows' = manualRows /\ mediumRows' = mediumRows /\ link' = link
      /\ hostIn' = hostIn /\ linkOvertaken' = linkOvertaken /\ linkApart' = linkApart
  BY DEF Medium!Resolve, Medium!ResolveFails
<1>7. MediumTyped' /\ JobsKnow'
  BY <1>1, <1>5, <1>6 DEF MediumTyped, JobsKnow
<1>8. Medium!Resolved(hostIn)' = Medium!Resolved(hostIn)
  BY <1>6 DEF Medium!Resolved
<1>9. \A p \in Requests : Medium!Brings(p) => Medium!Brings(p)'
  BY <1>2, <1>5, <1>6, <1>8 DEF Medium!Brings
<1> QED BY <1>5, <1>6, <1>7, <1>9, QuietKeeps

\* What is written is compared with the range then and there; every pass that has
\* listed the device is early.
LEMMA WriteKeeps ==
    ASSUME MediumInv, NEW q \in Requests, Medium!WriteDevice(q)
    PROVE  MediumInv'
<1>1. MediumTyped /\ JobsKnow /\ OverrideHolds /\ RangeIsFollowed
  BY DEF MediumInv
<1>2. /\ jobs[q].at = "write" /\ mediumRows' = mediumRows /\ manualRows' = manualRows
      /\ jobs[q].medium \in Medium!Media /\ jobs[q].override \in BOOLEAN
      /\ jobs[q].host \in SUBSET Medium!Ranges
  BY <1>1 DEF Medium!WriteDevice, MediumTyped, JobsKnow, Job
<1>3. ASSUME NEW p \in Requests
      PROVE  /\ jobs'[p] \in Job
             /\ p = q => jobs'[p].at = "idle"
             /\ p # q => /\ jobs'[p].at = jobs[p].at /\ jobs'[p].range = jobs[p].range
                         /\ jobs'[p].medium = jobs[p].medium
                         /\ jobs'[p].early = (jobs[p].at = "update")
  <2>1. jobs'[p] = IF p = q THEN Medium!Idle
                   ELSE [jobs[p] EXCEPT !.early = (jobs[p].at = "update")]
    BY DEF Medium!WriteDevice
  <2>2. jobs[p] \in Job /\ Medium!Idle \in Job /\ Medium!Idle.at = "idle"
    BY <1>1, IdleIsAJob DEF MediumTyped, Medium!Idle
  <2> QED BY <2>1, <2>2 DEF Job
<1>4. jobs' \in [Requests -> Job]
  BY <1>3 DEF Medium!WriteDevice
<1>5. JobsKnow'
  BY <1>1, <1>3 DEF JobsKnow
<1>6. CASE jobs[q].create # Medium!There
  <2>1. /\ link' = [row |-> "there", medium |-> jobs[q].medium,
                    override |-> jobs[q].override, asked |-> jobs[q].medium]
        /\ hostIn' = jobs[q].host /\ linkOvertaken' = FALSE
        /\ linkApart' = (jobs[q].medium \notin Medium!Resolved(jobs[q].host))
    BY <1>6 DEF Medium!WriteDevice
  <2>2. MediumTyped'
    BY <1>1, <1>2, <1>4, <2>1 DEF MediumTyped, Link
  <2>3. OverrideHolds'
    BY <1>3, <2>1 DEF OverrideHolds
  <2>4. Medium!Resolved(hostIn)' = Medium!Resolved(jobs[q].host)
    BY <1>2, <2>1 DEF Medium!Resolved
  <2>5. RangeIsFollowed'
    BY <2>1, <2>4 DEF RangeIsFollowed, Medium!FollowsItsRange
  <2> QED BY <1>5, <2>2, <2>3, <2>5 DEF MediumInv
<1>7. CASE ~(jobs[q].create # Medium!There)
  <2>1. /\ link' = link /\ hostIn' = hostIn /\ linkOvertaken' = linkOvertaken
        /\ linkApart' = linkApart
    BY <1>7 DEF Medium!WriteDevice
  <2>2. MediumTyped'
    BY <1>1, <1>2, <1>4, <2>1 DEF MediumTyped
  <2>3. OverrideHolds'
    BY <1>1, <1>3, <2>1 DEF OverrideHolds, Medium!There
  <2>4. Medium!Resolved(hostIn)' = Medium!Resolved(hostIn)
    BY <1>2, <2>1 DEF Medium!Resolved
  <2>5. \A p \in Requests : Medium!Brings(p) => Medium!Brings(p)'
    BY <1>2, <1>3, <2>1, <2>4 DEF Medium!Brings
  <2>6. RangeIsFollowed'
    BY <1>1, <2>1, <2>4, <2>5 DEF RangeIsFollowed, Medium!FollowsItsRange, Medium!There
  <2> QED BY <1>5, <2>2, <2>3, <2>6 DEF MediumInv
<1> QED BY <1>6, <1>7

LEMMA DeleteDeviceKeeps ==
    ASSUME MediumInv, Medium!DeleteDevice
    PROVE  MediumInv'
<1>1. MediumTyped /\ JobsKnow
  BY DEF MediumInv
<1>2. /\ link' = [link EXCEPT !.row = "deleted"] /\ mediumRows' = mediumRows
      /\ manualRows' = manualRows /\ hostIn' = hostIn /\ jobs' = jobs
      /\ linkOvertaken' = linkOvertaken /\ linkApart' = linkApart
  BY DEF Medium!DeleteDevice
<1>3. link' \in Link /\ link'.row = "deleted"
  BY <1>1, <1>2 DEF MediumTyped, Link
<1>4. MediumTyped' /\ JobsKnow'
  BY <1>1, <1>2, <1>3 DEF MediumTyped, JobsKnow
<1>5. OverrideHolds' /\ RangeIsFollowed'
  BY <1>3 DEF OverrideHolds, RangeIsFollowed, Medium!FollowsItsRange, Medium!There
<1> QED BY <1>4, <1>5 DEF MediumInv

\* The start-up pass: no request is left, and a device that is apart is noted.
LEMMA StartUpKeeps ==
    ASSUME MediumInv, NEW host \in SUBSET Medium!Ranges, Medium!Restart(host)
    PROVE  MediumInv'
<1>1. MediumTyped /\ OverrideHolds
  BY DEF MediumInv
<1>2. /\ jobs' = [q \in Requests |-> Medium!Idle]
      /\ manualRows' = manualRows /\ mediumRows' = mediumRows /\ linkOvertaken' = linkOvertaken
      /\ linkApart' = IF link.row = "new" THEN "wired" \notin Medium!Resolved(host)
                      ELSE linkApart \/ Medium!IsApart
  BY DEF Medium!Restart
<1>3. jobs' \in [Requests -> Job] /\ \A q \in Requests : jobs'[q].at = "idle"
  BY <1>2, IdleIsAJob DEF Medium!Idle
<1>4. JobsKnow'
  BY <1>3 DEF JobsKnow
<1>5. CASE link.row = "new"
  <2>1. /\ hostIn' = host /\ linkApart' = ("wired" \notin Medium!Resolved(host))
        /\ link' = [row |-> "there", medium |-> "wired", override |-> FALSE,
                    asked |-> "wired"]
    BY <1>2, <1>5 DEF Medium!Restart
  <2>2. MediumTyped'
    BY <1>1, <1>2, <1>3, <2>1 DEF MediumTyped, Link, Medium!Media
  <2>3. Medium!Resolved(hostIn)' = Medium!Resolved(host)
    BY <1>2, <2>1 DEF Medium!Resolved
  <2>4. OverrideHolds' /\ RangeIsFollowed'
    BY <2>1, <2>3 DEF OverrideHolds, RangeIsFollowed, Medium!FollowsItsRange
  <2> QED BY <1>4, <2>2, <2>4 DEF MediumInv
<1>6. CASE link.row # "new"
  <2>1. link' = link /\ hostIn' = hostIn /\ linkApart' = (linkApart \/ Medium!IsApart)
    BY <1>2, <1>6 DEF Medium!Restart
  <2>2. MediumTyped'
    BY <1>1, <1>2, <1>3, <2>1 DEF MediumTyped
  <2>3. Medium!Resolved(hostIn)' = Medium!Resolved(hostIn)
    BY <1>2, <2>1 DEF Medium!Resolved
  <2>4. OverrideHolds'
    BY <1>1, <1>2, <1>3, <2>1 DEF OverrideHolds, Medium!There
  <2>5. RangeIsFollowed'
    BY <2>1, <2>3 DEF RangeIsFollowed, Medium!FollowsItsRange, Medium!There, Medium!IsApart
  <2> QED BY <1>4, <2>2, <2>4, <2>5 DEF MediumInv
<1> QED BY <1>5, <1>6

-----------------------------------------------------------------------------
(* The media: the theorem *)

LEMMA RequestsBegin ==
    ASSUME MediumInv, NEW q \in Requests,
           \/ \E r \in ManualRanges, medium \in Medium!Media : Medium!CreateRange(q, r, medium)
           \/ \E r \in Medium!Ranges, medium \in Medium!Media : Medium!UpdateRange(q, r, medium)
           \/ \E r \in ManualRanges : Medium!DeleteRange(q, r)
           \/ \E host \in SUBSET Medium!Ranges, choice \in {"auto"} \cup Medium!Media,
                 create \in BOOLEAN : Medium!EditDevice(q, host, choice, create)
    PROVE  MediumInv'
<1>1. manualRows \in [ManualRanges -> {"new", "there", "deleted"}]
  BY DEF MediumInv, MediumTyped
<1>2. ManualRanges \subseteq Medium!Ranges /\ "wired" \in Medium!Media
  BY DEF Medium!Ranges, Medium!Media
<1> USE DEF Medium!Idle, Job, Places
<1>3. ASSUME NEW r \in ManualRanges, NEW medium \in Medium!Media,
             Medium!CreateRange(q, r, medium)
      PROVE  MediumInv'
  <2> DEFINE job == [Medium!Idle EXCEPT !.at = "setNew", !.range = r, !.medium = medium]
  <2>1. job \in Job /\ job.at = "setNew" /\ job.range = r /\ job.medium = medium
    BY <1>2
  <2>2. Medium!Begin(q, job)
    BY <1>3 DEF Medium!CreateRange
  <2>3. manualRows' \in [ManualRanges -> {"new", "there", "deleted"}]
    BY <1>1, <1>3 DEF Medium!CreateRange
  <2> HIDE DEF job
  <2> QED BY <1>2, <2>1, <2>2, <2>3, BeginKeeps
<1>4. ASSUME NEW r \in Medium!Ranges, NEW medium \in Medium!Media,
             Medium!UpdateRange(q, r, medium)
      PROVE  MediumInv'
  <2> DEFINE job == [Medium!Idle EXCEPT !.at = "set", !.range = r, !.medium = medium]
  <2>1. job \in Job /\ job.at = "set" /\ job.range = r /\ job.medium = medium
    BY <1>2
  <2>2. Medium!Begin(q, job) /\ manualRows' = manualRows
    BY <1>4 DEF Medium!UpdateRange
  <2> HIDE DEF job
  <2> QED BY <1>1, <2>1, <2>2, BeginKeeps
<1>5. ASSUME NEW r \in ManualRanges, Medium!DeleteRange(q, r)
      PROVE  MediumInv'
  <2> DEFINE job == [Medium!Idle EXCEPT !.at = "dropRow", !.range = r, !.medium = "wired"]
  <2>1. job \in Job /\ job.at = "dropRow" /\ job.range = r /\ job.medium = "wired"
    BY <1>2
  <2>2. Medium!Begin(q, job) /\ manualRows' = manualRows
    BY <1>5 DEF Medium!DeleteRange
  <2> HIDE DEF job
  <2> QED BY <1>1, <1>2, <2>1, <2>2, BeginKeeps
<1>6. ASSUME NEW host \in SUBSET Medium!Ranges, NEW choice \in {"auto"} \cup Medium!Media,
             NEW create \in BOOLEAN, Medium!EditDevice(q, host, choice, create)
      PROVE  MediumInv'
  <2>1. CASE choice = "auto"
    <3> DEFINE job == [Medium!Idle EXCEPT !.at = "resolve", !.host = host, !.create = create]
    <3>1. job \in Job /\ job.at = "resolve"
      OBVIOUS
    <3>2. Medium!Begin(q, job) /\ manualRows' = manualRows
      BY <1>6, <2>1 DEF Medium!EditDevice
    <3> HIDE DEF job
    <3> QED BY <1>1, <3>1, <3>2, BeginKeeps
  <2>2. CASE choice # "auto"
    <3> DEFINE job == [Medium!Idle EXCEPT !.at = "write", !.host = host, !.medium = choice,
                                          !.override = TRUE, !.create = create]
    <3>1. job \in Job /\ job.at = "write" /\ job.medium \in Medium!Media
      BY <2>2
    <3>2. Medium!Begin(q, job) /\ manualRows' = manualRows
      BY <1>6, <2>2 DEF Medium!EditDevice
    <3> HIDE DEF job
    <3> QED BY <1>1, <3>1, <3>2, BeginKeeps
  <2> QED BY <2>1, <2>2
<1> QED BY <1>3, <1>4, <1>5, <1>6

LEMMA MediumStep == MediumInv /\ [Next]_dashboardVars => MediumInv'
<1> SUFFICES ASSUME MediumInv, [Next]_dashboardVars PROVE MediumInv'
  OBVIOUS
<1>1. CASE UNCHANGED mediumVars
  <2>1. /\ manualRows' = manualRows /\ mediumRows' = mediumRows /\ link' = link
        /\ hostIn' = hostIn /\ jobs' = jobs /\ linkOvertaken' = linkOvertaken
        /\ linkApart' = linkApart
    BY <1>1 DEF mediumVars
  <2>2. MediumTyped' /\ JobsKnow'
    BY <2>1 DEF MediumInv, MediumTyped, JobsKnow
  <2>3. Medium!Resolved(hostIn)' = Medium!Resolved(hostIn)
    BY <2>1 DEF Medium!Resolved
  <2>4. \A p \in Requests : Medium!Brings(p) => Medium!Brings(p)'
    BY <2>1, <2>3 DEF Medium!Brings
  <2> QED BY <2>1, <2>2, <2>4, QuietKeeps
<1>2. CASE Medium!Next
  BY <1>2, RequestsBegin, SetKeeps, MoveKeeps, DropMediumKeeps, ListKeeps, UpdateKeeps,
     FailKeeps, ResolvesKeep, WriteKeeps, DeleteDeviceKeeps, StartUpKeeps
  DEF Medium!Next
<1> QED BY <1>1, <1>2, MediumPart

LEMMA MediumIsRight == MediumInv => ConnectionsAreRight
<1> SUFFICES ASSUME MediumInv PROVE Medium!OverrideIsKept /\ Medium!FollowsItsRange
  BY DEF ConnectionsAreRight
<1>1. Medium!OverrideIsKept
  BY DEF MediumInv, OverrideHolds, Medium!OverrideIsKept
<1>2. Medium!FollowsItsRange
  BY DEF MediumInv, RangeIsFollowed
<1> QED BY <1>1, <1>2

\* The medium that the user forced on a device is written over only by a pass that had
\* listed the device before, and a device without override has the medium of its range
\* unless one of the causes that FollowsItsRange names has parted them: the handlers of
\* /api/discovery/ranges, the edits of a device and the start-up pass, for any number
\* of requests and ranges.
THEOREM ConnectionsStayRight == Spec => []ConnectionsAreRight
<1>1. Init => MediumInv
  BY MediumInit DEF Init
<1> QED BY <1>1, MediumStep, MediumIsRight, PTL DEF Spec

JobsCounted == mediumErrands \in 0..MaxJobs

LEMMA JobsAreCounted ==
    /\ Medium!Init => JobsCounted
    /\ JobsCounted /\ [Next]_dashboardVars => JobsCounted'
<1> USE DEF JobsCounted
<1>1. Medium!Init => mediumErrands \in 0..MaxJobs
  <2>1. 0 \in 0..MaxJobs
    BY Inputs
  <2> QED BY <2>1 DEF Medium!Init
<1>2. ASSUME mediumErrands \in 0..MaxJobs, Medium!Next \/ UNCHANGED mediumVars
      PROVE  mediumErrands' \in 0..MaxJobs
  <2>1. ASSUME NEW q, NEW job, Medium!Begin(q, job) PROVE mediumErrands' \in 0..MaxJobs
    BY <1>2, <2>1, Inputs DEF Medium!Begin
  <2>2. CASE UNCHANGED mediumErrands
    BY <1>2, <2>2
  <2>3. ASSUME NEW host, Medium!Restart(host) PROVE mediumErrands' \in 0..MaxJobs
    BY <1>2, <2>3, Inputs DEF Medium!Restart
  <2> QED
    BY <1>2, <2>1, <2>2, <2>3
    DEF mediumVars, Medium!Next, Medium!CreateRange, Medium!UpdateRange, Medium!DeleteRange,
        Medium!EditDevice, Medium!SetNetworkRangeMedium, Medium!SetFails, Medium!DropRow,
        Medium!DeleteNetworkRangeMedium, Medium!ListDeviceRecords,
        Medium!UpdateDeviceConnection, Medium!StatementFails, Medium!Resolve,
        Medium!ResolveFails, Medium!WriteDevice, Medium!DeleteDevice
<1> QED BY <1>1, <1>2, MediumPart

LEMMA MediumIsTyped == MediumInv /\ JobsCounted => Medium!TypeOK
BY DEF JobsCounted, MediumInv, MediumTyped, Medium!TypeOK, Job, Places, Link

-----------------------------------------------------------------------------
(* The tasks *)

TaskRow == [device : Devices, status : {"queued", "running", "done", "error"}]
Runner == [at : {"none", "start", "read", "note"}, task : 0..MaxChanges,
           device : Devices \cup {None}, status : {"running", "done", "error"}]

\* No row lies above the sequence.
RowTyped ==
    /\ taskRow \in [Runners!TaskIds -> TaskRow \cup {None}]
    /\ lastTask \in 0..MaxChanges
    /\ \A id \in Runners!TaskIds : id > lastTask => taskRow[id] = None

RunnerTyped == runner \in [Requests -> Runner]

\* A runner has a task that was given out, and its end once it stands before it.
RunnersKnow ==
    \A q \in Requests :
        /\ runner[q].at # "none" => runner[q].task \in 1..lastTask
        /\ runner[q].at \in {"start", "read"} => runner[q].status = "running"
        /\ runner[q].at = "note" => runner[q].status \in {"done", "error"}

RunnersDiffer ==
    \A p, q \in Requests :
        runner[p].at # "none" /\ runner[q].at # "none" /\ runner[p].task = runner[q].task => p = q

RunnersOwn ==
    \A q \in Requests :
        runner[q].at # "none" /\ taskRow[runner[q].task] # None =>
            /\ taskRow[runner[q].task].device = runner[q].device
            /\ taskRow[runner[q].task].status \in {"queued", "running"}

OpenRowsRun ==
    \A id \in Runners!TaskIds :
        taskRow[id] # None /\ taskRow[id].status \in {"queued", "running"} /\ id \notin lostNotes =>
            \E q \in Requests : runner[q].at # "none" /\ runner[q].task = id

TasksInv ==
    RowTyped /\ RunnerTyped /\ RunnersKnow /\ RunnersDiffer /\ RunnersOwn /\ OpenRowsRun

LEMMA ChangesAreCounted == MaxChanges \in Nat
BY Inputs

LEMMA TasksInit == Runners!Init => TasksInv
<1> SUFFICES ASSUME Runners!Init PROVE TasksInv
  OBVIOUS
<1> USE ChangesAreCounted DEF Runners!Init
<1>1. RowTyped
  BY DEF RowTyped
<1>2. Runners!NoRunner \in Runner /\ Runners!NoRunner.at = "none"
  BY DEF Runners!NoRunner, Runner
<1>3. RunnerTyped /\ RunnersKnow /\ RunnersDiffer /\ RunnersOwn
  BY <1>2 DEF RunnerTyped, RunnersKnow, RunnersDiffer, RunnersOwn
<1>4. OpenRowsRun
  BY DEF OpenRowsRun
<1> QED BY <1>1, <1>3, <1>4 DEF TasksInv

\* A new task is above all that have a row or a runner.
LEMMA EnqueueKeeps ==
    ASSUME TasksInv, NEW q \in Requests, NEW d \in Devices, Runners!EnqueueTask(q, d)
    PROVE  TasksInv'
<1>1. RowTyped /\ RunnerTyped /\ RunnersKnow /\ RunnersDiffer /\ RunnersOwn /\ OpenRowsRun
  BY DEF TasksInv
<1> DEFINE id == lastTask + 1
<1> DEFINE new == [Runners!NoRunner EXCEPT !.at = "start", !.task = id, !.device = d]
<1>c. new.at = "start" /\ new.task = id /\ new.device = d /\ new.status = "running"
  BY DEF Runners!NoRunner
<1>a. /\ lastTask \in 0..MaxChanges /\ lastTask < MaxChanges /\ MaxChanges \in Nat
      /\ lastTask' = id /\ id \in Runners!TaskIds /\ id \in 0..MaxChanges
  <2>1. lastTask \in 0..MaxChanges /\ lastTask < MaxChanges /\ lastTask' = lastTask + 1
    BY <1>1 DEF Runners!EnqueueTask, RowTyped
  <2> QED BY <2>1, ChangesAreCounted DEF Runners!TaskIds
<1>b. /\ runner[q].at = "none" /\ lostNotes' = lostNotes
      /\ taskRow' = [taskRow EXCEPT ![id] = [device |-> d, status |-> "queued"]]
      /\ runner' = [runner EXCEPT ![q] = new]
  BY DEF Runners!EnqueueTask, Runners!Goes
<1>g. new \in Runner
  BY <1>a DEF Runners!NoRunner, Runner
<1> HIDE DEF new
<1>d. /\ runner'[q] = new
      /\ \A p \in Requests \ {q} : runner'[p] = runner[p]
      /\ runner'[q].at = "start" /\ runner'[q].task = id /\ runner'[q].device = d
      /\ runner'[q].status = "running"
  BY <1>1, <1>b, <1>c DEF RunnerTyped
<1>e. /\ taskRow'[id] = [device |-> d, status |-> "queued"]
      /\ \A n \in Runners!TaskIds \ {id} : taskRow'[n] = taskRow[n]
      /\ taskRow'[id].device = d /\ taskRow'[id].status = "queued"
  BY <1>1, <1>a, <1>b DEF RowTyped
<1>f. \A p \in Requests : runner[p].at # "none" =>
          p # q /\ runner[p].task \in Runners!TaskIds \ {id} /\ runner[p].task \in 1..id
  <2>1. \A p \in Requests : runner[p].at # "none" => p # q /\ runner[p].task \in 1..lastTask
    BY <1>1, <1>b DEF RunnersKnow
  <2> QED BY <1>a, <2>1 DEF Runners!TaskIds
<1>2. RowTyped'
  <2>1. taskRow' \in [Runners!TaskIds -> TaskRow \cup {None}]
    BY <1>1, <1>a, <1>b DEF RowTyped, TaskRow
  <2>2. ASSUME NEW n \in Runners!TaskIds, n > id PROVE taskRow'[n] = None
    BY <1>1, <1>a, <1>e, <2>2 DEF RowTyped, Runners!TaskIds
  <2> QED BY <1>a, <2>1, <2>2 DEF RowTyped
<1>3. RunnerTyped'
  BY <1>1, <1>b, <1>g DEF RunnerTyped
<1>4. RunnersKnow' /\ RunnersDiffer'
  <2>1. id \in 1..id
    BY <1>a DEF Runners!TaskIds
  <2> QED BY <1>1, <1>a, <1>d, <1>f, <2>1 DEF RunnersKnow, RunnersDiffer
<1>5. RunnersOwn'
  BY <1>1, <1>d, <1>e, <1>f DEF RunnersOwn
<1>6. OpenRowsRun'
  <2> SUFFICES ASSUME NEW n \in Runners!TaskIds, taskRow'[n] # None,
                      taskRow'[n].status \in {"queued", "running"}, n \notin lostNotes
               PROVE  \E p \in Requests : runner'[p].at # "none" /\ runner'[p].task = n
    BY <1>b DEF OpenRowsRun
  <2>1. CASE n = id
    BY <2>1, <1>d
  <2>2. CASE n # id
    <3>1. PICK p \in Requests : runner[p].at # "none" /\ runner[p].task = n
      BY <1>1, <1>e, <2>2 DEF OpenRowsRun
    <3> QED BY <3>1, <1>d, <1>f
  <2> QED BY <2>1, <2>2
<1> QED BY <1>2, <1>3, <1>4, <1>5, <1>6 DEF TasksInv

\* A note changes the status of the task's own row, or is lost.
Noted(q) ==
    /\ taskRow' \in [Runners!TaskIds -> TaskRow \cup {None}]
    /\ \A id \in Runners!TaskIds : id # runner[q].task => taskRow'[id] = taskRow[id]
    /\ taskRow[runner[q].task] = None => taskRow'[runner[q].task] = None
    /\ taskRow[runner[q].task] # None =>
          \/ taskRow'[runner[q].task] = taskRow[runner[q].task]
             /\ runner[q].task \in lostNotes'
          \/ /\ taskRow'[runner[q].task].device = taskRow[runner[q].task].device
             /\ taskRow'[runner[q].task].status = runner[q].status
    /\ \A id : id \notin lostNotes' => id \notin lostNotes

LEMMA AfterNote ==
    ASSUME TasksInv, NEW q \in Requests, runner[q].at # "none", Runners!Note(q)
    PROVE  Noted(q)
<1>1. RowTyped /\ RunnerTyped /\ RunnersKnow /\ RunnersDiffer /\ RunnersOwn /\ OpenRowsRun
  BY DEF TasksInv
<1> DEFINE id == runner[q].task
<1>2. id \in Runners!TaskIds /\ runner[q].status \in {"running", "done", "error"}
  <2>1. id \in 1..lastTask /\ lastTask \in 0..MaxChanges
    BY <1>1 DEF RunnersKnow, RowTyped
  <2>2. id \in Runners!TaskIds
    BY <2>1, ChangesAreCounted DEF Runners!TaskIds
  <2> QED BY <1>1, <2>2 DEF RunnerTyped, Runner
<1>3. CASE taskRow' = taskRow /\ lostNotes' = lostNotes \cup {id}
  BY <1>1, <1>2, <1>3 DEF Noted, RowTyped
<1>4. CASE taskRow' = Runners!UpdateTaskStatus(q) /\ lostNotes' = lostNotes
  <2>1. CASE taskRow[id] = None
    BY <1>1, <1>2, <1>4, <2>1 DEF Noted, RowTyped, Runners!UpdateTaskStatus
  <2>2. CASE taskRow[id] # None
    <3>1. taskRow' = [taskRow EXCEPT ![id] = [taskRow[id] EXCEPT !.status = runner[q].status]]
      BY <1>1, <1>2, <1>4, <2>2 DEF RowTyped, Runners!UpdateTaskStatus
    <3>2. taskRow[id] \in TaskRow
      BY <1>1, <1>2, <2>2 DEF RowTyped
    <3>3. /\ [taskRow[id] EXCEPT !.status = runner[q].status] \in TaskRow
          /\ [taskRow[id] EXCEPT !.status = runner[q].status].device = taskRow[id].device
          /\ [taskRow[id] EXCEPT !.status = runner[q].status].status = runner[q].status
      BY <1>2, <3>2 DEF TaskRow
    <3>4. taskRow'[id] = [taskRow[id] EXCEPT !.status = runner[q].status]
      BY <1>1, <1>2, <3>1 DEF RowTyped
    <3>5. \A n \in Runners!TaskIds : n # id => taskRow'[n] = taskRow[n]
      BY <1>1, <3>1 DEF RowTyped
    <3>6. taskRow' \in [Runners!TaskIds -> TaskRow \cup {None}]
      BY <1>1, <3>1, <3>3 DEF RowTyped
    <3> QED BY <1>4, <2>2, <3>3, <3>4, <3>5, <3>6 DEF Noted
  <2> QED BY <2>1, <2>2
<1> QED BY <1>3, <1>4 DEF Runners!Note

LEMMA MarkKeeps ==
    ASSUME TasksInv, NEW q \in Requests, Runners!MarkRunning(q)
    PROVE  TasksInv'
<1>1. RowTyped /\ RunnerTyped /\ RunnersKnow /\ RunnersDiffer /\ RunnersOwn /\ OpenRowsRun
  BY DEF TasksInv
<1>a. runner[q].at = "start" /\ lastTask' = lastTask /\ Noted(q) /\ runner[q].status = "running"
  BY <1>1, AfterNote DEF Runners!MarkRunning, RunnersKnow
<1>b. /\ runner' \in [Requests -> Runner]
      /\ \A p \in Requests : /\ runner'[p].task = runner[p].task
                              /\ runner'[p].device = runner[p].device
                              /\ runner'[p].status = runner[p].status
      /\ \A p \in Requests \ {q} : runner'[p].at = runner[p].at
      /\ runner'[q].at = "read"
  <2>1. runner' = [runner EXCEPT ![q] = [runner[q] EXCEPT !.at = "read"]]
    BY <1>1 DEF Runners!MarkRunning, RunnerTyped
  <2>2. runner[q] \in Runner /\ [runner[q] EXCEPT !.at = "read"] \in Runner
    BY <1>1 DEF RunnerTyped, Runner
  <2> QED BY <1>1, <2>1, <2>2 DEF RunnerTyped, Runner
<1>c. \A p \in Requests : runner'[p].at # "none" <=> runner[p].at # "none"
  BY <1>a, <1>b
<1>d. \A p \in Requests : runner[p].at # "none" => runner[p].task \in Runners!TaskIds
  BY <1>1, ChangesAreCounted DEF RunnersKnow, RowTyped, Runners!TaskIds
<1>2. RowTyped'
  BY <1>1, <1>a DEF RowTyped, Noted
<1>3. RunnerTyped'
  BY <1>b DEF RunnerTyped
<1>4. RunnersKnow' /\ RunnersDiffer'
  BY <1>1, <1>a, <1>b, <1>c DEF RunnersKnow, RunnersDiffer
<1>5. RunnersOwn'
  BY <1>1, <1>a, <1>b, <1>c, <1>d DEF RunnersOwn, Noted
<1>6. OpenRowsRun'
  <2> SUFFICES ASSUME NEW n \in Runners!TaskIds, taskRow'[n] # None,
                      taskRow'[n].status \in {"queued", "running"}, n \notin lostNotes'
               PROVE  \E p \in Requests : runner'[p].at # "none" /\ runner'[p].task = n
    BY DEF OpenRowsRun
  <2>1. CASE n = runner[q].task
    BY <1>b, <2>1
  <2>2. CASE n # runner[q].task
    BY <1>1, <1>a, <1>b, <1>c, <2>2 DEF OpenRowsRun, Noted
  <2> QED BY <2>1, <2>2
<1> QED BY <1>2, <1>3, <1>4, <1>5, <1>6 DEF TasksInv

LEMMA CommandKeeps ==
    ASSUME TasksInv, NEW q \in Requests, Runners!RunCommand(q)
    PROVE  TasksInv'
<1>1. RowTyped /\ RunnerTyped /\ RunnersKnow /\ RunnersDiffer /\ RunnersOwn /\ OpenRowsRun
  BY DEF TasksInv
<1>a. runner[q].at = "read" /\ taskRow' = taskRow /\ lastTask' = lastTask
      /\ lostNotes' = lostNotes
  BY DEF Runners!RunCommand
<1>b. /\ runner' \in [Requests -> Runner]
      /\ \A p \in Requests : /\ runner'[p].task = runner[p].task
                              /\ runner'[p].device = runner[p].device
      /\ \A p \in Requests \ {q} : runner'[p] = runner[p]
      /\ runner'[q].at = "note" /\ runner'[q].status \in {"done", "error"}
  <2>1. PICK status \in {"done", "error"} :
            runner' = [runner EXCEPT ![q].at = "note", ![q].status = status]
    BY DEF Runners!RunCommand, Runners!Ended
  <2>2. runner' =
            [runner EXCEPT ![q] = [[runner[q] EXCEPT !.at = "note"] EXCEPT !.status = status]]
    BY <1>1, <2>1 DEF RunnerTyped
  <2>3. runner[q] \in Runner
        /\ [[runner[q] EXCEPT !.at = "note"] EXCEPT !.status = status] \in Runner
    BY <1>1 DEF RunnerTyped, Runner
  <2> QED BY <1>1, <2>2, <2>3 DEF RunnerTyped, Runner
<1>2. RowTyped'
  BY <1>1, <1>a DEF RowTyped
<1>3. RunnerTyped'
  BY <1>b DEF RunnerTyped
<1>4. RunnersKnow' /\ RunnersDiffer'
  BY <1>1, <1>a, <1>b DEF RunnersKnow, RunnersDiffer
<1>5. RunnersOwn'
  BY <1>1, <1>a, <1>b DEF RunnersOwn
<1>6. OpenRowsRun'
  <2>1. \A p \in Requests : runner'[p].at # "none" <=> runner[p].at # "none"
    BY <1>a, <1>b
  <2> QED BY <1>1, <1>a, <1>b, <2>1 DEF OpenRowsRun
<1> QED BY <1>2, <1>3, <1>4, <1>5, <1>6 DEF TasksInv

\* A task whose end was noted is not open any more; one whose note was lost may stay so.
LEMMA NoteEndKeeps ==
    ASSUME TasksInv, NEW q \in Requests, Runners!NoteEnd(q)
    PROVE  TasksInv'
<1>1. RowTyped /\ RunnerTyped /\ RunnersKnow /\ RunnersDiffer /\ RunnersOwn /\ OpenRowsRun
  BY DEF TasksInv
<1>a. /\ runner[q].at = "note" /\ lastTask' = lastTask /\ Noted(q)
      /\ runner[q].status \in {"done", "error"}
  BY <1>1, AfterNote DEF Runners!NoteEnd, RunnersKnow
<1>b. /\ runner' \in [Requests -> Runner] /\ runner'[q].at = "none"
      /\ \A p \in Requests \ {q} : runner'[p] = runner[p]
  <2>1. Runners!NoRunner \in Runner /\ Runners!NoRunner.at = "none"
    BY ChangesAreCounted DEF Runners!NoRunner, Runner
  <2>2. runner' = [runner EXCEPT ![q] = Runners!NoRunner]
    BY DEF Runners!NoteEnd
  <2> QED BY <1>1, <2>1, <2>2 DEF RunnerTyped
<1>c. \A p \in Requests \ {q} : runner[p].at # "none" =>
          runner[p].task # runner[q].task /\ runner[p].task \in Runners!TaskIds
  BY <1>1, <1>a, ChangesAreCounted DEF RunnersDiffer, RunnersKnow, RowTyped, Runners!TaskIds
<1>2. RowTyped'
  BY <1>1, <1>a DEF RowTyped, Noted
<1>3. RunnerTyped'
  BY <1>b DEF RunnerTyped
<1>4. RunnersKnow' /\ RunnersDiffer'
  BY <1>1, <1>a, <1>b DEF RunnersKnow, RunnersDiffer
<1>5. RunnersOwn'
  BY <1>1, <1>a, <1>b, <1>c DEF RunnersOwn, Noted
<1>6. OpenRowsRun'
  <2> SUFFICES ASSUME NEW n \in Runners!TaskIds, taskRow'[n] # None,
                      taskRow'[n].status \in {"queued", "running"}, n \notin lostNotes'
               PROVE  \E p \in Requests : runner'[p].at # "none" /\ runner'[p].task = n
    BY DEF OpenRowsRun
  <2>1. n # runner[q].task
    BY <1>a DEF Noted
  <2>2. PICK p \in Requests : runner[p].at # "none" /\ runner[p].task = n
    BY <1>1, <1>a, <2>1 DEF OpenRowsRun, Noted
  <2> QED BY <1>b, <2>1, <2>2
<1> QED BY <1>2, <1>3, <1>4, <1>5, <1>6 DEF TasksInv

LEMMA RowsGoKeeps ==
    ASSUME TasksInv, NEW d \in Devices, Runners!DeleteDevice(d)
    PROVE  TasksInv'
<1>1. RowTyped /\ RunnerTyped /\ RunnersKnow /\ RunnersDiffer /\ RunnersOwn /\ OpenRowsRun
  BY DEF TasksInv
<1>a. /\ runner' = runner /\ lastTask' = lastTask /\ lostNotes' = lostNotes
      /\ taskRow' \in [Runners!TaskIds -> TaskRow \cup {None}]
      /\ \A id \in Runners!TaskIds : taskRow'[id] = None \/ taskRow'[id] = taskRow[id]
  BY <1>1 DEF Runners!DeleteDevice, RowTyped
<1>2. RowTyped'
  BY <1>1, <1>a DEF RowTyped
<1>3. RunnerTyped'
  BY <1>1, <1>a DEF RunnerTyped
<1>4. RunnersKnow' /\ RunnersDiffer'
  BY <1>1, <1>a DEF RunnersKnow, RunnersDiffer
<1>5. RunnersOwn'
  <2>1. \A q \in Requests : runner[q].at # "none" => runner[q].task \in Runners!TaskIds
    BY <1>1, ChangesAreCounted DEF RunnersKnow, RowTyped, Runners!TaskIds
  <2> QED BY <1>1, <1>a, <2>1 DEF RunnersOwn
<1>6. OpenRowsRun'
  BY <1>1, <1>a DEF OpenRowsRun
<1> QED BY <1>2, <1>3, <1>4, <1>5, <1>6 DEF TasksInv

LEMMA RestartKeeps ==
    ASSUME TasksInv, Runners!Restart
    PROVE  TasksInv'
<1>1. RowTyped /\ RunnerTyped /\ RunnersKnow /\ RunnersDiffer /\ RunnersOwn /\ OpenRowsRun
  BY DEF TasksInv
<1>a. taskRow' = taskRow /\ lastTask' = lastTask
  BY DEF Runners!Restart
<1>b. runner' \in [Requests -> Runner] /\ \A q \in Requests : runner'[q].at = "none"
  <2>1. Runners!NoRunner \in Runner /\ Runners!NoRunner.at = "none"
    BY ChangesAreCounted DEF Runners!NoRunner, Runner
  <2> QED BY <2>1 DEF Runners!Restart
<1>c. /\ \A id : id \notin lostNotes' => id \notin lostNotes
      /\ \A q \in Requests : runner[q].at # "none" => runner[q].task \in lostNotes'
  BY DEF Runners!Restart
<1>2. RowTyped'
  BY <1>1, <1>a DEF RowTyped
<1>3. RunnerTyped'
  BY <1>b DEF RunnerTyped
<1>4. RunnersKnow' /\ RunnersDiffer'
  BY <1>b DEF RunnersKnow, RunnersDiffer
<1>5. RunnersOwn'
  BY <1>b DEF RunnersOwn
<1>6. OpenRowsRun'
  BY <1>1, <1>a, <1>c DEF OpenRowsRun
<1> QED BY <1>2, <1>3, <1>4, <1>5, <1>6 DEF TasksInv

LEMMA TasksStep == TasksInv /\ [Next]_dashboardVars => TasksInv'
<1> SUFFICES ASSUME TasksInv, [Next]_dashboardVars PROVE TasksInv'
  OBVIOUS
<1>1. CASE UNCHANGED taskVars
  BY <1>1 DEF taskVars, TasksInv, RowTyped, RunnerTyped, RunnersKnow, RunnersDiffer, RunnersOwn,
              OpenRowsRun
<1>2. CASE Runners!Next
  BY <1>2, EnqueueKeeps, MarkKeeps, CommandKeeps, NoteEndKeeps, RowsGoKeeps, RestartKeeps
  DEF Runners!Next
<1> QED BY <1>1, <1>2, TasksPart

LEMMA TasksAreRight == TasksInv => Runners!OpenTasksRun /\ Runners!EndsAreTheirOwn
<1> SUFFICES ASSUME TasksInv PROVE Runners!OpenTasksRun /\ Runners!EndsAreTheirOwn
  OBVIOUS
<1>1. RowTyped /\ RunnerTyped /\ RunnersKnow /\ RunnersDiffer /\ RunnersOwn /\ OpenRowsRun
  BY DEF TasksInv
<1>2. \A id \in Runners!TaskIds : taskRow[id] # None =>
          taskRow[id].status \in {"queued", "running", "done", "error"}
  BY <1>1 DEF RowTyped, TaskRow
<1>3. Runners!OpenTasksRun
  BY <1>1, <1>2 DEF OpenRowsRun, Runners!OpenTasksRun, Runners!Runs, Runners!Ended
<1>4. Runners!EndsAreTheirOwn
  BY <1>1, <1>2
  DEF RunnersOwn, RunnersDiffer, Runners!EndsAreTheirOwn, Runners!Runs, Runners!Ended
<1> QED BY <1>3, <1>4

\* A task that is said to be queued or running has a goroutine that runs it, unless a
\* note of it was lost or the process stopped, and nobody writes over its end: runTask,
\* whatever devices and rows are deleted while commands run, for any number of tasks.
THEOREM TasksStayTheirOwn ==
    Spec => [](Runners!OpenTasksRun /\ Runners!EndsAreTheirOwn)
<1>1. Init => TasksInv
  BY TasksInit DEF Init
<1> QED BY <1>1, TasksStep, TasksAreRight, PTL DEF Spec

\* The rest of the types: no note is lost of a task that was not given out.
NotesTyped == deviceRows \subseteq Devices /\ lostNotes \subseteq Runners!TaskIds

LEMMA NotesInit == Runners!Init => NotesTyped
BY DEF Runners!Init, NotesTyped

LEMMA NotesStep == TasksInv /\ NotesTyped /\ [Next]_dashboardVars => NotesTyped'
<1> SUFFICES ASSUME TasksInv, NotesTyped, Runners!Next \/ UNCHANGED taskVars PROVE NotesTyped'
  BY TasksPart
<1> USE DEF NotesTyped
<1>1. \A q \in Requests : runner[q].at # "none" => runner[q].task \in Runners!TaskIds
  BY ChangesAreCounted DEF TasksInv, RunnersKnow, RowTyped, Runners!TaskIds
<1>2. ASSUME NEW q \in Requests, runner[q].at # "none", Runners!Note(q), UNCHANGED deviceRows
      PROVE  NotesTyped'
  BY <1>1, <1>2 DEF Runners!Note
<1>3. ASSUME NEW q \in Requests,
             Runners!MarkRunning(q) \/ Runners!RunCommand(q) \/ Runners!NoteEnd(q)
      PROVE  NotesTyped'
  BY <1>2, <1>3 DEF Runners!MarkRunning, Runners!RunCommand, Runners!NoteEnd
<1>4. ASSUME NEW q \in Requests, NEW d \in Devices, Runners!EnqueueTask(q, d) PROVE NotesTyped'
  BY <1>4 DEF Runners!EnqueueTask, Runners!Goes
<1>5. ASSUME NEW d \in Devices, Runners!DeleteDevice(d) PROVE NotesTyped'
  BY <1>5 DEF Runners!DeleteDevice
<1>6. CASE Runners!Restart
  BY <1>1, <1>6 DEF Runners!Restart
<1>7. CASE UNCHANGED taskVars
  BY <1>7 DEF taskVars
<1> QED BY <1>3, <1>4, <1>5, <1>6, <1>7 DEF Runners!Next

LEMMA TasksAreTyped == TasksInv /\ NotesTyped => Runners!TypeOK
BY DEF TasksInv, RowTyped, RunnerTyped, NotesTyped, Runners!TypeOK, TaskRow, Runner, Runners!Ended
=============================================================================
