--------------------------- MODULE NetworkMedium ----------------------------
(***************************************************************************)
(* How a device is connected - wired or wireless: the handlers of          *)
(* /api/discovery/ranges and the edits of a device in                      *)
(* internal/server/http.go.  A range has a medium, which is applied to the *)
(* devices in it; a device without a range is wired; and the user can      *)
(* override the medium of a device.  Handlers run side by side, and each   *)
(* is several statements: an action is one of them.                        *)
(*                                                                         *)
(* One device stands for all: the handlers treat each row by itself.  Its  *)
(* host is the set of ranges it lies in.  A PUT, and an entry of an import *)
(* that is there already, updates its row; a POST, and another entry of an *)
(* import, inserts it.                                                     *)
(***************************************************************************)
EXTENDS PageValues

CONSTANTS
    ManualRanges,   \* rows of manual_discovery_ranges; an id is not given twice
    DetectedRanges  \* of the interfaces: they are always there

VARIABLES
    manualRows,   \* what has become of each manual range
    mediumRows,   \* network_range_medium: the medium of a range, or None
    link,         \* the row of the device, its connection and connection_override
    hostIn,       \* the ranges its host lies in
    jobs,         \* per request: the statement it stands before
    mediumErrands,\* bound: the requests and starts there were
    linkOvertaken,\* history: a pass that had listed the device before its last edit wrote after it
    linkApart     \* history: what last happened to the medium left it apart from its range

mediumVars == <<manualRows, mediumRows, link, hostIn, jobs, mediumErrands, linkOvertaken,
                linkApart>>

Ranges == ManualRanges \cup DetectedRanges
Media == {"wired", "wireless"}

NoneIsNoMedium == None \notin Media

Idle == [at |-> "idle", range |-> None, medium |-> None, host |-> {}, override |-> FALSE,
         create |-> FALSE, early |-> FALSE]
Busy(q) == jobs[q].at # "idle"
There == link.row = "there"

TypeOK ==
    /\ manualRows \in [ManualRanges -> {"new", "there", "deleted"}]
    /\ mediumRows \in [Ranges -> Media \cup {None}]
    /\ link \in [row : {"new", "there", "deleted"}, medium : Media, override : BOOLEAN,
                 asked : Media]
    /\ hostIn \subseteq Ranges
    /\ jobs \in [Requests -> [at : {"idle", "set", "setNew", "dropRow", "dropMedium", "dropOnly",
                                    "list", "update", "resolve", "write"},
                              range : Ranges \cup {None}, medium : Media \cup {None},
                              host : SUBSET Ranges, override : BOOLEAN, create : BOOLEAN,
                              early : BOOLEAN]]
    /\ mediumErrands \in 0..MaxChanges
    /\ linkOvertaken \in BOOLEAN /\ linkApart \in BOOLEAN

\* asked is history: the medium the last edit has written.  Before its first row,
\* the device is in nobody's way.
Init ==
    /\ manualRows = [r \in ManualRanges |-> "new"]
    /\ mediumRows = [r \in Ranges |-> None]
    /\ link = [row |-> "new", medium |-> "wired", override |-> FALSE, asked |-> "wired"]
    /\ hostIn = {}
    /\ jobs = [q \in Requests |-> Idle]
    /\ mediumErrands = 0
    /\ linkOvertaken = FALSE /\ linkApart = FALSE

\* resolveConnectionForHost: the medium of a range with the host in it, the
\* first in an order the query leaves open.
Resolved(host) ==
    LET of == {mediumRows[r] : r \in host} \ {None}
    IN  IF of = {} THEN {"wired"} ELSE of

IsApart == There /\ link.medium \notin Resolved(hostIn)

-----------------------------------------------------------------------------
(* The start of the process *)

\* The requests end wherever they are, and bootstrapConfigDevices inserts the
\* configured device as wired if it is not there and no tombstone forbids it.
Restart(host) ==
    /\ mediumErrands < MaxChanges
    /\ mediumErrands' = mediumErrands + 1
    /\ jobs' = [q \in Requests |-> Idle]
    /\ IF link.row = "new"
       THEN /\ link' = [row |-> "there", medium |-> "wired", override |-> FALSE,
                        asked |-> "wired"]
            /\ hostIn' = host
       ELSE UNCHANGED <<link, hostIn>>
    /\ linkApart' = IF link.row = "new" THEN "wired" \notin Resolved(host)
                    ELSE linkApart \/ IsApart
    /\ UNCHANGED <<manualRows, mediumRows, linkOvertaken>>

-----------------------------------------------------------------------------
(* Requests *)

Begin(q, job) ==
    /\ ~Busy(q) /\ mediumErrands < MaxChanges
    /\ mediumErrands' = mediumErrands + 1
    /\ jobs' = [jobs EXCEPT ![q] = job]
    /\ UNCHANGED <<link, hostIn, mediumRows, linkOvertaken, linkApart>>

GoesOn(q, at) == jobs' = [jobs EXCEPT ![q].at = at]
Ends(q) == jobs' = [jobs EXCEPT ![q] = Idle]

-----------------------------------------------------------------------------
(* The medium of a range *)

\* CreateManualDiscoveryRange, and GetManualDiscoveryRange of an update: the
\* id of a detected range says what it is.
CreateRange(q, r, medium) ==
    /\ manualRows[r] = "new"
    /\ manualRows' = [manualRows EXCEPT ![r] = "there"]
    /\ Begin(q, [Idle EXCEPT !.at = "setNew", !.range = r, !.medium = medium])

UpdateRange(q, r, medium) ==
    /\ r \in DetectedRanges \cup {m \in ManualRanges : manualRows[m] = "there"}
    /\ Begin(q, [Idle EXCEPT !.at = "set", !.range = r, !.medium = medium])
    /\ UNCHANGED manualRows

SetNetworkRangeMedium(q) ==
    /\ jobs[q].at \in {"set", "setNew"}
    /\ mediumRows' = [mediumRows EXCEPT ![jobs[q].range] = jobs[q].medium]
    /\ GoesOn(q, "list")
    /\ UNCHANGED <<manualRows, link, hostIn, mediumErrands, linkOvertaken,
                   linkApart>>

\* Only noted for a new range, whose devices are given the medium all the same.
SetFails(q) ==
    /\ jobs[q].at = "setNew"
    /\ GoesOn(q, "list")
    /\ UNCHANGED <<manualRows, mediumRows, link, hostIn, mediumErrands, linkOvertaken,
                   linkApart>>

\* The deletion of a range reads it first; one that finds no row any more takes
\* the medium with it all the same, and answers 404.
DeleteRange(q, r) ==
    /\ manualRows[r] = "there"
    /\ Begin(q, [Idle EXCEPT !.at = "dropRow", !.range = r, !.medium = "wired"])
    /\ UNCHANGED manualRows

DropRow(q) ==
    /\ jobs[q].at = "dropRow"
    /\ manualRows' = [manualRows EXCEPT ![jobs[q].range] = "deleted"]
    /\ GoesOn(q, IF manualRows[jobs[q].range] = "there" THEN "dropMedium" ELSE "dropOnly")
    /\ UNCHANGED <<mediumRows, link, hostIn, mediumErrands, linkOvertaken,
                   linkApart>>

\* linkApart: no pass follows, or one that brings wired to a device whose other
\* range says otherwise.
DeleteNetworkRangeMedium(q) ==
    /\ jobs[q].at \in {"dropMedium", "dropOnly"}
    /\ mediumRows' = [mediumRows EXCEPT ![jobs[q].range] = None]
    /\ IF jobs[q].at = "dropMedium" THEN GoesOn(q, "list") ELSE Ends(q)
    /\ UNCHANGED <<manualRows, link, hostIn, mediumErrands, linkOvertaken>>
    /\ linkApart' = \/ linkApart
                    \/ /\ There /\ link.medium \notin Resolved(hostIn)'
                       /\ jobs[q].at = "dropOnly" \/ "wired" \notin Resolved(hostIn)'

-----------------------------------------------------------------------------
(* applyNetworkMediumToDevices *)

\* Mutant: the overrides are not looked at.
ListDeviceRecordsAll(q) ==
    /\ jobs[q].at = "list"
    /\ IF There /\ jobs[q].range \in hostIn /\ link.medium # jobs[q].medium
       THEN GoesOn(q, "update") ELSE Ends(q)
    /\ UNCHANGED <<manualRows, mediumRows, link, hostIn, mediumErrands, linkOvertaken,
                   linkApart>>

ListDeviceRecords(q) ==
    /\ jobs[q].at = "list"
    /\ IF /\ There /\ ~link.override
          /\ jobs[q].range \in hostIn /\ link.medium # jobs[q].medium
       THEN GoesOn(q, "update") ELSE Ends(q)
    /\ UNCHANGED <<manualRows, mediumRows, link, hostIn, mediumErrands, linkOvertaken,
                   linkApart>>

\* Whatever has become of the row since it was listed, and of the range.
UpdateDeviceConnection(q) ==
    /\ jobs[q].at = "update"
    /\ IF There
       THEN /\ link' = [link EXCEPT !.medium = jobs[q].medium]
            /\ linkOvertaken' = (linkOvertaken \/ jobs[q].early)
            /\ linkApart' = (jobs[q].medium \notin Resolved(hostIn))
       ELSE UNCHANGED <<link, linkOvertaken, linkApart>>
    /\ Ends(q)
    /\ UNCHANGED <<manualRows, mediumRows, hostIn, mediumErrands>>

\* Any other statement that fails ends the request (at "setNew", the new row is
\* there and could not be read back); a failure in the pass is noted.
StatementFails(q) ==
    /\ jobs[q].at \in {"set", "setNew", "dropRow", "dropMedium", "dropOnly", "list", "update",
                      "write"}
    /\ Ends(q)
    /\ linkApart' = (linkApart \/ (jobs[q].at \in {"list", "update"} /\ IsApart))
    /\ UNCHANGED <<manualRows, mediumRows, link, hostIn, mediumErrands, linkOvertaken>>

-----------------------------------------------------------------------------
(* The device *)

\* prepareDeviceConnection: "auto" asks the ranges, anything else overrides them.
EditDevice(q, host, choice, create) ==
    /\ Begin(q, IF choice = "auto"
                THEN [Idle EXCEPT !.at = "resolve", !.host = host, !.create = create]
                ELSE [Idle EXCEPT !.at = "write", !.host = host, !.medium = choice,
                                  !.override = TRUE, !.create = create])
    /\ UNCHANGED manualRows

Resolve(q) ==
    /\ jobs[q].at = "resolve"
    /\ \E medium \in Resolved(jobs[q].host) :
          jobs' = [jobs EXCEPT ![q].at = "write", ![q].medium = medium]
    /\ UNCHANGED <<manualRows, mediumRows, link, hostIn, mediumErrands, linkOvertaken,
                   linkApart>>

\* A device whose ranges cannot be read is wired.
ResolveFails(q) ==
    /\ jobs[q].at = "resolve"
    /\ jobs' = [jobs EXCEPT ![q].at = "write", ![q].medium = "wired"]
    /\ UNCHANGED <<manualRows, mediumRows, link, hostIn, mediumErrands, linkOvertaken,
                   linkApart>>

\* UpdateDevice changes the row if there is one, CreateDevice makes it if there is
\* none.  The passes that have listed the device are early from here on.
WriteDevice(q) ==
    /\ jobs[q].at = "write"
    /\ IF jobs[q].create # There
       THEN /\ link' = [row |-> "there", medium |-> jobs[q].medium,
                        override |-> jobs[q].override, asked |-> jobs[q].medium]
            /\ hostIn' = jobs[q].host
            /\ linkOvertaken' = FALSE
            /\ linkApart' = (jobs[q].medium \notin Resolved(jobs[q].host))
       ELSE UNCHANGED <<link, hostIn, linkOvertaken, linkApart>>
    /\ jobs' = [p \in Requests |-> IF p = q THEN Idle
                                   ELSE [jobs[p] EXCEPT !.early = (jobs[p].at = "update")]]
    /\ UNCHANGED <<manualRows, mediumRows, mediumErrands>>

DeleteDevice ==
    /\ There
    /\ link' = [link EXCEPT !.row = "deleted"]
    /\ UNCHANGED <<manualRows, mediumRows, hostIn, jobs, mediumErrands, linkOvertaken,
                   linkApart>>

Next ==
    \/ \E q \in Requests, r \in ManualRanges, medium \in Media : CreateRange(q, r, medium)
    \/ \E q \in Requests, r \in Ranges, medium \in Media : UpdateRange(q, r, medium)
    \/ \E q \in Requests, r \in ManualRanges : DeleteRange(q, r)
    \/ \E q \in Requests, host \in SUBSET Ranges, choice \in {"auto"} \cup Media,
          create \in BOOLEAN : EditDevice(q, host, choice, create)
    \/ \E q \in Requests :
          \/ SetNetworkRangeMedium(q) \/ SetFails(q) \/ DropRow(q) \/ DeleteNetworkRangeMedium(q)
          \/ ListDeviceRecords(q) \/ UpdateDeviceConnection(q) \/ StatementFails(q)
          \/ Resolve(q) \/ ResolveFails(q) \/ WriteDevice(q)
    \/ DeleteDevice
    \/ \E host \in SUBSET Ranges : Restart(host)

Spec == Init /\ [][Next]_mediumVars

-----------------------------------------------------------------------------
(* Properties *)

\* A medium that the user forced on a device stays, whatever is set for the ranges
\* it lies in: only a pass that had listed the device before it was forced, and
\* updates it after, writes over it.
OverrideIsKept ==
    There /\ link.override /\ link.medium # link.asked => linkOvertaken

\* A device that is not overridden has the medium of a range it lies in, or of none,
\* or a pass that brings it is under way, whatever ranges and devices are made,
\* changed and deleted side by side - or linkApart holds, which has these causes and
\* no other: its medium was written from what had been read before the range
\* changed, or could not be read or stored; a pass over it failed or was stopped; the medium
\* of a range was deleted by a second deletion, which makes no pass, or another of
\* its ranges has one; or the start-up pass inserted it, as wired.
Brings(q) ==
    /\ jobs[q].at \in {"list", "update"} /\ jobs[q].range \in hostIn
    /\ jobs[q].medium \in Resolved(hostIn)

FollowsItsRange ==
    There /\ ~link.override /\ ~linkApart =>
        link.medium \in Resolved(hostIn) \/ \E q \in Requests : Brings(q)
=============================================================================
