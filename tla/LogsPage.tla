------------------------------ MODULE LogsPage ------------------------------
(***************************************************************************)
(* The activity log: web/js/dashboard/views/logs.js.  A load takes its     *)
(* query from the filters when it starts; nothing stops a second load, nor *)
(* keeps the answer of the first from replacing that of the second.  The   *)
(* choices of the device filters are made again whenever the device store  *)
(* answers.                                                                *)
(*                                                                         *)
(* Of the six filters the device, which depends on the device list, and a  *)
(* free one (the level) are kept.                                          *)
(***************************************************************************)
EXTENDS PageValues

VARIABLES
    logDevices,   \* the choices of the device filter
    logFilter,    \* the filters of the form
    logLoads,     \* the query of each load under way
    entries,      \* state.entries: the query they answer, or Empty, Sample
    logsLoading,  \* state.loading
    logsStatus,   \* the line of setStatus
    results,      \* what the result list shows
    agentTold     \* the entries of the last context the agent was given

logsVars == <<logDevices, logFilter, logLoads, entries, logsLoading, logsStatus, results, agentTold>>

Query == [device : Devices \cup {None}, level : BOOLEAN]
AnyQuery == [device |-> None, level |-> FALSE]
Entries == [q : Query] \cup {Empty, Sample}
Line == {"blank", "loading", "shown"}

NoneIsNoQuery == None \notin Query

TypeOK ==
    /\ logDevices \subseteq Devices
    /\ logFilter \in Query
    /\ logLoads \in [Requests -> Query \cup {None}]
    /\ entries \in Entries
    /\ logsLoading \in BOOLEAN
    /\ logsStatus \in Line
    /\ results \in Entries \cup {None, Waiting}
    /\ agentTold \in Entries \cup {None}

Init ==
    /\ logDevices = {} /\ logFilter = AnyQuery
    /\ logLoads = [r \in Requests |-> None]
    /\ entries = Empty
    /\ logsLoading = FALSE /\ logsStatus = "blank"
    /\ results = None /\ agentTold = None

-----------------------------------------------------------------------------
(* The form *)

\* populateDeviceFilters: the choices are made again, and none is chosen.
\* Mutant: the choice is kept.
PopulateKeepsChoice(devices) ==
    /\ logDevices' = devices
    /\ UNCHANGED <<logFilter, logLoads, entries, logsLoading, logsStatus, results, agentTold>>

PopulateDeviceFilters(devices) ==
    /\ logDevices' = devices
    /\ logFilter' = [logFilter EXCEPT !.device = None]
    /\ UNCHANGED <<logLoads, entries, logsLoading, logsStatus, results, agentTold>>

Choose(query) ==
    /\ query.device \in logDevices \cup {None}
    /\ logFilter' = query
    /\ UNCHANGED <<logDevices, logLoads, entries, logsLoading, logsStatus, results, agentTold>>

-----------------------------------------------------------------------------
(* loadLogs *)

\* renderEntries: the list, or the line that stands for it while a load runs;
\* the agent is told of state.entries in every case.
\* Mutant: an empty list is shown, and not told.
RenderEntriesQuiet(found, loading) ==
    /\ results' = IF loading THEN Waiting ELSE found
    /\ agentTold' = IF found = Empty THEN agentTold ELSE found

RenderEntries(found, loading) ==
    /\ results' = IF loading THEN Waiting ELSE found
    /\ agentTold' = found

\* Submit, or init, or onShow: buildQuery reads the form.
Send(r, query) ==
    /\ logLoads[r] = None
    /\ logLoads' = [logLoads EXCEPT ![r] = query]
    /\ logsLoading' = TRUE /\ logsStatus' = "loading"
    /\ RenderEntries(entries, TRUE)
    /\ UNCHANGED <<logDevices, entries>>

LoadLogs(r) == Send(r, logFilter) /\ UNCHANGED logFilter

\* Reset empties the form and loads.
Reset(r) == Send(r, AnyQuery) /\ logFilter' = AnyQuery

\* A load ends, with entries, with none, or with the samples.
\* Mutant: a failure leaves state.loading set.
LoadEndsLoading(r, found) ==
    /\ logLoads[r] # None
    /\ logLoads' = [logLoads EXCEPT ![r] = None]
    /\ entries' = found
    /\ logsLoading' = (found = Sample)
    /\ logsStatus' = "shown"
    /\ RenderEntries(found, found = Sample)
    /\ UNCHANGED <<logDevices, logFilter>>

LoadEnds(r, found) ==
    /\ logLoads[r] # None
    /\ logLoads' = [logLoads EXCEPT ![r] = None]
    /\ entries' = found
    /\ logsLoading' = FALSE
    /\ logsStatus' = "shown"
    /\ RenderEntries(found, FALSE)
    /\ UNCHANGED <<logDevices, logFilter>>

Next ==
    \/ \E devices \in SUBSET Devices : PopulateDeviceFilters(devices)
    \/ \E query \in Query : Choose(query)
    \/ \E r \in Requests : \/ LoadLogs(r) \/ Reset(r)
                           \/ \E found \in {[q |-> logLoads[r]], Empty, Sample} : LoadEnds(r, found)

Spec == Init /\ [][Next]_logsVars

-----------------------------------------------------------------------------
(* Properties *)

\* The filter never names a device that is not among the choices, so that no
\* query asks for a device that has left the list without the user seeing it.
FilterIsListed == logFilter.device \in logDevices \cup {None}

\* While no load runs the list shows the last answer and says so; "Loading
\* logs" never stays, however loads overlap and whichever of them fail.
LogsSettle ==
    (\A r \in Requests : logLoads[r] = None)
        => ~logsLoading /\ logsStatus # "loading" /\ results \in {None, entries}

\* The agent's highlights are of the entries the page has: what it was told
\* last is what is listed, or will be listed again when the load ends.
AgentKnowsEntries == results # None => agentTold = entries
=============================================================================
