--------------------------- MODULE OverviewAdvice ---------------------------
(***************************************************************************)
(* What the overview tells the assistant: analyseMetricTrend and           *)
(* buildOverviewAgentContext of web/js/dashboard/views/overview.js, over   *)
(* the summaries that loadDeviceSummary collects.  A render publishes the  *)
(* context of the devices the filters let through, and sends requests for  *)
(* the summaries that are missing or old; see Overview for which.          *)
(*                                                                         *)
(* Of a summary the model keeps the one thing that stands out: a metric    *)
(* and its value, the newest log entry and its level, or the change of a   *)
(* series in percent.  Measured lists what may stand out; the values lie   *)
(* at the thresholds.                                                      *)
(***************************************************************************)
EXTENDS PageValues, FiniteSets

VARIABLES
    adviceStatus,   \* device.status of the listed devices
    adviceSummary,  \* what stands out in the summary of each device
    adviceLoading,  \* devices whose summary is being loaded
    adviceShown,    \* devices the filters let through
    adviceFrame,    \* requestAnimationFrame(render) was called
    adviceTold      \* what the context published last says

adviceVars == <<adviceStatus, adviceSummary, adviceLoading, adviceShown, adviceFrame,
                adviceTold>>

\* The server's devices have no status; those of the sample list do.
Given == {"absent", "none", "warning", "offline"}

Nothing == <<"nothing", 0>>
Measured == {Nothing, <<"latency", 180>>, <<"uptime change", -100>>}

FinitelyMany == IsFiniteSet(Devices)

TypeOK ==
    /\ adviceStatus \in [Devices -> Given]
    /\ adviceSummary \in [Devices -> Measured]
    /\ adviceLoading \subseteq Devices /\ adviceShown \subseteq Devices
    /\ adviceFrame \in BOOLEAN
    /\ adviceTold \in [highlights : SUBSET (Devices \X {"critical", "warning", "success"}),
                       network : {None, "critical", "warning"}, well : BOOLEAN]

-----------------------------------------------------------------------------
(* One device *)

\* AGENT_THRESHOLDS: where a metric is a warning, and where it is critical.
Threshold == [latency |-> <<120, 180>>, cpu |-> <<75, 90>>, memory |-> <<80, 90>>]

Beyond(value, limits) ==
    IF value >= limits[2] THEN "critical" ELSE IF value >= limits[1] THEN "warning" ELSE None

\* analyseMetricTrend: what a change of so many percent means.
TrendSeverity(of, change) ==
    CASE of = "latency change" ->
            IF change >= 30 THEN Beyond(change, <<30, 60>>) ELSE IF change <= -30 THEN "success" ELSE None
      [] of = "throughput change" ->
            IF change <= -40 THEN "warning" ELSE IF change >= 35 THEN "success" ELSE None
      [] of \in {"cpu change", "memory change"} -> Beyond(change, <<30, 50>>)
      [] of = "thermal change" -> IF change >= 20 THEN "warning" ELSE None
      [] OTHER -> IF change <= -50 THEN "success" ELSE IF change >= 60 THEN "warning" ELSE None

\* The severity of what stands out in a summary.
SeverityOf(m) ==
    CASE m = Nothing -> None
      [] m[1] \in DOMAIN Threshold -> Beyond(m[2], Threshold[m[1]])
      [] m[1] = "log" -> Beyond(m[2], <<1, 2>>)
      [] OTHER -> TrendSeverity(m[1], m[2])

StatusSeverity(status) ==
    CASE status = "offline" -> "critical" [] status = "warning" -> "warning" [] OTHER -> None

\* What takes away that a device is well: a warning in the log, and a trend, are
\* highlighted all the same.
Counts(m) ==
    \/ m[1] \in DOMAIN Threshold /\ SeverityOf(m) # None
    \/ m[1] = "log" /\ SeverityOf(m) = "critical"

-----------------------------------------------------------------------------
(* The context: buildOverviewAgentContext *)

\* The highlights, the one about the network (30 or 15 of a hundred devices are
\* offline), and "All monitored devices are operating within expected thresholds."
Words(status, summary, shown) ==
    LET offline == {d \in shown : status[d] = "offline"}
        parts == 100 * Cardinality(offline)
        size == Cardinality(shown)
    IN  [highlights |->
            {h \in shown \X {"critical", "warning", "success"} :
                h[2] \in {StatusSeverity(status[h[1]]), SeverityOf(summary[h[1]])}},
         network |-> IF shown = {} THEN None ELSE Beyond(parts, <<15 * size, 30 * size>>),
         well |-> /\ shown # {}
                  /\ \A d \in shown : StatusSeverity(status[d]) = None /\ ~Counts(summary[d])]

NoSummaries == [d \in Devices |-> Nothing]

Init ==
    /\ adviceStatus = [d \in Devices |-> "absent"]
    /\ adviceSummary = NoSummaries
    /\ adviceLoading = {} /\ adviceShown = {}
    /\ adviceFrame = FALSE
    /\ adviceTold = [highlights |-> {}, network |-> None, well |-> FALSE]

-----------------------------------------------------------------------------
(* The list, the filters, the summaries *)

\* pruneMissingSummaries
Kept(status) == [d \in Devices |-> IF status[d] = "absent" THEN Nothing ELSE adviceSummary[d]]

\* render: ensureDeviceSummary keeps the summary there is, while the next is loaded.
\* Bound: one load of a device at a time.
Render(status) ==
    \E shown \in SUBSET {d \in Devices : status[d] # "absent"} :
        \E asked \in SUBSET (shown \ adviceLoading) :
            /\ adviceStatus' = status
            /\ adviceShown' = shown
            /\ adviceSummary' = Kept(status)
            /\ adviceLoading' = adviceLoading \cup asked
            /\ adviceFrame' = (asked # {})
            /\ adviceTold' = Words(status, Kept(status), shown)

\* The device store has a list for its subscribers.
ListArrives(status) == Render(status)

\* A filter, or the frame that was asked for.
Redraw == Render(adviceStatus)

\* loadDeviceSummary: a metric or log that cannot be read is left out, and a load
\* that fails as a whole leaves an empty summary.
Loaded(d, m) ==
    /\ d \in adviceLoading
    /\ adviceLoading' = adviceLoading \ {d}
    /\ adviceSummary' = [adviceSummary EXCEPT ![d] = m]
    /\ adviceFrame' = TRUE
    /\ UNCHANGED <<adviceStatus, adviceShown, adviceTold>>

Next ==
    \/ \E status \in [Devices -> Given] : ListArrives(status)
    \/ Redraw
    \/ \E d \in Devices, m \in Measured : Loaded(d, m)

Spec == Init /\ [][Next]_adviceVars

-----------------------------------------------------------------------------
(* Properties *)

\* The assistant has been told what the list, the filters and the summaries say, or
\* a render that will tell it is asked for: no load of a summary, whether it ends,
\* fails or belongs to a device that has left, is kept from it.
WordsAreCurrent ==
    adviceFrame \/ adviceTold = Words(adviceStatus, adviceSummary, adviceShown)
=============================================================================
