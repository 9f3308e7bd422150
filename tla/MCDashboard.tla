---------------------------- MODULE MCDashboard -----------------------------
(* The instance of Dashboard for TLC, in two runs: one of what the views   *)
(* share, the arithmetic they draw with and the server behind them, and    *)
(* one of the views.  A behaviour of Dashboard is one of a single part, so *)
(* that none is left out.                                                  *)
EXTENDS Dashboard, TLC

\* Both have the bar and the start of a page, without which there is none.
Views == {"topology", "editor", "table", "keys", "logs", "maps", "insights",
          "cards", "advice", "scan", "tasks", "agent", "bar", "startup"}
Services == (Parts \ Views) \cup {"bar", "startup"}

ServicesInit == Init /\ open \in Services
ViewsInit == Init /\ open \in Views
ServicesSpec == ServicesInit /\ [][Next]_dashboardVars
ViewsSpec == ViewsInit /\ [][Next]_dashboardVars

\* No part orders its requests or its devices.
Symmetric == Permutations(Requests) \cup Permutations(Devices)

\* A container that is too small to use, a narrow one, and two that are not
\* multiples of the grid.
MCSizes == {<<200, 100>>, <<300, 500>>, <<645, 333>>, <<1000, 420>>}
\* One row, a full one, and two of different width, either way round.
MCPlans == {<<1>>, <<3>>, <<2, 3>>, <<3, 1>>}
\* Outside the container, at two of its edges, and inside it.
MCPointers == {<<-50, 70>>, <<290, 999>>, <<630, 30>>, <<131, 215>>}

\* Around each age at which the unit or the number changes.
MCAges ==
    {29, 30, 89, 90, 3569, 3570, 5399, 5400, 84569, 84570, 84600, 127799, 127800,
     559799, 559800, 561600, 583199, 600000, 950399, 950400, 3283199, 3283200, 3326400,
     3840000, 3888000, 5000000, 29764800, 29808000, 31535999, 31536000, 47304000,
     47347200, 70000000}
\* Around each limit of LINK_BANDS.
MCPings == {None, 40, 41, 81, 120, 121, 180, 181, 250, 251}
MCBandwidths == {None, 19, 20, 39, 40, 119, 120, 499, 500}
=============================================================================
