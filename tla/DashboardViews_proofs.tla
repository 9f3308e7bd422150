----------------------- MODULE DashboardViews_proofs ------------------------
(***************************************************************************)
(* What Dashboard.tla says of the views that draw: the topology and its    *)
(* layout, the maps, the insights and the overview, for any devices,       *)
(* requests, sizes and pointers.  At the end the invariants of all parts   *)
(* give the properties that are about several of them.                     *)
(***************************************************************************)
EXTENDS DashboardServices_proofs, DashboardPages_proofs, DashboardServer_proofs

\* A step of Dashboard is one of the part, or leaves it alone.
LEMMA TopologyPart == [Next]_dashboardVars => Topo!Next \/ UNCHANGED topoVars
BY DEF Next, Step, Rest, dashboardVars

LEMMA LayoutPart == [Next]_dashboardVars => Layout!Next \/ UNCHANGED layoutVars
BY DEF Next, Step, Rest, dashboardVars

LEMMA MapsPart == [Next]_dashboardVars => Maps!Next \/ UNCHANGED mapVars
BY DEF Next, Step, Rest, dashboardVars

LEMMA InsightsPart == [Next]_dashboardVars => Insights!Next \/ UNCHANGED insightsVars
BY DEF Next, Step, Rest, dashboardVars

LEMMA CardsPart == [Next]_dashboardVars => Cards!Next \/ UNCHANGED overviewVars
BY DEF Next, Step, Rest, dashboardVars

-----------------------------------------------------------------------------
(* The topology *)

\* deviceMap has the devices that are drawn, save while a load has emptied it.
TopologyInv ==
    /\ Topo!TypeOK
    /\ Topo!SelectionIsDrawn /\ Topo!PanelShowsSelection /\ Topo!PositionsAreDrawn
    /\ deviceMap = IF loadStage = "statuses" THEN {} ELSE topoDevices

LEMMA TopologyInit == Topo!Init => TopologyInv
BY PageNames
   DEF Topo!Init, TopologyInv, Topo!TypeOK, Topo!SelectionIsDrawn, Topo!PanelShowsSelection,
       Topo!PositionsAreDrawn

LEMMA TopologyStep == TopologyInv /\ [Next]_dashboardVars => TopologyInv'
<1> SUFFICES ASSUME TopologyInv, Topo!Next \/ UNCHANGED topoVars PROVE TopologyInv'
  BY TopologyPart
<1>0. None \notin Devices
  BY PageNames
<1> USE <1>0 DEF TopologyInv, Topo!TypeOK, Topo!SelectionIsDrawn, Topo!PanelShowsSelection,
        Topo!PositionsAreDrawn
<1>1. CASE Topo!Refresh \/ Topo!TelemetryArrives
  BY <1>1 DEF Topo!Refresh, Topo!TelemetryArrives
<1>2. ASSUME NEW list \in SUBSET Devices, Topo!ListArrives(list) PROVE TopologyInv'
  BY <1>2 DEF Topo!ListArrives
<1>3. CASE Topo!StatusesArrive
  BY <1>3 DEF Topo!StatusesArrive, Topo!Render, Topo!Reselect, Topo!Select
<1>4. CASE Topo!Frame
  BY <1>4 DEF Topo!Frame, Topo!Render, Topo!Reselect, Topo!Select
<1>5. ASSUME NEW d \in Devices, Topo!Hover(d) PROVE TopologyInv'
  BY <1>5 DEF Topo!Hover, Topo!Select
<1>6. ASSUME NEW d \in Devices, Topo!PointerDown(d) PROVE TopologyInv'
  BY <1>6 DEF Topo!PointerDown
<1>7. CASE Topo!PointerMove \/ Topo!EndDrag \/ Topo!Unhover
  BY <1>7 DEF Topo!PointerMove, Topo!EndDrag, Topo!Unhover
<1>8. CASE Topo!Resize \/ UNCHANGED topoVars
  BY <1>8 DEF Topo!Resize, topoVars
<1> QED BY <1>1, <1>2, <1>3, <1>4, <1>5, <1>6, <1>7, <1>8 DEF Topo!Next

-----------------------------------------------------------------------------
(* The layout of the topology *)

LEMMA LayoutNumbers ==
    /\ Layout!Grid = 576 /\ Layout!Pixel = 24 /\ Layout!MinSpacing = 2304
    /\ Layout!Margin[1] = 2880 /\ Layout!Margin[2] = 2304
    /\ Layout!LeastUsable[1] = 6912 /\ Layout!LeastUsable[2] = 4608
    /\ Layout!Axes = {1, 2}
BY DEF Layout!Grid, Layout!Pixel, Layout!MinSpacing, Layout!Margin, Layout!LeastUsable, Layout!Axes

LEMMA BoxesAreLarge ==
    ASSUME NEW b \in Layout!Boxes
    PROVE  b[1] \in Nat /\ b[2] \in Nat /\ b[1] >= 2880 /\ b[2] >= 2304 /\ b \in Nat \X Nat
<1>1. PICK size \in Sizes : b = <<size[1] * Layout!Pixel, size[2] * Layout!Pixel>>
  BY DEF Layout!Boxes, Layout!Pixels
<1>2. size[1] \in Nat /\ size[2] \in Nat
  BY Inputs DEF Layout!LayoutBounds
<1>3. \A a \in {1, 2} : b[a] >= Layout!Margin[a]
  BY Inputs, LayoutNumbers DEF Layout!LayoutBounds
<1> QED BY <1>1, <1>2, <1>3, LayoutNumbers

LEMMA PlansAreShort ==
    ASSUME NEW plan \in Plans
    PROVE  /\ Len(plan) \in {1, 2}
           /\ \A n \in Layout!Nodes(plan) : /\ plan[n.row] \in 1..3 /\ n.row \in 1..2
                                            /\ n.column \in 1..3 /\ n.column <= plan[n.row]
<1>1. plan \in {<<k>> : k \in 1..3} \cup ((1..3) \X (1..3))
  BY Inputs DEF Layout!LayoutBounds
<1>2. CASE plan \in {<<k>> : k \in 1..3}
  BY <1>2 DEF Layout!Nodes, Layout!Node
<1>3. CASE plan \in (1..3) \X (1..3)
  BY <1>3 DEF Layout!Nodes, Layout!Node
<1> QED BY <1>1, <1>2, <1>3

\* A value is at most half a cell from where it is snapped, which is a fixed point.
LEMMA SnapIsNear ==
    ASSUME NEW v \in Int
    PROVE  /\ Layout!SnapToGrid(v) \in Int
           /\ v - 288 < Layout!SnapToGrid(v) /\ Layout!SnapToGrid(v) <= v + 288
           /\ Layout!SnapToGrid(Layout!SnapToGrid(v)) = Layout!SnapToGrid(v)
<1> DEFINE k == (v + 288) \div 576
<1>1. /\ k \in Int /\ k * 576 <= v + 288 /\ v + 288 < k * 576 + 576
  OBVIOUS
<1>2. Layout!SnapToGrid(v) = k * 576
  BY LayoutNumbers DEF Layout!SnapToGrid
<1> HIDE DEF k
<1>3. (k * 576 + 288) \div 576 = k
  BY <1>1
<1>4. Layout!SnapToGrid(k * 576) = k * 576
  BY <1>3, LayoutNumbers DEF Layout!SnapToGrid
<1> QED BY <1>1, <1>2, <1>4

LEMMA MarginsAreInside ==
    ASSUME NEW b \in Layout!Boxes, NEW a \in {1, 2}, NEW v \in Int
    PROVE  /\ Layout!InMargins(b, a, v) \in Int
           /\ 0 <= Layout!InMargins(b, a, v) /\ Layout!InMargins(b, a, v) <= b[a]
           /\ Layout!SnapToGrid(Layout!InMargins(b, a, v)) = Layout!InMargins(b, a, v)
<1> DEFINE w == Layout!Within(Layout!Margin[a], b[a] - Layout!Margin[a], v)
<1>1. w \in Int /\ 0 <= w /\ w <= b[a] - 288
  BY LayoutNumbers, BoxesAreLarge DEF Layout!Within, Layout!Larger, Layout!Smaller
<1>2. Layout!InMargins(b, a, v) = Layout!SnapToGrid(w)
  BY DEF Layout!InMargins
<1>3. b[a] \in Nat
  BY BoxesAreLarge
<1>4. CASE w >= 288
  BY <1>1, <1>2, <1>3, <1>4, SnapIsNear
<1>5. CASE w < 288
  BY <1>1, <1>2, <1>3, <1>5, LayoutNumbers, SnapIsNear DEF Layout!SnapToGrid
<1> QED BY <1>1, <1>4, <1>5

LEMMA NearSideIsInside ==
    ASSUME NEW b \in Layout!Boxes, NEW p, p[1] \in Int, p[2] \in Int
    PROVE  \A a \in Layout!Axes : /\ Layout!NearSide(p, b)[a] \in Int
                                  /\ 0 <= Layout!NearSide(p, b)[a]
                                  /\ Layout!NearSide(p, b)[a] <= b[a]
<1> SUFFICES ASSUME NEW a \in {1, 2}
             PROVE  /\ Layout!NearSide(p, b)[a] \in Int
                    /\ 0 <= Layout!NearSide(p, b)[a] /\ Layout!NearSide(p, b)[a] <= b[a]
  BY LayoutNumbers
<1> DEFINE w == Layout!Within(576, b[a] - 576, Layout!SnapToGrid(p[a]))
<1>1. b[a] \in Nat /\ b[a] >= 2304
  BY BoxesAreLarge
<1>2. Layout!SnapToGrid(p[a]) \in Int
  BY SnapIsNear
<1>3. w \in Int /\ 576 <= w /\ w <= b[a] - 576
  BY <1>1, <1>2 DEF Layout!Within, Layout!Larger, Layout!Smaller
<1>4. Layout!NearSide(p, b)[a] = Layout!SnapToGrid(w)
  BY <1>1, LayoutNumbers DEF Layout!NearSide
<1> HIDE DEF w
<1> QED BY <1>1, <1>3, <1>4, SnapIsNear

LEMMA SpacingsAreNumbers ==
    ASSUME NEW b \in Layout!Boxes
    PROVE  /\ \A plan \in Plans : Layout!RowSpacing(b, plan) \in Int
           /\ \A count \in 1..3 : Layout!ColumnSpacing(b, count) \in Int
<1>1. Layout!Usable(b)[1] \in Int /\ Layout!Usable(b)[2] \in Int
  BY BoxesAreLarge, LayoutNumbers DEF Layout!Usable, Layout!Larger
<1>2. ASSUME NEW plan \in Plans PROVE Layout!RowSpacing(b, plan) \in Int
  <2>1. Len(plan) \in {1, 2}
    BY PlansAreShort
  <2>2. Layout!Usable(b)[2] \div 1 \in Int /\ Layout!Usable(b)[2] \div 2 \in Int
    BY <1>1
  <2>3. Layout!RowSpacing(b, plan)
          = Layout!Larger(2304, Layout!Usable(b)[2] \div Len(plan))
    BY LayoutNumbers DEF Layout!RowSpacing
  <2>4. Layout!Usable(b)[2] \div Len(plan) \in Int
    <3>1. CASE Len(plan) = 1
      BY <2>2, <3>1
    <3>2. CASE Len(plan) = 2
      BY <2>2, <3>2
    <3> QED BY <2>1, <3>1, <3>2
  <2> QED BY <2>3, <2>4 DEF Layout!Larger
<1>3. ASSUME NEW count \in 1..3 PROVE Layout!ColumnSpacing(b, count) \in Int
  <2>1. Layout!Usable(b)[1] \div (count + 1) \in Int
    BY <1>1
  <2> QED BY <2>1, LayoutNumbers DEF Layout!ColumnSpacing, Layout!Larger
<1> QED BY <1>2, <1>3

LEMMA PositionIsInside ==
    ASSUME NEW b \in Layout!Boxes, NEW plan \in Plans, NEW n \in Layout!Nodes(plan)
    PROVE  \A a \in Layout!Axes :
              /\ Layout!Position(b, plan, n)[a] \in Int
              /\ 0 <= Layout!Position(b, plan, n)[a] /\ Layout!Position(b, plan, n)[a] <= b[a]
              /\ Layout!SnapToGrid(Layout!Position(b, plan, n)[a]) = Layout!Position(b, plan, n)[a]
<1> DEFINE column == Layout!ColumnSpacing(b, plan[n.row])
           shift == IF n.row % 2 = 1 THEN 0 ELSE column \div 2
           x == Layout!Margin[1] + column * n.column + shift
           y == Layout!Margin[2] + (Layout!RowSpacing(b, plan) * (2 * n.row - 1)) \div 2
<1>1. n.row \in 1..2 /\ n.column \in 1..3 /\ plan[n.row] \in 1..3
  BY PlansAreShort
<1>2. column \in Int /\ Layout!RowSpacing(b, plan) \in Int
  BY <1>1, SpacingsAreNumbers
<1>3. Layout!Position(b, plan, n) = <<Layout!InMargins(b, 1, x), Layout!InMargins(b, 2, y)>>
  BY DEF Layout!Position
<1> HIDE DEF column
<1>4. shift \in Int /\ column * n.column \in Int
  BY <1>1, <1>2
<1>5. Layout!RowSpacing(b, plan) * (2 * n.row - 1) \in Int
  BY <1>1, <1>2
<1>6. x \in Int /\ y \in Int
  BY <1>4, <1>5, LayoutNumbers
<1> HIDE DEF x, y
<1> QED BY <1>3, <1>6, MarginsAreInside, LayoutNumbers

LEMMA OffsetIsNumber ==
    ASSUME NEW b \in Layout!Boxes, NEW plan \in Plans, NEW n \in Layout!Nodes(plan)
    PROVE  Layout!Offset(b, plan, n) \in Int \X Int
<1> DEFINE p == Layout!Position(b, plan, n)
           half == Layout!ColumnSpacing(b, plan[n.row]) \div 2
           gap == Layout!Larger(2 * Layout!Grid, Layout!RowSpacing(b, plan) \div 2)
           distance(x) == IF x >= Layout!Center(b)[1] THEN x - Layout!Center(b)[1]
                          ELSE Layout!Center(b)[1] - x
           nearer == IF distance(p[1] - half) <= distance(p[1] + half)
                     THEN p[1] - half ELSE p[1] + half
           x == IF nearer < Layout!Margin[1] THEN p[1] + half
                ELSE IF nearer > b[1] - Layout!Margin[1] THEN p[1] - half ELSE nearer
           y == IF p[2] >= Layout!Center(b)[2] THEN p[2] - gap ELSE p[2] + gap
<1>1. plan[n.row] \in 1..3
  BY PlansAreShort
<1>2. Layout!ColumnSpacing(b, plan[n.row]) \in Int /\ Layout!RowSpacing(b, plan) \in Int
  BY <1>1, SpacingsAreNumbers
<1>3. p[1] \in Int /\ p[2] \in Int
  BY PositionIsInside, LayoutNumbers
<1>4. Layout!Corridor(b, plan, n) = <<Layout!InMargins(b, 1, x), Layout!InMargins(b, 2, y)>>
  BY DEF Layout!Corridor
<1>5. Layout!Offset(b, plan, n)
        = <<Layout!Corridor(b, plan, n)[1] - p[1], Layout!Corridor(b, plan, n)[2] - p[2]>>
  BY DEF Layout!Offset
<1> HIDE DEF p
<1>6. half \in Int /\ gap \in Int
  BY <1>2, LayoutNumbers DEF Layout!Larger
<1> HIDE DEF half, gap
<1>7. nearer \in Int
  BY <1>3, <1>6
<1> HIDE DEF nearer
<1>8. x \in Int /\ y \in Int
  BY <1>3, <1>6, <1>7
<1> HIDE DEF x, y
<1>9. Layout!InMargins(b, 1, x) \in Int /\ Layout!InMargins(b, 2, y) \in Int
  BY <1>8, MarginsAreInside
<1> QED BY <1>3, <1>4, <1>5, <1>9

\* A drawing is inside the container if its node is; each turn and label is.
LEMMA DrawingIsInside ==
    ASSUME NEW b \in Layout!Boxes, NEW p \in Int \X Int, NEW offset \in Int \X Int
    PROVE  LET d == Layout!Drawing(p, offset, b)
           IN  /\ d[1] = p
               /\ \A a \in Layout!Axes :
                     /\ 0 <= d[2][a] /\ d[2][a] <= b[a] /\ d[2][a] \in Int
                     /\ 0 <= d[3][a] /\ d[3][a] <= b[a]
<1> DEFINE c == Layout!ResolveCorridor(p, offset, b)
           l == Layout!ComputeLabelPosition(p, c, b)
           sum == <<p[1] + offset[1], p[2] + offset[2]>>
           mid == <<(c[1] + p[1]) \div 2, (c[2] + p[2]) \div 2>>
<1>1. sum[1] \in Int /\ sum[2] \in Int
  OBVIOUS
<1>2. c = Layout!NearSide(sum, b)
  BY DEF Layout!ResolveCorridor
<1>3. \A a \in Layout!Axes : c[a] \in Int /\ 0 <= c[a] /\ c[a] <= b[a]
  <2> HIDE DEF c, sum
  <2> QED BY <1>1, <1>2, NearSideIsInside
<1>4. l = Layout!NearSide(mid, b)
  BY DEF Layout!ComputeLabelPosition
<1>5. Layout!Drawing(p, offset, b) = <<p, c, l>>
  BY DEF Layout!Drawing
<1> HIDE DEF c, l, sum
<1>6. mid[1] \in Int /\ mid[2] \in Int
  BY <1>3, LayoutNumbers
<1> HIDE DEF mid
<1>7. \A a \in Layout!Axes : 0 <= l[a] /\ l[a] <= b[a]
  BY <1>4, <1>6, NearSideIsInside
<1> QED BY <1>3, <1>5, <1>7

\* The inductive invariant: a device that was dragged stands inside the container
\* it was dragged in, whatever the container is now.
LayoutInv ==
    /\ Layout!TypeOK
    /\ \A a \in Layout!Axes : /\ 0 <= Layout!SnapToGrid(own.at[a])
                              /\ Layout!SnapToGrid(own.at[a]) <= ownBox[a]

LEMMA LayoutInit == Init => LayoutInv
<1> SUFFICES ASSUME Layout!Init PROVE LayoutInv
  BY DEF Init
<1>1. Layout!TypeOK
  BY DEF Layout!Init, Layout!TypeOK, Layout!NoOwn
<1>2. Layout!SnapToGrid(0) = 0
  BY LayoutNumbers DEF Layout!SnapToGrid
<1>3. ownBox[1] \in Nat /\ ownBox[2] \in Nat
  BY <1>1, BoxesAreLarge DEF Layout!TypeOK
<1>4. own.at = <<0, 0>>
  BY DEF Layout!Init, Layout!NoOwn
<1> QED BY <1>1, <1>2, <1>3, <1>4, LayoutNumbers DEF LayoutInv

LEMMA SnappedNumbers ==
    ASSUME NEW p, p[1] \in Int, p[2] \in Int
    PROVE  Layout!Snapped(p) \in Int \X Int
BY SnapIsNear DEF Layout!Snapped

LEMMA CornersAreNumbers ==
    ASSUME NEW b \in Layout!Boxes, NEW p \in Int \X Int, NEW offset \in Int \X Int
    PROVE  LET c == Layout!ResolveCorridor(p, offset, b)
           IN  <<c[1] - p[1], c[2] - p[2]>> \in Int \X Int
<1> DEFINE c == Layout!ResolveCorridor(p, offset, b)
           sum == <<p[1] + offset[1], p[2] + offset[2]>>
<1>1. sum[1] \in Int /\ sum[2] \in Int
  OBVIOUS
<1>2. c = Layout!NearSide(sum, b)
  BY DEF Layout!ResolveCorridor
<1> HIDE DEF sum, c
<1>3. c[1] \in Int /\ c[2] \in Int
  BY <1>1, <1>2, NearSideIsInside, LayoutNumbers
<1> QED BY <1>3 DEF c

\* Where a pointer is dragged to is inside the container after the snapping too.
LEMMA ClampIsInside ==
    ASSUME NEW b \in Layout!Boxes, NEW p, p[1] \in Int, p[2] \in Int
    PROVE  LET at == Layout!Snapped(Layout!ClampPosition(p, b))
           IN  /\ at \in Int \X Int
               /\ \A a \in Layout!Axes : /\ 0 <= Layout!SnapToGrid(at[a])
                                         /\ Layout!SnapToGrid(at[a]) <= b[a]
<1> DEFINE q == Layout!ClampPosition(p, b)
           at == Layout!Snapped(q)
<1>1. b[1] \in Nat /\ b[1] >= 2880 /\ b[2] \in Nat /\ b[2] >= 2304
  BY BoxesAreLarge
<1>2. q = [a \in {1, 2} |-> Layout!Within(1152, Layout!Larger(1152, b[a] - 1152), p[a])]
  BY LayoutNumbers DEF Layout!ClampPosition
<1>3. /\ q[1] \in Int /\ 1152 <= q[1] /\ q[1] <= b[1] - 1152
      /\ q[2] \in Int /\ 1152 <= q[2] /\ q[2] <= b[2] - 1152
  BY <1>1, <1>2 DEF Layout!Within, Layout!Larger, Layout!Smaller
<1> HIDE DEF q
<1>4. at = <<Layout!SnapToGrid(q[1]), Layout!SnapToGrid(q[2])>>
  BY DEF Layout!Snapped
<1>5. at \in Int \X Int
  BY <1>3, <1>4, SnapIsNear
<1>6. ASSUME NEW a \in {1, 2}
      PROVE  0 <= Layout!SnapToGrid(at[a]) /\ Layout!SnapToGrid(at[a]) <= b[a]
  <2>1. at[a] = Layout!SnapToGrid(q[a])
    BY <1>4
  <2>2. Layout!SnapToGrid(at[a]) = Layout!SnapToGrid(q[a])
    BY <1>3, <2>1, SnapIsNear
  <2>3. /\ q[a] - 288 < Layout!SnapToGrid(q[a]) /\ Layout!SnapToGrid(q[a]) <= q[a] + 288
        /\ Layout!SnapToGrid(q[a]) \in Int
    BY <1>3, SnapIsNear
  <2> HIDE DEF at
  <2> QED BY <1>1, <1>3, <2>2, <2>3
<1> QED BY <1>5, <1>6, LayoutNumbers DEF q, at

LEMMA LayoutStep == LayoutInv /\ [Next]_dashboardVars => LayoutInv'
<1> SUFFICES ASSUME LayoutInv, [Next]_dashboardVars PROVE LayoutInv'
  OBVIOUS
<1> USE DEF LayoutInv, Layout!TypeOK
<1>1. ASSUME NEW b \in Layout!Boxes, NEW plan \in Plans, Layout!Draw(b, plan) PROVE LayoutInv'
  <2>1. box' \in Layout!Boxes /\ rows' \in Plans
    BY <1>1 DEF Layout!Draw
  <2>2. CASE own.node \in Layout!Nodes(plan)
    <3> DEFINE p == Layout!Snapped(own.at)
               offset == Layout!Offset(b, plan, own.node)
               c == Layout!ResolveCorridor(p, offset, b)
    <3>1. own' = own /\ ownBox' = ownBox /\ ownOffset' = <<c[1] - p[1], c[2] - p[2]>>
      BY <1>1, <2>2 DEF Layout!Draw
    <3>2. own.at[1] \in Int /\ own.at[2] \in Int
      OBVIOUS
    <3>3. p \in Int \X Int /\ offset \in Int \X Int
      BY <2>2, <3>2, SnappedNumbers, OffsetIsNumber
    <3>4. <<c[1] - p[1], c[2] - p[2]>> \in Int \X Int
      <4> HIDE DEF p, offset
      <4> QED BY <3>3, CornersAreNumbers
    <3> HIDE DEF c, p, offset
    <3> QED BY <2>1, <3>1, <3>4
  <2>3. CASE own.node \notin Layout!Nodes(plan)
    <3>1. own' = Layout!NoOwn /\ ownOffset' = <<0, 0>> /\ ownBox' = b
      BY <1>1, <2>3 DEF Layout!Draw
    <3>2. Layout!SnapToGrid(0) = 0
      BY LayoutNumbers DEF Layout!SnapToGrid
    <3>3. b[1] \in Nat /\ b[2] \in Nat
      BY BoxesAreLarge
    <3>4. own' \in [node : Layout!Node \cup {None}, at : Int \X Int] /\ own'.at = <<0, 0>>
      BY <3>1 DEF Layout!NoOwn
    <3> QED BY <2>1, <3>1, <3>2, <3>3, <3>4, LayoutNumbers
  <2> QED BY <2>2, <2>3
<1>2. ASSUME NEW n \in Layout!Nodes(rows), NEW pointer \in Pointers,
             Layout!DragTo(n, Layout!Pixels(pointer))
      PROVE  LayoutInv'
  <2> DEFINE px == Layout!Pixels(pointer)
             at == Layout!Snapped(Layout!ClampPosition(px, box))
             p == Layout!Snapped(Layout!ClampPosition(at, box))
             before == IF own.node = n THEN ownOffset ELSE Layout!Offset(box, rows, n)
             c == Layout!ResolveCorridor(p, before, box)
  <2>1. /\ own' = [node |-> n, at |-> at]
        /\ ownOffset' = <<c[1] - p[1], c[2] - p[2]>>
        /\ ownBox' = box /\ box' = box /\ rows' = rows
    BY <1>2 DEF Layout!DragTo
  <2>2. pointer \in Int \X Int
    BY Inputs DEF Layout!LayoutBounds
  <2>3. px[1] \in Int /\ px[2] \in Int
    BY <2>2, LayoutNumbers DEF Layout!Pixels
  <2>4. /\ at \in Int \X Int
        /\ \A a \in Layout!Axes : /\ 0 <= Layout!SnapToGrid(at[a])
                                  /\ Layout!SnapToGrid(at[a]) <= box[a]
    <3> HIDE DEF px
    <3> QED BY <2>3, ClampIsInside
  <2>5. p \in Int \X Int
    <3>1. at[1] \in Int /\ at[2] \in Int
      <4> HIDE DEF at
      <4> QED BY <2>4
    <3> HIDE DEF at
    <3> QED BY <3>1, ClampIsInside
  <2>6. before \in Int \X Int
    BY OffsetIsNumber
  <2>7. <<c[1] - p[1], c[2] - p[2]>> \in Int \X Int
    <3> HIDE DEF p, before
    <3> QED BY <2>5, <2>6, CornersAreNumbers
  <2>8. n \in Layout!Node
    BY DEF Layout!Nodes
  <2> HIDE DEF c, p, before, at, px
  <2> QED BY <2>1, <2>4, <2>7, <2>8
<1>3. CASE UNCHANGED layoutVars
  BY <1>3 DEF layoutVars
<1> QED BY <1>1, <1>2, <1>3, LayoutPart DEF Layout!Next

\* What is drawn of any device is inside the container, its node if it was not
\* dragged, and otherwise inside the one it was dragged in.
LEMMA DrawnIsInside == LayoutInv => Layout!DrawnInside
<1> SUFFICES ASSUME LayoutInv, NEW n \in Layout!Nodes(rows)
             PROVE  LET d == Layout!DrawingOf(n)
                    IN  /\ Layout!InsideOf(IF n = own.node THEN ownBox ELSE box, d[1])
                        /\ Layout!InsideOf(box, d[2]) /\ Layout!InsideOf(box, d[3])
  BY DEF Layout!DrawnInside
<1> USE DEF LayoutInv, Layout!TypeOK
<1> DEFINE d == Layout!DrawingOf(n)
<1>1. CASE n = own.node
  <2> DEFINE p == Layout!Snapped(own.at)
  <2>1. d = Layout!Drawing(p, ownOffset, box)
    BY <1>1 DEF Layout!DrawingOf
  <2>2. own.at[1] \in Int /\ own.at[2] \in Int
    OBVIOUS
  <2>3. p \in Int \X Int
    BY <2>2, SnappedNumbers
  <2>4. p = <<Layout!SnapToGrid(own.at[1]), Layout!SnapToGrid(own.at[2])>>
    BY DEF Layout!Snapped
  <2> HIDE DEF d, p
  <2>5. d[1] = p /\ Layout!InsideOf(box, d[2]) /\ Layout!InsideOf(box, d[3])
    BY <2>1, <2>3, DrawingIsInside DEF Layout!InsideOf
  <2>6. Layout!InsideOf(ownBox, p)
    BY <2>4, LayoutNumbers DEF Layout!InsideOf
  <2> QED BY <1>1, <2>5, <2>6 DEF d
<1>2. CASE n # own.node
  <2> DEFINE q == Layout!Position(box, rows, n)
             p == Layout!Snapped(q)
  <2>1. d = Layout!Drawing(p, Layout!Offset(box, rows, n), box)
    BY <1>2 DEF Layout!DrawingOf
  <2>2. \A a \in {1, 2} : q[a] \in Int /\ 0 <= q[a] /\ q[a] <= box[a]
                          /\ Layout!SnapToGrid(q[a]) = q[a]
    BY PositionIsInside, LayoutNumbers
  <2>3. p = <<Layout!SnapToGrid(q[1]), Layout!SnapToGrid(q[2])>>
    BY DEF Layout!Snapped
  <2>4. Layout!Offset(box, rows, n) \in Int \X Int
    BY OffsetIsNumber
  <2> HIDE DEF d, p, q
  <2>5. p \in Int \X Int /\ Layout!InsideOf(box, p)
    BY <2>2, <2>3, LayoutNumbers DEF Layout!InsideOf
  <2>6. d[1] = p /\ Layout!InsideOf(box, d[2]) /\ Layout!InsideOf(box, d[3])
    BY <2>1, <2>4, <2>5, DrawingIsInside DEF Layout!InsideOf
  <2> QED BY <1>2, <2>5, <2>6 DEF d
<1> QED BY <1>1, <1>2

\* In a row that fits no position is moved by the margins, and snapping takes less
\* than a cell of the distance between two columns.
LEMMA ColumnsAreWide ==
    ASSUME LayoutInv, NEW m \in Layout!Nodes(rows), NEW n \in Layout!Nodes(rows),
           m.row = n.row, m.column < n.column, Layout!RowFits(m.row)
    PROVE  Layout!Position(box, rows, n)[1] - Layout!Position(box, rows, m)[1] >= 1728
<1> DEFINE count == rows[m.row]
           column == Layout!ColumnSpacing(box, count)
           shift == IF m.row % 2 = 1 THEN 0 ELSE column \div 2
           x(k) == 2880 + column * k + shift
<1>1. /\ rows \in Plans /\ count \in 1..3 /\ m.column \in 1..3 /\ n.column \in 1..3
      /\ n.column <= count /\ m.row \in 1..2 /\ box \in Layout!Boxes
  BY PlansAreShort DEF LayoutInv, Layout!TypeOK
<1>2. box[1] \in Nat
  BY <1>1, BoxesAreLarge
<1> HIDE DEF count
<1>3. (count + 1) * 2304 <= box[1] - 5760
  BY LayoutNumbers DEF Layout!RowFits, count
<1>4. count \in {2, 3}
  BY <1>1
<1>5. column \in Int /\ column >= 2304 /\ (count + 1) * column <= box[1] - 5760
  <2>1. CASE count = 2
    <3>1. column = Layout!Larger(2304, (box[1] - 5760) \div 3)
      BY <1>2, <1>3, <2>1, LayoutNumbers DEF Layout!ColumnSpacing, Layout!Usable, Layout!Larger
    <3> HIDE DEF column
    <3> QED BY <1>2, <1>3, <2>1, <3>1 DEF Layout!Larger
  <2>2. CASE count = 3
    <3>1. column = Layout!Larger(2304, (box[1] - 5760) \div 4)
      BY <1>2, <1>3, <2>2, LayoutNumbers DEF Layout!ColumnSpacing, Layout!Usable, Layout!Larger
    <3> HIDE DEF column
    <3> QED BY <1>2, <1>3, <2>2, <3>1 DEF Layout!Larger
  <2> QED BY <1>4, <2>1, <2>2
<1> HIDE DEF column
<1>6. shift \in Int /\ 0 <= shift /\ 2 * shift <= column
  BY <1>5
<1>7. Layout!Position(box, rows, m)[1] = Layout!InMargins(box, 1, x(m.column))
  BY LayoutNumbers DEF Layout!Position, column, count
<1>8. Layout!Position(box, rows, n)[1] = Layout!InMargins(box, 1, x(n.column))
  BY LayoutNumbers DEF Layout!Position, column, count
<1> HIDE DEF shift
<1>9. ASSUME NEW k \in 1..3, k <= count
      PROVE  x(k) \in Int /\ Layout!InMargins(box, 1, x(k)) = Layout!SnapToGrid(x(k))
  <2>1. CASE k = 1
    BY <1>2, <1>4, <1>5, <1>6, <2>1, LayoutNumbers
    DEF Layout!InMargins, Layout!Within, Layout!Larger, Layout!Smaller
  <2>2. CASE k = 2
    BY <1>2, <1>4, <1>5, <1>6, <2>2, LayoutNumbers
    DEF Layout!InMargins, Layout!Within, Layout!Larger, Layout!Smaller
  <2>3. CASE k = 3
    BY <1>2, <1>4, <1>5, <1>6, <1>9, <2>3, LayoutNumbers
    DEF Layout!InMargins, Layout!Within, Layout!Larger, Layout!Smaller
  <2> QED BY <2>1, <2>2, <2>3
<1> DEFINE u == x(m.column)
           v == x(n.column)
<1>10. v - u >= 2304
  <2>1. \/ m.column = 1 /\ n.column = 2
        \/ m.column = 1 /\ n.column = 3
        \/ m.column = 2 /\ n.column = 3
    BY <1>1
  <2> QED BY <1>5, <1>6, <2>1
<1>11. u \in Int /\ v \in Int
  BY <1>1, <1>4, <1>9
<1>12. Layout!InMargins(box, 1, u) = Layout!SnapToGrid(u)
  BY <1>1, <1>4, <1>9
<1>13. Layout!InMargins(box, 1, v) = Layout!SnapToGrid(v)
  BY <1>1, <1>9
<1> HIDE DEF u, v
<1>14. /\ Layout!SnapToGrid(u) \in Int /\ Layout!SnapToGrid(u) <= u + 288
       /\ Layout!SnapToGrid(v) \in Int /\ v - 288 < Layout!SnapToGrid(v)
  BY <1>11, SnapIsNear
<1>15. Layout!SnapToGrid(v) - Layout!SnapToGrid(u) >= 1728
  BY <1>10, <1>11, <1>14
<1> QED BY <1>7, <1>8, <1>12, <1>13, <1>15 DEF u, v

\* The same of two rows in a container that is high enough for both.
LEMMA RowsAreHigh ==
    ASSUME LayoutInv, NEW m \in Layout!Nodes(rows), NEW n \in Layout!Nodes(rows),
           m.row < n.row, Layout!RowsFit
    PROVE  Layout!Position(box, rows, n)[2] - Layout!Position(box, rows, m)[2] >= 1728
<1> DEFINE spacing == Layout!RowSpacing(box, rows)
           u == 2304 + spacing \div 2
           v == 2304 + (spacing * 3) \div 2
<1>1. rows \in Plans /\ Len(rows) = 2 /\ m.row = 1 /\ n.row = 2 /\ box \in Layout!Boxes
  <2>1. rows \in Plans /\ m.row \in 1..2 /\ n.row \in 1..2 /\ box \in Layout!Boxes
    BY PlansAreShort DEF LayoutInv, Layout!TypeOK
  <2>2. n.row <= Len(rows)
    BY DEF Layout!Nodes
  <2>3. Len(rows) \in {1, 2}
    BY <2>1, PlansAreShort
  <2> QED BY <2>1, <2>2, <2>3
<1>2. box[2] \in Nat /\ 4608 <= box[2] - 4608
  <2>1. box[2] \in Nat
    BY <1>1, BoxesAreLarge
  <2>2. 2 * 2304 <= box[2] - 2 * 2304
    BY <1>1, LayoutNumbers DEF Layout!RowsFit
  <2> QED BY <2>1, <2>2
<1>3. spacing = Layout!Larger(2304, (box[2] - 4608) \div 2)
  BY <1>1, <1>2, LayoutNumbers DEF Layout!RowSpacing, Layout!Usable, Layout!Larger
<1> HIDE DEF spacing
<1>4. spacing \in Int /\ spacing >= 2304 /\ 2 * spacing <= box[2] - 4608
  BY <1>2, <1>3 DEF Layout!Larger
<1>5. /\ Layout!Position(box, rows, m)[2] = Layout!InMargins(box, 2, u)
      /\ Layout!Position(box, rows, n)[2] = Layout!InMargins(box, 2, v)
  <2>1. 2 * m.row - 1 = 1 /\ 2 * n.row - 1 = 3 /\ Layout!Margin[2] = 2304
    BY <1>1, LayoutNumbers
  <2>2. /\ Layout!Position(box, rows, m)[2]
             = Layout!InMargins(box, 2, Layout!Margin[2] + (spacing * (2 * m.row - 1)) \div 2)
        /\ Layout!Position(box, rows, n)[2]
             = Layout!InMargins(box, 2, Layout!Margin[2] + (spacing * (2 * n.row - 1)) \div 2)
    BY DEF Layout!Position, spacing
  <2>3. spacing * 1 = spacing
    BY <1>4
  <2> QED BY <2>1, <2>2, <2>3
<1>6. u \in Int /\ v \in Int /\ 2304 <= u /\ v <= box[2] - 2304 /\ v - u >= 2304
  BY <1>2, <1>4
<1> HIDE DEF u, v
<1>7. /\ Layout!InMargins(box, 2, u) = Layout!SnapToGrid(u)
      /\ Layout!InMargins(box, 2, v) = Layout!SnapToGrid(v)
  BY <1>2, <1>6, LayoutNumbers DEF Layout!InMargins, Layout!Within, Layout!Larger, Layout!Smaller
<1>8. /\ Layout!SnapToGrid(u) \in Int /\ Layout!SnapToGrid(u) <= u + 288
      /\ Layout!SnapToGrid(v) \in Int /\ v - 288 < Layout!SnapToGrid(v)
  BY <1>6, SnapIsNear
<1> QED BY <1>5, <1>6, <1>7, <1>8

LEMMA RowsAreWide == LayoutInv => Layout!RowsAreApart
<1> SUFFICES ASSUME LayoutInv, NEW m \in Layout!Nodes(rows), NEW n \in Layout!Nodes(rows)
             PROVE  LET from == Layout!Position(box, rows, m)
                        to == Layout!Position(box, rows, n)
                    IN  /\ m.row = n.row /\ m.column < n.column /\ Layout!RowFits(m.row) =>
                               to[1] - from[1] >= 3 * Layout!Grid
                        /\ m.row < n.row /\ Layout!RowsFit => to[2] - from[2] >= 3 * Layout!Grid
  BY DEF Layout!RowsAreApart
<1>1. 3 * Layout!Grid = 1728
  BY LayoutNumbers
<1> QED BY <1>1, ColumnsAreWide, RowsAreHigh

-----------------------------------------------------------------------------
(* The maps *)

\* A refresh whose maps have come leaves some: lists are never empty.
MapsInv ==
    /\ Maps!TypeOK
    /\ Maps!DrawnFromLists /\ Maps!PreviewIsOfOpened
    /\ \A r \in Requests : mapRefreshes[r] = {"groups"} => savedMaps # {}

LEMMA MapsInit == Maps!Init => MapsInv
<1> SUFFICES ASSUME Maps!Init PROVE MapsInv
  OBVIOUS
<1>1. Maps!TypeOK
  BY DEF Maps!Init, Maps!TypeOK, Maps!Parts, Maps!Maps
<1>2. Maps!DrawnFromLists /\ Maps!PreviewIsOfOpened
  BY DEF Maps!Init, Maps!DrawnFromLists, Maps!PreviewIsOfOpened, Maps!Visible
<1> QED BY <1>1, <1>2 DEF Maps!Init, MapsInv

LEMMA MapsArrivalKeeps ==
    ASSUME MapsInv, NEW r \in Requests, NEW part \in Maps!Parts,
           NEW groups \in SUBSET Devices, NEW maps \in SUBSET Devices,
           part \in mapRefreshes[r], part = "maps" => maps # {},
           part = "groups" => maps = savedMaps,
           Maps!Arrives(r, part, groups, maps)
    PROVE  MapsInv'
<1>1. /\ mapGroups' = groups /\ savedMaps' = maps
      /\ mapRefreshes' = [mapRefreshes EXCEPT ![r] = @ \ {part}]
      /\ UNCHANGED <<mapGroup, mapSearch>>
  BY DEF Maps!Arrives
<1>2. \A q \in Requests : q # r => mapRefreshes'[q] = mapRefreshes[q]
  BY <1>1 DEF MapsInv, Maps!TypeOK
<1>3. mapRefreshes'[r] = mapRefreshes[r] \ {part} /\ mapRefreshes[r] \subseteq {"groups", "maps"}
  BY <1>1 DEF MapsInv, Maps!TypeOK, Maps!Parts
<1>4. \A q \in Requests : mapRefreshes'[q] = {"groups"} => maps # {}
  BY <1>2, <1>3 DEF MapsInv, Maps!Parts
<1>5. CASE mapRefreshes[r] = {part}
  <2>1. maps # {}
    BY <1>5 DEF Maps!Parts, MapsInv
  <2>2. PICK m \in maps : openedMap' = m /\ mapCanvas' = m
    BY <1>5, <2>1 DEF Maps!Arrives
  <2>3. /\ mapTree' \subseteq groups
        /\ activeGroup' = IF mapGroup \in mapTree' THEN mapGroup ELSE None
        /\ mapRows' = Maps!Visible(groups, maps, mapGroup, mapSearch)
        /\ mapCounted' = Maps!Visible(groups, maps, mapGroup, mapSearch)
    BY <1>5 DEF Maps!Arrives, Maps!Drawn
  <2>4. Maps!TypeOK'
    BY <1>1, <2>2, <2>3 DEF MapsInv, Maps!TypeOK, Maps!Visible, Maps!Maps
  <2>5. Maps!DrawnFromLists' /\ Maps!PreviewIsOfOpened'
    BY <1>1, <2>2, <2>3 DEF Maps!DrawnFromLists, Maps!PreviewIsOfOpened, Maps!Visible
  <2> QED BY <1>1, <1>4, <2>4, <2>5 DEF MapsInv
<1>6. CASE mapRefreshes[r] # {part}
  <2>1. UNCHANGED <<openedMap, mapRows, mapTree, activeGroup, mapCounted, mapCanvas>>
    BY <1>6 DEF Maps!Arrives
  <2>2. mapRefreshes'[r] # {}
    BY <1>3, <1>6
  <2>3. Maps!TypeOK'
    BY <1>1, <2>1 DEF MapsInv, Maps!TypeOK, Maps!Maps
  <2>4. Maps!DrawnFromLists' /\ Maps!PreviewIsOfOpened'
    BY <2>2 DEF Maps!DrawnFromLists, Maps!PreviewIsOfOpened, Maps!Refreshing
  <2> QED BY <1>1, <1>4, <2>3, <2>4 DEF MapsInv
<1> QED BY <1>5, <1>6

LEMMA MapsStep == MapsInv /\ [Next]_dashboardVars => MapsInv'
<1> SUFFICES ASSUME MapsInv, Maps!Next \/ UNCHANGED mapVars PROVE MapsInv'
  BY MapsPart
<1> USE DEF MapsInv, Maps!TypeOK, Maps!DrawnFromLists, Maps!PreviewIsOfOpened, Maps!Visible,
        Maps!Refreshing, Maps!Maps
<1>1. ASSUME NEW g \in Devices, Maps!ChooseGroup(g) PROVE MapsInv'
  BY <1>1 DEF Maps!ChooseGroup, Maps!Drawn
<1>2. ASSUME NEW m \in Devices, Maps!ClickRow(m) PROVE MapsInv'
  BY <1>2 DEF Maps!ClickRow, Maps!OpenMap
<1>3. ASSUME NEW matching \in SUBSET Devices, Maps!Search(matching) PROVE MapsInv'
  BY <1>3 DEF Maps!Search
<1>4. ASSUME NEW r \in Requests, Maps!RefreshData(r) PROVE MapsInv'
  <2>1. mapRefreshes' = [mapRefreshes EXCEPT ![r] = {"groups", "maps"}]
    BY <1>4 DEF Maps!RefreshData, Maps!Parts
  <2> QED BY <1>4, <2>1 DEF Maps!RefreshData, Maps!Parts
<1>5. ASSUME NEW r \in Requests, NEW list \in (SUBSET Devices) \ {{}},
             Maps!GroupsArrive(r, list) \/ Maps!MapsArrive(r, list)
      PROVE  MapsInv'
  BY <1>5, MapsArrivalKeeps DEF Maps!GroupsArrive, Maps!MapsArrive, Maps!Parts
<1>6. CASE UNCHANGED mapVars
  BY <1>6 DEF mapVars
<1> QED BY <1>1, <1>2, <1>3, <1>4, <1>5, <1>6 DEF Maps!Next

-----------------------------------------------------------------------------
(* The insights *)

\* A refresh that has drawn its summary.
Summarised == panels.summary \in lately /\ panels.status \in lately \cup {None}

\* All that is under way, each timer, and what a refresh has drawn, is for a device
\* of lately, for that only forgets devices when nothing is under way.
InsightsInv ==
    /\ Insights!TypeOK
    /\ \A r \in Requests : refreshes[r].at # "idle" => refreshes[r].of \in lately
    /\ liveLoads \subseteq lately /\ statusAsks \subseteq lately
    /\ {liveTimer, statusTimer} \subseteq lately \cup {None}
    /\ insightsReady /\ insightsDevice # None => contentShown /\ insightsDevice \in lately
    /\ ~badge => panels.newest = None
    /\ (\A r \in Requests : refreshes[r].at # "list") /\ badge /\ insightsDevice # None =>
          statusTimer # None \/ statusAsks # {}
    /\ \A r \in Requests : refreshes[r].at \in {"metrics", "others"} => Summarised
    /\ \A r \in Requests : refreshes[r].at = "others" => allMetrics \in lately
    /\ insightsReady /\ insightsDevice # None /\ (\A r \in Requests : refreshes[r].at = "idle") =>
          /\ Summarised /\ panels.charts \in lately /\ liveTimer \in lately
          /\ badge => panels.newest \in lately

LEMMA InsightsInit == Insights!Init => InsightsInv
<1> SUFFICES ASSUME Insights!Init PROVE InsightsInv
  OBVIOUS
<1>1. Insights!TypeOK
  BY DEF Insights!Init, Insights!TypeOK, Insights!NoRefresh, Insights!Shown
<1>2. \A r \in Requests : refreshes[r].at = "idle"
  BY DEF Insights!Init, Insights!NoRefresh
<1> QED BY <1>1, <1>2 DEF Insights!Init, InsightsInv

LEMMA RefreshKeeps ==
    ASSUME InsightsInv, NEW d \in Devices, NEW r \in Requests, Insights!RefreshInsights(d, r),
           insightsDevice' = d, insightsReady' \in BOOLEAN, insightsReady => insightsReady'
    PROVE  InsightsInv'
<1>0. d # None
  BY PageNames
<1>1. /\ refreshes' = [refreshes EXCEPT ![r] = [of |-> d, at |-> "list"]]
      /\ contentShown' = TRUE /\ liveTimer' = None /\ statusTimer' = None
      /\ UNCHANGED <<allMetrics, panels, badge, liveLoads, statusAsks>>
  BY DEF Insights!RefreshInsights, Insights!Refreshing
<1>2. /\ d \in lately' /\ lately' \subseteq Devices
      /\ \/ lately \subseteq lately'
         \/ liveLoads = {} /\ statusAsks = {} /\ \A q \in Requests : refreshes[q].at = "idle"
  <2>1. lately' = IF Insights!UnderWay THEN lately \cup {d} ELSE {d}
    BY DEF Insights!RefreshInsights, Insights!Refreshing
  <2>2. ~Insights!UnderWay => /\ liveLoads = {} /\ statusAsks = {}
                              /\ \A q \in Requests : refreshes[q].at = "idle"
    BY DEF Insights!UnderWay, Insights!Running, Insights!NoRefresh
  <2>3. lately \subseteq Devices
    BY DEF InsightsInv, Insights!TypeOK
  <2> QED BY <2>1, <2>2, <2>3
<1>3. /\ refreshes'[r].of = d /\ refreshes'[r].at = "list"
      /\ \A q \in Requests : q # r => refreshes'[q] = refreshes[q]
  BY <1>1 DEF InsightsInv, Insights!TypeOK
<1>4. Insights!TypeOK'
  BY <1>1, <1>2 DEF InsightsInv, Insights!TypeOK, Insights!Shown
<1>5. \A q \in Requests : refreshes'[q].at \in {"metrics", "others"} =>
         lately \subseteq lately' /\ refreshes[q].at = refreshes'[q].at
  BY <1>2, <1>3
<1>6. /\ \A q \in Requests : refreshes'[q].at # "idle" => refreshes'[q].of \in lately'
      /\ liveLoads' \subseteq lately' /\ statusAsks' \subseteq lately'
  BY <1>1, <1>2, <1>3 DEF InsightsInv
<1> QED BY <1>0, <1>1, <1>2, <1>3, <1>4, <1>5, <1>6 DEF InsightsInv, Summarised

\* The empty state leaves no device chosen.
LEMMA EmptyKeeps ==
    ASSUME InsightsInv, Insights!SetEmptyState, insightsDevice' = None,
           insightsReady' \in BOOLEAN
    PROVE  InsightsInv'
<1>1. /\ contentShown' = FALSE /\ liveTimer' = None /\ statusTimer' = None
      /\ UNCHANGED <<refreshes, allMetrics, panels, badge, liveLoads, statusAsks, lately>>
  BY DEF Insights!SetEmptyState
<1> QED BY <1>1 DEF InsightsInv, Insights!TypeOK, Insights!Shown, Summarised

LEMMA InsightsStep == InsightsInv /\ [Next]_dashboardVars => InsightsInv'
<1> SUFFICES ASSUME InsightsInv, Insights!Next \/ UNCHANGED insightsVars PROVE InsightsInv'
  BY InsightsPart
<1>0. None \notin Devices
  BY PageNames
<1>1. ASSUME NEW r \in Requests, NEW d \in Devices, Insights!Choose(d, r) PROVE InsightsInv'
  <2>1. insightsReady' = insightsReady /\ insightsReady \in BOOLEAN
    BY <1>1 DEF Insights!Choose, InsightsInv, Insights!TypeOK
  <2> QED BY <1>1, <2>1, RefreshKeeps DEF Insights!Choose
<1>2. ASSUME NEW r \in Requests, Insights!RefreshButton(r) PROVE InsightsInv'
  <2>1. /\ insightsDevice \in Devices /\ insightsDevice' = insightsDevice
        /\ insightsReady' = insightsReady /\ insightsReady \in BOOLEAN
    BY <1>2 DEF Insights!RefreshButton, InsightsInv, Insights!TypeOK, Insights!Shown
  <2> QED BY <1>2, <2>1, RefreshKeeps DEF Insights!RefreshButton
<1>3. CASE Insights!ChooseNone
  <2>1. insightsReady' \in BOOLEAN
    BY <1>3 DEF Insights!ChooseNone, InsightsInv, Insights!TypeOK
  <2> QED BY <1>3, <2>1, EmptyKeeps DEF Insights!ChooseNone
<1>4. CASE Insights!DevicesPublished
  <2>1. insightsReady' \in BOOLEAN
    BY <1>4 DEF Insights!DevicesPublished, InsightsInv, Insights!TypeOK
  <2> QED BY <1>4, <2>1, EmptyKeeps DEF Insights!DevicesPublished
<1>5. ASSUME NEW r \in Requests, Insights!Start(r) PROVE InsightsInv'
  <2>1. insightsReady' = TRUE /\ insightsDevice' = insightsDevice
    BY <1>5 DEF Insights!Start
  <2>2. CASE insightsDevice = None
    BY <1>5, <2>1, <2>2, EmptyKeeps DEF Insights!Start
  <2>3. CASE insightsDevice # None
    <3>1. insightsDevice \in Devices
      BY <2>3 DEF InsightsInv, Insights!TypeOK, Insights!Shown
    <3> QED BY <1>5, <2>1, <2>3, <3>1, RefreshKeeps DEF Insights!Start
  <2> QED BY <2>2, <2>3
<1>6. ASSUME NEW r \in Requests, NEW found \in BOOLEAN, Insights!ListLoaded(r, found)
      PROVE  InsightsInv'
  <2>1. /\ refreshes[r].at = "list" /\ refreshes[r].of \in lately /\ lately \subseteq Devices
        /\ refreshes'[r].at = "metrics" /\ refreshes'[r].of = refreshes[r].of
        /\ \A q \in Requests : q # r => refreshes'[q] = refreshes[q]
    BY <1>6 DEF Insights!ListLoaded, InsightsInv, Insights!TypeOK
  <2>2. /\ panels'.summary = refreshes[r].of /\ panels'.status = None
        /\ panels'.charts = panels.charts /\ panels'.newest = None
    BY <1>6 DEF Insights!ListLoaded, InsightsInv, Insights!TypeOK
  <2>3. /\ badge' = found /\ statusTimer' = None
        /\ found => statusAsks' = statusAsks \cup {refreshes[r].of}
        /\ ~found => statusAsks' = statusAsks
        /\ UNCHANGED <<insightsDevice, insightsReady, contentShown, allMetrics, liveTimer,
                       liveLoads, lately>>
    BY <1>6 DEF Insights!ListLoaded
  <2>4. Insights!TypeOK'
    <3>1. refreshes' \in [Requests -> [of : Devices \cup {None},
                                       at : {"idle", "list", "metrics", "others"}]]
      BY <1>6 DEF Insights!ListLoaded, InsightsInv, Insights!TypeOK, Insights!Shown
    <3>2. panels' \in [summary : Devices \cup {None}, charts : Devices \cup {None},
                       newest : Devices \cup {None}, status : Devices \cup {None}]
      BY <1>6, <2>1 DEF Insights!ListLoaded, InsightsInv, Insights!TypeOK, Insights!Shown
    <3>3. statusAsks' \subseteq Devices
      BY <2>1, <2>3 DEF InsightsInv, Insights!TypeOK
    <3> QED BY <2>1, <2>3, <3>1, <3>2, <3>3 DEF InsightsInv, Insights!TypeOK, Insights!Shown
  <2>5. statusAsks' \subseteq lately' /\ (found => statusAsks' # {})
    BY <2>1, <2>3 DEF InsightsInv
  <2>6. Summarised'
    BY <2>1, <2>2, <2>3 DEF Summarised
  <2> QED BY <2>1, <2>2, <2>3, <2>4, <2>5, <2>6 DEF InsightsInv
<1>7. ASSUME NEW r \in Requests, Insights!MetricsLoaded(r) PROVE InsightsInv'
  <2>1. /\ refreshes[r].at = "metrics" /\ refreshes[r].of \in lately /\ lately \subseteq Devices
        /\ refreshes'[r].at = "others" /\ refreshes'[r].of = refreshes[r].of
        /\ \A q \in Requests : q # r => refreshes'[q] = refreshes[q]
    BY <1>7 DEF Insights!MetricsLoaded, InsightsInv, Insights!TypeOK
  <2>2. /\ allMetrics' = refreshes[r].of
        /\ UNCHANGED <<insightsDevice, insightsReady, contentShown, panels, badge, liveTimer,
                       liveLoads, statusTimer, statusAsks, lately>>
    BY <1>7 DEF Insights!MetricsLoaded
  <2>3. Insights!TypeOK'
    <3>1. refreshes' \in [Requests -> [of : Devices \cup {None},
                                       at : {"idle", "list", "metrics", "others"}]]
      BY <1>7 DEF Insights!MetricsLoaded, InsightsInv, Insights!TypeOK, Insights!Shown
    <3> QED BY <2>1, <2>2, <3>1 DEF InsightsInv, Insights!TypeOK, Insights!Shown
  <2> QED BY <2>1, <2>2, <2>3 DEF InsightsInv, Summarised
<1>8. ASSUME NEW r \in Requests, Insights!Draw(r) PROVE InsightsInv'
  <2>1. /\ refreshes[r].at = "others" /\ refreshes[r].of \in lately /\ lately \subseteq Devices
        /\ refreshes'[r].at = "idle"
        /\ \A q \in Requests : q # r => refreshes'[q] = refreshes[q]
    BY <1>8 DEF Insights!Draw, Insights!NoRefresh, InsightsInv, Insights!TypeOK
  <2>2. /\ panels'.summary = panels.summary /\ panels'.status = panels.status
        /\ panels'.charts = allMetrics
        /\ panels'.newest = IF badge THEN refreshes[r].of ELSE panels.newest
    BY <1>8 DEF Insights!Draw, Insights!Newest, InsightsInv, Insights!TypeOK
  <2>3. /\ liveTimer' = refreshes[r].of
        /\ UNCHANGED <<insightsDevice, insightsReady, contentShown, allMetrics, badge, liveLoads,
                       statusTimer, statusAsks, lately>>
    BY <1>8 DEF Insights!Draw
  <2>4. Insights!TypeOK'
    <3>1. refreshes' \in [Requests -> [of : Devices \cup {None},
                                       at : {"idle", "list", "metrics", "others"}]]
      BY <1>8 DEF Insights!Draw, Insights!NoRefresh, InsightsInv, Insights!TypeOK, Insights!Shown
    <3>2. panels' \in [summary : Devices \cup {None}, charts : Devices \cup {None},
                       newest : Devices \cup {None}, status : Devices \cup {None}]
      BY <1>8, <2>1
      DEF Insights!Draw, Insights!Newest, InsightsInv, Insights!TypeOK, Insights!Shown
    <3> QED BY <2>1, <2>3, <3>1, <3>2 DEF InsightsInv, Insights!TypeOK, Insights!Shown
  <2>5. Summarised' /\ allMetrics \in lately
    BY <2>1, <2>2, <2>3 DEF InsightsInv, Summarised
  <2> QED BY <2>1, <2>2, <2>3, <2>4, <2>5 DEF InsightsInv
<1>9. CASE Insights!LiveTick
  <2>1. liveTimer \in lately /\ liveTimer \in Devices
    BY <1>9 DEF Insights!LiveTick, InsightsInv, Insights!TypeOK, Insights!Shown
  <2> QED BY <1>0, <1>9, <2>1
    DEF Insights!LiveTick, InsightsInv, Insights!TypeOK, Insights!Shown, Summarised
<1>10. ASSUME NEW d \in Devices, Insights!LiveArrives(d) PROVE InsightsInv'
  <2>1. /\ panels'.summary = panels.summary /\ panels'.status = panels.status
        /\ panels'.charts = panels.charts
        /\ panels'.newest = IF badge THEN d ELSE panels.newest
    BY <1>10 DEF Insights!LiveArrives, Insights!Newest, InsightsInv, Insights!TypeOK
  <2>2. /\ d \in lately /\ liveLoads' \subseteq liveLoads
        /\ UNCHANGED <<insightsDevice, insightsReady, contentShown, refreshes, allMetrics, badge,
                       liveTimer, statusTimer, statusAsks, lately>>
    BY <1>10 DEF Insights!LiveArrives, Insights!Answered, InsightsInv
  <2>3. Insights!TypeOK'
    <3>1. panels' \in [summary : Devices \cup {None}, charts : Devices \cup {None},
                       newest : Devices \cup {None}, status : Devices \cup {None}]
      BY <1>10 DEF Insights!LiveArrives, Insights!Newest, InsightsInv, Insights!TypeOK,
                   Insights!Shown
    <3> QED BY <2>2, <3>1 DEF InsightsInv, Insights!TypeOK, Insights!Shown
  <2> QED BY <2>1, <2>2, <2>3 DEF InsightsInv, Summarised
<1>11. CASE Insights!StatusTick
  <2>1. /\ panels'.summary = panels.summary /\ panels'.status = None
        /\ panels'.charts = panels.charts /\ panels'.newest = panels.newest
    BY <1>11 DEF Insights!StatusTick, InsightsInv, Insights!TypeOK
  <2>2. /\ statusTimer # None /\ statusTimer \in lately /\ statusTimer' = None
        /\ badge => statusAsks' = statusAsks \cup {statusTimer}
        /\ ~badge => statusAsks' = statusAsks
        /\ UNCHANGED <<insightsDevice, insightsReady, contentShown, refreshes, allMetrics, badge,
                       liveTimer, liveLoads, lately>>
    BY <1>11 DEF Insights!StatusTick, InsightsInv
  <2>3. Insights!TypeOK'
    BY <1>11 DEF Insights!StatusTick, InsightsInv, Insights!TypeOK, Insights!Shown
  <2>4. statusAsks' \subseteq lately' /\ (badge => statusAsks' # {})
    BY <2>2 DEF InsightsInv, Insights!TypeOK
  <2> QED BY <2>1, <2>2, <2>3, <2>4 DEF InsightsInv, Summarised
<1>12. ASSUME NEW d \in Devices, Insights!StatusArrives(d) PROVE InsightsInv'
  <2>1. /\ panels'.summary = panels.summary /\ panels'.status \in {d, None}
        /\ panels'.charts = panels.charts /\ panels'.newest = panels.newest
    BY <1>12 DEF Insights!StatusArrives, InsightsInv, Insights!TypeOK
  <2>2. /\ d \in lately /\ d # None /\ statusTimer' = d /\ statusAsks' \subseteq statusAsks
        /\ UNCHANGED <<insightsDevice, insightsReady, contentShown, refreshes, allMetrics, badge,
                       liveTimer, liveLoads, lately>>
    BY <1>0, <1>12 DEF Insights!StatusArrives, Insights!Answered, InsightsInv
  <2>3. Insights!TypeOK'
    <3>1. panels' \in [summary : Devices \cup {None}, charts : Devices \cup {None},
                       newest : Devices \cup {None}, status : Devices \cup {None}]
      BY <1>12 DEF Insights!StatusArrives, InsightsInv, Insights!TypeOK, Insights!Shown
    <3> QED BY <2>2, <3>1 DEF InsightsInv, Insights!TypeOK, Insights!Shown
  <2> QED BY <2>1, <2>2, <2>3 DEF InsightsInv, Summarised
<1>13. CASE UNCHANGED insightsVars
  BY <1>13 DEF insightsVars, InsightsInv, Insights!TypeOK, Summarised
<1> QED BY <1>1, <1>2, <1>3, <1>4, <1>5, <1>6, <1>7, <1>8, <1>9, <1>10, <1>11, <1>12, <1>13
  DEF Insights!Next

LEMMA InsightsAreRight == InsightsInv => Insights!PanelsAreOfRefreshed /\ Insights!PageIsWatched
BY DEF InsightsInv, Summarised, Insights!PanelsAreOfRefreshed, Insights!PageIsWatched,
       Insights!AtRest, Insights!Running, Insights!NoRefresh

-----------------------------------------------------------------------------
(* The overview *)

\* The summaries that are loading are those whose requests are known, and none of
\* a device without a summary is suspended.
CardsInv ==
    /\ Cards!TypeOK
    /\ Cards!TokenIsHeldForFetches /\ Cards!BusyCardsSettle /\ Cards!FetchesAreRunning
    /\ \A d \in Devices : summaries[d] = "loading" <=> d \in fetching
    /\ \A d \in suspended : summaries[d] # "none"

LEMMA CardsInit == Cards!Init => CardsInv
<1> SUFFICES ASSUME Cards!Init PROVE CardsInv
  OBVIOUS
<1>1. Cards!TypeOK
  <2>1. running \in [Devices -> 0..Cards!MaxRunning]
    BY DEF Cards!Init, Cards!MaxRunning
  <2> QED BY <2>1 DEF Cards!Init, Cards!TypeOK
<1>2. \A d \in Devices : summaries[d] = "none" /\ cards[d] = "absent"
  BY DEF Cards!Init
<1> QED
  BY <1>1, <1>2 DEF Cards!Init, CardsInv, Cards!TokenIsHeldForFetches, Cards!BusyCardsSettle,
     Cards!FetchesAreRunning

LEMMA RenderKeeps ==
    ASSUME CardsInv, NEW list \in SUBSET Devices, Cards!Render(list), ovDevices' \in SUBSET Devices
    PROVE  CardsInv'
<1>1. PICK filtered \in SUBSET list :
        LET starts == Cards!Starts(list, filtered)
            known == (fetching \cap list) \cup starts
        IN  /\ \A d \in starts : running[d] < Cards!MaxRunning
            /\ summaries' = [d \in Devices |-> IF d \in starts THEN "loading"
                                              ELSE Cards!Kept(list)[d]]
            /\ fetching' = known
            /\ running' = [d \in Devices |-> running[d] + (IF d \in starts THEN 1 ELSE 0)]
            /\ suspended' = suspended \cap list
            /\ ovToken' = IF Cards!Touched(list, starts) THEN Cards!LoadingState(known) ELSE ovToken
            /\ ovFrame' = (starts # {})
            /\ cards' = [d \in Devices |-> Cards!CardOf(d, filtered, starts)]
            /\ activeMenu' = None
  BY DEF Cards!Render
<1> DEFINE starts == Cards!Starts(list, filtered)
           known == (fetching \cap list) \cup starts
<1>2. \A d \in starts : d \in list /\ d \in Devices /\ d \notin suspended \cup fetching
  BY DEF Cards!Starts
<1>3. \A d \in filtered : d \notin starts =>
        Cards!Kept(list)[d] \notin {"none", "stale", "error"} \/ d \in suspended \cup fetching
  BY DEF Cards!Starts
<1>4. \A d \in Devices : Cards!Kept(list)[d] = IF d \in list THEN summaries[d] ELSE "none"
  BY DEF Cards!Kept
<1> HIDE DEF starts
<1>5. /\ \A d \in starts : running[d] < 2
      /\ \A d \in Devices : summaries'[d] = IF d \in starts THEN "loading" ELSE Cards!Kept(list)[d]
      /\ \A d \in Devices : running'[d] = running[d] + (IF d \in starts THEN 1 ELSE 0)
      /\ fetching' = known /\ suspended' = suspended \cap list
      /\ ovFrame' = (starts # {}) /\ activeMenu' = None
  BY <1>1 DEF starts, Cards!MaxRunning
<1>6. Cards!TypeOK'
  <2>1. /\ fetching' \subseteq Devices /\ suspended' \subseteq Devices /\ ovFrame' \in BOOLEAN
        /\ activeMenu' \in Devices \cup {None}
    BY <1>2, <1>5 DEF CardsInv, Cards!TypeOK
  <2>2. summaries' \in [Devices -> {"none", "loading", "ok", "stale", "error"}]
    <3>1. \A d \in Devices : Cards!Kept(list)[d] \in {"none", "loading", "ok", "stale", "error"}
      BY <1>4 DEF CardsInv, Cards!TypeOK
    <3> QED BY <1>1, <3>1
  <2>3. running' \in [Devices -> 0..Cards!MaxRunning]
    <3>1. \A d \in Devices : running[d] + (IF d \in starts THEN 1 ELSE 0) \in 0..2
      BY <1>5 DEF CardsInv, Cards!TypeOK, Cards!MaxRunning
    <3> QED BY <1>1, <3>1 DEF starts, Cards!MaxRunning
  <2>4. ovToken' \in BOOLEAN
    BY <1>1 DEF CardsInv, Cards!TypeOK, Cards!LoadingState
  <2>5. cards' \in [Devices -> {"absent", "loading", "ready"}]
    BY <1>1 DEF Cards!CardOf
  <2> QED BY <2>1, <2>2, <2>3, <2>4, <2>5 DEF Cards!TypeOK
<1>7. Cards!TokenIsHeldForFetches'
  <2>1. CASE Cards!Touched(list, starts)
    BY <1>1, <1>5, <2>1 DEF starts, Cards!TokenIsHeldForFetches, Cards!LoadingState
  <2>2. CASE ~Cards!Touched(list, starts)
    <3>1. starts = {} /\ \A d \in Devices : d \notin list => summaries[d] = "none"
      BY <2>2 DEF Cards!Touched
    <3>2. fetching \subseteq list
      BY <3>1 DEF CardsInv, Cards!TypeOK
    <3>3. fetching' = fetching
      BY <1>5, <3>1, <3>2
    <3> QED BY <1>1, <2>2, <3>3 DEF starts, CardsInv, Cards!TokenIsHeldForFetches
  <2> QED BY <2>1, <2>2
<1>8. \A d \in Devices : summaries'[d] = "loading" <=> d \in fetching'
  BY <1>2, <1>4, <1>5 DEF CardsInv, Cards!TypeOK
<1>9. \A d \in fetching' : running'[d] > 0
  <2> SUFFICES ASSUME NEW d \in fetching' PROVE running'[d] > 0
    OBVIOUS
  <2>1. d \in Devices /\ running[d] \in 0..2 /\ (d \in fetching \/ d \in starts)
    BY <1>2, <1>5 DEF CardsInv, Cards!TypeOK, Cards!MaxRunning
  <2>2. d \in fetching => running[d] > 0
    BY DEF CardsInv, Cards!FetchesAreRunning
  <2>3. running'[d] = running[d] + (IF d \in starts THEN 1 ELSE 0)
    BY <1>5, <2>1
  <2> QED BY <2>1, <2>2, <2>3
<1>10. \A d \in suspended' : summaries'[d] # "none"
  BY <1>4, <1>5 DEF CardsInv, Cards!TypeOK
<1>11. Cards!BusyCardsSettle'
  <2> SUFFICES ASSUME NEW d \in Devices, cards'[d] = "loading" PROVE ovFrame' \/ running'[d] > 0
    BY DEF Cards!BusyCardsSettle
  <2>1. d \in filtered /\ (d \in fetching \cup starts \/ summaries[d] \in {"none", "loading"})
    BY <1>1 DEF starts, Cards!CardOf
  <2>2. CASE d \in starts
    BY <1>5, <2>2
  <2>3. CASE d \in fetching \/ summaries[d] = "loading"
    BY <1>5, <1>9, <2>1, <2>3 DEF CardsInv
  <2>4. CASE d \notin starts /\ d \notin fetching /\ summaries[d] = "none"
    BY <1>3, <1>4, <2>1, <2>4 DEF CardsInv
  <2> QED BY <2>1, <2>2, <2>3, <2>4
<1> QED BY <1>6, <1>7, <1>8, <1>9, <1>10, <1>11 DEF CardsInv, Cards!FetchesAreRunning

LEMMA CardsStep == CardsInv /\ [Next]_dashboardVars => CardsInv'
<1> SUFFICES ASSUME CardsInv, Cards!Next \/ UNCHANGED overviewVars PROVE CardsInv'
  BY CardsPart
<1>1. ASSUME NEW list \in SUBSET Devices, Cards!ListArrives(list) PROVE CardsInv'
  BY <1>1, RenderKeeps DEF Cards!ListArrives
<1>2. CASE Cards!Filter \/ Cards!Frame
  <2>1. ovDevices \in SUBSET Devices
    BY DEF CardsInv, Cards!TypeOK
  <2> QED BY <1>2, <2>1, RenderKeeps DEF Cards!Filter, Cards!Frame
<1> USE DEF CardsInv, Cards!TypeOK, Cards!TokenIsHeldForFetches, Cards!BusyCardsSettle,
            Cards!FetchesAreRunning, Cards!MaxRunning
<1>3. ASSUME NEW d \in Devices, NEW ok \in BOOLEAN, Cards!FetchEnds(d, ok) PROVE CardsInv'
  <2>1. /\ running[d] > 0 /\ running' = [running EXCEPT ![d] = @ - 1]
        /\ summaries' = [summaries EXCEPT ![d] = IF ok THEN "ok" ELSE "error"]
        /\ suspended' = IF ok THEN suspended \ {d} ELSE suspended \cup {d}
        /\ fetching' = fetching \ {d} /\ ovToken' = (fetching' # {}) /\ ovFrame'
        /\ UNCHANGED <<ovDevices, cards, activeMenu>>
    BY <1>3 DEF Cards!FetchEnds, Cards!LoadingState
  <2>2. ovFrame' \in BOOLEAN /\ ovToken' \in BOOLEAN
    BY <1>3 DEF Cards!FetchEnds, Cards!LoadingState
  <2>3. /\ summaries'[d] \in {"ok", "error"}
        /\ \A e \in Devices : e # d => summaries'[e] = summaries[e] /\ running'[e] = running[e]
    BY <2>1
  <2>4. Cards!TypeOK'
    BY <2>1, <2>2
  <2>5. Cards!FetchesAreRunning' /\ Cards!BusyCardsSettle'
    BY <2>1, <2>3
  <2>6. /\ \A e \in Devices : summaries'[e] = "loading" <=> e \in fetching'
        /\ \A e \in suspended' : summaries'[e] # "none"
    BY <2>1, <2>3
  <2>7. Cards!TokenIsHeldForFetches'
    BY <2>1
  <2> HIDE DEF Cards!TypeOK, Cards!TokenIsHeldForFetches, Cards!BusyCardsSettle,
               Cards!FetchesAreRunning
  <2> QED BY <2>4, <2>5, <2>6, <2>7
<1>4. ASSUME NEW d \in Devices, Cards!SummaryAges(d) PROVE CardsInv'
  BY <1>4 DEF Cards!SummaryAges
<1>5. ASSUME NEW d \in Devices, Cards!ToggleMenu(d) PROVE CardsInv'
  BY <1>5 DEF Cards!ToggleMenu
<1>6. CASE Cards!CloseActiveMenu \/ UNCHANGED overviewVars
  BY <1>6 DEF Cards!CloseActiveMenu, overviewVars
<1> QED BY <1>1, <1>2, <1>3, <1>4, <1>5, <1>6 DEF Cards!Next

-----------------------------------------------------------------------------
(* All parts *)

\* Each part keeps its types.
LEMMA PartsAreTyped ==
    Spec => [](/\ Status!TypeOK /\ Geo!TypeOK /\ Bar!TypeOK /\ Dialog!TypeOK
               /\ Assistant!TypeOK /\ Rules!TypeOK /\ Advice!TypeOK /\ Store!TypeOK
               /\ Verdicts!TypeOK)
<1>1. Init => /\ StatusInv /\ GeoInv /\ BarInv /\ DialogInv /\ AgentInv /\ Rules!TypeOK
              /\ AdviceInv /\ StoreInv /\ VerdictInv
  BY StatusInit, GeoInit, BarInit, DialogInit, AgentInit, RulesInit, AdviceInit, StoreInit,
     VerdictInit DEF Init
<1>2. /\ (StatusInv => Status!TypeOK) /\ (GeoInv => Geo!TypeOK) /\ (BarInv => Bar!TypeOK)
      /\ (DialogInv => Dialog!TypeOK) /\ (AgentInv => Assistant!TypeOK)
      /\ (StoreInv => Store!TypeOK) /\ (AdviceInv => Advice!TypeOK)
      /\ (VerdictInv => Verdicts!TypeOK)
  BY DEF StatusInv, GeoInv, BarInv, DialogInv, AgentInv, StoreInv, AdviceInv, VerdictInv
<1> QED
  BY <1>1, <1>2, StatusStep, GeoStep, BarStep, DialogStep, AgentStep, RulesStep, AdviceStep,
     StoreStep, VerdictStep, PTL DEF Spec

LEMMA PagesAreTyped ==
    Spec => [](/\ Editor!TypeOK /\ Table!TypeOK /\ Keys!TypeOK /\ Logs!TypeOK
               /\ Settings!TypeOK /\ Accounts!TypeOK /\ Startup!TypeOK /\ Scanner!TypeOK)
<1>1. Init => /\ EditorInv /\ TableInv /\ KeysInv /\ LogsInv /\ SettingsInv
              /\ AccountInv /\ AskedHere /\ StartupTyped /\ ScannerInv
  BY EditorInit, TableInit, KeysInit, LogsInit, SettingsInit, AccountInit, AskedInit,
     StartupTypedInit, ScannerInit DEF Init
<1>2. /\ (EditorInv => Editor!TypeOK) /\ (TableInv => Table!TypeOK) /\ (KeysInv => Keys!TypeOK)
      /\ (LogsInv => Logs!TypeOK) /\ (SettingsInv => Settings!TypeOK)
      /\ (AccountInv /\ AskedHere => Accounts!TypeOK)
      /\ (StartupTyped => Startup!TypeOK) /\ (ScannerInv => Scanner!TypeOK)
  BY TableIsRight, AccountsAreTyped
  DEF EditorInv, KeysInv, LogsInv, SettingsInv, StartupTyped, ScannerInv
<1> QED
  BY <1>1, <1>2, EditorStep, TableStep, KeysStep, LogsStep, SettingsStep, AccountStep, AskedStep,
     StartupTypedStep, ScannerStep, PTL DEF Spec

LEMMA ViewsAreTyped ==
    Spec => [](/\ Topo!TypeOK /\ Layout!TypeOK /\ Maps!TypeOK /\ Insights!TypeOK
               /\ Cards!TypeOK /\ Medium!TypeOK /\ Runners!TypeOK)
<1>1. Init => /\ TopologyInv /\ LayoutInv /\ MapsInv /\ InsightsInv /\ CardsInv
              /\ MediumInv /\ JobsCounted /\ TasksInv /\ NotesTyped
  BY TopologyInit, LayoutInit, MapsInit, InsightsInit, CardsInit, MediumInit, JobsAreCounted,
     TasksInit, NotesInit DEF Init
<1>2. /\ (TopologyInv => Topo!TypeOK) /\ (LayoutInv => Layout!TypeOK)
      /\ (MapsInv => Maps!TypeOK) /\ (InsightsInv => Insights!TypeOK)
      /\ (CardsInv => Cards!TypeOK) /\ (MediumInv /\ JobsCounted => Medium!TypeOK)
      /\ (TasksInv /\ NotesTyped => Runners!TypeOK)
  BY MediumIsTyped, TasksAreTyped DEF TopologyInv, LayoutInv, MapsInv, InsightsInv, CardsInv
<1> QED
  BY <1>1, <1>2, TopologyStep, LayoutStep, MapsStep, InsightsStep, CardsStep, MediumStep,
     JobsAreCounted, TasksStep, NotesStep, PTL DEF Spec

\* Every part keeps its types, whatever its callers and its server do.
THEOREM TypesHold == Spec => []TypeOK
<1>1. Init => open \in Parts
  BY DEF Init
<1>2. open \in Parts /\ [Next]_dashboardVars => (open \in Parts)'
  BY DEF Next, dashboardVars
<1>3. Spec => [](open \in Parts)
  BY <1>1, <1>2, PTL DEF Spec
<1> QED BY <1>3, PartsAreTyped, PagesAreTyped, ViewsAreTyped, PTL DEF TypeOK

\* What says that it is busy stands for work under way - bar, spinners, cards, watched
\* panels, scan buttons and tasks - for any number of requests and whatever order they
\* end in; a task stays open past its work only if its end could not be noted.
THEOREM BusyStaysWork == Spec => []BusyMeansWork
<1>1. Init => /\ BarInv /\ KeysInv /\ EditorInv /\ LogsInv /\ InsightsInv /\ CardsInv
              /\ ScannerInv /\ TasksInv
  BY BarInit, KeysInit, EditorInit, LogsInit, InsightsInit, CardsInit, ScannerInit, TasksInit
  DEF Init
<1>2. /\ BarInv /\ KeysInv /\ EditorInv /\ LogsInv /\ InsightsInv /\ CardsInv
      /\ ScannerInv /\ TasksInv
      => BusyMeansWork
  <2>1. ScannerInv => Scanner!ScanEnds
    BY DEF ScannerInv, Scanner!TypeOK, Scanner!ScanEnds
  <2> QED
    BY <2>1, InsightsAreRight, TasksAreRight
    DEF BarInv, KeysInv, EditorInv, LogsInv, CardsInv, BusyMeansWork
<1> QED
  BY <1>1, <1>2, BarStep, KeysStep, EditorStep, LogsStep, InsightsStep, CardsStep, ScannerStep,
     TasksStep, PTL DEF Spec

\* The form is of the device opened last or of an opening under way since, the panels
\* of the selected device or of the newest refresh, the viewer of a key that was asked
\* for, for any number of devices and of answers that arrive in any order.
THEOREM ShownStaysOfOpened == Spec => []ShownIsOfOpened
<1>1. Init => EditorInv /\ TopologyInv /\ MapsInv /\ InsightsInv /\ KeysInv
  BY EditorInit, TopologyInit, MapsInit, InsightsInit, KeysInit DEF Init
<1>2. EditorInv /\ TopologyInv /\ MapsInv /\ InsightsInv /\ KeysInv => ShownIsOfOpened
  <2>1. EditorInv => Editor!FormIsOfOpened
    BY DEF EditorInv, Editor!FormIsOfOpened
  <2> QED
    BY <2>1, InsightsAreRight DEF TopologyInv, MapsInv, KeysInv, ShownIsOfOpened
<1> QED
  BY <1>1, <1>2, EditorStep, TopologyStep, MapsStep, InsightsStep, KeysStep, PTL DEF Spec

\* What is drawn, offered or ticked is in the list the page holds, whatever lists
\* arrive meanwhile.
THEOREM DrawnStaysListed == Spec => []DrawnIsListed
<1>1. Init => TopologyInv /\ MapsInv /\ LogsInv /\ TableInv /\ ScannerInv
  BY TopologyInit, MapsInit, LogsInit, TableInit, ScannerInit DEF Init
<1>2. TopologyInv /\ MapsInv /\ LogsInv /\ TableInv /\ ScannerInv => DrawnIsListed
  BY TableIsRight DEF TopologyInv, MapsInv, LogsInv, ScannerInv, DrawnIsListed
<1> QED
  BY <1>1, <1>2, TopologyStep, MapsStep, LogsStep, TableStep, ScannerStep, PTL DEF Spec

\* The agent's last words are about what its page shows, for any highlights, summaries
\* and contexts, it knows the entries of the log page, and the overview told it what its
\* list, its filters and its summaries say, whatever loads end, fail or come late.
THEOREM AgentHearsTheLatest == Spec => []AgentIsToldTheLatest
<1>1. Init => AgentInv /\ LogsInv /\ AdviceInv
  BY AgentInit, LogsInit, AdviceInit DEF Init
<1>2. AgentInv /\ LogsInv /\ AdviceInv => AgentIsToldTheLatest
  BY DEF AgentInv, LogsInv, AdviceInv, AgentIsToldTheLatest
<1> QED BY <1>1, <1>2, AgentStep, LogsStep, AdviceStep, PTL DEF Spec

\* The topology is drawn inside its container - a dragged node inside the one it was
\* dragged in - and the devices of a row, and two rows, are apart where they fit, for
\* every container of at least the margins, every pointer and any number of drags,
\* loads and resizes.
THEOREM DrawingStaysInside == Spec => []DrawingFits
<1>1. Init => LayoutInv
  BY LayoutInit
<1>2. LayoutInv => DrawingFits
  BY DrawnIsInside, RowsAreWide DEF DrawingFits
<1> QED BY <1>1, <1>2, LayoutStep, PTL DEF Spec
=============================================================================
