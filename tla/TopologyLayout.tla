--------------------------- MODULE TopologyLayout ---------------------------
(***************************************************************************)
(* The arithmetic of the network map: computeLayout, clampPosition,        *)
(* snapToGrid, resolveCorridor, computeLabelPosition and what a drag does  *)
(* with them, in web/js/dashboard/views/network-visualisation.js.  The     *)
(* devices of one location are a row; a link leaves the controller in the  *)
(* middle, turns at its corridor and ends at its device, and its label is  *)
(* half way between the two.                                               *)
(*                                                                         *)
(* Lengths are in 24ths of a pixel, so that the divisions by up to four    *)
(* columns and by two are exact.                                           *)
(***************************************************************************)
EXTENDS PageValues, Sequences

CONSTANTS
    Sizes,     \* bound: the sizes of the container, <<width, height>> in pixels
    Plans,     \* bound: the number of devices in each row, one to three
    Pointers   \* bound: where the pointer drags a node, <<x, y>> in pixels

VARIABLES
    box,         \* clientWidth and clientHeight, as <<x, y>>
    rows,        \* devices per row
    own,         \* position in customPositions of the device that was dragged
    ownOffset,   \* corridorOffset of its drawing
    ownBox       \* history: the size of the container when it was dragged

layoutVars == <<box, rows, own, ownOffset, ownBox>>

Pixel == 24
Grid == 24 * Pixel
MinSpacing == 4 * Grid      \* MIN_ROW_SPACING, MIN_COLUMN_SPACING
Margin == <<5 * Grid, 4 * Grid>>
LeastUsable == <<12 * Grid, 8 * Grid>>
Axes == {1, 2}

Pixels(pair) == <<pair[1] * Pixel, pair[2] * Pixel>>
Boxes == {Pixels(size) : size \in Sizes}
Node == [row : 1..2, column : 1..3]

\* style.css gives the container a height of 420 pixels or more, and the width of
\* the page; here, one margin of the layout is enough.
LayoutBounds ==
    /\ Sizes \subseteq Nat \X Nat /\ Pointers \subseteq Int \X Int
    /\ \A b \in Boxes, a \in Axes : b[a] >= Margin[a]
    /\ Plans \subseteq {<<n>> : n \in 1..3} \cup ((1..3) \X (1..3))

TypeOK ==
    /\ box \in Boxes /\ rows \in Plans
    /\ own \in [node : Node \cup {None}, at : Int \X Int]
    /\ ownOffset \in Int \X Int /\ ownBox \in Boxes

-----------------------------------------------------------------------------
(* Helpers *)

Larger(a, b) == IF a >= b THEN a ELSE b
Smaller(a, b) == IF a <= b THEN a ELSE b
Within(low, high, v) == Smaller(high, Larger(low, v))

SnapToGrid(v) == ((v + Grid \div 2) \div Grid) * Grid
Snapped(p) == <<SnapToGrid(p[1]), SnapToGrid(p[2])>>

\* clampPosition: two grid cells from every side.
ClampPosition(p, b) ==
    [a \in Axes |-> Within(2 * Grid, Larger(2 * Grid, b[a] - 2 * Grid), p[a])]

\* The last lines of resolveCorridor and computeLabelPosition: one cell from
\* every side, if the container has more than two, and back to the grid.
\* Mutant: to the grid, and not kept inside.
NearSideFree(p, b) == <<SnapToGrid(p[1]), SnapToGrid(p[2])>>

NearSide(p, b) ==
    [a \in Axes |->
        SnapToGrid(IF b[a] > 2 * Grid THEN Within(Grid, b[a] - Grid, SnapToGrid(p[a]))
                   ELSE SnapToGrid(p[a]))]

ResolveCorridor(p, offset, b) == NearSide(<<p[1] + offset[1], p[2] + offset[2]>>, b)
ComputeLabelPosition(p, corridor, b) ==
    NearSide(<<(corridor[1] + p[1]) \div 2, (corridor[2] + p[2]) \div 2>>, b)

-----------------------------------------------------------------------------
(* computeLayout *)

Usable(b) == [a \in Axes |-> Larger(b[a] - 2 * Margin[a], LeastUsable[a])]
Center(b) == <<SnapToGrid(b[1] \div 2), SnapToGrid(b[2] \div 2)>>

RowSpacing(b, plan) == Larger(MinSpacing, Usable(b)[2] \div Len(plan))

ColumnSpacing(b, count) == Larger(MinSpacing, Usable(b)[1] \div (count + 1))

\* A value kept between the margins; the upper one counts in a small container.
InMargins(b, a, v) == SnapToGrid(Within(Margin[a], b[a] - Margin[a], v))

Position(b, plan, n) ==
    LET column == ColumnSpacing(b, plan[n.row])
        shift == IF n.row % 2 = 1 THEN 0 ELSE column \div 2
    IN  <<InMargins(b, 1, Margin[1] + column * n.column + shift),
          InMargins(b, 2, Margin[2] + (RowSpacing(b, plan) * (2 * n.row - 1)) \div 2)>>

\* The corridor is half a column to the side that is nearer to the centre, and
\* half a row towards it.
Corridor(b, plan, n) ==
    LET p == Position(b, plan, n)
        half == ColumnSpacing(b, plan[n.row]) \div 2
        gap == Larger(2 * Grid, RowSpacing(b, plan) \div 2)
        distance(x) == IF x >= Center(b)[1] THEN x - Center(b)[1] ELSE Center(b)[1] - x
        nearer == IF distance(p[1] - half) <= distance(p[1] + half) THEN p[1] - half ELSE p[1] + half
        x == IF nearer < Margin[1] THEN p[1] + half
             ELSE IF nearer > b[1] - Margin[1] THEN p[1] - half ELSE nearer
    IN  <<InMargins(b, 1, x),
          InMargins(b, 2, IF p[2] >= Center(b)[2] THEN p[2] - gap ELSE p[2] + gap)>>

Offset(b, plan, n) ==
    LET p == Position(b, plan, n) c == Corridor(b, plan, n)
    IN  <<c[1] - p[1], c[2] - p[2]>>

Nodes(plan) == {n \in Node : n.row <= Len(plan) /\ n.column <= plan[n.row]}

-----------------------------------------------------------------------------
(* What is drawn *)

\* renderTopology and updateNodeGraphics: the position, the corridor, the label.
Drawing(p, offset, b) ==
    LET corridor == ResolveCorridor(p, offset, b)
    IN  <<p, corridor, ComputeLabelPosition(p, corridor, b)>>

DrawingOf(n) ==
    IF n = own.node THEN Drawing(Snapped(own.at), ownOffset, box)
    ELSE Drawing(Snapped(Position(box, rows, n)), Offset(box, rows, n), box)

NoOwn == [node |-> None, at |-> <<0, 0>>]

Init ==
    /\ box \in Boxes /\ rows \in Plans
    /\ own = NoOwn /\ ownOffset = <<0, 0>> /\ ownBox = box

\* A load or a resize draws the map again.  A device that was dragged stays
\* where it is, with the corridor of its place in the layout.
Draw(b, plan) ==
    /\ box' = b /\ rows' = plan
    /\ IF own.node \in Nodes(plan)
       THEN /\ LET p == Snapped(own.at)
                   c == ResolveCorridor(p, Offset(b, plan, own.node), b)
               IN  ownOffset' = <<c[1] - p[1], c[2] - p[2]>>
            /\ UNCHANGED <<own, ownBox>>
       ELSE own' = NoOwn /\ ownOffset' = <<0, 0>> /\ ownBox' = b

\* pointermove.  The offset is taken from the corridor that was drawn: at the
\* side of the container it shrinks, and does not grow again.  Bound: one
\* device is dragged.
DragTo(n, pointer) ==
    LET at == Snapped(ClampPosition(pointer, box))
        p == Snapped(ClampPosition(at, box))
        before == IF own.node = n THEN ownOffset ELSE Offset(box, rows, n)
        c == ResolveCorridor(p, before, box)
    IN  /\ own.node \in {n, None}
        /\ own' = [node |-> n, at |-> at]
        /\ ownOffset' = <<c[1] - p[1], c[2] - p[2]>>
        /\ ownBox' = box
        /\ UNCHANGED <<box, rows>>

Next ==
    \/ \E b \in Boxes, plan \in Plans : Draw(b, plan)
    \/ \E n \in Nodes(rows), pointer \in Pointers : DragTo(n, Pixels(pointer))

Spec == Init /\ [][Next]_layoutVars

-----------------------------------------------------------------------------
(* Properties *)

InsideOf(b, p) == \A a \in Axes : 0 <= p[a] /\ p[a] <= b[a]

\* The nodes, the turns of their links and their labels are inside the map,
\* however often it is drawn again: the snapping after the clamping does not push
\* them out.  A node that was dragged is inside the container it was dragged in,
\* whatever the container is now: a map that is drawn again does not clamp it.
DrawnInside ==
    \A n \in Nodes(rows) :
        LET d == DrawingOf(n)
        IN  /\ InsideOf(IF n = own.node THEN ownBox ELSE box, d[1])
            /\ InsideOf(box, d[2]) /\ InsideOf(box, d[3])

\* The layout leaves three grid cells between the devices of a row in a container
\* that is wide enough for it, and between two rows in one that is high enough,
\* whatever the shift of every second row, the margins and the snapping.
RowFits(r) == (rows[r] + 1) * MinSpacing <= box[1] - 2 * Margin[1]
RowsFit == Len(rows) * MinSpacing <= box[2] - 2 * Margin[2]

RowsAreApart ==
    \A m, n \in Nodes(rows) :
        LET from == Position(box, rows, m)
            to == Position(box, rows, n)
        IN  /\ m.row = n.row /\ m.column < n.column /\ RowFits(m.row) =>
                   to[1] - from[1] >= 3 * Grid
            /\ m.row < n.row /\ RowsFit => to[2] - from[2] >= 3 * Grid
=============================================================================
