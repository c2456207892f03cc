-------------------------------- MODULE Canvas --------------------------------
(***************************************************************************)
(* The braille canvas (internal/render canvas.go, raster.go) and the       *)
(* strokes painted on it (basemap.go, marker.go): a street or a coast, an  *)
(* area's fill, an overlay's outline and a marker.  A dot is <<x, y>>, two *)
(* across a cell and four down.  All is integer arithmetic: a cut or a     *)
(* crossing is a fraction, compared and rounded exactly, so what floating  *)
(* point would do with a tie is not modelled.                              *)
(***************************************************************************)
EXTENDS Integers, Sequences, FiniteSets, SequencesExt, FiniteSetsExt

CONSTANTS
    CanvasCols, CanvasRows,
    LineMargin,   \* clipMargin
    Dark,         \* the ink of a dot that is not lit
    Inks,
    Streets,      \* [dots, border, ring, width]: parts a tile's line work draws
    Areas,        \* the rings of areas, outer first
    OverlayRings,     \* the rings of overlays
    Marks,        \* [at, shape, radius]
    MostStrokes   \* bound: strokes of a frame

ASSUME CanvasAssumption ==
    /\ {CanvasCols, CanvasRows} \subseteq Nat \ {0} /\ {LineMargin, MostStrokes} \subseteq Nat
    /\ Dark \notin Inks

VARIABLES
    lines, areas,  \* the painter's two canvases
    stroke,        \* what was painted last
    strokes,       \* how many this frame
    forcedIn       \* the ink last forced in each cell, to tell what must show

canvasVars == <<lines, areas, stroke, strokes, forcedIn>>

Columns == 0..(2 * CanvasCols - 1)
Levels  == 0..(4 * CanvasRows - 1)
Dots    == Columns \X Levels
Cells   == (0..(CanvasCols - 1)) \X (0..(CanvasRows - 1))
CellOf(d)  == <<d[1] \div 2, d[2] \div 4>>
DotsOf(c)  == {d \in Dots : CellOf(d) = c}
NoStroke   == [kind |-> "none"]

Wiped == [dot |-> [d \in Dots |-> Dark], last |-> [c \in Cells |-> Dark], locked |-> {}]

Wipe(c) == Wiped

\* Dots lit in one ink, of which those off the canvas are not drawn.
Set(c, dots, ink, forcing) ==
    LET on == dots \cap Dots
        cells == {CellOf(d) : d \in on} IN
    [dot    |-> [d \in Dots |-> IF d \in on THEN ink ELSE c.dot[d]],
     last   |-> [x \in Cells |-> IF x \in cells THEN ink ELSE c.last[x]],
     locked |-> IF forcing THEN c.locked \cup cells ELSE c.locked]

\* Mutant: a forced dot has a vote like any other.
SetForcedVotes(c, dots, ink) == Set(c, dots, ink, FALSE)
SetForced(c, dots, ink) == Set(c, dots, ink, TRUE)

tally(c, cell, ink)  == Cardinality({d \in DotsOf(cell) : c.dot[d] = ink})
around(c, cell, ink) ==
    Cardinality({d \in Dots : c.dot[d] = ink /\ CellOf(d) # cell
                  /\ \A k \in 1..2 : CellOf(d)[k] - cell[k] \in -1..1})

\* The first met is the least in the scan, row by row.
FirstMet(c, cell, inks) ==
    LET Scan(d) == 2 * CanvasCols * d[2] + d[1]
        met == {d \in DotsOf(cell) : c.dot[d] \in inks} IN
    c.dot[CHOOSE d \in met : \A e \in met : Scan(d) <= Scan(e)]

vote(c, cell) ==
    LET inks  == {c.dot[d] : d \in DotsOf(cell)} \ {Dark}
        most  == {i \in inks : \A j \in inks : tally(c, cell, i) >= tally(c, cell, j)}
        common == {i \in most : \A j \in most : around(c, cell, i) >= around(c, cell, j)} IN
    IF cell \in c.locked \/ inks = {} THEN c.last[cell] ELSE FirstMet(c, cell, common)

Cell(c, cell) ==
    IF \A d \in DotsOf(cell) : c.dot[d] = Dark THEN Dark ELSE vote(c, cell)

------------------------------------------------------------------------------
(* A line: cut to the canvas grown by a margin, then one dot wide or thick. *)

Abs(v) == IF v < 0 THEN -v ELSE v
sign(from, to) == IF from < to THEN 1 ELSE -1
RoundedOf(num, den) ==
    IF num >= 0 THEN (2 * num + den) \div (2 * den) ELSE -((den - 2 * num) \div (2 * den))

\* How far along a line each edge of a box cuts it: <<numerator, denominator>>
\* of where it comes in (of "in") and where it goes out.
ClipLine(from, to, width) ==
    LET m == LineMargin + width
        d == <<to[1] - from[1], to[2] - from[2]>>
        far == <<2 * CanvasCols - 1 + m, 4 * CanvasRows - 1 + m>>
        Inside(p) == \A k \in 1..2 : p[k] >= -m /\ p[k] <= far[k]
        edges == {<<-d[k], from[k] + m>> : k \in 1..2} \cup {<<d[k], far[k] - from[k]>> : k \in 1..2}
        Above(r, s) == r[1] * s[2] >= s[1] * r[2]
        ins  == {<<0, 1>>} \cup {<<-e[2], -e[1]>> : e \in {f \in edges : f[1] < 0}}
        outs == {<<1, 1>>} \cup {<<e[2], e[1]>> : e \in {f \in edges : f[1] > 0}}
        t0 == CHOOSE r \in ins : \A s \in ins : Above(r, s)
        t1 == CHOOSE r \in outs : \A s \in outs : Above(s, r)
        At(t) == [k \in 1..2 |-> RoundedOf(from[k] * t[2] + t[1] * d[k], t[2])]
    IN IF Inside(from) /\ Inside(to) THEN <<from, to>>
       ELSE IF (\E e \in edges : e[1] = 0 /\ e[2] < 0) \/ ~Above(t1, t0) THEN <<>>
       ELSE <<At(t0), At(t1)>>

Upto(n) == [i \in 1..n |-> i]

Steps(dx, dy) == dx + dy

thin(from, to) ==
    LET dx == Abs(to[1] - from[1])
        dy == -Abs(to[2] - from[2])
        Step(w, n) ==
            IF w.at = to THEN w
            ELSE LET right == 2 * w.err >= dy
                     down  == 2 * w.err <= dx
                     next  == <<w.at[1] + (IF right THEN sign(from[1], to[1]) ELSE 0),
                                w.at[2] + (IF down THEN sign(from[2], to[2]) ELSE 0)>> IN
                 [at |-> next, dots |-> w.dots \cup {next},
                  err |-> w.err + (IF right THEN dy ELSE 0) + (IF down THEN dx ELSE 0)]
    IN FoldLeft(Step, [at |-> from, dots |-> {from}, err |-> dx + dy], Upto(Steps(dx, -dy))).dots

\* The dots to a side of one, while the error is in reach of half the width
\* and, if the line is not the steeper way, the end's level is not passed.
Sides(at, k, step, e, gain, width, square, last, steep, span) ==
    LET Off(n) == [at EXCEPT ![k] = @ + n * step]
        InReach(v) == v < 0 \/ 4 * v * v < width * width * square
        Stops(n) == n = span \/ ~(InReach(e + n * gain) /\ (last # Off(n)[k] \/ steep))
    IN {Off(n) : n \in 1..Min({n \in 0..span : Stops(n)})}

thick(from, to, width) ==
    LET dx == Abs(to[1] - from[1])
        dy == Abs(to[2] - from[2])
        sx == sign(from[1], to[1])
        sy == sign(from[2], to[2])
        square == IF dx + dy = 0 THEN 1 ELSE dx * dx + dy * dy
        span == dx + dy + width + 2
        Step(w, n) ==
            IF w.done THEN w
            ELSE LET right == 2 * w.err >= -dx
                     over  == right /\ w.at[1] = to[1]
                     down  == ~over /\ 2 * w.err <= dy
                     ended == over \/ (down /\ w.at[2] = to[2])
                     across == IF right THEN Sides(w.at, 2, sy, w.err + dy, dx, width, square, to[2], dx > dy, span) ELSE {}
                     x == w.at[1] + (IF right /\ ~over THEN sx ELSE 0)
                     along == IF down THEN Sides(w.at, 1, sx, dx - w.err, dy, width, square, to[1], dx < dy, span) ELSE {}
                 IN [done |-> ended, dots |-> w.dots \cup {w.at} \cup across \cup along,
                     at  |-> IF ended THEN w.at ELSE <<x, w.at[2] + (IF down THEN sy ELSE 0)>>,
                     err |-> w.err - (IF right THEN dy ELSE 0) + (IF down THEN dx ELSE 0)]
    IN FoldLeft(Step, [at |-> from, dots |-> {}, err |-> dx - dy, done |-> FALSE], Upto(span)).dots

DrawLine(from, to, width) ==
    LET cut == ClipLine(from, to, IF width > 1 THEN width ELSE 1) IN
    IF cut = <<>> THEN {}
    ELSE IF width <= 1 THEN thin(cut[1], cut[2]) ELSE thick(cut[1], cut[2], width)

\* An edge along the tile's border is where the tile was cut, not a coast.
StrokePart(part) ==
    UNION {DrawLine(part.dots[i], part.dots[i + 1], part.width) :
             i \in {j \in 1..(Len(part.dots) - 1) : ~(part.ring /\ part.border[j + 1])}}

mark(ring) == UNION {DrawLine(ring[i], ring[i + 1], 1) : i \in 1..(Len(ring) - 1)}

\* Whether the box of a part meets the canvas grown by the clip pad: one that
\* does not is passed over.
Meets(dots) ==
    LET far == <<2 * CanvasCols, 4 * CanvasRows>> IN
    dots # <<>> /\ \A k \in 1..2 : LET along == {dots[i][k] : i \in DOMAIN dots} IN
                     Max(along) >= -LineMargin /\ Min(along) < far[k] + LineMargin

------------------------------------------------------------------------------
(* A fill: row by row, between the crossings of the rings' edges.  A dot is *)
(* between a first and a second when an odd number begin at or before it.   *)

usable(rings) ==
    IF rings = <<>> \/ Len(rings[1]) < 3 THEN <<>>
    ELSE SelectSeq(rings, LAMBDA ring : Len(ring) >= 3)

Before(ring, i) == ring[IF i = 1 THEN Len(ring) ELSE i - 1]

\* Mutant: a row is told by the tops of its dots, not by their centres.
crossTop(a, b, y) == Min({a[2], b[2]}) <= y /\ y <= Max({a[2], b[2]})
cross(a, b, y)    == Min({a[2], b[2]}) <= y /\ y < Max({a[2], b[2]})

\* The first dot whose centre is not left of where an edge crosses a row.
FirstRightOf(a, b, y) ==
    LET rise == 2 * (b[2] - a[2])
        over == (2 * y + 1 - 2 * a[2]) * (b[1] - a[1]) - (b[2] - a[2]) IN
    a[1] + (IF rise > 0 THEN -((-over) \div rise) ELSE -(over \div (-rise)))

Fill(rings) ==
    LET kept == usable(rings)
        levels == {kept[1][i][2] : i \in DOMAIN kept[1]}
        Begun(d) == {e \in UNION {{r} \X DOMAIN kept[r] : r \in DOMAIN kept} :
                       LET a == Before(kept[e[1]], e[2]) b == kept[e[1]][e[2]] IN
                       a[2] # b[2] /\ cross(a, b, d[2]) /\ FirstRightOf(a, b, d[2]) <= d[1]}
    IN IF kept = <<>> THEN {}
       ELSE {d \in Dots : d[2] >= Min(levels) /\ d[2] <= Max(levels) /\ Cardinality(Begun(d)) % 2 = 1}

------------------------------------------------------------------------------
(* A marker's dots.                                                         *)

rowError(err, x, y)     == err + (IF err < 0 THEN 2 * (y + 1) + 1 ELSE 2 * (y + 1 - x) + 1)
Octant(radius) ==
    LET Step(w, y) ==
            IF w.x < y THEN w
            ELSE LET x == IF w.err < 0 THEN w.x ELSE w.x - 1 IN
                 [x |-> x, err |-> rowError(w.err, x, y), at |-> w.at \cup {<<w.x, y>>}]
    IN FoldLeft(Step, [x |-> radius, err |-> 1 - radius, at |-> {}], [i \in 1..(radius + 1) |-> i - 1]).at

circlePoints(at, p, fill) ==
    LET turned == UNION {{<<s * q[1], t * q[2]>> : s \in {-1, 1}, t \in {-1, 1}} : q \in {p, <<p[2], p[1]>>}}
        rows == UNION {{<<n, t * q[2]>> : n \in (-q[1])..q[1], t \in {-1, 1}} : q \in {p, <<p[2], p[1]>>}}
    IN {<<at[1] + o[1], at[2] + o[2]>> : o \in IF fill THEN rows ELSE turned}

markCircle(at, radius, fill) == UNION {circlePoints(at, p, fill) : p \in Octant(radius)}

strokeMarker(m) ==
    CASE m.shape = "ring"    -> markCircle(m.at, m.radius, FALSE)
      [] m.shape = "disc"    -> markCircle(m.at, m.radius, TRUE)
      [] m.shape = "cross"   -> {<<m.at[1] + n, m.at[2]>> : n \in -3..3} \cup {<<m.at[1], m.at[2] + n>> : n \in -3..3}
      [] m.shape = "diamond" -> {<<m.at[1] + n, m.at[2] + s * (3 - Abs(n))>> : n \in -3..3, s \in {-1, 1}}
      [] OTHER               -> {<<m.at[1] + i, m.at[2] + j>> : i, j \in -1..1}

------------------------------------------------------------------------------
Painting(s) == strokes < MostStrokes /\ strokes' = strokes + 1 /\ stroke' = s

Overlaid == \E c \in Cells : forcedIn[c] # Dark

\* The tiles' line work and areas come before every overlay and marker.
DrawStreet(part, ink) ==
    /\ ~Overlaid
    /\ Painting([kind |-> "street", part |-> part])
    /\ lines' = IF Meets(part.dots) THEN Set(lines, StrokePart(part), ink, FALSE) ELSE lines
    /\ UNCHANGED <<areas, forcedIn>>

FillArea(rings, ink) ==
    /\ ~Overlaid
    /\ Painting([kind |-> "area", rings |-> rings])
    /\ areas' = IF Meets(FlattenSeq(rings)) THEN Set(areas, Fill(rings), ink, FALSE) ELSE areas
    /\ UNCHANGED <<lines, forcedIn>>

ForceDots(dots, ink, s) ==
    /\ Painting(s)
    /\ lines' = SetForced(lines, dots, ink)
    /\ forcedIn' = [c \in Cells |-> IF \E d \in dots \cap Dots : CellOf(d) = c THEN ink ELSE forcedIn[c]]
    /\ UNCHANGED areas

DrawOutline(ring, ink) == ForceDots(mark(ring), ink, [kind |-> "outline"])
DrawMarker(m, ink)     == ForceDots(strokeMarker(m), ink, [kind |-> "marker", marker |-> m])

NextFrame ==
    /\ strokes > 0
    /\ lines' = Wipe(lines) /\ areas' = Wipe(areas)
    /\ strokes' = 0 /\ stroke' = NoStroke
    /\ forcedIn' = [c \in Cells |-> Dark]

CanvasInit ==
    /\ lines = Wiped /\ areas = Wiped
    /\ strokes = 0 /\ stroke = NoStroke
    /\ forcedIn = [c \in Cells |-> Dark]

CanvasNext ==
    \/ \E ink \in Inks :
        \/ \E part \in Streets : DrawStreet(part, ink)
        \/ \E rings \in Areas : FillArea(rings, ink)
        \/ \E ring \in OverlayRings : DrawOutline(ring, ink)
        \/ \E m \in Marks : DrawMarker(m, ink)
    \/ NextFrame

CanvasSpec == CanvasInit /\ [][CanvasNext]_canvasVars

------------------------------------------------------------------------------
\* A cell shows the ink last forced in it, by an overlay or a marker; else an
\* ink none of its lit dots outnumber; and nothing of the frame before
\* (canvas.go vote, Wipe).
CellsShowTheirInk ==
    stroke # NoStroke => \A cell \in Cells :
        IF forcedIn[cell] # Dark THEN Cell(lines, cell) = forcedIn[cell]
        ELSE \A i \in Inks : \/ tally(lines, cell, i) = 0
                             \/ tally(lines, cell, Cell(lines, cell)) >= tally(lines, cell, i)

OffLine(d, from, to) == Abs((to[1] - from[1]) * (d[2] - from[2]) - (to[2] - from[2]) * (d[1] - from[1]))
LongSide(from, to)   == Max({Abs(to[1] - from[1]), Abs(to[2] - from[2])})

\* A thin line is drawn from end to end, one dot a step of its longer side
\* and none further than half a dot from it; cut at the margin it strays by
\* no more than one dot, and lights as many of the canvas (raster.go clip,
\* canvas.go thin).  One passed over would have lit none (basemap.go project).
LinesArrive ==
    stroke.kind = "street" =>
    LET part == stroke.part from == part.dots[1] to == part.dots[2]
        cut == ClipLine(from, to, 1) whole == thin(from, to)
        Near(d, e) == \A k \in 1..2 : d[k] - e[k] \in -1..1 IN
    /\ Meets(part.dots) \/ StrokePart(part) \cap Dots = {}
    /\ (Len(part.dots) = 2 /\ part.width = 1) =>
        /\ {from, to} \subseteq whole
        /\ Cardinality(whole) = LongSide(from, to) + 1
        /\ \A d \in whole : 2 * OffLine(d, from, to) <= LongSide(from, to)
        /\ \A d \in whole \cap Dots : \E e \in DrawLine(from, to, 1) : Near(d, e)
        /\ \A e \in DrawLine(from, to, 1) \cap Dots : \E d \in whole : Near(d, e)

\* Whether a dot's centre is inside rings, asked along its column; a centre on
\* an edge is left to either side.
OnAnEdge(d, a, b) ==
    LET p == <<2 * d[1] + 1, 2 * d[2] + 1>>
        Far(k) == p[k] \in (2 * Min({a[k], b[k]}))..(2 * Max({a[k], b[k]})) IN
    Far(1) /\ Far(2) /\ (b[1] - a[1]) * (p[2] - 2 * a[2]) = (b[2] - a[2]) * (p[1] - 2 * a[1])
IsInside(d, rings) ==
    LET p == <<2 * d[1] + 1, 2 * d[2] + 1>>
        Beneath(a, b) ==
            LET l == IF a[1] < b[1] THEN a ELSE b
                r == IF a[1] < b[1] THEN b ELSE a IN
            /\ l[1] <= d[1] /\ d[1] < r[1]
            /\ (p[2] - 2 * l[2]) * (r[1] - l[1]) > (p[1] - 2 * l[1]) * (r[2] - l[2])
    IN Cardinality({e \in UNION {{r} \X DOMAIN rings[r] : r \in DOMAIN rings} :
                      Beneath(Before(rings[e[1]], e[2]), rings[e[1]][e[2]])}) % 2 = 1

\* An area's fill is the dots whose centres are inside it; cut along a
\* diagonal, each of its dots is in one of the two parts and not in both
\* (raster.go Fill: "A dot is inside if its centre is").
FillIsTheInside ==
    (stroke.kind = "area" /\ usable(stroke.rings) # <<>>) =>
    LET rings == usable(stroke.rings) outer == rings[1] IN
    /\ \A d \in Dots :
         \/ \E r \in DOMAIN rings : \E i \in DOMAIN rings[r] : OnAnEdge(d, Before(rings[r], i), rings[r][i])
         \/ d \in Fill(rings) <=> IsInside(d, rings)
    /\ (Len(rings) = 1 /\ Len(outer) = 4) =>
         LET one == Fill(<< <<outer[1], outer[2], outer[3]>> >>)
             two == Fill(<< <<outer[1], outer[3], outer[4]>> >>) IN
         Fill(rings) = (one \cup two) \ (one \cap two)

\* A ring marker is closed, each of its dots beside two others and no more
\* than half a dot from the circle, and a disc of its radius holds it and
\* everything within (marker.go markCircle).
RingsAreWhole ==
    stroke.kind = "marker" =>
    LET m == stroke.marker
        ring == markCircle(m.at, m.radius, FALSE)
        disc == markCircle(m.at, m.radius, TRUE)
        Beside(d) == {e \in ring \ {d} : \A k \in 1..2 : d[k] - e[k] \in -1..1} IN
    m.shape \in {"ring", "disc"} =>
    /\ \A d \in ring : Cardinality(Beside(d)) >= 2
    /\ \A d \in ring : LET x == d[1] - m.at[1] y == d[2] - m.at[2] IN
                      Abs(x * x + y * y - m.radius * m.radius) <= m.radius
    /\ ring \subseteq disc
    /\ \A d \in disc : {<<2 * m.at[1] - d[1], d[2]>>, <<m.at[1], d[2]>>, <<d[1], m.at[2]>>} \subseteq disc

\* A stroke lights the dots of what it draws and no others: a line from end to
\* end, an area its inside, a ring all round (LinesArrive, FillIsTheInside,
\* RingsAreWhole).
StrokesAreWhole == LinesArrive /\ FillIsTheInside /\ RingsAreWhole
==============================================================================
