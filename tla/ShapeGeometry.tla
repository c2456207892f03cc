---------------------------- MODULE ShapeGeometry ----------------------------
(***************************************************************************)
(* The geometry of an overlay (internal/overlay shape.go, prepare.go, the  *)
(* checks of store.go, and render/borrow.go): what is refused, how a ring  *)
(* is cut at the antimeridian and simplified for the cache, and how one    *)
(* too large for the cache is drawn from the host's memory by its index.   *)
(*                                                                         *)
(* A position is <<longitude, latitude>> in whole steps, the globe from    *)
(* -Half to Half; the projection is taken to be linear: it rises with      *)
(* longitude, falls with latitude and never turns back, and no more is     *)
(* used of it.  Latitudes are in quarters, so that a cut is exact.         *)
(***************************************************************************)
EXTENDS Integers, Sequences, FiniteSets, SequencesExt, FiniteSetsExt

CONSTANTS
    Half,        \* half the way round the world
    Lons, Lats,  \* what the host may give as positions
    Top,         \* the northernmost latitude
    MostPoints,  \* bound: positions of a ring
    Tolerances,  \* squared, one per bucket
    Spend(_),    \* the steps simplifying a ring may cost
    RunLength,   \* vertices of one run of an index
    Margin,      \* clipMargin
    MapViews     \* where a view's first dot is, and its size

ASSUME GeometryAssumption ==
    /\ {Half, Top, MostPoints, Margin} \cup Tolerances \subseteq Nat /\ RunLength \in Nat \ {0}
    /\ Lons \cup Lats \subseteq Int
    /\ \A v \in MapViews : {v.x, v.y} \subseteq Int /\ {v.cols, v.rows} \subseteq Nat \ {0}

VARIABLES
    given,   \* the ring the host has put together
    kindOf,  \* "line" or "area" once it is handed in, else "none" or "refused"
    ready,   \* the parts prepared of it, or what it is drawn as from memory
    how      \* how, once it is: prepared or from memory, at a tolerance or in a view

geometryVars == <<given, kindOf, ready, how>>

World  == 2 * Half
NotYet == [as |-> "neither"]
Lon(p) == p[1]
Lat(p) == p[2]
Ends(s) == s[Len(s)]

-----------------------------------------------------------------------------
(* What is refused.                                                        *)

checkRing(ring) ==
    \A p \in Range(ring) : Lon(p) \in -Half..Half /\ Lat(p) \in -Top..Top
Least(kind) == IF kind = "line" THEN 2 ELSE 3
checkFeature(ring, kind) == Len(ring) >= Least(kind) /\ checkRing(ring)

-----------------------------------------------------------------------------
(* Cutting at the antimeridian.                                            *)

\* unwrap: a step of more than half the world went the short way round.
unwrap(ring) ==
    LET step(acc, p) ==
            LET over  == Lon(p) + acc.shift - Lon(acc.last) > Half
                under == Lon(p) + acc.shift - Lon(acc.last) < -Half
                shift == acc.shift + (IF over THEN -World ELSE IF under THEN World ELSE 0)
                q == <<Lon(p) + shift, Lat(p)>>
            IN  [shift |-> shift, last |-> q, out |-> Append(acc.out, q)]
    IN  FoldLeft(step, [shift |-> 0, last |-> ring[1], out |-> <<>>], ring).out

dedupe(ring) ==
    LET once == FoldLeft(LAMBDA out, p : IF out # <<>> /\ Ends(out) = p THEN out
                                         ELSE Append(out, p), <<>>, ring)
    IN  IF Len(once) > 1 /\ once[1] = Ends(once) THEN Front(once) ELSE once

\* clip: what of a ring, taken as closed, is on one side of a meridian.
clip(ring, meridian, keepEast) ==
    LET inside(p) == IF keepEast THEN Lon(p) >= meridian ELSE Lon(p) <= meridian
        cut(p, q) == <<meridian, Lat(p) + ((meridian - Lon(p)) * (Lat(q) - Lat(p)))
                                            \div (Lon(q) - Lon(p))>>
        before(i) == ring[IF i = 1 THEN Len(ring) ELSE i - 1]
        at(i) == (IF inside(ring[i]) # inside(before(i)) THEN <<cut(before(i), ring[i])>> ELSE <<>>)
                 \o (IF inside(ring[i]) THEN <<ring[i]>> ELSE <<>>)
    IN  IF Len(ring) < 3 THEN <<>>
        ELSE dedupe(FlattenSeq([i \in DOMAIN ring |-> at(i)]))

Within(ring) == \A p \in Range(ring) : Lon(p) \in -Half..Half

\* Mutant: nothing west of the world is brought round.
SplitEast(ring) ==
    LET far == unwrap(ring)
        part(band) == LET p == clip(clip(far, band - Half, TRUE), band + Half, FALSE)
                      IN  [i \in DOMAIN p |-> <<Lon(p[i]) - band, Lat(p[i])>>]
        parts == SelectSeq([b \in 1..2 |-> part((b - 1) * World)], LAMBDA p : Len(p) >= 3)
    IN  IF Within(far) THEN <<ring>>
        ELSE [i \in DOMAIN parts |-> Append(parts[i], parts[i][1])]

\* Split: the world itself, the copy west of it and the copy east of it.
Split(ring) ==
    LET far == unwrap(ring)
        part(band) == LET p == clip(clip(far, band - Half, TRUE), band + Half, FALSE)
                      IN  [i \in DOMAIN p |-> <<Lon(p[i]) - band, Lat(p[i])>>]
        parts == SelectSeq([b \in 1..3 |-> part((b - 2) * World)], LAMBDA p : Len(p) >= 3)
    IN  IF Within(far) THEN <<ring>>
        ELSE [i \in DOMAIN parts |-> Append(parts[i], parts[i][1])]

-----------------------------------------------------------------------------
(* Simplifying.                                                            *)

\* ToTile: x grows east and y grows south, both from 0.
Project(ring) == [i \in DOMAIN ring |-> <<Lon(ring[i]) + Half, Top - Lat(ring[i])>>]

\* distance: the square of it, as a numerator and a denominator.
distance(p, a, b) ==
    LET dx == b[1] - a[1]
        dy == b[2] - a[2]
        length == dx * dx + dy * dy
        along == (p[1] - a[1]) * dx + (p[2] - a[2]) * dy
        cross == (p[1] - a[1]) * dy - (p[2] - a[2]) * dx
        to(q) == (p[1] - q[1]) * (p[1] - q[1]) + (p[2] - q[2]) * (p[2] - q[2])
    IN  IF along <= 0 \/ length = 0 THEN <<to(a), 1>>
        ELSE IF along >= length THEN <<to(b), 1>>
        ELSE <<cross * cross, length>>
Further(d, e) == d[1] * e[2] > e[1] * d[2]

\* Simplify: the farthest vertex of a span is kept and parts it, a stack of
\* spans; a span the steps left do not reach is kept whole.  Each vertex comes
\* with its place in the ring.
Simplify(ring, tolerance) ==
    LET off(i, s) == distance(ring[i], ring[s[1]], ring[s[2]])
        over(s) == {i \in (s[1] + 1)..(s[2] - 1) : Further(off(i, s), <<tolerance, 1>>)}
        far(s)  == CHOOSE i \in over(s) : \A j \in over(s) :
                      ~Further(off(j, s), off(i, s)) /\ (j < i => Further(off(i, s), off(j, s)))
        look(acc, n) ==
            IF acc.open = <<>> THEN acc
            ELSE LET s == Ends(acc.open)
                     rest == Front(acc.open)
                     size == s[2] - s[1]
                 IN  IF size < 2 THEN [acc EXCEPT !.open = rest]
                     ELSE IF acc.spend < size
                     THEN [acc EXCEPT !.open = rest, !.keep = @ \cup (s[1]..s[2])]
                     ELSE IF over(s) = {} THEN [acc EXCEPT !.open = rest, !.spend = @ - size]
                     ELSE [open |-> rest \o << <<s[1], far(s)>>, <<far(s), s[2]>> >>,
                           keep |-> acc.keep \cup {far(s)}, spend |-> acc.spend - size]
        end == FoldLeft(look, [open |-> << <<1, Len(ring)>> >>, keep |-> {1, Len(ring)},
                               spend |-> Spend(Len(ring))], [n \in 1..(2 * Len(ring)) |-> n])
        numbered == [i \in DOMAIN ring |-> <<ring[i], i>>]
    IN  IF Len(ring) < 3 \/ tolerance = 0 THEN numbered
        ELSE SelectSeq(numbered, LAMBDA v : v[2] \in end.keep)

KeepSimplified(ring) ==
    /\ Len(ring) >= 4
    /\ Cardinality({i \in 2..Len(ring) : ring[i] # ring[i - 1] /\ ring[i] # ring[1]}) >= 2

Closed(ring, kind) ==
    IF kind = "area" /\ ring[1] # Ends(ring) THEN Append(ring, ring[1]) ELSE ring

\* prepareRing: each part with what is left of it.
prepareRing(ring, kind, tolerance) ==
    LET parts == Split(Closed(ring, kind))
        simple(part) == Simplify(Project(part), tolerance)
        points(s) == [i \in DOMAIN s |-> s[i][1]]
        all == [i \in DOMAIN parts |-> [of |-> parts[i], left |-> simple(parts[i])]]
    IN  SelectSeq(all, LAMBDA p : kind = "area" => KeepSimplified(points(p.left)))

-----------------------------------------------------------------------------
(* Drawing from the host's memory.                                         *)

Starts(ring) == {s \in DOMAIN ring : (s - 1) % RunLength = 0}
Through(a, b) == a + RunLength - (IF a + RunLength > b THEN a + RunLength - b ELSE 0)

\* Mutant: a run's box ends before the vertex the next run begins with.
BoxOfRunShort(ring, s) ==
    LET run == SubSeq(ring, s, Through(s, Len(ring)) - (IF s = Len(ring) THEN 0 ELSE 1))
        p == Project(run)
        all(n) == {p[i][n] : i \in DOMAIN p}
    IN  [minX |-> Min(all(1)), maxX |-> Max(all(1)), minY |-> Min(all(2)), maxY |-> Max(all(2))]

\* buildIndex: a run ends on the vertex the next begins with.
BoxOfRun(ring, s) ==
    LET p == Project(SubSeq(ring, s, Through(s, Len(ring))))
        all(n) == {p[i][n] : i \in DOMAIN p}
    IN  [minX |-> Min(all(1)), maxX |-> Max(all(1)), minY |-> Min(all(2)), maxY |-> Max(all(2))]

meets(a, b) ==
    /\ a.minX <= b.maxX /\ b.minX <= a.maxX
    /\ a.minY <= b.maxY /\ b.minY <= a.maxY

\* Normalize: longitude by a single turn, latitude onto the globe.
Turned(x) == IF x < 0 THEN x + World ELSE IF x > World THEN x - World ELSE x
Clamped(y) == IF y < 0 THEN 0 ELSE IF y > 2 * Top THEN 2 * Top ELSE y

\* seen: the corners of a view, each brought onto the world by itself.
seen(v, shift) ==
    LET x0 == Turned(v.x - shift * World - Margin)
        x1 == Turned(v.x - shift * World + v.cols + Margin)
    IN  [minX |-> Min({x0, x1}), maxX |-> Max({x0, x1}),
         minY |-> Clamped(v.y - Margin), maxY |-> Clamped(v.y + v.rows + Margin)]

\* Shifts: the copies of the world the view reaches.
Shifts(v) == (v.x \div World)..((v.x + v.cols - 1) \div World)

crosses(a, b) == Lon(b) - Lon(a) > Half \/ Lon(a) - Lon(b) > Half

\* borrowRun: the steps of one run, in the dots of a view.
borrowRun(run, v, shift) ==
    LET p == Project(run)
        dot(i) == <<p[i][1] + shift * World - v.x, p[i][2] - v.y>>
    IN  {<<dot(i - 1), dot(i)>> : i \in {j \in 2..Len(run) : ~crosses(run[j - 1], run[j])}}

\* A step that touches the view's rectangle.
Visible(step, v) ==
    /\ Min({step[1][1], step[2][1]}) < v.cols /\ Max({step[1][1], step[2][1]}) >= 0
    /\ Min({step[1][2], step[2][2]}) < v.rows /\ Max({step[1][2], step[2][2]}) >= 0

\* Borrow and borrowRing, once for each copy of the world: of a ring with an
\* index, the runs whose box meets the view; of one without, all of it.
Borrow(ring, v, indexed) ==
    LET runs(shift) == {s \in Starts(ring) :
                           indexed => meets(BoxOfRun(ring, s), seen(v, shift))}
        drawn(shift) == UNION {borrowRun(SubSeq(ring, s, Through(s, Len(ring))), v, shift) :
                                  s \in runs(shift)}
    IN  {step \in UNION {drawn(shift) : shift \in Shifts(v)} : Visible(step, v)}

-----------------------------------------------------------------------------
(* The machine: the host puts a ring together and hands it in; a job       *)
(* prepares it, or a frame draws it from memory.                           *)

AddPosition(p) ==
    /\ kindOf = "none" /\ Len(given) < MostPoints
    /\ given' = Append(given, p)
    /\ UNCHANGED <<kindOf, ready, how>>

HandInRing(kind) ==
    /\ kindOf = "none" /\ given # <<>>
    /\ kindOf' = IF checkFeature(given, kind) THEN kind ELSE "refused"
    /\ UNCHANGED <<given, ready, how>>

Prepare(tolerance) ==
    /\ kindOf \in {"line", "area"} /\ how = NotYet
    /\ ready' = prepareRing(given, kindOf, tolerance)
    /\ how' = [as |-> "prepared", tolerance |-> tolerance]
    /\ UNCHANGED <<given, kindOf>>

DrawFromMemory(v) ==
    /\ kindOf \in {"line", "area"} /\ how = NotYet
    /\ ready' = Borrow(given, v, TRUE)
    /\ how' = [as |-> "memory", view |-> v]
    /\ UNCHANGED <<given, kindOf>>

ShapeInit == given = <<>> /\ kindOf = "none" /\ ready = <<>> /\ how = NotYet

ShapeNext ==
    \/ \E lon \in Lons, lat \in Lats : AddPosition(<<lon, lat>>)
    \/ \E kind \in {"line", "area"} : HandInRing(kind)
    \/ \E tolerance \in Tolerances : Prepare(tolerance)
    \/ \E v \in MapViews : DrawFromMemory(v)

ShapeSpec == ShapeInit /\ [][ShapeNext]_geometryVars

-----------------------------------------------------------------------------
(* Properties.                                                             *)

IsPrepared == how.as = "prepared"
IsBorrowed == how.as = "memory"
NextOf(ring, i) == ring[IF i = Len(ring) THEN 1 ELSE i + 1]

\* Twice the area a ring goes round, by its direction.
AreaOf(ring) ==
    FoldLeft(+, 0, [i \in DOMAIN ring |-> Lon(ring[i]) * Lat(NextOf(ring, i))
                                           - Lon(NextOf(ring, i)) * Lat(ring[i])])

\* Twice the area of the parts of a ring, and of the ring as it was meant.
AreaKept(ring) == FoldLeft(LAMBDA sum, p : sum + AreaOf(p), 0, Split(ring)) = AreaOf(unwrap(ring))
Closes(ring) == unwrap(ring)[1] = Ends(unwrap(ring))
TouchesByTheOtherName(ring) == Within(unwrap(ring)) /\ unwrap(ring) # ring

\* An area cut at the antimeridian is the area it was: no part of it is lost,
\* drawn twice or left off the world, whichever way and however often the ring
\* crosses.  A ring round a pole never closes and is not asked about (Split).
CutKeepsTheArea ==
    IsPrepared /\ kindOf = "area" =>
        LET ring == Closed(given, kindOf)
        IN  /\ Closes(ring) /\ ~TouchesByTheOtherName(ring) => AreaKept(ring)
            /\ \A p \in Range(Split(ring)) : Within(p) /\ p[1] = Ends(p)

\* The same of a ring that only touches the antimeridian, and calls it by the
\* name it has on the far side.
TouchingKeepsTheArea ==
    IsPrepared /\ kindOf = "area" /\ Closes(Closed(given, kindOf)) =>
        AreaKept(Closed(given, kindOf))

\* Whatever simplifying drops lies within the tolerance of the line left in
\* its place, also when its steps run out, and both ends stay (Simplify).
DroppedIsNear ==
    IsPrepared => \A p \in Range(ready) :
        LET ring == Project(p.of)
            kept == [i \in DOMAIN p.left |-> p.left[i][2]]
        IN  /\ kept[1] = 1 /\ Ends(kept) = Len(ring)
            /\ \A n \in 1..(Len(kept) - 1) : \A i \in (kept[n] + 1)..(kept[n + 1] - 1) :
                  ~Further(distance(ring[i], ring[kept[n]], ring[kept[n + 1]]), <<how.tolerance, 1>>)

\* The index culls and nothing else: of a view inside the world, the runs read
\* draw what reading the whole ring draws (buildIndex, borrowRing, seen).
IndexOnlyCulls ==
    IsBorrowed /\ how.view.x >= Margin /\ how.view.x + how.view.cols + Margin <= World =>
        ready = Borrow(given, how.view, FALSE)

\* The same of every view, as the test of the index says.
IndexAlwaysOnlyCulls == IsBorrowed => ready = Borrow(given, how.view, FALSE)

\* A line stays a line: what is drawn of it goes along it, from one of its
\* vertices or cuts to the next, and never from its end back to its start.
LinesStayOpen ==
    IsPrepared /\ kindOf = "line" /\ given[1] # Ends(given) =>
        \A p \in Range(ready) : p.of[1] # Ends(p.of)

\* An area drawn from memory has the edge that closes it, as a prepared one has.
MemoryClosesAreas ==
    IsBorrowed /\ kindOf = "area" =>
        ready = Borrow(Closed(given, kindOf), how.view, FALSE)

\* What is prepared of a shape is the shape: its area through the cut, its line
\* through simplifying (CutKeepsTheArea, DroppedIsNear).
PreparedKeepsTheShape == CutKeepsTheArea /\ DroppedIsNear
=============================================================================
