-------------------------------- MODULE MapView --------------------------------
(***************************************************************************)
(* The view of a map: the calls that move it (view.go), the bound it is    *)
(* held in, the size each Render gives it (map.go), the framing of places  *)
(* and overlays (internal/project/fit.go) and the tiles a view is drawn    *)
(* from, with the copies of the world it reaches (internal/project).       *)
(*                                                                         *)
(* A position is a whole number of units along the projected world, 0 to   *)
(* World, x east from the antimeridian and y south from the top; zooms are *)
(* whole levels, at which a dot spans Dot(z) units, a column two dots and  *)
(* a row four.  What the code solves for a zoom is the deepest whole one.  *)
(***************************************************************************)
EXTENDS Integers, FiniteSets, FiniteSetsExt

CONSTANTS
  MinViewZoom, MaxViewZoom, MaxSourceZoom, \* internal/project
  TileCells,                \* the columns of one tile at its own zoom
  MostTiles,                \* the most tiles a view is given
  WholeTop, WholeBottom,    \* the rows FitWorld shows, 84 north to 56 south
  MaxCells,                 \* the most columns and rows of a view
  ScreenSizes,                    \* the sizes of the host's frames, <<cols, rows>>
  Spots,                    \* the positions a host names, <<x, y>>
  Boxes,                    \* the overlays' boxes, [w, e, n, s]
  Bounds,                   \* the host's bounds, [zoom, w, e, n, s]
  MaxMoves                  \* bound: calls that move the view

World == TileCells * 2 * 2 ^ MaxViewZoom
NoBound == [zoom |-> MinViewZoom, w |-> 0, e |-> 0, n |-> 0, s |-> 0]

ASSUME ViewAssumption ==
  /\ MinViewZoom \in Int /\ MaxViewZoom \in Nat /\ MinViewZoom < MaxViewZoom
  /\ TileCells \in Nat \ {0} /\ MaxSourceZoom \in 0..MaxViewZoom
  /\ {WholeTop, WholeBottom} \subseteq 0..World /\ WholeTop < WholeBottom
  /\ MaxCells \in Nat /\ MostTiles \in Nat /\ MaxMoves \in Nat
  /\ Spots \subseteq (0..World) \X (0..World)
  /\ \A b \in Bounds : /\ b.zoom \in 0..MaxViewZoom
                       /\ {b.w, b.e, b.n, b.s} \subseteq 0..World /\ b.w # b.e /\ b.n < b.s
  /\ \A b \in Boxes : {b.w, b.e, b.n, b.s} \subseteq 0..World /\ b.n <= b.s

VARIABLES
  shutView, sized, placed, \* Map.shut, sized, placed
  view,                    \* Map.view: [x, y, zoom, cols, rows]
  bound,                   \* Map.bound
  changedView,             \* Map.changed, turned over
  fitted,                  \* what the last move framed, [spots, boxes, margin]
  moves                    \* calls so far

viewVars == <<shutView, sized, placed, view, bound, changedView, fitted, moves>>

NoFit == [spots |-> {}, boxes |-> {}, margin |-> 0]
ViewZooms == MinViewZoom..MaxViewZoom
Lowest(a, b) == IF a < b THEN a ELSE b
Highest(a, b) == IF a > b THEN a ELSE b

\* The units a dot and a column span at a zoom.
Dot(z) == 2 ^ (MaxViewZoom - z)
Cell(z) == 2 * Dot(z)
Across(v) == v.cols * Cell(v.zoom)
Down(v) == 2 * v.rows * Cell(v.zoom)
West(v) == v.x - Across(v) \div 2
Top(v) == v.y - Down(v) \div 2

Valid(v) ==
  v.cols \in 1..MaxCells /\ v.rows \in 1..MaxCells /\ v.zoom \in ViewZooms /\ v.y \in 0..World

\* The deepest zoom at which so many columns and rows span that much.
Deepest(cols, rows, width, height) ==
  Max({MinViewZoom} \union {z \in ViewZooms : cols * Cell(z) >= width /\ 2 * rows * Cell(z) >= height})

WholeWorld(cols, rows) ==
  [x |-> World \div 2, y |-> (WholeTop + WholeBottom) \div 2, cols |-> cols, rows |-> rows,
   zoom |-> Deepest(cols, rows, World, WholeBottom - WholeTop)]

-----------------------------------------------------------------------------
(* The bound.                                                              *)

Gap(c, lo, hi) == Highest(0, Highest(lo - c, c - hi))

\* A centre held so that half a view either side stays in a span, or in the
\* middle of a span narrower than the view.
Within(c, lo, hi, half) ==
  IF hi - lo <= 2 * half THEN (lo + hi) \div 2 ELSE Highest(lo + half, Lowest(hi - half, c))

\* Past the antimeridian a box runs on past the edge of the world.
EastOf(b) == IF b.w > b.e THEN b.e + World ELSE b.e

\* Of a centre's copies a world apart, the one nearest the box; the centre
\* itself, then the copy to the west, where they are as near.
Nearest(x, b) ==
  LET near == Min({Gap(c, b.w, EastOf(b)) : c \in {x - World, x, x + World}})
  IN CHOOSE c \in {x - World, x, x + World} :
       /\ Gap(c, b.w, EastOf(b)) = near
       /\ c # x => Gap(x, b.w, EastOf(b)) > near
       /\ c = x + World => Gap(x - World, b.w, EastOf(b)) > near

Bounded(v, b) ==
  IF b = NoBound THEN v
  ELSE LET closer == [v EXCEPT !.zoom = Highest(v.zoom, b.zoom)]
           x == Within(Nearest(v.x, b), b.w, EastOf(b), Across(closer) \div 2)
       IN [closer EXCEPT !.x = x % World, !.y = Within(v.y, b.n, b.s, Down(closer) \div 2)]

-----------------------------------------------------------------------------
(* Framing.                                                                *)

\* The stretches of longitude named, each from its start, counted from the
\* meridian of Greenwich, eastward.
ArcOf(w, e) == LET start == (w - World \div 2) % World
               IN [start |-> start, width |-> ((e - World \div 2) - start) % World]
Arcs(spots, boxes) == {ArcOf(p[1], p[1]) : p \in spots} \union {ArcOf(b.w, b.e) : b \in boxes}

First(arcs) == Min({a.start : a \in arcs})
Reach(arcs) == Max({a.start + a.width : a \in arcs})

\* The stretches before each arc that nothing before it reaches, and the
\* one across Greenwich.
Uncovered(arcs) ==
  {[gap |-> s - Reach({a \in arcs : a.start < s}), after |-> s] :
     s \in {a.start : a \in arcs} \ {First(arcs)}}
  \union {[gap |-> First(arcs) + World - Reach(arcs), after |-> First(arcs)]}

\* The shortest stretch that covers every arc: the circle less the widest
\* stretch that nothing covers, the first of those as wide.
ShortestCover(arcs) ==
  LET widest == Max({u.gap : u \in Uncovered(arcs)})
      afters == {u.after : u \in {v \in Uncovered(arcs) : v.gap = widest}}
  IN IF widest <= 0 THEN [west |-> 0, width |-> World]
     ELSE [west |-> Min(IF afters = {First(arcs)} THEN afters ELSE afters \ {First(arcs)}),
           width |-> World - widest]

\* The view that frames what is named; a single point keeps the zoom.
Framed(v, spots, boxes, margin) ==
  LET cover == ShortestCover(Arcs(spots, boxes))
      north == Min({p[2] : p \in spots} \union {b.n : b \in boxes})
      south == Max({p[2] : p \in spots} \union {b.s : b \in boxes})
  IN [v EXCEPT !.x = (cover.west + cover.width \div 2 + World \div 2) % World,
               !.y = (north + south) \div 2,
               !.zoom = IF cover.width = 0 /\ north = south THEN v.zoom
                        ELSE Deepest(v.cols - 2 * margin, v.rows - 2 * margin,
                                     cover.width, south - north)]

-----------------------------------------------------------------------------
(* The tiles a view is drawn from.                                         *)

TileZoom(z) == Highest(0, Lowest(MaxSourceZoom, z))
TileSide(z) == World \div 2 ^ TileZoom(z)

TileColumns(v) ==
  (West(v) \div TileSide(v.zoom))..((West(v) + Across(v) - Dot(v.zoom)) \div TileSide(v.zoom))

\* The rows of tiles stop at the poles.
TileRow(v, y) == Highest(0, Lowest((2 ^ TileZoom(v.zoom)) - 1, y \div TileSide(v.zoom)))
TileRows(v) == TileRow(v, Top(v))..TileRow(v, Top(v) + Down(v) - Dot(v.zoom))

TooManyTiles(v) == Cardinality(TileColumns(v)) * Cardinality(TileRows(v)) > MostTiles

\* Each tile, and how many worlds east of its own place it is drawn.
Placements(v) ==
  LET n == 2 ^ TileZoom(v.zoom)
  IN IF TooManyTiles(v) THEN {}
     ELSE {[x |-> col % n, y |-> row, shift |-> col \div n] : col \in TileColumns(v), row \in TileRows(v)}

-----------------------------------------------------------------------------
(* The host's calls.                                                       *)

ViewCall == moves < MaxMoves /\ moves' = moves + 1 /\ ~shutView

\* moveLocked: a change of the view, held in the bound, or refused.
Move(v, fit) ==
  LET held == Bounded(v, bound)
  IN /\ ViewCall /\ sized /\ UNCHANGED <<shutView, sized, bound>>
     /\ IF Valid(held)
        THEN /\ view' = held /\ placed' = TRUE /\ fitted' = fit
             /\ changedView' = IF held # view THEN 1 - changedView ELSE changedView
        ELSE UNCHANGED <<view, placed, fitted, changedView>>

Recentre(spot) == Move([view EXCEPT !.x = spot[1], !.y = spot[2]], NoFit)
Zoom(to) == Move([view EXCEPT !.zoom = to], NoFit)
ZoomBy(levels) == Move([view EXCEPT !.zoom = Highest(MinViewZoom, Lowest(MaxViewZoom, @ + levels))], NoFit)

\* Longitude wraps by a single turn, latitude stops at the world's edge.
Normalize(x) == IF x < 0 THEN x + World ELSE IF x > World THEN x - World ELSE x

PanCells(cols, rows) ==
  Move([view EXCEPT !.x = Normalize(@ + cols * Cell(view.zoom)),
                    !.y = Highest(0, Lowest(World, @ + 2 * rows * Cell(view.zoom)))], NoFit)

FitWorld ==
  LET whole == WholeWorld(view.cols, view.rows)
  IN Move([view EXCEPT !.x = whole.x, !.y = whole.y, !.zoom = whole.zoom], NoFit)

FitTo(spots, boxes, margin) ==
  /\ spots # {} \/ boxes # {}
  /\ view.cols > 2 * margin /\ view.rows > 2 * margin
  /\ Move(Framed(view, spots, boxes, margin), [spots |-> spots, boxes |-> boxes, margin |-> margin])

SetBound(b) ==
  /\ ViewCall /\ UNCHANGED <<shutView, sized, placed>>
  /\ bound' = b /\ fitted' = NoFit
  /\ view' = IF sized THEN Bounded(view, b) ELSE view
  /\ changedView' = 1 - changedView

\* Mutant: only the view the host chose is held in the bound.
ViewAtUnbounded(cols, rows) ==
  LET kept == Bounded([view EXCEPT !.cols = cols, !.rows = rows], bound)
  IN IF sized /\ placed /\ Valid(kept) THEN kept ELSE WholeWorld(cols, rows)

\* The view at a new size: what the host chose, or the whole world.
ViewAt(cols, rows) ==
  LET kept == Bounded([view EXCEPT !.cols = cols, !.rows = rows], bound)
  IN IF sized /\ placed /\ Valid(kept) THEN kept ELSE Bounded(WholeWorld(cols, rows), bound)

\* Render gives the map its size.
Resize(size) ==
  /\ ViewCall /\ size \in (1..MaxCells) \X (1..MaxCells)
  /\ \/ ~sized
     \/ view.cols # size[1] \/ view.rows # size[2]
  /\ view' = ViewAt(size[1], size[2]) /\ sized' = TRUE /\ fitted' = NoFit
  /\ UNCHANGED <<shutView, placed, bound, changedView>>

CloseView == ViewCall /\ shutView' = TRUE /\ UNCHANGED <<sized, placed, view, bound, changedView, fitted>>

ViewInit ==
  /\ shutView = FALSE /\ sized = FALSE /\ placed = FALSE
  /\ view = [x |-> 0, y |-> 0, zoom |-> 0, cols |-> 0, rows |-> 0]
  /\ bound = NoBound /\ changedView = 0 /\ fitted = NoFit /\ moves = 0

ViewNext ==
  \/ \E spot \in Spots : Recentre(spot)
  \/ \E z \in ViewZooms : Zoom(z)
  \/ \E by \in {-1, 1} : ZoomBy(by)
  \/ \E by \in {-1, 1} : PanCells(by, 0) \/ PanCells(0, by)
  \/ FitWorld
  \/ \E spots \in SUBSET Spots, boxes \in SUBSET Boxes, margin \in {0, 1} : FitTo(spots, boxes, margin)
  \/ \E b \in Bounds \union {NoBound} : SetBound(b)
  \/ \E size \in ScreenSizes : Resize(size)
  \/ CloseView

ViewSpec == ViewInit /\ [][ViewNext]_viewVars
-----------------------------------------------------------------------------
ViewTypeOK ==
  /\ {shutView, sized, placed} \subseteq BOOLEAN /\ changedView \in {0, 1}
  /\ sized => Valid(view) /\ view.x \in Int
  /\ bound \in Bounds \union {NoBound} /\ moves \in 0..MaxMoves

\* Whether a view's span from low, so wide, is inside lo to hi or centred on it.
Holds(low, wide, lo, hi) ==
  \/ lo <= low /\ low + wide <= hi
  \/ hi - lo <= wide /\ low + wide \div 2 = (lo + hi) \div 2

(* A bound is held on every path that moves the view, also a change of     *)
(* size and the fall back to the whole world: the view never looks outside *)
(* the box, or is centred on a box narrower than it, in the box's own copy *)
(* of the world (SetBound, moveLocked, viewAt).                            *)
ViewKeepsTheBound ==
  sized /\ bound # NoBound =>
    /\ view.zoom >= bound.zoom
    /\ \E turn \in {0, World} : Holds(West(view) + turn, Across(view), bound.w, EastOf(bound))
    /\ Holds(Top(view), Down(view), bound.n, bound.s)

(* Every dot across the view is drawn from exactly one placed tile of each *)
(* row, whatever copies of the world the view reaches, no tile is placed   *)
(* outside the view, and every dot down that is on the world is in a row   *)
(* of tiles, unless there would be too many (Placements).                  *)
TilesCoverTheView ==
  sized /\ ~TooManyTiles(view) =>
    LET side == TileSide(view.zoom)
        cols == {[west |-> p.x * side + p.shift * World, y |-> p.y] : p \in Placements(view)}
        rows == {c.y : c \in cols}
    IN /\ \A i \in 0..2 * view.cols - 1 :
            LET u == West(view) + i * Dot(view.zoom)
            IN Cardinality({c \in cols : c.west <= u /\ u < c.west + side}) = Cardinality(rows)
       /\ \A c \in cols : c.west < West(view) + Across(view) /\ c.west + side > West(view)
       /\ \A i \in 0..4 * view.rows - 1 :
            LET u == Top(view) + i * Dot(view.zoom)
            IN u \in 0..World - 1 => u \div side \in rows

(* view.go says of Placements "so a window is always filled"; a window that *)
(* would take too many tiles gets none.                                    *)
WindowIsFilled == sized => Placements(view) # {}

\* Whether a view shows all of an arc and a span of rows, with a margin.
Shows(v, w, wide, n, s, margin) ==
  /\ \/ Across(v) - 2 * margin * Cell(v.zoom) >= World
     \/ ((w - (West(v) + margin * Cell(v.zoom))) % World) + wide <= Across(v) - 2 * margin * Cell(v.zoom)
  /\ Top(v) + 2 * margin * Cell(v.zoom) <= n /\ s <= Top(v) + Down(v) - 2 * margin * Cell(v.zoom)

ShowsSpots(v, f) == \A p \in f.spots : Shows(v, p[1], 0, p[2], p[2], f.margin)
ShowsBoxes(v, f) ==
  \A b \in f.boxes : Shows(v, b.w, IF b.w = b.e THEN 0 ELSE EastOf(b) - b.w, b.n, b.s, f.margin)

(* Places alone are framed whole, and no closer view of the size, wherever *)
(* it looks, would frame those that are not all one place: the short way   *)
(* round, across the antimeridian and across Greenwich (Frame,             *)
(* shortestCover).                                                         *)
FittedHoldsPlaces ==
  fitted.spots # {} /\ fitted.boxes = {} /\ bound = NoBound /\ view.zoom > MinViewZoom
  => /\ ShowsSpots(view, fitted)
     /\ (\E p, q \in fitted.spots : (p[1] - q[1]) % World # 0 \/ p[2] # q[2]) =>
          \A z \in view.zoom + 1..MaxViewZoom, x \in 0..World - 1, y \in 0..World :
            ~ShowsSpots([view EXCEPT !.zoom = z, !.x = x, !.y = y], fitted)

(* Frame says it "frames every point and box with margin cells to spare on *)
(* each side" (fit.go); the code does not.                                 *)
FittedHoldsAll ==
  fitted # NoFit /\ bound = NoBound /\ view.zoom > MinViewZoom
  => ShowsSpots(view, fitted) /\ ShowsBoxes(view, fitted)

\* The view is what was asked of it: within the bound, covered by the tiles
\* placed for it, and holding the places it was fitted to.
ViewIsAsAsked == ViewKeepsTheBound /\ TilesCoverTheView /\ FittedHoldsPlaces
=============================================================================
