------------------------------- MODULE FrameDraw -------------------------------
(***************************************************************************)
(* The drawing of one frame (internal/render/frame.go, basemap.go and      *)
(* marker.go): what each cell shows, the contest for its text, the room    *)
(* held for alerts outside the moment, and the frames and rows reused.     *)
(*                                                                         *)
(* A frame is a set of claims on cells, <<col, row>>.  Dots are left out:  *)
(* a shape is the cells it covers, a line is drawn as no text at all, and  *)
(* the basemap's paint is the tile and the alert that own a cell.  A text  *)
(* is its owner with a width in cells; a place beyond the world's edge is  *)
(* no anchor.  A row's sum is what it sums.  Of the host's overlays, those *)
(* that are no alert come first in its list: the worst for the alerts.     *)
(***************************************************************************)
EXTENDS Integers, Sequences, FiniteSets, SequencesExt, FiniteSetsExt

CONSTANTS
  FrameCols, FrameRows,
  LabelMargin, DigitStride, \* frame.go
  MaxLabels,                \* basemap.go: the most of a kind that are kept
  ScaleLeast,               \* the least room a scale mark is drawn in
  FrameInputs,              \* what Map.Render hands over, versions left out
  FrameTweaks,              \* the fields that change between two frames
  MaxFrames                 \* bound: changes to the input

FrameFields == {"tiles", "missing", "budget", "labels", "palette", "alerts", "moment", "time",
                "markers", "phase", "words", "bands", "stale", "footer", "credit", "notice"}
\* The fields whose changes are counted, since they cannot be compared.
Versioned   == {"moment", "alerts", "words", "bands"}

\* What a field of an input asks text for: the label an alert or a marker
\* has, or the word itself.  An id is a label's own.
Asking == {"alerts", "markers", "words"}
LabelOf(f, x) == IF f = "words" THEN x ELSE x.label

IsAsked(f, seq) ==
  /\ seq \in Seq(Range(seq))
  /\ \A i, j \in DOMAIN seq : LabelOf(f, seq[i]).id = LabelOf(f, seq[j]).id => i = j
  /\ f # "words" => \A x \in Range(seq) :
        x.label.anchors \in Seq(Int \X Int) /\ x.label.width \in Nat /\ x.label.short \in Nat
  /\ f = "alerts" => \A x \in Range(seq) : x.outline \in Seq(Range(x.outline))

\* No two tiles are in one place of one copy of the world.
AreTiles(seq) ==
  /\ seq \in Seq(Range(seq))
  /\ \A t \in Range(seq) : t.at \in [1..4 -> Int] /\ t.names \in Seq(Range(t.names))
  /\ \A t, u \in Range(seq) : t.at = u.at => t = u

IsField(f, v) ==
  /\ f \in Asking => IsAsked(f, v)
  /\ f = "tiles" => AreTiles(v)
  /\ f = "phase" => v \in BOOLEAN
  /\ f = "bands" => v \in Seq(Range(v))

FrameGivens == FrameInputs \union FrameTweaks

\* The time shown goes with the moment, or is taken off (Input.FrameTime).
ASSUME FrameAssumption ==
  /\ \A n \in {FrameCols, FrameRows, MaxLabels, MaxFrames} : n \in Nat
  /\ \A in \in FrameInputs : DOMAIN in = FrameFields
  /\ \A t \in FrameTweaks : /\ DOMAIN t \subseteq FrameFields
                            /\ "time" \in DOMAIN t => t.time = 0 \/ DOMAIN t \cap Versioned # {}
  /\ \A t \in FrameGivens : \A f \in DOMAIN t : IsField(f, t[f])
  /\ \A s, t \in FrameGivens : \A f \in DOMAIN s \cap Asking, g \in DOMAIN t \cap Asking :
        f # g => \A x \in Range(s[f]), y \in Range(t[g]) : LabelOf(f, x).id # LabelOf(g, y).id

VARIABLES
  frameGiven, \* the input of the next frame, with its versions
  lastInput,  \* Renderer.last
  heldRows,   \* Renderer.held: what each row shows
  rowSums,    \* Renderer.rowSums
  heldDrawn,  \* Renderer.drawn
  shown,      \* "given", "error", or "moved" once the input is another
  frames      \* changes so far

frameVars == <<frameGiven, lastInput, heldRows, rowSums, heldDrawn, shown, frames>>

Screen == (0..(FrameCols - 1)) \X (0..(FrameRows - 1))
AtMost(a, b) == IF a < b THEN a ELSE b
Fit(width, room) == AtMost(width, room)

-----------------------------------------------------------------------------
(* The contest for text.  A sheet is the cells written, the boxes placed,  *)
(* the cells held, and the labels a host is told were dropped.             *)

NoSheet == [text |-> {}, boxes |-> {}, held |-> {}, dropped |-> {}]
Occupied(sheet) == {t.at : t \in sheet.text}
Run(col, row, width) == {<<c, row>> : c \in col..(col + width - 1)}

\* Mutant: the cells need not be free.
CanWriteOver(sheet, col, row, width) == width > 0 /\ Run(col, row, width) \subseteq Screen

CanWrite(sheet, col, row, width) ==
  /\ width > 0 /\ Run(col, row, width) \subseteq Screen
  /\ Run(col, row, width) \cap Occupied(sheet) = {}

\* A text is written whole in free cells of one row, or not at all.
Write(sheet, col, row, width, who) ==
  IF CanWrite(sheet, col, row, width)
  THEN [sheet EXCEPT !.text = @ \union {[at |-> c, by |-> who] : c \in Run(col, row, width)}]
  ELSE sheet

BoxAt(l, col, row, width) ==
  LET across == IF l.tight THEN 1 ELSE LabelMargin
      down == IF l.tight THEN 0 ELSE LabelMargin \div 2
  IN [left |-> col - across, right |-> col + across + width, top |-> row - down, bottom |-> row + down]
Meet(a, b) == a.left <= b.right /\ b.left <= a.right /\ a.top <= b.bottom /\ b.top <= a.bottom
StartOf(l, at, width) == IF l.fromPoint THEN at[1] ELSE at[1] - width \div 2

\* A label at one of its anchors, if nothing placed or held is in its way.
Anchored(sheet, l, at, width, form) ==
  LET col == StartOf(l, at, width)
      box == BoxAt(l, col, at[2], width)
      free == /\ at[1] >= 0 /\ at[2] >= 0
              /\ Run(col, at[2], width) \cap sheet.held = {}
              /\ \A b \in sheet.boxes : ~Meet(box, b)
              /\ CanWrite(sheet, col, at[2], width)
  IN IF free THEN [Write(sheet, col, at[2], width, <<l.id, form>>) EXCEPT !.boxes = @ \union {box}] ELSE sheet

LabelAt(sheet, l, form, width) ==
  LET taken == {k \in DOMAIN l.anchors : Anchored(sheet, l, l.anchors[k], width, form) # sheet}
  IN IF taken = {} THEN sheet ELSE Anchored(sheet, l, l.anchors[Min(taken)], width, form)

\* A label that does not fit is placed by its shorter form, if it has one,
\* and a host is told of what it lost.
PlaceOrShorten(sheet, l) ==
  LET whole == LabelAt(sheet, l, "whole", l.width)
      short == IF l.short > 0 THEN LabelAt(sheet, l, "short", l.short) ELSE sheet
  IN IF whole # sheet THEN whole
     ELSE IF l.short = 0 /\ ~l.place THEN sheet
     ELSE [short EXCEPT !.dropped = @ \union {[label |-> l.id, shown |-> short # sheet]}]

\* The room an alert outside the moment keeps from the names.
Hold(sheet, l) ==
  LET at == l.anchors[1]
  IN IF at[1] < 0 \/ at[2] < 0 THEN sheet
     ELSE [sheet EXCEPT !.boxes = @ \union
             {BoxAt([l EXCEPT !.tight = FALSE], StartOf(l, at, l.width), at[2], l.width)}]

-----------------------------------------------------------------------------
(* The order of precedence.                                                *)

StatusOf(in) ==
  IF in.tiles = <<>> THEN "no tiles"
  ELSE IF in.missing \/ \E t \in Range(in.tiles) : ~t.exact THEN "sharpening" ELSE "complete"

\* The furniture, <<col, row, width, what>>, in the order it is written.
Furniture(in) ==
  LET right == IF in.stale > 0 THEN FrameCols - Fit(in.stale, FrameCols) - 1 ELSE FrameCols
      when == IF right > 0 THEN Fit(in.time, right) ELSE 0
      credit == Fit(in.credit, FrameCols)
      room == AtMost(FrameCols \div 3, FrameCols - credit - 1)
      notice == IF StatusOf(in) = "no tiles" THEN Fit(in.notice, FrameCols) ELSE 0
  IN << <<(FrameCols - notice) \div 2, FrameRows \div 2, notice, "notice">>,
        <<FrameCols - Fit(in.stale, FrameCols), 0, Fit(in.stale, FrameCols), "stale">>,
        <<right - when, 0, when, "time">>,
        <<FrameCols - credit, FrameRows - 1, credit, "credit">>,
        <<0, FrameRows - 1, IF room >= ScaleLeast THEN room ELSE 0, "scale">>,
        <<0, FrameRows - 2, IF FrameRows > 1 THEN Fit(in.footer, FrameCols) ELSE 0, "footer">> >>

\* An outline's digits: every few cells along it on the rows the furniture
\* leaves, or on its first free cell.
DigitCells(in, sheet, outline) ==
  LET bottom == IF in.footer > 0 THEN FrameRows - 3 ELSE FrameRows - 2
      frees == {k \in DOMAIN outline : outline[k] \in Screen \ Occupied(sheet) /\ outline[k][2] \in 1..bottom}
      strided == {k \in frees : (outline[k][1] + 2 * outline[k][2]) % DigitStride = 0}
  IN {outline[k] : k \in IF strided = {} /\ frees # {} THEN {Min(frees)} ELSE strided}

WriteDigits(in, sheet, alert) ==
  [sheet EXCEPT !.text = @ \union {[at |-> c, by |-> <<alert.label.id, "digit">>] : c \in DigitCells(in, sheet, alert.outline)}]
HoldDigits(in, sheet, alert) == [sheet EXCEPT !.held = @ \union DigitCells(in, sheet, alert.outline)]

\* Each member of a set at the place it has among those before it.
InTurn(S, Before(_, _)) ==
  [k \in 1..Cardinality(S) |-> CHOOSE x \in S : Cardinality({y \in S : Before(y, x)}) = k - 1]

\* The tiles in one order, whatever order they were given in: the shallower
\* first, then from the west, the north and the western copy of the world.
TileBefore(a, b) == \E k \in 1..4 : a.at[k] < b.at[k] /\ \A j \in 1..(k - 1) : a.at[j] = b.at[j]
InOrder(tiles) == InTurn(tiles, TileBefore)

\* What a frame is drawn from: the phase is seen on a marker that blinks.
Content(in) ==
  [in EXCEPT !.tiles = InOrder(Range(@)), !.phase = @ \/ \A m \in Range(in.markers) : ~m.blink]

\* The basemap's names in the order of their tiles, as many as are kept.
Sooner(p, q) == p[1] < q[1] \/ (p[1] = q[1] /\ p[2] < q[2])
Named(in) ==
  LET all == UNION {{i} \X DOMAIN in.tiles[i].names : i \in DOMAIN in.tiles}
  IN {p \in all : Cardinality({q \in all : Sooner(q, p)}) < MaxLabels}

\* The most important first.
Names(in) ==
  LET Name(p) == in.tiles[p[1]].names[p[2]]
      Before(p, q) == Name(p).rank < Name(q).rank \/ (Name(p).rank = Name(q).rank /\ Sooner(p, q))
      order == InTurn(Named(in), Before)
  IN [k \in 1..Cardinality(Named(in)) |-> Name(order[k])]

Budgeted(in, sheet, l) ==
  IF in.budget > 0 /\ Cardinality({t.by : t \in {u \in sheet.text : u.by[2] = "name"}}) >= in.budget THEN sheet
  ELSE LabelAt(sheet, l, "name", l.width)

Drawn(in) == {a \in Range(in.alerts) : a.moment = in.moment \/ a.moment = "always"}
Lit(in) == {m \in Range(in.markers) : ~m.blink \/ in.phase}

Glyph(sheet, m) == LabelAt(sheet, [m.label EXCEPT !.anchors = <<m.at>>], "glyph", m.glyph)

\* What asks for text, the first claim first: what is over the basemap, the
\* basemap's names, the words of the host's data and the contours' values.
Claims(in) ==
  LET As(kind, claims) == [k \in DOMAIN claims |-> [kind |-> kind, by |-> claims[k]]]
  IN As("furniture", Furniture(in)) \o As("glyph", in.markers) \o As("place", in.markers)
     \o As("alert", in.alerts) \o As("digits", in.alerts) \o As("spare", in.alerts) \o As("hold", in.alerts)
     \o As("name", IF in.labels THEN Names(in) ELSE <<>>) \o As("word", in.words) \o As("band", in.bands)

\* What is kept of each kind is the first MaxLabels, the alerts in their
\* moment before those outside it; nobody is told of what is not.
FirstOf(claims) == Range(SubSeq(claims, 1, AtMost(Len(claims), MaxLabels)))
Kept(in, kind) ==
  LET alerts == SelectSeq(in.alerts, LAMBDA a : a \in Drawn(in)) \o SelectSeq(in.alerts, LAMBDA a : a \notin Drawn(in))
  IN CASE kind \in {"glyph", "place"}        -> FirstOf(SelectSeq(in.markers, LAMBDA m : m \in Lit(in)))
       [] kind \in {"alert", "hold", "word"} -> FirstOf(in.words \o alerts)
       [] kind \in {"digits", "spare"}       -> FirstOf(SelectSeq(alerts, LAMBDA a : a.outline # <<>>))
       [] kind = "band"                      -> FirstOf(in.bands)

\* A marker asks when it is lit; an alert for its text in its moment, and
\* outside it for the room of its text; and each when it was kept.
Asks(in, c) ==
  /\ c.kind \notin {"furniture", "name"} => c.by \in Kept(in, c.kind)
  /\ c.kind \in {"glyph", "place"}  => c.by \in Lit(in)
  /\ c.kind \in {"alert", "digits"} => c.by \in Drawn(in)
  /\ c.kind \in {"spare", "hold"}   => c.by \notin Drawn(in)

Claimed(in, sheet, c) ==
  IF ~Asks(in, c) THEN sheet ELSE
  CASE c.kind = "furniture" -> Write(sheet, c.by[1], c.by[2], c.by[3], <<c.by[4], "furniture">>)
    [] c.kind = "glyph"     -> Glyph(sheet, c.by)
    [] c.kind \in {"place", "alert"} -> PlaceOrShorten(sheet, c.by.label)
    [] c.kind = "digits"    -> WriteDigits(in, sheet, c.by)
    [] c.kind = "spare"     -> HoldDigits(in, sheet, c.by)
    [] c.kind = "hold"      -> Hold(sheet, c.by.label)
    [] c.kind = "name"      -> Budgeted(in, sheet, c.by)
    [] c.kind = "word"      -> PlaceOrShorten(sheet, c.by)
    [] c.kind = "band"      -> LabelAt(sheet, c.by, "band", c.by.width)

\* The whole contest.
Composed(in) == FoldLeft(LAMBDA sheet, c : Claimed(in, sheet, c), NoSheet, Claims(in))

\* What owns a cell's background: the alert drawn over it last, else the
\* deepest tile that paints it.
Owner(in, cell) ==
  LET tiles == SelectSeq(in.tiles, LAMBDA t : cell \in t.paint)
      alerts == SelectSeq(in.alerts, LAMBDA a : a \in Drawn(in) /\ cell \in a.area)
  IN IF alerts # <<>> THEN <<Last(alerts).label.id>> ELSE IF tiles # <<>> THEN Last(tiles).at ELSE <<>>

Rows == 0..(FrameRows - 1)

CellsOf(in) ==
  LET sheet == Composed(in)
  IN [r \in Rows |-> [text |-> {t \in sheet.text : t.at[2] = r},
                      owners |-> {<<c, Owner(in, c)>> : c \in {d \in Screen : d[2] = r}}]]

RowCells(in) == CellsOf(Content(in))

\* Mutant: a row is built again only for its cells.
RowSumsUnsalted(in) == RowCells(in)

\* What decides each row's bytes: its cells, and the look they are coloured by.
RowSums(in) == LET cells == RowCells(in) IN [r \in Rows |-> [cells |-> cells[r], look |-> in.look]]

Emitted(in) == LET cells == RowCells(in) IN [r \in Rows |-> [cells |-> cells[r], palette |-> in.palette]]

-----------------------------------------------------------------------------
(* Reuse.                                                                  *)

SameOverlays(in) ==
  /\ in.markers = lastInput.markers
  /\ (\E m \in Range(in.markers) : m.blink) => in.phase = lastInput.phase
  /\ in.version = lastInput.version /\ in.budget = lastInput.budget

\* A new time of the loop is no new look: the moment it comes with is a new
\* version of the overlays.
SameLook(in) ==
  /\ in.look = lastInput.look /\ in.stale = lastInput.stale
  /\ (in.time = 0) = (lastInput.time = 0)
  /\ in.labels = lastInput.labels /\ in.missing = lastInput.missing
  /\ in.footer = lastInput.footer /\ in.credit = lastInput.credit /\ in.notice = lastInput.notice

Unchanged(in) == heldDrawn /\ in.tiles = lastInput.tiles /\ SameOverlays(in) /\ SameLook(in)

Draw ==
  /\ shown # "given"
  /\ shown' = "given"
  /\ UNCHANGED <<frameGiven, frames>>
  /\ IF Unchanged(frameGiven) THEN UNCHANGED <<lastInput, heldRows, rowSums, heldDrawn>>
     ELSE /\ rowSums' = RowSums(frameGiven)
          /\ LET built == Emitted(frameGiven)
             IN heldRows' = [r \in Rows |-> IF heldRows # <<>> /\ rowSums[r] = rowSums'[r] THEN heldRows[r] ELSE built[r]]
          /\ lastInput' = frameGiven
          /\ heldDrawn' = TRUE

\* A tile, an overlay or a mark cannot be painted: the frame held is not the
\* input's any more.
DrawFails ==
  /\ shown # "given" /\ ~Unchanged(frameGiven)
  /\ heldDrawn' = FALSE
  /\ shown' = "error"
  /\ UNCHANGED <<frameGiven, lastInput, heldRows, rowSums, frames>>

\* The host and the jobs move the input on.  Whoever changes the palette
\* raises its look, and whoever changes the overlays or the moment their
\* version; the other fields are compared.
Tweak(t) ==
  /\ shown # "moved" /\ frames < MaxFrames
  /\ frames' = frames + 1
  /\ shown' = "moved"
  /\ frameGiven' = [f \in DOMAIN frameGiven |-> IF f \in DOMAIN t THEN t[f]
                                      ELSE IF f = "look" /\ "palette" \in DOMAIN t THEN frames'
                                      ELSE IF f = "version" /\ DOMAIN t \cap Versioned # {} THEN frames'
                                      ELSE frameGiven[f]]
  /\ UNCHANGED <<lastInput, heldRows, rowSums, heldDrawn>>

FrameInit ==
  /\ frameGiven \in {[f \in DOMAIN in \union {"look", "version"} |-> IF f \in DOMAIN in THEN in[f] ELSE 0] : in \in FrameInputs}
  /\ lastInput = frameGiven
  /\ heldRows = <<>> /\ rowSums = <<>> /\ heldDrawn = FALSE /\ shown = "moved"
  /\ frames = 0

FrameNext == Draw \/ DrawFails \/ \E t \in FrameTweaks : Tweak(t)

FrameSpec == FrameInit /\ [][FrameNext]_frameVars

-----------------------------------------------------------------------------
(* Properties.                                                             *)

FrameTypeOK ==
  /\ heldDrawn \in BOOLEAN /\ frames \in 0..MaxFrames
  /\ heldRows # <<>> => DOMAIN heldRows = Rows /\ DOMAIN rowSums = Rows

\* Whatever was reused of the frames before, the frame given is the one its
\* input draws from nothing, and in whatever order its tiles came (frame.go,
\* unchanged and emit: a frame is a function of its input, and an unchanged
\* one or an unchanged row is not drawn again).
FrameIsItsInputs ==
  shown = "given" => heldRows = Emitted([frameGiven EXCEPT !.tiles = Reverse(@)])

\* The cells a label has in a form, and what the host is told of it.
CellsIn(sheet, l, form) == Cardinality({t \in sheet.text : t.by = <<l.id, form>>})
ToldAs(sheet, l) == {d.shown : d \in {e \in sheet.dropped : e.label = l.id}}

\* No text is cut by another, and each label kept, of an alert in its moment
\* or of a marker that is lit, is in the frame whole, or by its short form
\* and reported, or reported as not shown (frame.go, compose).  An alert that
\* has no short form, being drawn as a line or a point, is whole or goes
\* missing untold, as does whatever is not kept: EveryAlertIsTold and
\* EveryPlaceIsTold are refuted.
WordsAreWholeOrTold ==
  shown = "given" =>
    LET in == Content(frameGiven)
        sheet == Composed(in)
        Whole(l) == CellsIn(sheet, l, "whole")
        Short(l) == CellsIn(sheet, l, "short")
        Told(l) == ToldAs(sheet, l)
    IN /\ Cardinality(Occupied(sheet)) = Cardinality(sheet.text)
       /\ \A l \in {a.label : a \in Drawn(in) \cap Kept(in, "alert")} \union {m.label : m \in Lit(in) \cap Kept(in, "place")} :
            \/ Whole(l) = l.width /\ Told(l) = {}
            \/ Whole(l) = 0 /\ Short(l) = l.short /\ l.short > 0 /\ Told(l) = {TRUE}
            \/ Whole(l) = 0 /\ Short(l) = 0 /\ Told(l) = {FALSE}
            \/ Whole(l) = 0 /\ Short(l) = 0 /\ Told(l) = {} /\ l.short = 0 /\ ~l.place

\* Refuted: an alert's label that does not fit falls back to its severity
\* word, and either way the host is told (frame.go, compose).
EveryAlertIsTold ==
  shown = "given" =>
    LET in == Content(frameGiven)
    IN \A a \in Drawn(in) \cap Kept(in, "alert") :
         CellsIn(Composed(in), a.label, "whole") > 0 \/ ToldAs(Composed(in), a.label) # {}

\* Refuted: the name of a marker that is lit is there, or its place is in the
\* frame's list of what was dropped (map.go, DropPlaceName).
EveryPlaceIsTold ==
  shown = "given" =>
    LET in == Content(frameGiven)
    IN \A m \in Lit(in) : CellsIn(Composed(in), m.label, "whole") > 0 \/ ToldAs(Composed(in), m.label) # {}

\* Refuted: the basemap's names stand still as a loop plays past each alert's
\* hours, as if every alert in view were present (basemap.go, Reserve).
NamesStandStill ==
  shown = "moved" =>
    LET Placed(in) == {t \in Composed(Content(in)).text : t.by[2] = "name"}
    IN \A m \in {a.moment : a \in Range(frameGiven.alerts)} : Placed([frameGiven EXCEPT !.moment = m]) = Placed(frameGiven)
================================================================================
