------------------------------ MODULE VectorTile -------------------------------
(***************************************************************************)
(* The decoder of vector tiles (internal/mvt): the body's format, the      *)
(* layers one after another with the limits that run across them, the      *)
(* two passes over a layer (the counting one, which sizes its slabs, and   *)
(* the one that runs each feature's commands), the attributes kept and the *)
(* grouping of rings into polygons.                                        *)
(*                                                                         *)
(* A message is its fields, with "torn" for bytes no field can be read     *)
(* from; a geometry is a sequence of commands [id, count, points], whose   *)
(* points are fewer than its count where the integers run out.  A pair of  *)
(* coordinate values is one point, so a count of coords here is half the   *)
(* code's.                                                                 *)
(***************************************************************************)
EXTENDS Integers, Sequences, FiniteSets, SequencesExt, FiniteSetsExt

CONSTANTS
  TileBodies,       \* the bodies a source sends, [format, layers]
  TileLimits,       \* the limits a host may set
  DrawnLayers,      \* Want.Layers
  PenReach          \* the largest 16-bit coordinate

\* What a body carries, once its fields are read.
Command == [id : Nat, count : Nat, points : Seq(Int \X Int)]
Feature == [kind : Nat, tags : Seq(Nat \X Nat), geometry : Seq(Command)]

ASSUME TileAssumption ==
  /\ PenReach \in Nat
  /\ \A body \in TileBodies :
        body.layers \in Seq(Range(body.layers)) /\ \A l \in Range(body.layers) : l.features \in Seq(Feature)
  /\ \A limits \in TileLimits : {limits.features, limits.integers} \subseteq Nat

VARIABLES
  tileLimits,       \* layerDecoder.lim
  layersLeft,       \* the layers not read yet
  layersRead,       \* how many were read, kept or not
  featuresLeft,     \* the features of the layer being read
  tileKept,         \* layerDecoder.tile: its layers
  featureCount, integerCount, \* layerDecoder.features, integers
  decoded           \* "", or how Decode ended

tileVars == <<tileLimits, layersLeft, layersRead, featuresLeft, tileKept, featureCount, integerCount, decoded>>

Point == 1
Line == 2
Polygon == 3
MoveTo == 1
LineTo == 2
ClosePath == 7

-----------------------------------------------------------------------------
(* The counting pass.                                                      *)

\* Mutant: a ring's first point is not counted a second time.
CommandCountsUnclosed(c) ==
  [integers |-> 1 + IF c.id = ClosePath THEN 0 ELSE 2 * c.count,
   coords |-> IF c.id = ClosePath THEN 0 ELSE c.count,
   parts |-> IF c.id = MoveTo THEN c.count ELSE 0]

\* What one command adds to the counts of its layer.
CommandCounts(c) ==
  [integers |-> 1 + IF c.id = ClosePath THEN 0 ELSE 2 * c.count,
   coords |-> IF c.id = ClosePath THEN 1 ELSE c.count,
   parts |-> IF c.id = MoveTo THEN c.count ELSE 0]

CutShort(c) == c.id # ClosePath /\ c.count > Len(c.points)

\* The counts of all a layer's features; the geometry of a feature of no
\* declared kind is counted too.  A command is <<feature, place>>.
Commands(features) == UNION {{i} \X DOMAIN features[i].geometry : i \in DOMAIN features}
Counted(features) ==
  LET counts == [p \in Commands(features) |-> CommandCounts(features[p[1]].geometry[p[2]])]
  IN [features |-> Len(features),
      integers |-> SumFunction([p \in DOMAIN counts |-> counts[p].integers]),
      coords |-> SumFunction([p \in DOMAIN counts |-> counts[p].coords]),
      parts |-> SumFunction([p \in DOMAIN counts |-> counts[p].parts])]

MisCounted(features) == \E f \in Range(features) : \E c \in Range(f.geometry) : CutShort(c)

-----------------------------------------------------------------------------
(* Running the commands.  The pen keeps its place from one part to the     *)
(* next; open is where in coords the open part began, 0 if none is open.   *)

NewPen(layer) ==
  [x |-> 0, y |-> 0, open |-> 0, lined |-> FALSE, coords |-> layer.coords, parts |-> layer.parts, bad |-> FALSE]
Refuse(pen) == [pen EXCEPT !.bad = TRUE]

EndPart(pen) ==
  IF pen.open = 0 THEN pen
  ELSE [pen EXCEPT !.parts = Append(@, Len(pen.coords)), !.open = 0, !.lined = FALSE]

StepPen(pen, d) ==
  LET x == pen.x + d[1]
      y == pen.y + d[2]
  IN IF {x, y} \subseteq (-PenReach - 1)..PenReach
     THEN [pen EXCEPT !.x = x, !.y = y, !.coords = Append(@, <<x, y>>)]
     ELSE Refuse(pen)

StartPart(pen, d) == LET done == EndPart(pen) IN StepPen([done EXCEPT !.open = Len(done.coords) + 1], d)

\* A ring of four points or more that ends where it began is closed already.
ClosePart(pen, c) ==
  IF c.count # 1 \/ pen.open = 0 THEN Refuse(pen)
  ELSE LET first == pen.coords[pen.open]
           closed == Len(pen.coords) - pen.open + 1 >= 4 /\ Last(pen.coords) = first
       IN EndPart(IF closed THEN pen ELSE [pen EXCEPT !.coords = Append(@, first)])

\* What a command may not be here: a second MoveTo of a feature of points, a
\* ring begun inside another or run by two LineTos, a line or a ring of points.
OutOfPlace(kind, pen, c) ==
  CASE c.id = MoveTo -> (kind # Line /\ pen.open # 0) \/ (kind # Point /\ c.count # 1)
    [] c.id = LineTo -> kind = Point \/ pen.open = 0 \/ (kind = Polygon /\ pen.lined)
    [] c.id = ClosePath -> kind = Point
    [] OTHER -> TRUE

RunCommand(kind, pen, c) ==
  IF pen.bad \/ c.count = 0 \/ CutShort(c) \/ OutOfPlace(kind, pen, c) THEN Refuse(pen)
  ELSE CASE c.id = MoveTo -> FoldLeft(StartPart, pen, SubSeq(c.points, 1, c.count))
         [] c.id = LineTo -> FoldLeft(StepPen, [pen EXCEPT !.lined = TRUE], SubSeq(c.points, 1, c.count))
         [] c.id = ClosePath -> ClosePart(pen, c)

RunCommands(kind, layer, geometry) ==
  LET pen == FoldLeft(LAMBDA p, c : RunCommand(kind, p, c), NewPen(layer), geometry)
  IN IF kind = Polygon /\ pen.open # 0 THEN Refuse(pen) ELSE EndPart(pen)

-----------------------------------------------------------------------------
(* Rings.                                                                  *)

PartOf(layer, p) == SubSeq(layer.coords, (IF p = 1 THEN 0 ELSE layer.parts[p - 1]) + 1, layer.parts[p])

\* Twice the area a ring runs round, positive for one drawn clockwise.
SignedArea(ring) ==
  LET Before(i) == IF i = 1 THEN Len(ring) ELSE i - 1
  IN IF Len(ring) < 3 THEN 0
     ELSE MapThenSumSet(LAMBDA i : (ring[Before(i)][1] - ring[i][1]) * (ring[Before(i)][2] + ring[i][2]), DOMAIN ring)

\* The rings that start a polygon: the first, and every outline after it.
Outlines(layer, first, end) == {first} \union {p \in first..end : SignedArea(PartOf(layer, p)) > 0}

\* A tile's feature, with the parts first..end, as the features kept of it:
\* each from its outline to the part before the next one.
GroupRings(layer, feature, first, end) ==
  LET outlines == Outlines(layer, first, end)
      n == Cardinality(outlines)
      StartOf(i) == CHOOSE p \in outlines : Cardinality({q \in outlines : q < p}) = i - 1
  IN [i \in 1..n |->
        [feature EXCEPT !.first = StartOf(i), !.end = IF i = n THEN end ELSE StartOf(i + 1) - 1]]

-----------------------------------------------------------------------------
(* Attributes.  A value is [form, v, fields]; a tag is <<key, value>>, two  *)
(* indexes into the layer's tables.                                        *)

NoText == ""
TextOf(value) == IF value.form = "string" THEN value.v ELSE NoText
NumberOf(value) == IF value.form = "number" /\ value.fields = 1 THEN value.v ELSE 0

\* What the last tag of a role carries, if one does.
Tagged(layer, tags, role) ==
  LET of == SelectSeq(tags, LAMBDA t : layer.keys[t[1]] = role)
  IN IF of = <<>> THEN {} ELSE {layer.values[Last(of)[2]]}

Label(layer, tags) ==
  LET Text(role) == {TextOf(v) : v \in Tagged(layer, tags, role)} \ {NoText}
      best == SelectSeq(<<"name_lang", "name:lang", "name", "house_num">>, LAMBDA r : Text(r) # {})
  IN IF best = <<>> THEN NoText ELSE CHOOSE t \in Text(best[1]) : TRUE

Rank(layer, tags) ==
  LET given == SelectSeq(<<"localrank", "scalerank", "rank">>, LAMBDA r : Tagged(layer, tags, r) # {})
  IN IF given = <<>> THEN 0 ELSE Max({0} \union {NumberOf(v) : v \in Tagged(layer, tags, given[1])})

\* The last of a feature's levels that is one.
Level(layer, tags) ==
  LET Number(t) == NumberOf(layer.values[t[2]])
      levels == SelectSeq(tags, LAMBDA t : layer.keys[t[1]] = "admin_level" /\ Number(t) \in 1..11)
  IN IF levels = <<>> THEN 0 ELSE Number(Last(levels))

Attributes(layer, tags) ==
  [class |-> {TextOf(v) : v \in Tagged(layer, tags, "class")},
   name |-> Label(layer, tags), rank |-> Rank(layer, tags), level |-> Level(layer, tags),
   maritime |-> \E v \in Tagged(layer, tags, "maritime") : NumberOf(v) = 1]

\* A tag that is outside the tables, or a value that cannot be read as the
\* text of its role: as a number it would be none.
Untabled(layer, tags) == \E t \in Range(tags) : t[1] \notin DOMAIN layer.keys \/ t[2] \notin DOMAIN layer.values
TextRoles == {"class", "name_lang", "name:lang", "name", "house_num"}
BadTags(layer, tags) ==
  Untabled(layer, tags) \/ \E t \in Range(tags) : layer.keys[t[1]] \in TextRoles /\ layer.values[t[2]].form = "torn"

-----------------------------------------------------------------------------
(* The decoding.                                                           *)

Refused(why) ==
  /\ decoded' = why
  /\ layersLeft' = <<>> /\ featuresLeft' = <<>>
  /\ UNCHANGED <<tileLimits, layersRead, tileKept, featureCount, integerCount>>

Held(layer) ==
  Max({layer.counted.features, Len(layer.features)}) + Max({layer.counted.coords, Len(layer.coords)})
  + Max({layer.counted.parts, Len(layer.parts)})
TileBytes(tile) == FoldSeq(LAMBDA l, n : n + Held(l), 0, tile)

\* The layer that was being read is done: the retained form is measured.
LayerRead ==
  /\ decoded = "" /\ featuresLeft = <<>> /\ layersLeft = <<>>
  /\ decoded' = IF TileBytes(tileKept) > tileLimits.retained THEN "over limit" ELSE "kept"
  /\ UNCHANGED <<tileLimits, layersLeft, layersRead, featuresLeft, tileKept, featureCount, integerCount>>

\* The geometry integers of the tile with the layer being read.
IntegersSoFar(counted) == integerCount + counted.integers

HeaderTooLarge(layer) ==
  \/ layer.extent \notin 1..tileLimits.extent
  \/ Len(layer.keys) > tileLimits.keys \/ Len(layer.values) > tileLimits.values

CountsTooLarge(counted) ==
  \/ IntegersSoFar(counted) > tileLimits.integers
  \/ featureCount + counted.features > tileLimits.features

DecodeLayer ==
  /\ decoded = "" /\ featuresLeft = <<>> /\ layersLeft # <<>>
  /\ LET layer == Head(layersLeft)
         counted == Counted(layer.features)
     IN \/ /\ TileBytes(tileKept) > tileLimits.retained \/ layersRead = tileLimits.layers
           /\ Refused("over limit")
        \/ /\ TileBytes(tileKept) <= tileLimits.retained /\ layersRead < tileLimits.layers
           /\ layer.torn
           /\ Refused("malformed")
        \/ /\ TileBytes(tileKept) <= tileLimits.retained /\ layersRead < tileLimits.layers
           /\ ~layer.torn /\ layer.name \notin DrawnLayers
           /\ layersRead' = layersRead + 1
           /\ layersLeft' = Tail(layersLeft)
           /\ UNCHANGED <<tileLimits, featuresLeft, tileKept, featureCount, integerCount, decoded>>
        \/ /\ TileBytes(tileKept) <= tileLimits.retained /\ layersRead < tileLimits.layers
           /\ ~layer.torn /\ layer.name \in DrawnLayers
           /\ IF layer.version \notin {1, 2} THEN Refused("malformed")
              ELSE IF HeaderTooLarge(layer) THEN Refused("over limit")
              ELSE IF MisCounted(layer.features) THEN Refused("malformed")
              ELSE IF CountsTooLarge(counted) THEN Refused("over limit")
              ELSE /\ layersRead' = layersRead + 1
                   /\ layersLeft' = Tail(layersLeft)
                   /\ featuresLeft' = layer.features
                   /\ integerCount' = IntegersSoFar(counted)
                   /\ tileKept' = Append(tileKept,
                        [name |-> layer.name, keys |-> layer.keys, values |-> layer.values, counted |-> counted,
                         features |-> <<>>, coords |-> <<>>, parts |-> <<>>, untyped |-> 0])
                   /\ UNCHANGED <<tileLimits, featureCount, decoded>>

\* The feature is read: the layer as it is now, and the features made of it.
Add(layer, made) ==
  /\ tileKept' = [tileKept EXCEPT ![Len(tileKept)] = [layer EXCEPT !.features = @ \o made]]
  /\ featuresLeft' = Tail(featuresLeft)
  /\ UNCHANGED <<tileLimits, layersLeft, layersRead, integerCount, decoded>>

\* A polygon is counted once more, while its rings are grouped, than it adds.
DecodeFeature ==
  /\ decoded = "" /\ featuresLeft # <<>>
  /\ LET f == Head(featuresLeft)
         layer == Last(tileKept)
         pen == RunCommands(f.kind, layer, f.geometry)
         drawn == [layer EXCEPT !.coords = pen.coords, !.parts = pen.parts]
         first == Len(layer.parts) + 1
         end == Len(drawn.parts)
         feature == [kind |-> f.kind, attributes |-> Attributes(layer, f.tags), first |-> first, end |-> end]
         polygons == GroupRings(drawn, feature, first, end)
     IN CASE featureCount = tileLimits.features -> Refused("over limit")
          [] featureCount < tileLimits.features /\ f.kind = 0 ->
               /\ featureCount' = featureCount + 1
               /\ Add([layer EXCEPT !.untyped = @ + 1], <<>>)
          [] featureCount < tileLimits.features /\ f.kind # 0 ->
               IF f.kind > Polygon \/ BadTags(layer, f.tags) \/ pen.bad THEN Refused("malformed")
               ELSE IF end < first
               THEN featureCount' = featureCount + 1 /\ Add(drawn, <<>>)
               ELSE IF f.kind # Polygon
               THEN featureCount' = featureCount + 1 /\ Add(drawn, <<feature>>)
               ELSE IF featureCount + 1 + Len(polygons) > tileLimits.features
               THEN Refused("over limit")
               ELSE featureCount' = featureCount + Len(polygons) /\ Add(drawn, polygons)

\* Decode and inflate: a body that is not a tile at all ends the decoding
\* before a layer is read.
Opened(body) ==
  CASE body.format \in {"empty", "cut", "torn gzip"} -> "malformed"
    [] body.format \in {"too long", "gzip bomb"} -> "over limit"
    [] body.format = "picture" -> "unsupported"
    [] OTHER -> ""

TileInit ==
  \E body \in TileBodies, limits \in TileLimits :
    /\ tileLimits = limits
    /\ decoded = Opened(body)
    /\ layersLeft = IF Opened(body) = "" THEN body.layers ELSE <<>>
    /\ layersRead = 0 /\ featuresLeft = <<>> /\ tileKept = <<>>
    /\ featureCount = 0 /\ integerCount = 0

TileNext == DecodeLayer \/ DecodeFeature \/ LayerRead

TileSpec == TileInit /\ [][TileNext]_tileVars

-----------------------------------------------------------------------------
(* Properties.                                                             *)

\* Every ending is one the decoder has a name for.
TileTypeOK ==
  /\ decoded \in {"", "kept", "over limit", "malformed", "unsupported"}
  /\ {featureCount, integerCount, layersRead} \subseteq Nat

\* What is decoded never outgrows what was set aside for it by the count:
\* each layer's coordinates and parts fit the slabs (layer.go, geometry.go:
\* the two passes read the same commands by different code).
SlabsAreEnough ==
  \A i \in DOMAIN tileKept :
    /\ Len(tileKept[i].coords) <= tileKept[i].counted.coords
    /\ Len(tileKept[i].parts) <= tileKept[i].counted.parts

\* In a tile that is kept, every part belongs to exactly one feature, in
\* order; every ring ends where it began; and no feature has a second
\* outline (geometry.go, endPart, closePath and groupRings).
EveryPartHasOneFeature ==
  decoded = "kept" =>
    \A i \in DOMAIN tileKept :
      LET layer == tileKept[i]
          fs == layer.features
      IN /\ \A p \in DOMAIN layer.parts : Cardinality({j \in DOMAIN fs : p \in fs[j].first..fs[j].end}) = 1
         /\ \A j \in DOMAIN fs :
              /\ fs[j].first = IF j = 1 THEN 1 ELSE fs[j - 1].end + 1
              /\ fs[j].kind = Polygon =>
                   \A p \in fs[j].first..fs[j].end :
                     LET ring == PartOf(layer, p)
                     IN ring[1] = Last(ring) /\ (SignedArea(ring) > 0 => p = fs[j].first)

\* The limits are the tile's, not a layer's: what was kept of all its layers
\* together stays within them (layer.go, decode and readFeatures).
LimitsHoldAcrossLayers ==
  /\ SumFunction([i \in DOMAIN tileKept |-> tileKept[i].counted.integers]) <= tileLimits.integers
  /\ SumFunction([i \in DOMAIN tileKept |-> Len(tileKept[i].features)]) <= tileLimits.features

\* A tile decodes whole or not at all, within what was counted and allowed
\* (SlabsAreEnough, EveryPartHasOneFeature, LimitsHoldAcrossLayers).
DecodedIsWhole == SlabsAreEnough /\ EveryPartHasOneFeature /\ LimitsHoldAcrossLayers
================================================================================
