----------------------------- MODULE LoopPictures -----------------------------
(***************************************************************************)
(* Radar loops (internal/overlay image.go, timeline.go, classified.go):    *)
(* what a picture is read as, colour by colour; the readings maps share;   *)
(* the frames a refresh keeps; and which picture a moment shows.           *)
(*                                                                         *)
(* OverlayStore has the versions of an overlay; here a version has frames, *)
(* each with a valid time and a file, and a job reads them one by one.     *)
(* A file is its row of colours, a colour a number, and how far two are    *)
(* apart their difference; a decoded picture is its classes, in order.     *)
(***************************************************************************)
EXTENDS Integers, Sequences, FiniteSets, SequencesExt, FiniteSetsExt

CONSTANTS
    LoopMaps,    \* maps sharing one set of readings
    LoopIds,     \* overlay ids
    LoopOffers,  \* images the hosts may hand in
    Files,       \* per file: bytes, colours, and whether it is whole
    Legends,     \* per provider: its table, gradient, and if it is approximate
    Readers,     \* goroutines calling Work
    ImageCap,    \* pixels one picture may have
    SharedCap,   \* pixels the shared readings may hold
    Budgets,     \* what a map's images may hold, as set by its host
    MostFrames,  \* frames a loop may have
    Moments,     \* moments of the timeline
    Ahead,       \* how far ahead of the clock an observed frame may be
    MaxHandIns   \* bound: hand-ins in a behaviour

LoopFrames   == [valid : Nat, gap : BOOLEAN, forecast : BOOLEAN, file : DOMAIN Files]
TableEntries == [colour : Int, value : Int, missing : BOOLEAN]
Images == [frames : Seq(LoopFrames), file : DOMAIN Files, table : Seq(TableEntries),
           exact : BOOLEAN, tolerance : Nat, provider : Nat, kind : Seq(Int)]

ASSUME LoopAssumption ==
    /\ \A n \in {LoopMaps, LoopIds, Readers} : IsFiniteSet(n)
    /\ Moments \subseteq Nat \ {0}
    /\ {ImageCap, SharedCap, MostFrames, Ahead, MaxHandIns} \cup Budgets \subseteq Nat
    /\ LoopOffers \subseteq Images
    /\ \A file \in DOMAIN Files : Files[file].colours \in Seq(Int)
    /\ \A p \in DOMAIN Legends : Legends[p].table \in Seq(TableEntries)

VARIABLES
    wall,      \* the host's clock
    handIns,   \* hand-ins so far
    loops,     \* per map and id: the version set, or NoLoop
    landedPics, \* per map and id: the pictures of it, as they landed
    spares,    \* per map and id: decoded frames a refresh may take, by key
    stands,    \* per map and id: the loop replaced and its pictures
    readings,  \* the readings shared, oldest first: a key and a reading
    sharedHeld, \* the pixels of them, as counted
    readJob,   \* per reader: the loop it reads
    told,      \* per map: warnings not taken
    budget     \* per map: what its images may hold

loopVars == <<wall, handIns, loops, landedPics, spares, stands, readings, sharedHeld,
              readJob, told, budget>>

NoLoop   == [n |-> 0]
NoStand  == [pics |-> <<>>]
NoneRead == [stage |-> "idle"]
Clear    == -1     \* the colour of a pixel with no opacity
NoClass  == -1     \* NoData
Unmatched == -2
Reach    == 2      \* fallbackReach
Slack    == 4      \* fileSlack
NoKey    == <<>>

-----------------------------------------------------------------------------
(* Reading a picture.                                                      *)

Apart(c, d) == IF c < d THEN d - c ELSE c - d
Classify(value, breaks) == Cardinality({i \in DOMAIN breaks : breaks[i] <= value})

\* The entries a colour may stand for: its own, or else the nearest of those
\* within the tolerance, the first of equals.
Matches(how, c) ==
    LET own  == {i \in DOMAIN how.table : how.table[i].colour = c}
        far(i) == Apart(how.table[i].colour, c)
        near == {i \in DOMAIN how.table : how.tolerance > 0 /\ far(i) <= how.tolerance}
        best == {i \in near : \A j \in near : far(i) < far(j) \/ (far(i) = far(j) /\ i <= j)}
    IN  IF own # {} THEN own ELSE best

\* Where a colour falls on a gradient: its nearest stop here.
OnGradient(stops, c) ==
    CHOOSE s \in Range(stops) : \A r \in Range(stops) : Apart(s.colour, c) <= Apart(r.colour, c)

\* class: an entry's, or else a place along the provider's gradient.
ClassOf(how, c) ==
    LET legend == how.provider # 0 /\ Legends[how.provider].approximate
        stops  == IF how.provider = 0 THEN <<>> ELSE Legends[how.provider].gradient
        plain(class, near) == [class |-> class, fell |-> FALSE, near |-> near]
    IN  IF Matches(how, c) # {}
        THEN LET e == how.table[CHOOSE i \in Matches(how, c) : TRUE]
             IN  plain(IF e.missing THEN NoClass ELSE Classify(e.value, how.breaks),
                       e.colour # c /\ ~legend)
        ELSE IF Len(stops) > 1 /\ Apart(OnGradient(stops, c).colour, c) <= Reach
        THEN [class |-> Classify(OnGradient(stops, c).value, how.breaks),
              fell |-> TRUE, near |-> FALSE]
        ELSE plain(Unmatched, FALSE)

\* What a version is read with.
HowOf(img, kind) ==
    [table |-> img.table, provider |-> img.provider, breaks |-> kind,
     tolerance |-> IF img.exact THEN 0 ELSE img.tolerance]

\* readClasses, pixel and the report of them.
ReadingOf(how, file) ==
    LET row == Files[file].colours
        seenAs(i) == IF row[i] = Clear THEN [class |-> NoClass, fell |-> FALSE, near |-> FALSE]
                     ELSE ClassOf(how, row[i])
        count(P(_)) == Cardinality({i \in DOMAIN row : P(seenAs(i))})
    IN  [classes |-> [i \in DOMAIN row |->
            IF seenAs(i).class = Unmatched THEN NoClass ELSE seenAs(i).class],
         unmatched |-> count(LAMBDA r : r.class = Unmatched),
         fallback  |-> count(LAMBDA r : r.fell),
         near      |-> count(LAMBDA r : r.near)]

-----------------------------------------------------------------------------
(* What is refused.                                                        *)

IsLoop(img)   == img.frames # <<>>
PicturesOf(img) == IF IsLoop(img) THEN {f.file : f \in {g \in Range(img.frames) : ~g.gap}}
                   ELSE {img.file}

checkPNG(file) ==
    LET pixels == Len(Files[file].colours)
    IN  /\ Files[file].headed
        /\ pixels > 0 /\ pixels <= ImageCap
        /\ Files[file].bytes <= 4 * pixels + Slack

checkPictures(img) ==
    /\ \A i \in 1..(Len(img.frames) - 1) : img.frames[i].valid < img.frames[i + 1].valid
    /\ \A f \in Range(img.frames) : f.valid # 0
    /\ PicturesOf(img) # {}
    /\ \A file \in PicturesOf(img) : checkPNG(file)

CheckTable(table) ==
    LET valued == SelectSeq(table, LAMBDA e : ~e.missing)
    IN  /\ \A i, j \in DOMAIN table : table[i].colour = table[j].colour => i = j
        /\ \A i \in 1..(Len(valued) - 1) : valued[i].value <= valued[i + 1].value
        /\ valued # <<>>

\* The copy kept: a host's own table is the host's, whatever provider is named.
Copied(img) ==
    IF img.table # <<>> THEN [img EXCEPT !.provider = 0]
    ELSE IF img.provider \in DOMAIN Legends
         THEN [img EXCEPT !.table = Legends[img.provider].table]
         ELSE img

Allowed(img) ==
    /\ Len(img.frames) <= MostFrames
    /\ img.table = <<>> => img.provider = 0 \/ img.provider \in DOMAIN Legends
    /\ checkPictures(img)
    /\ CheckTable(Copied(img).table)

CheckFrameTimes(img) == wall = 0 \/ \A f \in Range(img.frames) : f.forecast \/ f.valid <= wall + Ahead

\* A file and its pixels, for each frame with a picture.
ImageCharge(img) ==
    LET one(file) == Files[file].bytes + Len(Files[file].colours)
    IN  IF IsLoop(img)
        THEN FoldLeft(LAMBDA sum, f : IF f.gap THEN sum ELSE sum + one(f.file), 0, img.frames)
        ELSE one(img.file)

SetOn(m) == {id \in LoopIds : loops[m][id] # NoLoop}
ImageUseOf(m, without) ==
    sharedHeld + MapThenSumSet(LAMBDA id : ImageCharge(loops[m][id].img), SetOn(m) \ {without})
FitsBudget(m, id, img) == ImageUseOf(m, id) + ImageCharge(img) <= budget[m]

-----------------------------------------------------------------------------
(* The pictures of a loop.                                                 *)

Pictured(f) == ~f.gap
Newest(img, among) ==
    LET at == {i \in DOMAIN img.frames : Pictured(img.frames[i]) /\ img.frames[i] \in among}
    IN  IF at = {} THEN 0 ELSE Max(at)

\* shown: right now is the newest observed picture, else the newest.
Shown(img) ==
    IF ~IsLoop(img) THEN 1
    ELSE LET observed == Newest(img, {f \in Range(img.frames) : ~f.forecast})
         IN  IF observed # 0 THEN observed ELSE Newest(img, Range(img.frames))

\* Mutant: a moment on a gap shows the gap's own place.
FrameShownAtGap(img, at) ==
    IF at = 0 \/ ~IsLoop(img) THEN Shown(img)
    ELSE LET early == {i \in DOMAIN img.frames : img.frames[i].valid <= at}
         IN  IF early # {} THEN Max(early)
             ELSE Min({i \in DOMAIN img.frames : Pictured(img.frames[i])})

\* The newest picture no later than the moment, else the oldest there is.
FrameShownAt(img, at) ==
    IF at = 0 \/ ~IsLoop(img) THEN Shown(img)
    ELSE LET early == Newest(img, {f \in Range(img.frames) : f.valid <= at})
         IN  IF early # 0 THEN early ELSE Min({i \in DOMAIN img.frames : Pictured(img.frames[i])})

Ready(pics, i) == i \in DOMAIN pics /\ pics[i].ready
NothingDrawn == [from |-> NoLoop, at |-> 0]

\* Raster and RasterAt: the loop's own picture, or else the stand-in's.
RasterAt(m, id, at) ==
    LET own == loops[m][id]
        old == stands[m][id]
    IN  IF own = NoLoop THEN NothingDrawn
        ELSE IF Ready(landedPics[m][id], FrameShownAt(own.img, at))
        THEN [from |-> own.img, at |-> FrameShownAt(own.img, at)]
        ELSE IF old # NoStand /\ Ready(old.pics, FrameShownAt(old.img, at))
        THEN [from |-> old.img, at |-> FrameShownAt(old.img, at)]
        ELSE NothingDrawn

\* OwnPicture: right now is shown from the version set.
OwnPicture(m, id) ==
    loops[m][id] # NoLoop /\ Ready(landedPics[m][id], Shown(loops[m][id].img))

LoopsOn(m) == {id \in SetOn(m) : IsLoop(loops[m][id].img)}
FramesOn(m) == UNION {Range(loops[m][id].img.frames) : id \in LoopsOn(m)}

\* Timeline: every loop's times; a gap where no loop has a picture.
Timeline(m) ==
    {LET at == {f \in FramesOn(m) : f.valid = t}
     IN  [valid |-> t, gap |-> \A f \in at : f.gap, forecast |-> \E f \in at : f.forecast]
     : t \in {f.valid : f \in FramesOn(m)}}

\* LabelAt: the frame a loop's moment falls on, gaps too; of several loops one
\* whose frame is newest, which of equals being the map's iteration order.
LabelFrame(img, at) ==
    LET early == {i \in DOMAIN img.frames : img.frames[i].valid <= at}
    IN  IF at = 0 \/ early = {} THEN FrameShownAt(img, at)
        ELSE Max(early \cup {FrameShownAt(img, at)})
LabelsAt(m, at) ==
    LET of(id) == LET img == loops[m][id].img IN img.frames[LabelFrame(img, at)]
        all == {of(id) : id \in LoopsOn(m)}
    IN  {[valid |-> f.valid, gap |-> f.gap, forecast |-> f.forecast] :
            f \in {g \in all : \A h \in all : h.valid <= g.valid}}

-----------------------------------------------------------------------------
(* The host's calls.                                                       *)

\* A count of pixels replaces the last one of its kind.
Warned(set, kind, id, count) ==
    IF count = 0 THEN set
    ELSE {w \in set : w.kind # kind \/ w.id # id} \cup {[kind |-> kind, id |-> id, count |-> count]}

\* spareFramesLocked: only a loop keeps the frames of what it replaces.
SpareFrames(m, id, img) ==
    IF ~IsLoop(img) THEN {}
    ELSE spares[m][id] \cup {p \in Range(landedPics[m][id]) : p.ready /\ p.key # NoKey}

\* standPicturesLocked: a stand-in stays while nothing newer landed.
StandPictures(m, id) ==
    IF loops[m][id] = NoLoop THEN NoStand
    ELSE IF landedPics[m][id] # <<>>
         THEN [img |-> loops[m][id].img, pics |-> landedPics[m][id]]
         ELSE stands[m][id]

HandInLoop(m, id, img) ==
    /\ handIns < MaxHandIns
    /\ CheckFrameTimes(img)
    /\ FitsBudget(m, id, img)
    /\ Allowed(img)
    /\ handIns' = handIns + 1
    /\ spares' = [spares EXCEPT ![m][id] = SpareFrames(m, id, img)]
    /\ stands' = [stands EXCEPT ![m][id] = StandPictures(m, id)]
    /\ landedPics' = [landedPics EXCEPT ![m][id] = <<>>]
    /\ loops' = [loops EXCEPT ![m][id] = [n |-> handIns', img |-> Copied(img)]]
    /\ UNCHANGED <<wall, readings, sharedHeld, readJob, told, budget>>

\* Set refuses a frame ahead of the clock by itself; the store warns of the rest.
RefuseLoop(m, id, img) ==
    /\ handIns < MaxHandIns
    /\ CheckFrameTimes(img)
    /\ ~FitsBudget(m, id, img) \/ ~Allowed(img)
    /\ handIns' = handIns + 1
    /\ told' = [told EXCEPT ![m] = Warned(@, "refused", id, 1)]
    /\ UNCHANGED <<wall, loops, landedPics, spares, stands, readings, sharedHeld, readJob, budget>>

DropLoop(m, id) ==
    /\ loops[m][id] # NoLoop
    /\ loops' = [loops EXCEPT ![m][id] = NoLoop]
    /\ landedPics' = [landedPics EXCEPT ![m][id] = <<>>]
    /\ spares' = [spares EXCEPT ![m][id] = {}]
    /\ stands' = [stands EXCEPT ![m][id] = NoStand]
    /\ UNCHANGED <<wall, handIns, readings, sharedHeld, readJob, told, budget>>

\* DropSpares, and Empty after it: what is shown stays.
DropSpareFrames(m) ==
    /\ spares' = [spares EXCEPT ![m] = [id \in LoopIds |-> {}]]
    /\ readings' = <<>> /\ sharedHeld' = 0
    /\ UNCHANGED <<wall, handIns, loops, landedPics, stands, readJob, told, budget>>

\* Lowering the budget drops nothing.
SetBudget(m, bytes) ==
    /\ budget' = [budget EXCEPT ![m] = bytes]
    /\ UNCHANGED <<wall, handIns, loops, landedPics, spares, stands, readings, sharedHeld,
                   readJob, told>>

TakeLoopWarnings(m) ==
    /\ told' = [told EXCEPT ![m] = {}]
    /\ UNCHANGED <<wall, handIns, loops, landedPics, spares, stands, readings, sharedHeld,
                   readJob, budget>>

TickWall ==
    /\ wall < Max(Moments)
    /\ wall' = wall + 1
    /\ UNCHANGED <<handIns, loops, landedPics, spares, stands, readings, sharedHeld, readJob,
                   told, budget>>

-----------------------------------------------------------------------------
(* A preparation, frame by frame.                                          *)

\* Mutant: what an image is matched with is taken to be its table alone.
KeyByTable(img, file, kind) == <<file, img.table, kind>>

\* keyOf: the file, and everything its reading depends on.
KeyOf(img, file, kind) == <<file, img.table, kind, img.tolerance, img.exact, img.provider>>
FrameKey(img, f) == <<KeyOf(img, f.file, img.kind), f.valid>>

Job(r)  == readJob[r]
Busy(r) == readJob[r] # NoneRead
NextFile(j) == IF IsLoop(j.img) THEN j.img.frames[Len(j.got) + 1].file ELSE j.img.file
SharedKey(j) == KeyOf(j.img, NextFile(j), j.img.kind)
SizeOf(reading) == Len(reading.classes)

ReadLoop(r, m, id) ==
    /\ ~Busy(r)
    /\ loops[m][id] # NoLoop /\ ~OwnPicture(m, id)
    /\ readJob' = [readJob EXCEPT ![r] =
          [stage |-> "frame", map |-> m, id |-> id, n |-> loops[m][id].n,
           img |-> loops[m][id].img, got |-> <<>>]]
    /\ UNCHANGED <<wall, handIns, loops, landedPics, spares, stands, readings, sharedHeld, told, budget>>

Total(j) == IF IsLoop(j.img) THEN Len(j.img.frames) ELSE 1
Got(r, pic) == readJob' = [readJob EXCEPT ![r] =
                  [Job(r) EXCEPT !.stage = "frame", !.got = Append(Job(r).got, pic)]]
GapPicture == [key |-> NoKey, reading |-> <<>>, ready |-> FALSE]
Picture(j, reading) ==
    [key |-> IF IsLoop(j.img) THEN FrameKey(j.img, j.img.frames[Len(j.got) + 1]) ELSE NoKey,
     reading |-> reading, ready |-> TRUE]

\* A gap is passed; a spare frame is taken; a reading another map made is
\* taken; or the file has to be decoded.
LookForFrame(r) ==
    LET j == Job(r)
        spare == {p \in spares[j.map][j.id] : p.key = FrameKey(j.img, j.img.frames[Len(j.got) + 1])}
        shared == {e \in Range(readings) : e.key = SharedKey(j)}
    IN  /\ Busy(r) /\ j.stage = "frame" /\ Len(j.got) < Total(j)
        /\ IF IsLoop(j.img) /\ j.img.frames[Len(j.got) + 1].gap THEN Got(r, GapPicture)
           ELSE IF IsLoop(j.img) /\ spare # {} THEN Got(r, CHOOSE p \in spare : TRUE)
           ELSE IF shared # {} THEN Got(r, Picture(j, (CHOOSE e \in shared : TRUE).reading))
           ELSE readJob' = [readJob EXCEPT ![r].stage = "decode"]
        /\ UNCHANGED <<wall, handIns, loops, landedPics, spares, stands, readings, sharedHeld, told, budget>>

PixelsOf(shared, S) == MapThenSumSet(LAMBDA i : SizeOf(shared[i].reading), S)

\* Keep: the oldest go until there is room; one larger than the cap is not kept.
Keep(shared, held, key, reading) ==
    LET size == SizeOf(reading)
        left(n) == held - PixelsOf(shared, 1..n)
        gone == Min({n \in 0..Len(shared) : n = Len(shared) \/ left(n) + size <= SharedCap})
    IN  IF size = 0 \/ size > SharedCap \/ \E e \in Range(shared) : e.key = key
        THEN [readings |-> shared, held |-> held]
        ELSE [readings |-> Append(SubSeq(shared, gone + 1, Len(shared)),
                                  [key |-> key, reading |-> reading]),
              held |-> left(gone) + size]

\* rasterise, and Keep: other jobs ran since the shared readings were asked.
DecodeFrame(r) ==
    LET j == Job(r)
        reading == ReadingOf(HowOf(j.img, j.img.kind), NextFile(j))
        kept == Keep(readings, sharedHeld, SharedKey(j), reading)
    IN  /\ Busy(r) /\ j.stage = "decode"
        /\ Files[NextFile(j)].whole
        /\ Got(r, Picture(j, reading))
        /\ readings' = kept.readings /\ sharedHeld' = kept.held
        /\ UNCHANGED <<wall, handIns, loops, landedPics, spares, stands, told, budget>>

\* A file that does not decode, or a Work call called off between two frames.
ReadLoopFails(r) ==
    /\ Busy(r)
    /\ \/ Job(r).stage = "decode" /\ ~Files[NextFile(Job(r))].whole
       \/ Job(r).stage = "frame" /\ IsLoop(Job(r).img) /\ Len(Job(r).got) < Total(Job(r))
    /\ readJob' = [readJob EXCEPT ![r] = NoneRead]
    /\ UNCHANGED <<wall, handIns, loops, landedPics, spares, stands, readings, sharedHeld, told, budget>>

\* The warnings of the pictures that landed.
CountedOn(m, id, pics) ==
    LET count(field(_)) == FoldLeft(LAMBDA sum, p : IF p.ready THEN sum + field(p.reading) ELSE sum, 0, pics)
    IN  Warned(Warned(Warned(told[m],
            "unmatched", id, count(LAMBDA d : d.unmatched)),
            "fallback", id, count(LAMBDA d : d.fallback)),
            "near", id, count(LAMBDA d : d.near))

\* keepPictures: of a version replaced meanwhile nothing is kept.
LandLoop(r) ==
    LET j == Job(r)
    IN  /\ Busy(r) /\ j.stage = "frame" /\ Len(j.got) = Total(j)
        /\ readJob' = [readJob EXCEPT ![r] = NoneRead]
        /\ IF loops[j.map][j.id].n # j.n
           THEN UNCHANGED <<landedPics, stands, spares, told>>
           ELSE /\ landedPics' = [landedPics EXCEPT ![j.map][j.id] = j.got]
                /\ stands' = [stands EXCEPT ![j.map][j.id] = NoStand]
                /\ spares' = [spares EXCEPT ![j.map][j.id] = {}]
                /\ told' = [told EXCEPT ![j.map] = CountedOn(j.map, j.id, j.got)]
        /\ UNCHANGED <<wall, handIns, loops, readings, sharedHeld, budget>>

LoopInit ==
    LET empty(v) == [m \in LoopMaps |-> [id \in LoopIds |-> v]]
    IN  /\ wall = 0 /\ handIns = 0 /\ readings = <<>> /\ sharedHeld = 0
        /\ loops = empty(NoLoop) /\ landedPics = empty(<<>>)
        /\ spares = empty({}) /\ stands = empty(NoStand)
        /\ readJob = [r \in Readers |-> NoneRead]
        /\ told = [m \in LoopMaps |-> {}]
        /\ budget = [m \in LoopMaps |-> Max(Budgets)]

LoopNext ==
    \/ TickWall
    \/ \E m \in LoopMaps :
          \/ TakeLoopWarnings(m) \/ DropSpareFrames(m)
          \/ \E bytes \in Budgets : SetBudget(m, bytes)
          \/ \E id \in LoopIds :
                \/ DropLoop(m, id)
                \/ \E img \in LoopOffers : HandInLoop(m, id, img) \/ RefuseLoop(m, id, img)
                \/ \E r \in Readers : ReadLoop(r, m, id)
    \/ \E r \in Readers : LookForFrame(r) \/ DecodeFrame(r) \/ ReadLoopFails(r) \/ LandLoop(r)

LoopSpec == LoopInit /\ [][LoopNext]_loopVars

-----------------------------------------------------------------------------
(* Properties.                                                             *)

LoopTypeOK ==
    /\ wall \in 0..Max(Moments) /\ handIns \in 0..MaxHandIns /\ sharedHeld \in 0..SharedCap
    /\ \A m \in LoopMaps, id \in LoopIds :
          /\ loops[m][id] # NoLoop => loops[m][id].n \in 1..handIns
          /\ Len(landedPics[m][id]) \in {0, IF loops[m][id] = NoLoop THEN 0
                                             ELSE Total([img |-> loops[m][id].img])}
    /\ budget \in [LoopMaps -> Budgets]

\* Whatever was taken from a loop replaced or from another map, every picture
\* a loop has is what its own file reads as with its own table, tolerance,
\* provider and type (ImageKey, frameKey, spareFrame, Classified.Read).
PicturesAreTheirReading ==
    \A m \in LoopMaps, id \in LoopIds : \A i \in DOMAIN landedPics[m][id] :
        LET img == loops[m][id].img
            file == IF IsLoop(img) THEN img.frames[i].file ELSE img.file
        IN  landedPics[m][id][i].ready =>
                landedPics[m][id][i].reading = ReadingOf(HowOf(img, img.kind), file)

\* The shared readings count what they hold, each once, and never more than
\* their cap, though two maps may be reading the same file at once (Keep).
SharedCountsItself ==
    /\ sharedHeld <= SharedCap
    /\ sharedHeld = PixelsOf(readings, DOMAIN readings)
    /\ \A i, j \in DOMAIN readings : readings[i].key = readings[j].key => i = j

\* Once a loop's pictures landed it is drawn at every moment, across its gaps
\* and while a refresh of it is read, and what is drawn at a moment is never
\* of a later one while an earlier picture is held (RasterAt, frameShownAt).
LoopsHoldTheMoment ==
    \A m \in LoopMaps, id \in LoopIds, at \in Moments :
        LET got == RasterAt(m, id, at)
        IN  /\ landedPics[m][id] # <<>> \/ stands[m][id] # NoStand => got # NothingDrawn
            /\ got # NothingDrawn /\ IsLoop(got.from) /\ got.from.frames[got.at].valid > at =>
                  \A i \in DOMAIN got.from.frames :
                      got.from.frames[i].gap \/ got.from.frames[i].valid > at

\* What a moment says of itself is one thing, and is the timeline's: a gap
\* where no loop has a picture (LabelAt, Timeline).
LabelIsTheMoments ==
    \A m \in LoopMaps, at \in Moments :
        \A l \in LabelsAt(m, at) : l.gap => \E t \in Timeline(m) : t.valid = l.valid /\ t.gap

\* A stand-in is made of spare frames, so that nothing more is held by it
\* (standPicturesLocked).
StandsAreSpares ==
    \A m \in LoopMaps, id \in LoopIds :
        stands[m][id] # NoStand => {p \in Range(stands[m][id].pics) : p.ready} \subseteq spares[m][id]

\* What is shared between loops and maps is true of each: its pictures and the
\* count of what the readings hold (PicturesAreTheirReading, SharedCountsItself).
SharedReadingsAreTrue == PicturesAreTheirReading /\ SharedCountsItself
=============================================================================
