----------------------------- MODULE OverlayStore -----------------------------
(***************************************************************************)
(* The overlays of one map (internal/overlay, and overlays.go above it):   *)
(* the host hands overlays in, again and away; jobs prepare what they hold *)
(* outside the map's lock; every Render notes the work, picks what each    *)
(* overlay is drawn from, and draws or keeps the last frame.               *)
(*                                                                         *)
(* The host's calls hold the map's lock and exclude one another.  Work     *)
(* calls do not: a job holds the store's lock for one step at a time.  The *)
(* map shares no pictures with another, every overlay is drawn at every    *)
(* moment, and what is only told (warnings) or looked up (boxes, labels)   *)
(* is left out.                                                            *)
(***************************************************************************)
EXTENDS Integers, Sequences, FiniteSets, FiniteSetsExt, SequencesExt

CONSTANTS
    Ids,            \* overlay ids
    Offers,         \* overlays the host may hand in
    Buckets,        \* zoom buckets, coarse to fine
    Workers,        \* goroutines calling Work
    StoreVertices,  \* the vertices all overlays may have
    ShapeBytes,     \* the shape cache's cap, in vertices
    Budget,         \* what images and grids may hold
    MaxSets,        \* bound: hand-ins in a behaviour
    CallsOff,       \* a Work call's own context may end
    Sheds           \* the queue may be at its limit

\* An offer: its kind (a loop is an image of several frames), its vertices,
\* the size of its prepared form per bucket, its charge on the budget, and
\* whether a picture of it does not decode.
ASSUME OverlayAssumption ==
    /\ IsFiniteSet(Ids) /\ IsFiniteSet(Workers)
    /\ Buckets \subseteq Nat /\ IsFiniteSet(Buckets)
    /\ {StoreVertices, ShapeBytes, Budget, MaxSets} \subseteq Nat
    /\ {CallsOff, Sheds} \subseteq BOOLEAN
    /\ \A o \in Offers :
          /\ o.kind \in {"shape", "grid", "image", "loop"}
          /\ o.vertices \in Nat /\ o.charge \in Nat /\ o.bad \in BOOLEAN
          /\ o.form \in [Buckets -> Nat]

VARIABLES
    made,       \* every version handed in: its id and the offer
    readers,    \* per version: the jobs reading it
    retired,    \* versions replaced or removed
    retiring,   \* per id: the readers of its retired versions, as counted
    current,    \* per id: its version, 0 when not set
    order,      \* the ids set, in the order first set
    vertices,   \* the vertices of what is set, as counted
    freed,      \* history: the versions the host was told are free
    prepared,   \* per id and bucket: the version a form was prepared from, or 0
    stand,      \* the same of the forms that stand in for a replacement's
    used,       \* the forms prepared, the one used longest ago first
    shapeHeld,  \* the bytes of all forms, as counted
    fromMemory, \* ids whose form is larger than the whole cap
    fields,     \* per id: the version its prepared grid is of, or 0
    pictures,   \* per id: the version its decoded pictures are of, or 0
    spare,      \* per id: the versions whose decoded frames a refresh may take
    standPics,  \* per id: the version whose pictures stand in, or 0
    bucket,     \* the bucket the view draws at, NoView before the first Render
    waiting,    \* preparations in the queue: pairs of id and bucket
    job,        \* per worker: the preparation inside its Work call
    host,       \* "out" of the map, or how far Render has come
    missing,    \* ids the Render inside the map found nothing ready of
    picked,     \* per id: what the Render inside the map draws
    frame,      \* per id: what the last frame shows
    frameAt,    \* the bucket it was drawn at
    moved,      \* the overlays' version moved since the frame held was drawn
    shut        \* the map is closed

store == <<made, readers, retired, retiring, current, order, vertices, freed>>
cache == <<prepared, stand, used, shapeHeld, fromMemory>>
kept  == <<fields, pictures, spare, standPics>>
drawn == <<host, missing, picked, frame, frameAt, bucket>>
vars  == <<store, cache, kept, drawn, moved, waiting, job, shut>>

NoView  == -1
NoForms == [b \in Buckets |-> 0]
Nothing == [path |-> "none", of |-> 0]
Idle    == [stage |-> "idle", key |-> <<>>, of |-> 0, off |-> FALSE]

Offer(v) == made[v].offer
Held     == {id \in Ids : current[id] # 0}
IsImage(v) == v # 0 /\ Offer(v).kind \in {"image", "loop"}
IsLoop(v)  == v # 0 /\ Offer(v).kind = "loop"

-----------------------------------------------------------------------------
(* The shape cache.                                                        *)

FormsAt(forms) == {b \in Buckets : forms[b] # 0}

\* The forms of some ids, each with its bucket, and their bytes.
FormsOf(form, ids) == {e \in ids \X Buckets : form[e[1]][e[2]] # 0}
Bytes(form, S)     == MapThenSumSet(LAMBDA e : Offer(form[e[1]][e[2]]).form[e[2]], S)

Gap(a, b) == IF a < b THEN b - a ELSE a - b

\* Nearest: a tie goes to the finer.
Nearest(want, have) ==
    CHOOSE b \in have : \A c \in have :
        Gap(b, want) < Gap(c, want) \/ (Gap(b, want) = Gap(c, want) /\ b >= c)

Sooner(uses, e, f) == \E i, j \in DOMAIN uses : i < j /\ uses[i] = e /\ uses[j] = f

\* Mutant: one form goes, however far over the cap the rest is.
IsShedOnce(shed, form, held, uses, at) ==
    LET spares == {e \in FormsOf(form, Ids) : e[2] # at}
    IN  /\ shed \subseteq spares
        /\ IF held > ShapeBytes /\ spares # {} THEN Cardinality(shed) = 1 ELSE shed = {}
        /\ \A e \in shed, f \in spares \ shed : Sooner(uses, e, f)

\* The spare forms a settling sheds: the one used longest ago first, and none
\* once the rest fits.
IsShed(shed, form, held, uses, at) ==
    LET spares == {e \in FormsOf(form, Ids) : e[2] # at}
        left(S) == held - Bytes(form, S)
    IN  /\ shed \subseteq spares
        /\ \A e \in shed, f \in spares \ shed : Sooner(uses, e, f)
        /\ shed = spares \/ left(shed) <= ShapeBytes
        /\ \A e \in shed : (\A f \in shed \ {e} : Sooner(uses, f, e)) =>
               left(shed \ {e}) > ShapeBytes

settleLocked(form, held, uses, at) ==
    \E shed \in SUBSET FormsOf(form, Ids) :
        /\ IsShed(shed, form, held, uses, at)
        /\ prepared' = [id \in Ids |-> [b \in Buckets |->
                          IF <<id, b>> \in shed THEN 0 ELSE form[id][b]]]
        /\ shapeHeld' = held - Bytes(form, shed)
        /\ used' = SelectSeq(uses, LAMBDA e : e \notin shed)

\* standInLocked and dropPreparedLocked: what becomes of an id's prepared
\* forms when it is handed in again or removed.
standInLocked(id, keep) ==
    LET stays == keep /\ FormsAt(prepared[id]) # {}
    IN  /\ stand' = [stand EXCEPT ![id] = IF stays THEN prepared[id] ELSE NoForms]
        /\ shapeHeld' = shapeHeld - Bytes(stand, FormsOf(stand, {id}))
                          - (IF stays THEN 0 ELSE Bytes(prepared, FormsOf(prepared, {id})))
        /\ prepared' = [prepared EXCEPT ![id] = NoForms]
        /\ used' = SelectSeq(used, LAMBDA e : e[1] # id)
        /\ fromMemory' = fromMemory \ {id}
        /\ fields' = [fields EXCEPT ![id] = 0]
        /\ pictures' = [pictures EXCEPT ![id] = 0]

-----------------------------------------------------------------------------
(* What an overlay is drawn from, as draw asks.                            *)

Drawn(id) ==
    LET own == FormsAt(prepared[id])
        old == FormsAt(stand[id])
    IN  IF own # {} THEN [path |-> "cached", of |-> prepared[id][Nearest(bucket, own)]]
        ELSE IF id \in fromMemory THEN [path |-> "memory", of |-> current[id]]
        ELSE IF old # {} THEN [path |-> "stand", of |-> stand[id][Nearest(bucket, old)]]
        ELSE Nothing

RasterAt(id) ==
    IF pictures[id] # 0 THEN [path |-> "picture", of |-> pictures[id]]
    ELSE IF standPics[id] # 0 THEN [path |-> "picture", of |-> standPics[id]]
    ELSE Nothing

Look(id) ==
    IF current[id] = 0 THEN Nothing
    ELSE IF fields[id] # 0 THEN [path |-> "field", of |-> fields[id]]
    ELSE IF RasterAt(id) # Nothing THEN RasterAt(id)
    ELSE Drawn(id)

\* Asking for a form moves it used.
Used ==
    LET ids == SelectSeq(order, LAMBDA id : FormsAt(prepared[id]) # {})
        read == [i \in DOMAIN ids |-> <<ids[i], Nearest(bucket, FormsAt(prepared[ids[i]]))>>]
    IN  SelectSeq(used, LAMBDA e : e \notin Range(read)) \o read

-----------------------------------------------------------------------------
(* The host's calls.                                                       *)

Outside == host = "out" /\ ~shut

\* Mutant: a version replaced is said to be free though it is read.
RetireAtOnce(id) ==
    /\ retired' = retired \cup {current[id]}
    /\ freed' = freed \cup {current[id]}
    /\ retiring' = [retiring EXCEPT ![id] = @ + readers[current[id]]]

\* retireLocked: a version is free at once unless something reads it.
retireLocked(id) ==
    LET v == current[id]
    IN  /\ retired' = retired \cup {v}
        /\ IF readers[v] = 0
           THEN freed' = freed \cup {v} /\ UNCHANGED retiring
           ELSE retiring' = [retiring EXCEPT ![id] = @ + readers[v]] /\ UNCHANGED freed

VerticesOf(v) == IF v = 0 THEN 0 ELSE Offer(v).vertices
ChargeOf(v)   == IF v = 0 THEN 0 ELSE Offer(v).charge
ImageUse      == MapThenSumSet(LAMBDA id : ChargeOf(current[id]), Held)

Fits(id, o) ==
    /\ o.charge = 0 \/ ImageUse + o.charge - ChargeOf(current[id]) <= Budget
    /\ vertices - VerticesOf(current[id]) + o.vertices <= StoreVertices

\* Only a shape that no run index is built for leaves a stand-in.
Indexed(o) == o.vertices > ShapeBytes

\* spareFramesLocked: a loop handed in again keeps the frames decoded.
spareFramesLocked(id, o) ==
    spare' = [spare EXCEPT ![id] =
        IF o.kind # "loop" THEN {}
        ELSE @ \cup {v \in {pictures[id]} : IsLoop(v)}]

\* Mutant: a second refresh before any work forgets what stands in.
StandPicturesOnce(id, o) ==
    standPics' = [standPics EXCEPT ![id] =
        IF ~IsImage(current[id]) \/ o.kind \notin {"image", "loop"} THEN 0 ELSE pictures[id]]

\* standPicturesLocked: a stand-in held stays while no newer one landed.
standPicturesLocked(id, o) ==
    standPics' = [standPics EXCEPT ![id] =
        IF ~IsImage(current[id]) \/ o.kind \notin {"image", "loop"} THEN 0
        ELSE IF pictures[id] # 0 THEN pictures[id] ELSE @]

HandIn(id, o) ==
    /\ Outside
    /\ Len(made) < MaxSets
    /\ Fits(id, o)
    /\ IF current[id] = 0
       THEN order' = Append(order, id) /\ UNCHANGED <<retired, retiring, freed>>
       ELSE retireLocked(id) /\ UNCHANGED order
    /\ made' = Append(made, [id |-> id, offer |-> o])
    /\ readers' = Append(readers, 0)
    /\ vertices' = vertices - VerticesOf(current[id]) + o.vertices
    /\ spareFramesLocked(id, o)
    /\ standPicturesLocked(id, o)
    /\ standInLocked(id, ~Indexed(o))
    /\ current' = [current EXCEPT ![id] = Len(made) + 1]
    /\ moved' = TRUE
    /\ UNCHANGED <<drawn, waiting, job, shut>>

Drop(id) ==
    /\ Outside
    /\ current[id] # 0
    /\ retireLocked(id)
    /\ current' = [current EXCEPT ![id] = 0]
    /\ order' = SelectSeq(order, LAMBDA i : i # id)
    /\ vertices' = vertices - VerticesOf(current[id])
    /\ spare' = [spare EXCEPT ![id] = {}]
    /\ standPics' = [standPics EXCEPT ![id] = 0]
    /\ standInLocked(id, FALSE)
    /\ moved' = TRUE
    /\ UNCHANGED <<made, readers, drawn, waiting, job, shut>>

\* The spare frames are dropped by Purge, which drops nothing shown.
DropSpares ==
    /\ Outside
    /\ spare' = [id \in Ids |-> {}]
    /\ UNCHANGED <<store, cache, fields, pictures, standPics, drawn, moved, waiting, job, shut>>

VersionsOf(id) == {v \in DOMAIN made : made[v].id = id}

\* The host asks, and takes a no for leave to write over the old geometry.
InUse(id) ==
    /\ Outside
    /\ retiring[id] = 0
    /\ freed' = freed \cup (VersionsOf(id) \cap retired)
    /\ UNCHANGED <<made, readers, retired, retiring, current, order, vertices,
                   cache, kept, drawn, moved, waiting, job, shut>>

Flying(w) == job[w].stage # "idle"
Dropped(j) == IF j.stage # "idle" THEN [j EXCEPT !.off = TRUE] ELSE j

\* Close drops every overlay and answers how many calls are still inside: the
\* host takes a zero, from this call or a later one, for leave to write.
Close ==
    /\ host = "out"
    /\ freed' = IF \E w \in Workers : Flying(w) THEN freed ELSE DOMAIN made
    /\ shut' = TRUE
    /\ retired' = retired \cup {current[id] : id \in Held}
    /\ retiring' = [id \in Ids |-> retiring[id] +
                      (IF current[id] = 0 THEN 0 ELSE readers[current[id]])]
    /\ current' = [id \in Ids |-> 0]
    /\ order' = <<>> /\ vertices' = 0
    /\ prepared' = [id \in Ids |-> NoForms] /\ stand' = [id \in Ids |-> NoForms]
    /\ used' = <<>> /\ shapeHeld' = 0 /\ fromMemory' = {}
    /\ fields' = [id \in Ids |-> 0] /\ pictures' = [id \in Ids |-> 0]
    /\ spare' = [id \in Ids |-> {}] /\ standPics' = [id \in Ids |-> 0]
    /\ waiting' = {}
    /\ job' = [w \in Workers |-> Dropped(job[w])]
    /\ UNCHANGED <<made, readers, drawn, moved>>

-----------------------------------------------------------------------------
(* Render.                                                                 *)

\* note: the queue keeps what the view still wants and cancels what flies
\* unwanted; the shape cache learns the bucket in view.
RenderNotes(b) ==
    LET wanted(key) == key[2] = b /\ key[1] \in Held
    IN  /\ Outside
        /\ host' = "asking"
        /\ bucket' = b
        /\ settleLocked(prepared, shapeHeld, used, b)
        /\ waiting' = {key \in waiting : wanted(key)}
        /\ job' = [w \in Workers |->
              IF Flying(w) /\ ~wanted(job[w].key) THEN Dropped(job[w]) ELSE job[w]]
        /\ UNCHANGED <<store, stand, fromMemory, kept, missing, picked, frame, frameAt,
                       moved, shut>>

\* overlayWork: what the view wants to draw and has not got, the question ...
RenderAsks ==
    /\ host = "asking"
    /\ host' = "adding"
    /\ missing' = {id \in Held : prepared[id][bucket] = 0 /\ fields[id] = 0 /\ pictures[id] = 0}
    /\ used' = Used
    /\ UNCHANGED <<store, prepared, stand, shapeHeld, fromMemory, kept, picked, frame,
                   frameAt, bucket, moved, waiting, job, shut>>

\* ... and the adding, which joins what flies already, cancelled or not.
RenderAdds ==
    /\ host = "adding"
    /\ host' = "noted"
    /\ missing' = {}
    /\ waiting' = waiting \cup ({<<id, bucket>> : id \in missing}
                                 \ {job[w].key : w \in {x \in Workers : Flying(x)}})
    /\ UNCHANGED <<store, cache, kept, picked, frame, frameAt, bucket, moved, job, shut>>

\* draw: each overlay's picture is chosen, a form read is marked used.
RenderPicks ==
    /\ host = "noted"
    /\ host' = "picked"
    /\ picked' = [id \in Ids |-> Look(id)]
    /\ used' = Used
    /\ UNCHANGED <<store, prepared, stand, shapeHeld, fromMemory, kept, missing, frame,
                   frameAt, bucket, moved, waiting, job, shut>>

\* sameOverlays compares the version and how many of each class are drawn.
Class(look) == IF look.path = "stand" THEN "cached" ELSE look.path
Alike(f, g) == \A path \in {"cached", "memory", "field", "picture"} :
    Cardinality({id \in Ids : Class(f[id]) = path}) = Cardinality({id \in Ids : Class(g[id]) = path})

RenderDraws ==
    /\ host = "picked"
    /\ host' = "out"
    /\ frame' = IF ~moved /\ frameAt = bucket /\ Alike(picked, frame) THEN frame ELSE picked
    /\ frameAt' = bucket
    /\ moved' = FALSE
    /\ picked' = [id \in Ids |-> Nothing]
    /\ UNCHANGED <<store, cache, kept, missing, bucket, waiting, job, shut>>

-----------------------------------------------------------------------------
(* A Work call, which holds no lock between its steps.                     *)

Take(w) ==
    /\ ~shut
    /\ job[w].stage = "idle"
    /\ \E key \in waiting :
          /\ waiting' = waiting \ {key}
          /\ job' = [job EXCEPT ![w] = [stage |-> "taken", key |-> key, of |-> 0, off |-> FALSE]]
    /\ UNCHANGED <<store, cache, kept, drawn, moved, shut>>

\* Run: cancelled or removed meanwhile, nothing; else a hold on the geometry.
Begin(w) ==
    LET v == current[job[w].key[1]]
    IN  /\ job[w].stage = "taken"
        /\ IF job[w].off \/ v = 0
           THEN /\ job' = [job EXCEPT ![w].stage = "read"]
                /\ UNCHANGED readers
           ELSE /\ job' = [job EXCEPT ![w].stage = "reading", ![w].of = v]
                /\ readers' = [readers EXCEPT ![v] = @ + 1]
        /\ UNCHANGED <<made, retired, retiring, current, order, vertices, freed,
                       cache, kept, drawn, moved, waiting, shut>>

\* A loop asks before each frame whether its work was cancelled; a picture
\* may not decode.
ReadNothing(w) ==
    /\ job[w].stage = "reading"
    /\ \/ IsLoop(job[w].of) /\ job[w].off
       \/ IsImage(job[w].of) /\ Offer(job[w].of).bad
    /\ job' = [job EXCEPT ![w].stage = "read"]
    /\ UNCHANGED <<store, cache, kept, drawn, moved, waiting, shut>>

\* What lands moves the version the next frame is compared by.
Landed(w) ==
    /\ moved' = TRUE
    /\ job' = [job EXCEPT ![w].stage = "read"]

\* Mutant: what was read is kept if the overlay is still there.
Gone(w) == current[job[w].key[1]] = 0

Retired(w) == job[w].of \in retired

KeepRetired(w) ==
    /\ job[w].stage = "reading"
    /\ Retired(w)
    /\ job' = [job EXCEPT ![w].stage = "read"]
    /\ UNCHANGED <<store, cache, kept, drawn, moved, waiting, shut>>

keepPictures(w) ==
    LET id == job[w].key[1]
    IN  /\ job[w].stage = "reading"
        /\ ~Retired(w)
        /\ IsImage(job[w].of) /\ ~Offer(job[w].of).bad
        /\ pictures' = [pictures EXCEPT ![id] = job[w].of]
        /\ standPics' = [standPics EXCEPT ![id] = 0]
        /\ spare' = [spare EXCEPT ![id] = {}]
        /\ Landed(w)
        /\ UNCHANGED <<store, cache, fields, drawn, waiting, shut>>

keepField(w) ==
    /\ job[w].stage = "reading"
    /\ ~Retired(w)
    /\ Offer(job[w].of).kind = "grid"
    /\ fields' = [fields EXCEPT ![job[w].key[1]] = job[w].of]
    /\ Landed(w)
    /\ UNCHANGED <<store, cache, pictures, spare, standPics, drawn, waiting, shut>>

\* keep: the stand-in has done its work; a form larger than the whole cap is
\* not held, and the overlay is drawn from the host's memory.
keep(w) ==
    LET id == job[w].key[1]
        b == job[w].key[2]
        v == job[w].of
        left == shapeHeld - Bytes(stand, FormsOf(stand, {id}))
        old == IF prepared[id][b] = 0 THEN 0 ELSE Offer(prepared[id][b]).form[b]
    IN  /\ job[w].stage = "reading"
        /\ ~Retired(w)
        /\ Offer(v).kind = "shape"
        /\ stand' = [stand EXCEPT ![id] = NoForms]
        /\ IF Offer(v).form[b] > ShapeBytes
           THEN /\ fromMemory' = fromMemory \cup {id}
                /\ shapeHeld' = left
                /\ UNCHANGED <<prepared, used>>
           ELSE /\ settleLocked([prepared EXCEPT ![id][b] = v], left - old + Offer(v).form[b],
                       Append(SelectSeq(used, LAMBDA e : e # <<id, b>>), <<id, b>>), bucket)
                /\ UNCHANGED fromMemory
        /\ Landed(w)
        /\ UNCHANGED <<store, kept, drawn, waiting, shut>>

\* Done and finish: the hold ends and the flight with it.  Work called off is
\* not queued again by the map's one member; the next Render notes it anew.
Done(w) ==
    LET v == job[w].of
    IN  /\ job[w].stage = "read"
        /\ readers' = IF v = 0 THEN readers ELSE [readers EXCEPT ![v] = @ - 1]
        /\ retiring' = IF v # 0 /\ v \in retired
                       THEN [retiring EXCEPT ![made[v].id] = @ - 1] ELSE retiring
        /\ job' = [job EXCEPT ![w] = Idle]
        /\ UNCHANGED <<made, retired, current, order, vertices, freed,
                       cache, kept, drawn, moved, waiting, shut>>

\* The call's own context ends, or the host's does.
CallOff(w) ==
    /\ CallsOff
    /\ Flying(w)
    /\ ~job[w].off
    /\ job' = [job EXCEPT ![w].off = TRUE]
    /\ UNCHANGED <<store, cache, kept, drawn, moved, waiting, shut>>

Shed ==
    /\ Sheds
    /\ \E key \in waiting : waiting' = waiting \ {key}
    /\ UNCHANGED <<store, cache, kept, drawn, moved, job, shut>>

-----------------------------------------------------------------------------
Init ==
    /\ made = <<>> /\ readers = <<>> /\ retired = {} /\ freed = {}
    /\ retiring = [id \in Ids |-> 0] /\ current = [id \in Ids |-> 0]
    /\ order = <<>> /\ vertices = 0
    /\ prepared = [id \in Ids |-> NoForms] /\ stand = [id \in Ids |-> NoForms]
    /\ used = <<>> /\ shapeHeld = 0 /\ fromMemory = {}
    /\ fields = [id \in Ids |-> 0] /\ pictures = [id \in Ids |-> 0]
    /\ spare = [id \in Ids |-> {}] /\ standPics = [id \in Ids |-> 0]
    /\ bucket = NoView /\ waiting = {} /\ job = [w \in Workers |-> Idle]
    /\ host = "out" /\ missing = {} /\ shut = FALSE
    /\ picked = [id \in Ids |-> Nothing] /\ frame = [id \in Ids |-> Nothing]
    /\ frameAt = NoView /\ moved = FALSE

Work(w) ==
    \/ Take(w) \/ Begin(w) \/ ReadNothing(w) \/ KeepRetired(w)
    \/ keepPictures(w) \/ keepField(w) \/ keep(w)
    \/ Done(w)

Next ==
    \/ \E id \in Ids, o \in Offers : HandIn(id, o)
    \/ \E id \in Ids : Drop(id) \/ InUse(id)
    \/ DropSpares \/ Close
    \/ \E b \in Buckets : RenderNotes(b)
    \/ RenderAsks \/ RenderAdds \/ RenderPicks \/ RenderDraws
    \/ \E w \in Workers : Work(w) \/ CallOff(w)
    \/ Shed

Spec == Init /\ [][Next]_vars

-----------------------------------------------------------------------------
(* What must hold.                                                         *)

Versions == DOMAIN made
Readers(v) == {w \in Workers : job[w].of = v}
OldReaders(id) == {w \in Workers : job[w].of \in retired \cap VersionsOf(id)}

Jobs == [stage : {"idle", "taken", "reading", "read"}, key : (Ids \X Buckets) \cup {<<>>},
         of : Versions \cup {0}, off : BOOLEAN]

HoldTypes ==
    /\ made \in Seq([id : Ids, offer : Offers])
    /\ readers \in [Versions -> Nat]
    /\ retired \subseteq Versions /\ freed \subseteq Versions
    /\ retiring \in [Ids -> Nat]
    /\ current \in [Ids -> Versions \cup {0}]
    /\ waiting \subseteq Ids \X Buckets
    /\ job \in [Workers -> Jobs]

TypeOK ==
    /\ HoldTypes
    /\ order \in Seq(Ids) /\ vertices \in Nat
    /\ prepared \in [Ids -> [Buckets -> Versions \cup {0}]]
    /\ stand \in [Ids -> [Buckets -> Versions \cup {0}]]
    /\ used \in Seq(Ids \X Buckets) /\ shapeHeld \in Nat
    /\ fromMemory \subseteq Ids
    /\ fields \in [Ids -> Versions \cup {0}] /\ pictures \in [Ids -> Versions \cup {0}]
    /\ spare \in [Ids -> SUBSET Versions] /\ standPics \in [Ids -> Versions \cup {0}]
    /\ bucket \in Buckets \cup {NoView} /\ frameAt \in Buckets \cup {NoView}
    /\ host \in {"out", "asking", "adding", "noted", "picked"} /\ missing \subseteq Ids
    /\ {moved, shut} \subseteq BOOLEAN

\* A version the host was told is free is read by no job: whether it was told
\* by the Set or Remove that replaced it, by InUse, or by Close's count.
NothingReadIsFree == \A w \in Workers : job[w].of \notin freed

\* InUse is exact: it counts the calls that read a retired version of the id,
\* neither forgetting one (the host would write under it) nor keeping one (the
\* host would never have its memory back).
InUseIsExact ==
    \A id \in Ids : retiring[id] = Cardinality(OldReaders(id))

\* The host has its memory back when nothing reads it, and no sooner.
MemoryIsGivenBack == NothingReadIsFree /\ InUseIsExact

\* What was prepared is of the version set now; what stands in is of an older
\* one of the same id; the frames kept for a refresh are of one version.
KeptIsCurrent ==
    \A id \in Ids :
        /\ \A b \in Buckets : prepared[id][b] \in {0, current[id]}
        /\ {fields[id], pictures[id]} \subseteq {0, current[id]}
        /\ \A v \in {stand[id][b] : b \in Buckets} \cup {standPics[id]} \cup spare[id] :
              v # 0 => v \in VersionsOf(id) /\ v < current[id]
        /\ Cardinality(spare[id]) <= 1

\* The counts the caps are held by are those of what is there.
HeldIsWhatIsThere ==
    /\ shapeHeld = Bytes(prepared, FormsOf(prepared, Ids)) + Bytes(stand, FormsOf(stand, Ids))
    /\ vertices = MapThenSumSet(LAMBDA id : VerticesOf(current[id]), Ids)
    /\ vertices <= StoreVertices

\* Over its cap, the shape cache holds nothing but what the view needs and
\* what stands in.
SpareGivesWay ==
    shapeHeld > ShapeBytes => \A id \in Ids : FormsAt(prepared[id]) \subseteq {bucket}

\* The counts of the shape cache are true, and its cap is kept by them.
ShapeCacheIsTrue == HeldIsWhatIsThere /\ SpareGivesWay

\* What the view draws at is never evicted: a form of its bucket goes only
\* with its version or with the view's bucket.
NeedStays ==
    [][\A id \in Ids :
         bucket \in Buckets /\ bucket' = bucket /\ current'[id] = current[id]
             /\ prepared[id][bucket] # 0 => prepared'[id][bucket] # 0]_vars

\* No frame shows an older version of an overlay than the frame before it.
NeverGoesBack ==
    [][\A id \in Ids : frame'[id] # Nothing => frame[id].of <= frame'[id].of]_vars

\* An overlay drawn is still drawn when it is handed in again as the same
\* kind: a picture whatever is handed in when, a shape while its own form was
\* prepared and the new one needs no run index.
HandedInAgainStaysDrawn ==
    [][\A id \in Ids :
         LET v == current[id]
             n == current'[id]
         IN  v # 0 /\ n # 0 /\ n # v /\ Look(id) # Nothing
             /\ \/ RasterAt(id) # Nothing /\ made'[n].offer.kind \in {"image", "loop"}
                \/ FormsAt(prepared[id]) # {} /\ made'[n].offer.kind = "shape" /\ ~Indexed(made'[n].offer)
             => Look(id)' # Nothing]_vars
\* From frame to frame an overlay neither goes back nor, handed in again, goes.
FramesOnlyImprove == NeverGoesBack /\ HandedInAgainStaysDrawn

-----------------------------------------------------------------------------
(* What the comments say and the code does not do.                         *)

\* "Whoever changes them raises their version": a frame is kept only when it
\* is the one that would be drawn.  What lands between draw's choice and its
\* reading of the version is counted in the frame that does not show it.
FrameIsThePicked == [][host = "picked" /\ host' = "out" => frame' = picked]_vars

\* "An overlay handed in again never drops out of the frame", said of shapes:
\* handed in twice before any work, the stand-in goes and nothing follows.
ShapeStaysDrawn ==
    [][\A id \in Ids :
         LET v == current[id]
             n == current'[id]
         IN  v # 0 /\ n # 0 /\ n # v /\ Look(id) # Nothing
             /\ made'[n].offer.kind = "shape" /\ ~Indexed(made'[n].offer)
             => Look(id)' # Nothing]_vars

\* "Which a job is still to do": once a frame shows a stand-in, its
\* replacement's preparation waits or runs.  One that joined the old
\* version's flight ends with it.
StandInHasItsJob ==
    host = "out" /\ ~moved /\ ~shut => \A id \in Held :
        Look(id).path = "stand" =>
            \/ <<id, bucket>> \in waiting
            \/ \E w \in Workers : job[w].key = <<id, bucket>>

\* "The shape draws next frame": a shape with a run index is drawn from the
\* host's memory before any job has run.
LargeDrawsNextFrame ==
    host = "picked" => \A id \in Held :
        Offer(current[id]).kind = "shape" /\ Indexed(Offer(current[id]))
            => picked[id] # Nothing

\* "A shape never vanishes mid-zoom": what the new bucket is drawn from until
\* its own form is ready is spare, and goes when the cache is over its cap.
ShapeOutlivesZoom ==
    [][\A id \in Ids :
         current'[id] = current[id] /\ current[id] # 0
             /\ Look(id) # Nothing
             => Look(id)' # Nothing]_vars

=============================================================================
