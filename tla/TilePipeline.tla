---------------------------- MODULE TilePipeline ----------------------------
(***************************************************************************)
(* One map's tile pipeline (internal/tiles) with the map's noting of work  *)
(* (Map.note) and the pump that runs its jobs.                             *)
(*                                                                         *)
(* An owner call holds the map's lock from its plan to its last Add; the   *)
(* pipeline and the queue have locks of their own, so jobs start, land and *)
(* finish between any two of its steps.  A job's Run takes the pipeline's  *)
(* lock twice, to read its options (Start) and to publish its outcome      *)
(* (Land), and holds nothing while it loads.                               *)
(*                                                                         *)
(* The queue is that of WorkQueue seen by its one member: which job a Work *)
(* takes, and which one a full queue drops, is left open.  Zooms, bytes,   *)
(* decoding and the disk are abstracted: a load ends with a tile, with a   *)
(* failure, or given up.  A not-before time is what is left of its wait.   *)
(***************************************************************************)
EXTENDS Integers, Sequences, FiniteSets

CONSTANTS
    Tiles,          \* tiles, as the source's zooms resolve them
    Lineage,        \* a tile and its ancestors, nearest first
    EmbeddedTiles,  \* tiles no deeper than the embedded set; {}: none passed
    Sources,        \* sources there are
    Named,          \* what the host may name of them; Embedded: none
    Languages,      \* label languages a host may choose
    Views,          \* the sets of tiles a view may want
    Workers,        \* goroutines of the pump
    Cancellable,    \* those whose context the host may end
    Limit,          \* how many jobs may wait
    FirstRetry,     \* the wait after the first failure in a row
    LastRetry,      \* the longest wait
    MaxFailures,    \* failures counted: beyond it the wait is the longest
    NoJob,          \* what a goroutine holds between jobs
    Clockless,      \* whether the host also calls Settle, which has no clock
    Purges,         \* whether the host purges
    Panics,         \* whether a load may panic
    MaxUpsets       \* bound: upsets in one behaviour; 0: no bound

Embedded == "embedded"

ASSUME PipelineAssumption ==
    /\ Lineage \in [Tiles -> Seq(Tiles)]
    /\ \A t \in Tiles : Lineage[t] # <<>> /\ Lineage[t][1] = t
    /\ EmbeddedTiles \subseteq Tiles
    /\ Embedded \notin Sources
    /\ Named \subseteq Sources \cup {Embedded}
    /\ Languages # {}
    /\ Views \subseteq SUBSET Tiles
    /\ Cancellable \subseteq Workers
    /\ Limit \in Nat \ {0}
    /\ FirstRetry \in Nat \ {0}
    /\ LastRetry \in Nat /\ LastRetry >= FirstRetry
    /\ MaxFailures \in Nat \ {0}
    /\ FirstRetry * 2 ^ (MaxFailures - 1) >= LastRetry
    /\ NoJob \notin [source : Sources \cup {Embedded}, lang : Languages, tile : Tiles]
    /\ {Clockless, Purges, Panics} \subseteq BOOLEAN
    /\ MaxUpsets \in Nat

VARIABLES
    net,        \* the source named; Embedded when none is
    lang,       \* the label language
    view,       \* the tiles the map's view wants
    state,      \* per key: where its track is; "none" without one
    failures,   \* per key: failures in a row
    wait,       \* per key: what is left of its not-before time
    rest,       \* per key: time since its last failure (nothing reads it)
    planned,    \* the last plan's keys that are not done
    pins,       \* the tiles the last plan published, as keys
    cache,      \* the tiles on hand, with where and how they were got
    waiting, flying, dropped,   \* the queue's jobs; flights given up
    later,      \* per key: the time its deferred job is held until
    owner,      \* where the owner's call is
    todo, held, \* jobs the call has still to add, and to defer
    pc, job, opts,  \* per worker: where it is, its key, the options it read
    ended,      \* workers whose context has ended
    tokens,     \* tokens in the pump's wake channel
    upsets      \* upsets so far (history)

choiceVars == <<net, lang, view, upsets>>
trackVars  == <<state, failures, wait, rest>>
planVars   == <<planned, pins>>
queueVars  == <<waiting, flying, dropped, later>>
noteVars   == <<owner, todo, held>>
workerVars == <<pc, job, opts, ended>>
vars == <<choiceVars, trackVars, planVars, cache, queueVars, noteVars,
          workerVars, tokens>>

Key == [source : Sources \cup {Embedded}, lang : Languages, tile : Tiles]

States == {"none", "wanted", "queued", "loading", "onhand", "unavailable",
           "waiting", "evicted", "dropped"}

\* No time yet; a time stamped with no clock, which every clock is past.
Unset == -1
Epoch == -2
Time  == Epoch .. LastRetry

Options == [net : Sources \cup {Embedded}, lang : Languages]
Outcomes == {"tile", "cancelled", "nosource", "failed"}
WorkerStates == {"awake", "taken", "load", "over", "given", "asleep", "gone"}
                    \cup Outcomes

-----------------------------------------------------------------------------
(* Keys and what is on hand.                                               *)

key(source, tile) == [source |-> source, lang |-> lang, tile |-> tile]

Primary(t) == key(net, t)

Has(k) == \E c \in cache : c.key = k

\* The first tile on hand of a wanted tile's chain: at each ancestor the
\* source's own, then the embedded one.
First(k) ==
    LET At(i)   == [k EXCEPT !.tile = Lineage[k.tile][i]]
        Emb(i)  == [At(i) EXCEPT !.source = Embedded]
        Some(i) == Has(At(i)) \/ (Has(Emb(i)) /\ Lineage[k.tile][i] \in EmbeddedTiles)
        hits    == {i \in DOMAIN Lineage[k.tile] : Some(i)}
    IN  {IF Has(At(i)) THEN At(i) ELSE Emb(i) :
            i \in {h \in hits : \A g \in hits : h <= g}}

\* The ancestor to fetch when nothing of the chain is on hand.
StandIn(k) ==
    LET chain == Lineage[k.tile]
        emb   == {i \in DOMAIN chain : chain[i] \in EmbeddedTiles}
    IN  IF EmbeddedTiles # {}
        THEN {key(Embedded, chain[i]) :
                 i \in {e \in emb : \A d \in emb : e <= d}} \ {k}
        ELSE IF net # Embedded /\ Len(chain) > 1
        THEN {key(net, chain[2])} ELSE {}

Needed ==
    LET primaries == {Primary(t) : t \in view}
    IN  primaries \cup UNION {StandIn(k) : k \in {p \in primaries : First(p) = {}}}

\* The wait after the nth failure in a row: doubling, up to the longest.
Doubled(n) == FirstRetry * 2 ^ (n - 1)

backoff(n) ==
    IF n <= 1 THEN FirstRetry
    ELSE IF Doubled(n) < LastRetry THEN Doubled(n) ELSE LastRetry

-----------------------------------------------------------------------------
(* Owner calls.                                                            *)

\* Mutant: the records of dropped tiles are never deleted.
RefreshedKeepsDropped(k) ==
    IF state[k] = "none" THEN IF Has(k) THEN "onhand" ELSE "wanted"
    ELSE IF state[k] = "onhand" /\ ~Has(k) THEN "evicted"
    ELSE state[k]

\* A track brought up to date with the cache; dropped ones were deleted.
Refreshed(k) ==
    IF state[k] \in {"none", "dropped"} THEN IF Has(k) THEN "onhand" ELSE "wanted"
    ELSE IF state[k] = "onhand" /\ ~Has(k) THEN "evicted"
    ELSE state[k]

\* A failure's not-before time is stamped by the first plan after it.
Stamped(k, clocked) ==
    IF wait[k] # Unset THEN wait[k]
    ELSE IF clocked THEN backoff(failures[k]) ELSE Epoch

\* With no clock every time still lies ahead.
Due(k, clocked) == clocked /\ Stamped(k, clocked) \in {Epoch, 0}

\* Where a plan leaves a track: a needed one moves along, others are let go.
PlannedState(k, clocked) ==
    LET r == Refreshed(k)
    IN  IF k \in Needed
        THEN IF r \in {"wanted", "evicted"} \/ (r = "waiting" /\ Due(k, clocked))
             THEN "queued" ELSE r
        ELSE IF state[k] \in {"queued", "waiting"} THEN "dropped"
             ELSE IF state[k] = "loading" THEN "loading" ELSE "none"

Plan(clocked) ==
    /\ owner = "free"
    /\ state' = [k \in Key |-> PlannedState(k, clocked)]
    /\ failures' = [k \in Key |->
           IF state'[k] = "none" \/ state[k] = "dropped" THEN 0 ELSE failures[k]]
    /\ wait' = [k \in Key |->
           IF state'[k] = "none" \/ state[k] = "dropped" THEN Unset
           ELSE IF k \in Needed /\ state[k] = "waiting" THEN Stamped(k, clocked)
           ELSE wait[k]]
    /\ planned' = {k \in Needed : state'[k] \in {"queued", "waiting", "loading"}}
    /\ pins' = {Primary(t) : t \in view}
    /\ todo' = {k \in Needed : state'[k] = "queued"}
    /\ held' = {k \in Needed : state'[k] = "waiting"}
    /\ owner' = "keep"
    /\ UNCHANGED <<choiceVars, rest, cache, queueVars, workerVars, tokens>>

Render == Plan(TRUE)
SettleNote == Clockless /\ Plan(FALSE)

\* Keep with StillWanted: jobs of no planned key are dropped or cancelled.
Keep ==
    /\ owner = "keep"
    /\ waiting' = waiting \cap planned
    /\ dropped' = dropped \cup (flying \ planned)
    /\ later' = [k \in Key |-> IF k \in planned THEN later[k] ELSE Unset]
    /\ owner' = "add"
    /\ UNCHANGED <<choiceVars, trackVars, planVars, cache, flying, todo, held,
                   workerVars, tokens>>

Enqueued(k) ==
    IF k \in waiting \cup flying THEN {waiting}
    ELSE IF Cardinality(waiting) < Limit THEN {waiting \cup {k}}
    ELSE {(waiting \cup {k}) \ {j} : j \in waiting \cup {k}}

AddOne(k) ==
    /\ owner = "add"
    /\ k \in todo
    /\ waiting' \in Enqueued(k)
    /\ tokens' = IF waiting = {} /\ waiting' # {} THEN Cardinality(Workers) ELSE tokens
    /\ todo' = todo \ {k}
    /\ UNCHANGED <<choiceVars, trackVars, planVars, cache, flying, dropped,
                   later, owner, held, workerVars>>

\* Mutant: a job already deferred keeps the time it had.
DeferOnce ==
    /\ owner = "add" /\ todo = {}
    /\ later' = [k \in Key |->
           IF k \in held /\ later[k] = Unset THEN wait[k] ELSE later[k]]
    /\ held' = {}
    /\ owner' = "free"
    /\ UNCHANGED <<choiceVars, trackVars, planVars, cache, waiting, flying,
                   dropped, todo, workerVars, tokens>>

\* The call ends by deferring the failed tiles.
DeferRest ==
    /\ owner = "add" /\ todo = {}
    /\ later' = [k \in Key |-> IF k \in held THEN wait[k] ELSE later[k]]
    /\ held' = {}
    /\ owner' = "free"
    /\ UNCHANGED <<choiceVars, trackVars, planVars, cache, waiting, flying,
                   dropped, todo, workerVars, tokens>>

\* An upset is a view move, another source or language, a purge, a context
\* ended or an eviction: what comes at any moment, unasked by the pipeline.
Upset ==
    IF MaxUpsets = 0 THEN UNCHANGED upsets
    ELSE upsets < MaxUpsets /\ upsets' = upsets + 1

\* The host moves the view; the next render or settle notes it.
Look(v) ==
    /\ owner = "free" /\ v # view
    /\ Upset
    /\ view' = v
    /\ UNCHANGED <<net, lang, trackVars, planVars, cache, queueVars, noteVars,
                   workerVars, tokens>>

SourcesChanged ==
    state' = [k \in Key |-> IF state[k] = "unavailable" THEN "wanted" ELSE state[k]]

\* Source and SetFetchOptions note nothing: what is queued stays queued.
Source(n) ==
    /\ owner = "free" /\ n # net
    /\ Upset
    /\ net' = n
    /\ SourcesChanged
    /\ UNCHANGED <<lang, view, failures, wait, rest, planVars, cache, queueVars,
                   noteVars, workerVars, tokens>>

LabelLanguage(l) ==
    /\ owner = "free" /\ l # lang
    /\ Upset
    /\ lang' = l
    /\ SourcesChanged
    /\ UNCHANGED <<net, view, failures, wait, rest, planVars, cache, queueVars,
                   noteVars, workerVars, tokens>>

\* Purge empties the memory of fetched tiles, needed or not.
Purge ==
    /\ Purges /\ owner = "free"
    /\ Upset
    /\ \E c \in cache : c.key.source # Embedded
    /\ cache' = {c \in cache : c.key.source = Embedded}
    /\ UNCHANGED <<net, lang, view, trackVars, planVars, queueVars, noteVars,
                   workerVars, tokens>>

OwnerNext ==
    \/ Render \/ SettleNote
    \/ Keep \/ (\E k \in Key : AddOne(k)) \/ DeferRest
    \/ \E v \in Views : Look(v)
    \/ \E n \in Named : Source(n)
    \/ \E l \in Languages : LabelLanguage(l)
    \/ Purge

-----------------------------------------------------------------------------
(* Work, on a goroutine of the pump.                                       *)

Take(w, k) ==
    /\ pc[w] = "awake" /\ w \notin ended
    /\ k \in waiting
    /\ waiting' = waiting \ {k}
    /\ flying' = flying \cup {k}
    /\ job' = [job EXCEPT ![w] = k]
    /\ pc' = [pc EXCEPT ![w] = "taken"]
    /\ UNCHANGED <<choiceVars, trackVars, planVars, cache, dropped, later,
                   noteVars, opts, ended, tokens>>

\* Run, first half: read the options, unless another map got the tile.
Start(w) ==
    LET k == job[w]
    IN  /\ pc[w] = "taken"
        /\ IF state[k] \in {"none", "onhand"} /\ Has(k)
           THEN /\ state' = [state EXCEPT ![k] = "onhand"]
                /\ pc' = [pc EXCEPT ![w] = "over"]
                /\ UNCHANGED opts
           ELSE /\ state' = [state EXCEPT ![k] = "loading"]
                /\ opts' = [opts EXCEPT ![w] = [net |-> net, lang |-> lang]]
                /\ pc' = [pc EXCEPT ![w] = "load"]
        /\ UNCHANGED <<choiceVars, failures, wait, rest, planVars, cache,
                       queueVars, noteVars, job, ended, tokens>>

GivenUp(w) == w \in ended \/ job[w] \in dropped

\* Mutant: whatever source is named now answers.
LoadsFromAnySource(w) ==
    LET k == job[w]
    IN  IF k.source = Embedded
        THEN IF k.tile \in EmbeddedTiles THEN {"tile"} ELSE {"nosource"}
        ELSE {"tile", "failed"}

\* What a load can end with; a source changed since is a load given up.
Loads(w) ==
    LET k == job[w]
    IN  IF k.source = Embedded
        THEN IF k.tile \in EmbeddedTiles THEN {"tile"} ELSE {"nosource"}
        ELSE IF opts[w].net # k.source THEN {"cancelled"}
        ELSE {"tile", "failed"}

Load(w) ==
    /\ pc[w] = "load"
    /\ \E o \in Loads(w) \cup (IF GivenUp(w) THEN {"cancelled"} ELSE {})
                         \cup (IF Panics THEN {"over"} ELSE {}) :
          pc' = [pc EXCEPT ![w] = o]
    /\ UNCHANGED <<choiceVars, trackVars, planVars, cache, queueVars, noteVars,
                   job, opts, ended, tokens>>

\* Run, second half: publish the outcome.
LandTile(w) ==
    LET k == job[w]
        got == [key |-> k, lang |-> opts[w].lang,
                from |-> IF k.source = Embedded THEN Embedded ELSE opts[w].net]
    IN  /\ pc[w] = "tile"
        /\ cache' = {c \in cache : c.key # k} \cup {got}
        /\ state' = [state EXCEPT ![k] = "onhand"]
        /\ failures' = [failures EXCEPT ![k] = 0]
        /\ wait' = [wait EXCEPT ![k] = Unset]
        /\ pc' = [pc EXCEPT ![w] = "over"]
        /\ UNCHANGED rest

LandFailure(w) ==
    LET k == job[w]
    IN  /\ pc[w] = "failed"
        /\ state' = [state EXCEPT ![k] = "waiting"]
        /\ failures' = [failures EXCEPT ![k] = IF @ < MaxFailures THEN @ + 1 ELSE @]
        /\ wait' = [wait EXCEPT ![k] = Unset]
        /\ rest' = [rest EXCEPT ![k] = 0]
        /\ pc' = [pc EXCEPT ![w] = "over"]
        /\ UNCHANGED cache

LandNothing(w) ==
    /\ \/ /\ pc[w] = "cancelled"
          /\ state' = [state EXCEPT ![job[w]] = "dropped"]
          /\ pc' = [pc EXCEPT ![w] = "given"]
       \/ /\ pc[w] = "nosource"
          /\ state' = [state EXCEPT ![job[w]] = "unavailable"]
          /\ pc' = [pc EXCEPT ![w] = "over"]
    /\ UNCHANGED <<failures, wait, rest, cache>>

Land(w) ==
    /\ LandTile(w) \/ LandFailure(w) \/ LandNothing(w)
    /\ UNCHANGED <<choiceVars, planVars, queueVars, noteVars, job, opts, ended,
                   tokens>>

\* Mutant: a tile dropped while it loaded ends its Work as cancelled.
FinishCancelledWhenDropped(w) ==
    /\ pc[w] \in {"over", "given"}
    /\ flying' = flying \ {job[w]}
    /\ dropped' = dropped \ {job[w]}
    /\ pc' = [pc EXCEPT ![w] =
           IF w \in ended \/ pc[w] = "given" THEN "gone" ELSE "awake"]
    /\ job' = [job EXCEPT ![w] = NoJob]
    /\ opts' = [opts EXCEPT ![w] = NoJob]
    /\ UNCHANGED <<choiceVars, trackVars, planVars, cache, waiting, later,
                   noteVars, ended, tokens>>

\* The queue's finish, and what the pump makes of the error: it goes on unless
\* the error is of the cancelled kind.
Finish(w) ==
    /\ pc[w] \in {"over", "given"}
    /\ flying' = flying \ {job[w]}
    /\ dropped' = dropped \ {job[w]}
    /\ pc' = [pc EXCEPT ![w] =
           IF job[w] \notin dropped /\ (w \in ended \/ pc[w] = "given")
           THEN "gone" ELSE "awake"]
    /\ job' = [job EXCEPT ![w] = NoJob]
    /\ opts' = [opts EXCEPT ![w] = NoJob]
    /\ UNCHANGED <<choiceVars, trackVars, planVars, cache, waiting, later,
                   noteVars, ended, tokens>>

Sleep(w) ==
    /\ pc[w] = "awake" /\ w \notin ended
    /\ waiting = {}
    /\ pc' = [pc EXCEPT ![w] = "asleep"]
    /\ UNCHANGED <<choiceVars, trackVars, planVars, cache, queueVars, noteVars,
                   job, opts, ended, tokens>>

TakeToken(w) ==
    /\ pc[w] = "asleep" /\ tokens > 0
    /\ tokens' = tokens - 1
    /\ pc' = [pc EXCEPT ![w] = "awake"]
    /\ UNCHANGED <<choiceVars, trackVars, planVars, cache, queueVars, noteVars,
                   job, opts, ended>>

\* A Work refused for its context, or a sleep ended by it.
Stop(w) ==
    /\ pc[w] \in {"awake", "asleep"} /\ w \in ended
    /\ pc' = [pc EXCEPT ![w] = "gone"]
    /\ UNCHANGED <<choiceVars, trackVars, planVars, cache, queueVars, noteVars,
                   job, opts, ended, tokens>>

WorkerNext(w) ==
    \/ \E k \in Key : Take(w, k)
    \/ Start(w) \/ Load(w) \/ Land(w) \/ Finish(w)
    \/ Sleep(w) \/ TakeToken(w) \/ Stop(w)

-----------------------------------------------------------------------------
(* The rest of the world.                                                  *)

Cancel(w) ==
    /\ w \in Cancellable \ ended
    /\ Upset
    /\ ended' = ended \cup {w}
    /\ UNCHANGED <<net, lang, view, trackVars, planVars, cache, queueVars, noteVars,
                   pc, job, opts, tokens>>

\* The memory cache gives up a tile no view draws.
Evict(k) ==
    /\ Has(k)
    /\ Upset
    /\ \A p \in pins : k \notin First(p)
    /\ cache' = {c \in cache : c.key # k}
    /\ UNCHANGED <<net, lang, view, trackVars, planVars, queueVars, noteVars,
                   workerVars, tokens>>

Tick ==
    /\ wait' = [k \in Key |-> IF wait[k] > 0 THEN wait[k] - 1 ELSE wait[k]]
    /\ later' = [k \in Key |-> IF later[k] > 0 THEN later[k] - 1 ELSE later[k]]
    /\ rest' = [k \in Key |-> IF rest[k] < LastRetry THEN rest[k] + 1 ELSE rest[k]]
    /\ UNCHANGED <<choiceVars, state, failures, planVars, cache, waiting, flying,
                   dropped, noteVars, workerVars, tokens>>

Init ==
    /\ net \in Named
    /\ lang \in Languages
    /\ view \in Views
    /\ state = [k \in Key |-> "none"]
    /\ failures = [k \in Key |-> 0]
    /\ wait = [k \in Key |-> Unset]
    /\ rest = [k \in Key |-> LastRetry]
    /\ planned = {} /\ pins = {} /\ cache = {}
    /\ waiting = {} /\ flying = {} /\ dropped = {}
    /\ later = [k \in Key |-> Unset]
    /\ owner = "free" /\ todo = {} /\ held = {}
    /\ pc = [w \in Workers |-> "awake"]
    /\ job = [w \in Workers |-> NoJob]
    /\ opts = [w \in Workers |-> NoJob]
    /\ ended = {}
    /\ tokens = 0
    /\ upsets = 0

Next ==
    \/ OwnerNext
    \/ \E w \in Workers : WorkerNext(w) \/ Cancel(w)
    \/ \E k \in Key : Evict(k)
    \/ Tick

Spec == Init /\ [][Next]_vars

\* The owner renders again and again and finishes each call, goroutines that
\* can go on do, and time passes.  Every waiting job is taken in the end: of one
\* view's jobs the queue gives out the one asked for first (WorkQueue).
Fairness ==
    /\ WF_vars(Render)
    /\ WF_vars(Keep \/ (\E k \in Key : AddOne(k)) \/ DeferRest)
    /\ WF_vars(Tick)
    /\ \A w \in Workers :
          /\ WF_vars(Start(w) \/ Load(w) \/ Land(w) \/ Finish(w))
          /\ WF_vars(WorkerNext(w))
          /\ \A k \in Key : SF_vars(Take(w, k))

FairSpec == Spec /\ Fairness

-----------------------------------------------------------------------------
(* Properties.                                                             *)

TypeOK ==
    /\ net \in Sources \cup {Embedded}
    /\ lang \in Languages
    /\ view \in Views
    /\ state \in [Key -> States]
    /\ failures \in [Key -> 0 .. MaxFailures]
    /\ wait \in [Key -> Time]
    /\ rest \in [Key -> 0 .. LastRetry]
    /\ planned \subseteq Key /\ pins \subseteq Key
    /\ cache \subseteq [key : Key, from : Sources \cup {Embedded}, lang : Languages]
    /\ waiting \subseteq Key /\ flying \subseteq Key /\ dropped \subseteq flying
    /\ later \in [Key -> Time]
    /\ owner \in {"free", "keep", "add"}
    /\ todo \subseteq Key /\ held \subseteq Key
    /\ pc \in [Workers -> WorkerStates]
    /\ job \in [Workers -> Key \cup {NoJob}]
    /\ opts \in [Workers -> Options \cup {NoJob}]
    /\ ended \subseteq Workers
    /\ tokens \in 0 .. Cardinality(Workers)

Loading(w) == pc[w] \in Outcomes \cup {"load"}

\* A track says loading exactly while one goroutine is between the two halves
\* of that tile's Run, whatever plans, view moves and source changes do to the
\* track meanwhile ("whatever a plan made of it meanwhile, this is where the
\* outcome applies").
LoadingIsInsideRun ==
    /\ \A k \in Key : state[k] = "loading" =>
          \E w \in Workers : Loading(w) /\ job[w] = k
    /\ \A w \in Workers : Loading(w) =>
          /\ state[job[w]] = "loading"
          /\ \A v \in Workers \ {w} : Loading(v) => job[v] # job[w]

\* A tile on hand under a source's key was fetched from that source, whichever
\* source was named when its job was queued, started and landed.
CachedFromItsSource == \A c \in cache : c.from = c.key.source

\* FR-23: "The earliest not-before time is part of the deadline": between owner
\* calls every failed tile the last plan stamped is deferred until that time,
\* the time of its last failure and no earlier one.
NextCallKnowsEveryRetry ==
    owner = "free" =>
        \A k \in planned :
            state[k] = "waiting" /\ wait[k] # Unset => later[k] = wait[k]

\* A failed tile is asked for again no sooner than the wait its failures in a
\* row call for, if the plan that stamped its time had a clock.
RetryWaitsItsTime ==
    [][\A k \in Key :
         state[k] = "waiting" /\ state'[k] = "queued" /\ wait[k] # Epoch =>
             rest[k] >= backoff(failures[k])]_vars

\* A pump's goroutine ends with its context, or on a load its source's leaving
\* gave up: a tile the view let go of while it loaded ends no goroutine.
PumpEndsWhenCalledOff ==
    [][\A w \in Workers : pc[w] # "gone" /\ pc'[w] = "gone" =>
         w \in ended \/ opts[w].net # job[w].source]_vars

\* What a load lands on is what was asked for: the track of its own tile, and
\* the cache under its own source.
LoadsLandWhereAsked == LoadingIsInsideRun /\ CachedFromItsSource

\* Nothing ends before its time: neither a goroutine of a pump nor the wait of
\* a failed tile.
NothingEndsEarly == PumpEndsWhenCalledOff /\ RetryWaitsItsTime

Tried(k) ==
    \/ state[k] \in {"onhand", "unavailable"}
    \/ \E w \in Workers : job[w] = k /\ Loading(w)

\* A tile a settled view wants is tried over and over until it is on hand or
\* known to be nowhere: no job lost to the cap, to a dropped flight or to a
\* failure leaves it stuck.
WantedIsTried ==
    \A v \in Views, n \in Named, l \in Languages :
        <>[](view = v /\ net = n /\ lang = l)
            => \A t \in v : []<>Tried([source |-> n, lang |-> l, tile |-> t])

\* What the code says of itself, and does not keep.

\* pump: "Only a map closed or a context ended stops it."
PumpEndsOnlyWithItsContext ==
    [][\A w \in Workers : pc[w] # "gone" /\ pc'[w] = "gone" => w \in ended]_vars

\* Key: "the one label language it was decoded for".
CachedInItsLanguage == \A c \in cache : c.lang = c.key.lang

\* State: "Queued // a job for it is pending".
QueuedHasAJob ==
    owner = "free" =>
        \A k \in planned : state[k] = "queued" => k \in waiting \cup flying

\* Defer "holds a failed job until the time it may be tried again": the host is
\* not told of a time for a job that waits or flies already.
HeldOnlyUntilItsTime ==
    owner = "free" =>
        \A k \in waiting \cup flying : later[k] = Unset \/ k \in dropped
=============================================================================
