-------------------------- MODULE TilePipelineProofs --------------------------
(***************************************************************************)
(* One map's tile pipeline, for any tiles, sources, goroutines and retry   *)
(* times: what a load lands on is what was asked for, the next call knows  *)
(* every retry, and nothing ends before its time.                          *)
(*                                                                         *)
(* Behind them stands what the queue promises the pipeline: goroutines     *)
(* inside Work hold different jobs, each in flight and none waiting.       *)
(*                                                                         *)
(* Then what a load that lands is decoded with, the decoder of vector      *)
(* tiles, for any bodies, layers and limits (TilesDecodeWhole).            *)
(***************************************************************************)
EXTENDS TilePipeline, VectorTile, FoldTheorems, SequenceTheorems, TLAPS

\* A goroutine inside Work has a job.
Busy(w) == pc[w] \in {"taken", "load", "over", "given"} \cup Outcomes

PipeTyped ==
    /\ net \in Sources \cup {Embedded} /\ lang \in Languages /\ view \in Views
    /\ pc \in [Workers -> WorkerStates]
    /\ job \in [Workers -> Key \cup {NoJob}]
    /\ opts \in [Workers -> Options \cup {NoJob}]
    /\ state \in [Key -> States]
    /\ waiting \subseteq Key /\ planned \subseteq Key

FlightInv ==
    /\ waiting \cap flying = {}
    /\ \A w \in Workers : Busy(w) => job[w] \in Key /\ job[w] \in flying
    /\ \A v, w \in Workers : Busy(v) /\ Busy(w) /\ v # w => job[v] # job[w]

PipeInv == PipeTyped /\ FlightInv

-----------------------------------------------------------------------------
(* Steps, by what they touch.                                              *)

\* What a view needs is keys.
LEMMA NeededAreKeys == ASSUME PipeTyped PROVE Needed \subseteq Key
<1>1. ASSUME NEW t \in Tiles, NEW s \in Sources \cup {Embedded} PROVE key(s, t) \in Key
  BY DEF PipeTyped, key, Key
<1>2. view \subseteq Tiles
  BY PipelineAssumption DEF PipeTyped, PipelineAssumption
<1>3. \A t \in view : Primary(t) \in Key
  BY <1>1, <1>2 DEF Primary, PipeTyped
<1>4. ASSUME NEW k \in Key PROVE StandIn(k) \subseteq Key
  <2> DEFINE chain == Lineage[k.tile]
  <2>1. chain \in Seq(Tiles)
    BY PipelineAssumption DEF PipelineAssumption, Key
  <2>2. \A i \in DOMAIN chain : chain[i] \in Tiles
    BY <2>1
  <2>3. Len(chain) > 1 => chain[2] \in Tiles
    BY <2>1
  <2> HIDE DEF chain
  <2>4. \A i \in DOMAIN chain : key(Embedded, chain[i]) \in Key
    BY <1>1, <2>2
  <2>5. Len(chain) > 1 => key(net, chain[2]) \in Key
    BY <1>1, <2>3 DEF PipeTyped
  <2> QED
    BY <2>4, <2>5 DEF StandIn, chain
<1> QED
  BY <1>3, <1>4 DEF Needed

\* The queue of the owner's steps: nothing of a goroutine inside Work changes.
LEMMA OwnerFlights ==
    ASSUME PipeInv, UNCHANGED <<pc, job, flying>>, waiting' \cap flying = {}
    PROVE  FlightInv'
BY DEF PipeInv, FlightInv, Busy

\* A goroutine that goes on inside Work, or is outside it before and after.
LEMMA WorkGoesOn ==
    ASSUME PipeInv, NEW w \in Workers, NEW s \in WorkerStates,
           pc' = [pc EXCEPT ![w] = s], UNCHANGED <<job, flying, waiting>>,
           s \in {"asleep", "awake", "gone"} \/ Busy(w)
    PROVE  pc' \in [Workers -> WorkerStates] /\ FlightInv'
<1>1. \A x \in Workers : pc'[x] = IF x = w THEN s ELSE pc[x]
  BY DEF PipeInv, PipeTyped
<1>2. pc' \in [Workers -> WorkerStates]
  BY DEF PipeInv, PipeTyped
<1>3. \A x \in Workers : Busy(x)' => Busy(x)
  BY <1>1 DEF Busy, Outcomes
<1> QED
  BY <1>2, <1>3 DEF PipeInv, FlightInv

-----------------------------------------------------------------------------
LEMMA OwnerPipe ==
    ASSUME PipeInv, OwnerNext
    PROVE  PipeInv'
<1>1. CASE Render \/ SettleNote
  <2>1. PICK clocked \in BOOLEAN : Plan(clocked)
    BY <1>1 DEF Render, SettleNote
  <2>2. /\ UNCHANGED <<choiceVars, queueVars, workerVars>>
        /\ state' = [k \in Key |-> PlannedState(k, clocked)]
        /\ planned' \subseteq Needed
    BY <2>1 DEF Plan
  <2>3. state' \in [Key -> States]
    <3>1. ASSUME NEW k \in Key PROVE PlannedState(k, clocked) \in States
      <4>1. state[k] \in States
        BY DEF PipeInv, PipeTyped
      <4>2. Refreshed(k) \in States
        BY <4>1 DEF Refreshed, States
      <4> QED
        BY <4>1, <4>2 DEF PlannedState, States
    <3> QED
      BY <2>2, <3>1
  <2>4. planned' \subseteq Key
    BY <2>2, NeededAreKeys DEF PipeInv
  <2>5. FlightInv'
    BY <2>2, OwnerFlights DEF workerVars, queueVars, PipeInv, FlightInv
  <2> QED
    BY <2>2, <2>3, <2>4, <2>5 DEF PipeInv, PipeTyped, choiceVars, queueVars, workerVars
<1>2. CASE Keep
  <2>1. /\ UNCHANGED <<choiceVars, trackVars, planVars, workerVars, flying>>
        /\ waiting' \subseteq waiting
    BY <1>2 DEF Keep
  <2>2. FlightInv'
    BY <2>1, OwnerFlights DEF workerVars, PipeInv, FlightInv
  <2> QED
    BY <2>1, <2>2 DEF PipeInv, PipeTyped, choiceVars, trackVars, planVars, workerVars
<1>3. ASSUME NEW k \in Key, AddOne(k) PROVE PipeInv'
  <2>1. /\ UNCHANGED <<choiceVars, trackVars, planVars, workerVars, flying>>
        /\ waiting' \in Enqueued(k)
    BY <1>3 DEF AddOne
  <2>2. waiting' \subseteq Key /\ waiting' \cap flying = {}
    BY <2>1 DEF Enqueued, PipeInv, PipeTyped, FlightInv
  <2>3. FlightInv'
    BY <2>1, <2>2, OwnerFlights DEF workerVars
  <2> QED
    BY <2>1, <2>2, <2>3 DEF PipeInv, PipeTyped, choiceVars, trackVars, planVars, workerVars
<1>4. CASE DeferRest
  <2>1. /\ UNCHANGED <<choiceVars, trackVars, planVars, workerVars, waiting, flying>>
    BY <1>4 DEF DeferRest
  <2>2. FlightInv'
    BY <2>1, OwnerFlights DEF workerVars, PipeInv, FlightInv
  <2> QED
    BY <2>1, <2>2 DEF PipeInv, PipeTyped, choiceVars, trackVars, planVars, workerVars
<1>5. CASE \/ \E v \in Views : Look(v)
           \/ \E n \in Named : Source(n)
           \/ \E l \in Languages : LabelLanguage(l)
           \/ Purge
  <2>1. UNCHANGED <<planVars, queueVars, workerVars>>
    BY <1>5 DEF Look, Source, LabelLanguage, Purge
  <2>2. /\ net' \in Sources \cup {Embedded} /\ lang' \in Languages /\ view' \in Views
    BY <1>5, PipelineAssumption
       DEF Look, Source, LabelLanguage, Purge, PipeInv, PipeTyped, PipelineAssumption
  <2>3. state' = state \/ SourcesChanged
    BY <1>5 DEF Look, Source, LabelLanguage, Purge, trackVars
  <2>4. state' \in [Key -> States]
    BY <2>3 DEF SourcesChanged, PipeInv, PipeTyped, States
  <2>5. FlightInv'
    BY <2>1, OwnerFlights DEF workerVars, queueVars, PipeInv, FlightInv
  <2> QED
    BY <2>1, <2>2, <2>4, <2>5 DEF PipeInv, PipeTyped, planVars, queueVars, workerVars
<1> QED
  BY <1>1, <1>2, <1>3, <1>4, <1>5 DEF OwnerNext

LEMMA TakePipe ==
    ASSUME PipeInv, NEW w \in Workers, NEW k \in Key, Take(w, k)
    PROVE  PipeInv'
<1>1. /\ UNCHANGED <<choiceVars, trackVars, planVars, opts>>
      /\ pc[w] = "awake" /\ k \in waiting
      /\ waiting' = waiting \ {k} /\ flying' = flying \cup {k}
      /\ job' = [job EXCEPT ![w] = k] /\ pc' = [pc EXCEPT ![w] = "taken"]
  BY DEF Take
<1>2. /\ pc' \in [Workers -> WorkerStates] /\ job' \in [Workers -> Key \cup {NoJob}]
      /\ \A x \in Workers : /\ pc'[x] = IF x = w THEN "taken" ELSE pc[x]
                            /\ job'[x] = IF x = w THEN k ELSE job[x]
  BY <1>1 DEF PipeInv, PipeTyped, WorkerStates
<1>3. \A x \in Workers : Busy(x)' => x = w \/ (Busy(x) /\ job[x] # k)
  BY <1>1, <1>2 DEF Busy, PipeInv, FlightInv
<1>4. FlightInv'
  BY <1>1, <1>2, <1>3 DEF PipeInv, FlightInv
<1> QED
  BY <1>1, <1>2, <1>4 DEF PipeInv, PipeTyped, choiceVars, trackVars, planVars

LEMMA StartPipe ==
    ASSUME PipeInv, NEW w \in Workers, Start(w)
    PROVE  PipeInv'
<1>1. /\ UNCHANGED <<choiceVars, planVars, queueVars, job>> /\ pc[w] = "taken"
  BY DEF Start
<1>2. job[w] \in Key
  BY <1>1 DEF PipeInv, FlightInv, Busy
<1>3. PICK s \in {"over", "load"} : pc' = [pc EXCEPT ![w] = s]
  BY DEF Start
<1>4. /\ state' \in [Key -> States] /\ opts' \in [Workers -> Options \cup {NoJob}]
  <2>1. [net |-> net, lang |-> lang] \in Options
    BY DEF Options, PipeInv, PipeTyped
  <2> QED
    BY <1>2, <2>1 DEF Start, PipeInv, PipeTyped, States
<1>5. pc' \in [Workers -> WorkerStates] /\ FlightInv'
  BY <1>1, <1>3, WorkGoesOn DEF queueVars, WorkerStates, Busy
<1> QED
  BY <1>1, <1>4, <1>5 DEF PipeInv, PipeTyped, choiceVars, planVars, queueVars

LEMMA LoadPipe ==
    ASSUME PipeInv, NEW w \in Workers, Load(w)
    PROVE  PipeInv'
<1>1. UNCHANGED <<choiceVars, trackVars, planVars, queueVars, job, opts>> /\ pc[w] = "load"
  BY DEF Load
<1>2. PICK s \in WorkerStates : pc' = [pc EXCEPT ![w] = s]
  BY DEF Load, Loads, WorkerStates, Outcomes
<1>3. pc' \in [Workers -> WorkerStates] /\ FlightInv'
  BY <1>1, <1>2, WorkGoesOn DEF queueVars, Busy
<1> QED
  BY <1>1, <1>3 DEF PipeInv, PipeTyped, choiceVars, trackVars, planVars, queueVars

LEMMA LandPipe ==
    ASSUME PipeInv, NEW w \in Workers, Land(w)
    PROVE  PipeInv'
<1>1. /\ UNCHANGED <<choiceVars, planVars, queueVars, job, opts>>
      /\ pc[w] \in {"tile", "failed", "cancelled", "nosource"}
  BY DEF Land, LandTile, LandFailure, LandNothing
<1>2. job[w] \in Key
  BY <1>1 DEF PipeInv, FlightInv, Busy, Outcomes
<1>3. /\ \E s \in {"over", "given"} : pc' = [pc EXCEPT ![w] = s]
      /\ \E r \in {"onhand", "waiting", "dropped", "unavailable"} :
            state' = [state EXCEPT ![job[w]] = r]
  BY DEF Land, LandTile, LandFailure, LandNothing
<1>4. state' \in [Key -> States]
  BY <1>2, <1>3 DEF PipeInv, PipeTyped, States
<1>5. pc' \in [Workers -> WorkerStates] /\ FlightInv'
  <2>1. PICK s \in {"over", "given"} : pc' = [pc EXCEPT ![w] = s]
    BY <1>3
  <2> QED
    BY <1>1, <2>1, WorkGoesOn DEF queueVars, Busy, WorkerStates, Outcomes
<1> QED
  BY <1>1, <1>4, <1>5 DEF PipeInv, PipeTyped, choiceVars, planVars, queueVars

LEMMA FinishPipe ==
    ASSUME PipeInv, NEW w \in Workers, Finish(w)
    PROVE  PipeInv'
<1>1. /\ UNCHANGED <<choiceVars, trackVars, planVars, waiting>>
      /\ pc[w] \in {"over", "given"} /\ flying' = flying \ {job[w]}
      /\ job' = [job EXCEPT ![w] = NoJob] /\ opts' = [opts EXCEPT ![w] = NoJob]
  BY DEF Finish
<1>2. PICK s \in {"gone", "awake"} : pc' = [pc EXCEPT ![w] = s]
  BY DEF Finish
<1>3. /\ pc' \in [Workers -> WorkerStates] /\ job' \in [Workers -> Key \cup {NoJob}]
      /\ opts' \in [Workers -> Options \cup {NoJob}]
      /\ \A x \in Workers : /\ pc'[x] = IF x = w THEN s ELSE pc[x]
                            /\ job'[x] = IF x = w THEN NoJob ELSE job[x]
  BY <1>1, <1>2 DEF PipeInv, PipeTyped, WorkerStates
<1>4. \A x \in Workers : Busy(x)' => x # w /\ Busy(x) /\ job[x] # job[w]
  BY <1>1, <1>3 DEF Busy, Outcomes, PipeInv, FlightInv
<1>5. FlightInv'
  BY <1>1, <1>3, <1>4 DEF PipeInv, FlightInv
<1> QED
  BY <1>1, <1>3, <1>5 DEF PipeInv, PipeTyped, choiceVars, trackVars, planVars

LEMMA RestPipe ==
    ASSUME PipeInv, NEW w \in Workers, Sleep(w) \/ TakeToken(w) \/ Stop(w)
    PROVE  PipeInv'
<1>1. /\ UNCHANGED <<choiceVars, trackVars, planVars, queueVars, job, opts>>
      /\ \E s \in {"asleep", "awake", "gone"} : pc' = [pc EXCEPT ![w] = s]
  BY DEF Sleep, TakeToken, Stop
<1>2. PICK s \in {"asleep", "awake", "gone"} : pc' = [pc EXCEPT ![w] = s]
  BY <1>1
<1>3. pc' \in [Workers -> WorkerStates] /\ FlightInv'
  BY <1>1, <1>2, WorkGoesOn DEF queueVars, WorkerStates
<1> QED
  BY <1>1, <1>3 DEF PipeInv, PipeTyped, choiceVars, trackVars, planVars, queueVars

LEMMA WorldPipe ==
    ASSUME PipeInv,
           (\E w \in Workers : Cancel(w)) \/ (\E k \in Key : Evict(k)) \/ Tick \/ UNCHANGED vars
    PROVE  PipeInv'
<1>1. UNCHANGED <<net, lang, view, state, planVars, waiting, flying, pc, job, opts>>
  BY DEF Cancel, Evict, Tick, vars, choiceVars, trackVars, queueVars, workerVars
<1>2. FlightInv'
  BY <1>1, OwnerFlights DEF PipeInv, FlightInv
<1> QED
  BY <1>1, <1>2 DEF PipeInv, PipeTyped, planVars

LEMMA InitPipe == Init => PipeInv
<1> SUFFICES ASSUME Init PROVE PipeInv
  OBVIOUS
<1>1. PipeTyped
  BY PipelineAssumption DEF Init, PipeTyped, States, WorkerStates, PipelineAssumption
<1>2. FlightInv
  BY DEF Init, FlightInv, Busy, Outcomes
<1> QED
  BY <1>1, <1>2 DEF PipeInv

LEMMA StepPipe == PipeInv /\ [Next]_vars => PipeInv'
<1> SUFFICES ASSUME PipeInv, [Next]_vars PROVE PipeInv'
  OBVIOUS
<1>1. ASSUME NEW w \in Workers, WorkerNext(w) PROVE PipeInv'
  BY <1>1, TakePipe, StartPipe, LoadPipe, LandPipe, FinishPipe, RestPipe DEF WorkerNext
<1> QED
  BY <1>1, OwnerPipe, WorldPipe DEF Next

\* Goroutines inside Work hold different jobs, each in flight, none waiting.
THEOREM PipeInvariant == Spec => []PipeInv
BY InitPipe, StepPipe, PTL DEF Spec

-----------------------------------------------------------------------------
(* Where loads land.                                                       *)

\* What is on hand, and what is about to be, comes from the source of its key.
SourceInv ==
    /\ CachedFromItsSource
    /\ \A w \in Workers : pc[w] = "tile" =>
          job[w].source = Embedded \/ opts[w].net = job[w].source

\* The step of one goroutine leaves the others where they are.
LEMMA OthersStay ==
    ASSUME PipeInv, NEW w \in Workers, WorkerNext(w)
    PROVE  \A x \in Workers \ {w} : pc'[x] = pc[x] /\ job'[x] = job[x] /\ opts'[x] = opts[x]
<1>1. CASE \E k \in Key : Take(w, k)
  BY <1>1 DEF Take, PipeInv, PipeTyped
<1>2. CASE Start(w)
  BY <1>2 DEF Start, PipeInv, PipeTyped
<1>3. CASE Load(w) \/ Sleep(w) \/ TakeToken(w) \/ Stop(w)
  BY <1>3 DEF Load, Sleep, TakeToken, Stop, PipeInv, PipeTyped
<1>4. CASE Land(w)
  BY <1>4 DEF Land, LandTile, LandFailure, LandNothing, PipeInv, PipeTyped
<1>5. CASE Finish(w)
  BY <1>5 DEF Finish, PipeInv, PipeTyped
<1> QED
  BY <1>1, <1>2, <1>3, <1>4, <1>5 DEF WorkerNext

LEMMA LoadedFromItsSource ==
    ASSUME PipeInv, NEW w \in Workers, Load(w), pc'[w] = "tile"
    PROVE  job[w].source = Embedded \/ opts[w].net = job[w].source
<1>1. PICK o \in Loads(w) \cup {"cancelled", "over"} : pc' = [pc EXCEPT ![w] = o]
  BY DEF Load
<1>2. "tile" \in Loads(w)
  BY <1>1 DEF PipeInv, PipeTyped
<1> QED
  BY <1>2 DEF Loads

LEMMA StepSource == PipeInv /\ SourceInv /\ [Next]_vars => SourceInv'
<1> SUFFICES ASSUME PipeInv, SourceInv, [Next]_vars PROVE SourceInv'
  OBVIOUS
<1>1. CASE OwnerNext \/ (\E w \in Workers : Cancel(w)) \/ (\E k \in Key : Evict(k))
           \/ Tick \/ UNCHANGED vars
  <2>1. UNCHANGED <<pc, job, opts>> /\ cache' \subseteq cache
    BY <1>1 DEF OwnerNext, Render, SettleNote, Plan, Keep, AddOne, DeferRest, Look, Source,
                LabelLanguage, Purge, Cancel, Evict, Tick, vars, workerVars
  <2> QED
    BY <2>1 DEF SourceInv, CachedFromItsSource
<1>2. ASSUME NEW w \in Workers, WorkerNext(w) PROVE SourceInv'
  <2>1. \A x \in Workers \ {w} : pc'[x] = pc[x] /\ job'[x] = job[x] /\ opts'[x] = opts[x]
    BY <1>2, OthersStay
  <2>2. CASE (\E k \in Key : Take(w, k)) \/ Start(w) \/ Finish(w)
             \/ Sleep(w) \/ TakeToken(w) \/ Stop(w)
    <3>1. cache' = cache /\ pc'[w] # "tile"
      BY <2>2 DEF Take, Start, Finish, Sleep, TakeToken, Stop, PipeInv, PipeTyped
    <3> QED
      BY <2>1, <3>1 DEF SourceInv, CachedFromItsSource
  <2>3. CASE Load(w)
    <3>1. cache' = cache /\ job' = job /\ opts' = opts
      BY <2>3 DEF Load
    <3> QED
      BY <2>1, <2>3, <3>1, LoadedFromItsSource DEF SourceInv, CachedFromItsSource
  <2>4. CASE Land(w)
    <3>1. /\ UNCHANGED <<job, opts>>
          /\ \E s \in {"over", "given"} : pc' = [pc EXCEPT ![w] = s]
      BY <2>4 DEF Land, LandTile, LandFailure, LandNothing
    <3>2. pc'[w] # "tile"
      BY <3>1 DEF PipeInv, PipeTyped
    <3>3. CachedFromItsSource'
      <4>1. CASE LandTile(w)
        <5> DEFINE got == [key |-> job[w], lang |-> opts[w].lang,
                           from |-> IF job[w].source = Embedded THEN Embedded ELSE opts[w].net]
        <5>1. pc[w] = "tile" /\ cache' = {c \in cache : c.key # job[w]} \cup {got}
          BY <4>1 DEF LandTile
        <5>2. got.from = got.key.source
          BY <5>1 DEF SourceInv
        <5> QED
          BY <5>1, <5>2 DEF SourceInv, CachedFromItsSource
      <4>2. CASE LandFailure(w) \/ LandNothing(w)
        BY <4>2 DEF LandFailure, LandNothing, SourceInv, CachedFromItsSource
      <4> QED
        BY <2>4, <4>1, <4>2 DEF Land
    <3> QED
      BY <2>1, <3>1, <3>2, <3>3 DEF SourceInv
  <2> QED
    BY <1>2, <2>2, <2>3, <2>4 DEF WorkerNext
<1> QED
  BY <1>1, <1>2 DEF Next

\* A tile is on hand only under the source it was fetched from, whichever
\* source was named when its job was queued, started and landed.
THEOREM TilesAreOfTheirSource == Spec => []CachedFromItsSource
<1>1. Init => SourceInv
  BY DEF Init, SourceInv, CachedFromItsSource
<1>2. SourceInv => CachedFromItsSource
  BY DEF SourceInv
<1> QED
  BY <1>1, <1>2, StepSource, PipeInvariant, PTL DEF Spec

-----------------------------------------------------------------------------
\* A plan neither makes a track loading nor takes that from one.
LEMMA PlansLeaveLoading ==
    ASSUME NEW k \in Key, NEW clocked \in BOOLEAN
    PROVE  PlannedState(k, clocked) = "loading" <=> state[k] = "loading"
<1>1. state[k] = "loading" => Refreshed(k) = "loading"
  BY DEF Refreshed
<1>2. state[k] # "loading" => Refreshed(k) # "loading"
  BY DEF Refreshed
<1> QED
  BY <1>1, <1>2 DEF PlannedState

\* Tracks that keep being loading, or not, and goroutines that keep loading.
LEMMA LoadingStays ==
    ASSUME LoadingIsInsideRun, UNCHANGED <<pc, job>>,
           \A k \in Key : state'[k] = "loading" <=> state[k] = "loading",
           \A w \in Workers : Loading(w) => job[w] \in Key
    PROVE  LoadingIsInsideRun'
BY DEF LoadingIsInsideRun, Loading

LEMMA OwnerLoading ==
    ASSUME PipeInv, LoadingIsInsideRun,
           OwnerNext \/ (\E w \in Workers : Cancel(w)) \/ (\E k \in Key : Evict(k))
           \/ Tick \/ UNCHANGED vars
    PROVE  LoadingIsInsideRun'
<1>1. UNCHANGED <<pc, job>>
  BY DEF OwnerNext, Render, SettleNote, Plan, Keep, AddOne, DeferRest, Look, Source,
         LabelLanguage, Purge, Cancel, Evict, Tick, vars, workerVars
<1>2. \A w \in Workers : Loading(w) => job[w] \in Key
  BY DEF Loading, PipeInv, FlightInv, Busy
<1>3. CASE Render \/ SettleNote
  <2>1. PICK clocked \in BOOLEAN : Plan(clocked)
    BY <1>3 DEF Render, SettleNote
  <2>2. \A k \in Key : state'[k] = PlannedState(k, clocked)
    BY <2>1 DEF Plan
  <2> QED
    BY <1>1, <1>2, <2>2, PlansLeaveLoading, LoadingStays
<1>4. CASE \/ Keep \/ (\E k \in Key : AddOne(k)) \/ DeferRest
           \/ (\E v \in Views : Look(v)) \/ Purge
           \/ (\E w \in Workers : Cancel(w)) \/ (\E k \in Key : Evict(k))
           \/ Tick \/ UNCHANGED vars
  <2>1. state' = state
    BY <1>4 DEF Keep, AddOne, DeferRest, Look, Purge, Cancel, Evict, Tick, vars, trackVars
  <2> QED
    BY <1>1, <1>2, <2>1, LoadingStays
<1>5. CASE (\E n \in Named : Source(n)) \/ (\E l \in Languages : LabelLanguage(l))
  <2>1. SourcesChanged
    BY <1>5 DEF Source, LabelLanguage
  <2>2. \A k \in Key : state'[k] = "loading" <=> state[k] = "loading"
    BY <2>1 DEF SourcesChanged
  <2> QED
    BY <1>1, <1>2, <2>2, LoadingStays
<1> QED
  BY <1>3, <1>4, <1>5 DEF OwnerNext

LEMMA WorkerLoading ==
    ASSUME ~Panics, PipeInv, PipeInv', LoadingIsInsideRun, NEW w \in Workers, WorkerNext(w)
    PROVE  LoadingIsInsideRun'
<1>1. \A x \in Workers \ {w} : pc'[x] = pc[x] /\ job'[x] = job[x]
  BY OthersStay
<1>2. \A x \in Workers \ {w} : Loading(x)' <=> Loading(x)
  BY <1>1 DEF Loading
<1>3. \A x \in Workers : Loading(x) => job[x] \in Key /\ Busy(x)
  BY DEF Loading, PipeInv, FlightInv, Busy
<1>4. \A v, x \in Workers : Loading(v)' /\ Loading(x)' /\ v # x => job'[v] # job'[x]
  BY DEF Loading, PipeInv, FlightInv, Busy
<1>5. CASE \/ (\E k \in Key : Take(w, k)) \/ Finish(w)
           \/ Sleep(w) \/ TakeToken(w) \/ Stop(w)
  <2>1. state' = state /\ ~Loading(w) /\ ~Loading(w)'
    BY <1>5 DEF Take, Finish, Sleep, TakeToken, Stop, trackVars, Loading, Outcomes,
                PipeInv, PipeTyped
  <2> QED
    BY <1>1, <1>2, <1>4, <2>1 DEF LoadingIsInsideRun
<1>6. CASE Load(w)
  <2>1. state' = state /\ job' = job /\ Loading(w)
    BY <1>6 DEF Load, trackVars, Loading
  <2>2. PICK o \in Outcomes : pc' = [pc EXCEPT ![w] = o]
    BY <1>6 DEF Load, Loads, Outcomes
  <2>3. Loading(w)'
    BY <2>2 DEF Loading, PipeInv, PipeTyped
  <2> QED
    BY <1>2, <1>4, <2>1, <2>3 DEF LoadingIsInsideRun
<1>7. CASE Start(w)
  <2>1. pc[w] = "taken" /\ ~Loading(w) /\ Busy(w) /\ job' = job /\ job[w] \in Key
    BY <1>7 DEF Start, Loading, Outcomes, Busy, PipeInv, FlightInv
  <2>2. state[job[w]] # "loading"
    BY <1>3, <2>1 DEF LoadingIsInsideRun, PipeInv, FlightInv
  <2>3. CASE state' = [state EXCEPT ![job[w]] = "onhand"] /\ pc' = [pc EXCEPT ![w] = "over"]
    <3>1. ~Loading(w)' /\ \A k \in Key : state'[k] = "loading" <=> state[k] = "loading"
      BY <2>1, <2>2, <2>3 DEF Loading, Outcomes, PipeInv, PipeTyped
    <3> QED
      BY <1>2, <1>3, <1>4, <2>1, <3>1 DEF LoadingIsInsideRun
  <2>4. CASE state' = [state EXCEPT ![job[w]] = "loading"] /\ pc' = [pc EXCEPT ![w] = "load"]
    <3>1. /\ Loading(w)' /\ state'[job[w]] = "loading"
          /\ \A k \in Key \ {job[w]} : state'[k] = state[k]
      BY <2>1, <2>4 DEF Loading, PipeInv, PipeTyped
    <3>2. \A x \in Workers \ {w} : Loading(x) => job[x] # job[w]
      BY <1>3, <2>1 DEF PipeInv, FlightInv
    <3> QED
      BY <1>2, <1>3, <1>4, <2>1, <3>1, <3>2 DEF LoadingIsInsideRun
  <2> QED
    BY <1>7, <2>3, <2>4 DEF Start
<1>8. CASE Land(w)
  <2>1. /\ job' = job /\ pc[w] \in Outcomes
        /\ \E s \in {"over", "given"} : pc' = [pc EXCEPT ![w] = s]
        /\ \E r \in {"onhand", "waiting", "dropped", "unavailable"} :
              state' = [state EXCEPT ![job[w]] = r]
    BY <1>8 DEF Land, LandTile, LandFailure, LandNothing, Outcomes
  <2>2. Loading(w) /\ ~Loading(w)'
    BY <2>1 DEF Loading, Outcomes, PipeInv, PipeTyped
  <2>3. state'[job[w]] # "loading" /\ \A k \in Key \ {job[w]} : state'[k] = state[k]
    BY <1>3, <2>1, <2>2 DEF PipeInv, PipeTyped
  <2>4. \A x \in Workers \ {w} : Loading(x) => job[x] # job[w]
    BY <1>3, <2>2 DEF PipeInv, FlightInv
  <2> QED
    BY <1>2, <1>3, <1>4, <2>1, <2>2, <2>3, <2>4 DEF LoadingIsInsideRun
<1> QED
  BY <1>5, <1>6, <1>7, <1>8 DEF WorkerNext

\* While no load panics, a track says loading exactly while one goroutine is
\* between the two halves of that tile's Run; so what a load lands on is the
\* track of its own tile, and the cache under its own source.
THEOREM LoadsLand ==
    ASSUME ~Panics
    PROVE  Spec => []LoadsLandWhereAsked
<1>1. Init => LoadingIsInsideRun
  BY DEF Init, LoadingIsInsideRun, Loading, Outcomes
<1>2. PipeInv /\ PipeInv' /\ LoadingIsInsideRun /\ [Next]_vars => LoadingIsInsideRun'
  <2> SUFFICES ASSUME PipeInv, PipeInv', LoadingIsInsideRun, [Next]_vars
               PROVE  LoadingIsInsideRun'
    OBVIOUS
  <2> QED
    BY OwnerLoading, WorkerLoading DEF Next
<1>3. Spec => []LoadingIsInsideRun
  BY <1>1, <1>2, PipeInvariant, PTL DEF Spec
<1>4. LoadingIsInsideRun /\ CachedFromItsSource => LoadsLandWhereAsked
  BY DEF LoadsLandWhereAsked
<1> QED
  BY <1>3, <1>4, TilesAreOfTheirSource, PTL

-----------------------------------------------------------------------------
(* Waits and retries.                                                      *)

TimesTyped ==
    /\ failures \in [Key -> Nat]
    /\ wait \in [Key -> Int]
    /\ rest \in [Key -> 0 .. LastRetry]
    /\ later \in [Key -> Int]

\* A wait is a number, however many failures it is for, and no longer than the
\* longest.
LEMMA BackoffIsBounded ==
    ASSUME NEW n \in Nat
    PROVE  backoff(n) \in Int /\ backoff(n) <= LastRetry
<1>1. /\ FirstRetry \in Int /\ LastRetry \in Int /\ FirstRetry <= LastRetry
  BY PipelineAssumption DEF PipelineAssumption
<1>2. CASE n <= 1
  BY <1>1, <1>2 DEF backoff
<1>3. CASE n > 1
  <2>1. PICK m \in Nat : m = n - 1
    BY <1>3
  <2>2. 2 ^ m \in Int
    OBVIOUS
  <2>3. Doubled(n) \in Int
    BY <1>1, <2>1, <2>2 DEF Doubled
  <2> QED
    BY <1>1, <1>3, <2>3 DEF backoff
<1> QED
  BY <1>2, <1>3

LEMMA StampedIsANumber ==
    ASSUME TimesTyped, NEW k \in Key, NEW clocked \in BOOLEAN
    PROVE  Stamped(k, clocked) \in Int
BY BackoffIsBounded DEF Stamped, TimesTyped, Epoch

\* A failure on a track that waits, and what is left of its wait: with the time
\* since that failure it makes up the wait those failures call for.
WaitInv ==
    \A k \in Key :
        state[k] = "waiting" /\ wait[k] \notin {Unset, Epoch} =>
            rest[k] + wait[k] >= backoff(failures[k])

\* While an owner call has not deferred its failed tiles, it holds them.
RetryInv ==
    \/ owner = "free" /\ NextCallKnowsEveryRetry
    \/ /\ owner # "free"
       /\ \A k \in planned : state[k] = "waiting" /\ wait[k] # Unset => k \in held

TimesInv == TimesTyped /\ WaitInv /\ RetryInv

\* What a plan makes of a track that waits.
LEMMA PlansOfWaiting ==
    ASSUME NEW k \in Key, NEW clocked \in BOOLEAN
    PROVE  /\ PlannedState(k, clocked) = "waiting" => state[k] = "waiting" /\ k \in Needed
           /\ state[k] = "waiting" /\ PlannedState(k, clocked) = "queued" =>
                 k \in Needed /\ Due(k, clocked)
<1>1. Refreshed(k) = "waiting" <=> state[k] = "waiting"
  BY DEF Refreshed
<1>2. state[k] = "waiting" => Refreshed(k) = "waiting"
  BY DEF Refreshed
<1> QED
  BY <1>1, <1>2 DEF PlannedState

LEMMA PlanTimes ==
    ASSUME PipeInv, TimesInv, NEW clocked \in BOOLEAN, Plan(clocked)
    PROVE  TimesInv'
<1>1. /\ state' = [k \in Key |-> PlannedState(k, clocked)]
      /\ failures' = [k \in Key |->
             IF state'[k] = "none" \/ state[k] = "dropped" THEN 0 ELSE failures[k]]
      /\ wait' = [k \in Key |->
             IF state'[k] = "none" \/ state[k] = "dropped" THEN Unset
             ELSE IF k \in Needed /\ state[k] = "waiting" THEN Stamped(k, clocked)
             ELSE wait[k]]
      /\ UNCHANGED <<rest, later>>
      /\ planned' = {k \in Needed : state'[k] \in {"queued", "waiting", "loading"}}
      /\ held' = {k \in Needed : state'[k] = "waiting"}
      /\ owner' = "keep"
  BY DEF Plan, queueVars
<1>2. TimesTyped'
  <2>1. failures' \in [Key -> Nat]
    BY <1>1 DEF TimesInv, TimesTyped
  <2>2. \A k \in Key : wait'[k] \in Int
    BY <1>1, StampedIsANumber DEF TimesInv, TimesTyped, Unset
  <2> QED
    BY <1>1, <2>1, <2>2 DEF TimesInv, TimesTyped
<1>3. WaitInv'
  <2> SUFFICES ASSUME NEW k \in Key, state'[k] = "waiting", wait'[k] \notin {Unset, Epoch}
               PROVE  rest[k] + wait'[k] >= backoff(failures'[k])
    BY <1>1 DEF WaitInv
  <2>1. state[k] = "waiting" /\ k \in Needed
    BY <1>1, PlansOfWaiting
  <2>2. wait'[k] = Stamped(k, clocked) /\ failures'[k] = failures[k]
    BY <1>1, <2>1
  <2>3. rest[k] \in Nat /\ failures[k] \in Nat /\ wait[k] \in Int
    BY DEF TimesInv, TimesTyped
  <2>4. CASE wait[k] # Unset
    BY <2>1, <2>2, <2>4 DEF Stamped, TimesInv, WaitInv
  <2>5. CASE wait[k] = Unset
    <3>1. wait'[k] = backoff(failures[k])
      BY <2>2, <2>5 DEF Stamped
    <3> QED
      BY <2>2, <2>3, <3>1, BackoffIsBounded
  <2> QED
    BY <2>4, <2>5
<1>4. RetryInv'
  BY <1>1 DEF RetryInv
<1> QED
  BY <1>2, <1>3, <1>4 DEF TimesInv

\* A step of nobody's retries: times stay, and no track begins to wait.
LEMMA TimesStay ==
    ASSUME TimesInv, UNCHANGED <<failures, wait, rest, later, planned, owner, held>>,
           \A k \in Key : state'[k] = "waiting" => state[k] = "waiting",
           planned \subseteq Key
    PROVE  TimesInv'
<1>1. TimesTyped'
  BY DEF TimesInv, TimesTyped
<1>2. WaitInv'
  BY DEF TimesInv, WaitInv
<1>3. RetryInv'
  BY DEF TimesInv, RetryInv, NextCallKnowsEveryRetry
<1> QED
  BY <1>1, <1>2, <1>3 DEF TimesInv

LEMMA OwnerTimes ==
    ASSUME PipeInv, TimesInv, OwnerNext
    PROVE  TimesInv'
<1>0. planned \subseteq Key
  BY DEF PipeInv, PipeTyped
<1>1. CASE Render \/ SettleNote
  BY <1>1, PlanTimes DEF Render, SettleNote
<1>2. CASE Keep
  <2>1. /\ UNCHANGED <<state, failures, wait, rest, planned, held>>
        /\ owner = "keep" /\ owner' = "add"
        /\ later' = [k \in Key |-> IF k \in planned THEN later[k] ELSE Unset]
    BY <1>2 DEF Keep, trackVars, planVars
  <2>2. TimesTyped'
    BY <2>1 DEF TimesInv, TimesTyped, Unset
  <2>3. WaitInv'
    BY <2>1 DEF TimesInv, WaitInv
  <2>4. RetryInv'
    BY <2>1 DEF TimesInv, RetryInv
  <2> QED
    BY <2>2, <2>3, <2>4 DEF TimesInv
<1>3. CASE \E k \in Key : AddOne(k)
  <2>1. UNCHANGED <<failures, wait, rest, later, planned, owner, held, state>>
    BY <1>3 DEF AddOne, trackVars, planVars
  <2> QED
    BY <1>0, <2>1, TimesStay
<1>4. CASE DeferRest
  <2>1. /\ UNCHANGED <<state, failures, wait, rest, planned>>
        /\ owner = "add" /\ owner' = "free"
        /\ later' = [k \in Key |-> IF k \in held THEN wait[k] ELSE later[k]]
    BY <1>4 DEF DeferRest, trackVars, planVars
  <2>2. TimesTyped'
    BY <2>1 DEF TimesInv, TimesTyped
  <2>3. WaitInv'
    BY <2>1 DEF TimesInv, WaitInv
  <2>4. \A k \in planned : state[k] = "waiting" /\ wait[k] # Unset => later'[k] = wait[k]
    BY <1>0, <2>1 DEF TimesInv, RetryInv
  <2>5. RetryInv'
    BY <2>1, <2>4 DEF RetryInv, NextCallKnowsEveryRetry
  <2> QED
    BY <2>2, <2>3, <2>5 DEF TimesInv
<1>5. CASE \/ \E v \in Views : Look(v)
           \/ \E n \in Named : Source(n)
           \/ \E l \in Languages : LabelLanguage(l)
           \/ Purge
  <2>1. /\ UNCHANGED <<failures, wait, rest, later, planned, owner, held>>
        /\ state' = state \/ SourcesChanged
    BY <1>5 DEF Look, Source, LabelLanguage, Purge, trackVars, planVars, queueVars, noteVars
  <2>2. \A k \in Key : state'[k] = "waiting" => state[k] = "waiting"
    BY <2>1 DEF SourcesChanged
  <2> QED
    BY <1>0, <2>1, <2>2, TimesStay
<1> QED
  BY <1>1, <1>2, <1>3, <1>4, <1>5 DEF OwnerNext

LEMMA WorkerTimes ==
    ASSUME PipeInv, TimesInv, NEW w \in Workers, WorkerNext(w)
    PROVE  TimesInv'
<1>0. planned \subseteq Key /\ state \in [Key -> States]
  BY DEF PipeInv, PipeTyped
<1>1. pc[w] \in {"taken"} \cup Outcomes => job[w] \in Key
  BY DEF PipeInv, FlightInv, Busy
<1>2. CASE \/ (\E k \in Key : Take(w, k)) \/ Load(w) \/ Finish(w)
           \/ Sleep(w) \/ TakeToken(w) \/ Stop(w)
  <2>1. UNCHANGED <<state, failures, wait, rest, later, planned, owner, held>>
    BY <1>2 DEF Take, Load, Finish, Sleep, TakeToken, Stop, trackVars, planVars,
                queueVars, noteVars
  <2> QED
    BY <1>0, <2>1, TimesStay
<1>3. CASE Start(w)
  <2>1. /\ UNCHANGED <<failures, wait, rest, later, planned, owner, held>>
        /\ \E r \in {"onhand", "loading"} : state' = [state EXCEPT ![job[w]] = r]
    BY <1>3 DEF Start, planVars, queueVars, noteVars
  <2>2. \A k \in Key : state'[k] = "waiting" => state[k] = "waiting"
    BY <1>0, <2>1
  <2> QED
    BY <1>0, <2>1, <2>2, TimesStay
<1>4. CASE Land(w) /\ LandNothing(w)
  <2>1. /\ UNCHANGED <<failures, wait, rest, later, planned, owner, held>>
        /\ \E r \in {"dropped", "unavailable"} : state' = [state EXCEPT ![job[w]] = r]
    BY <1>4 DEF Land, LandNothing, planVars, queueVars, noteVars
  <2>2. \A k \in Key : state'[k] = "waiting" => state[k] = "waiting"
    BY <1>0, <2>1
  <2> QED
    BY <1>0, <2>1, <2>2, TimesStay
<1>5. ASSUME Land(w), LandTile(w) \/ LandFailure(w) PROVE TimesInv'
  <2>1. /\ UNCHANGED <<later, planned, owner, held>>
        /\ job[w] \in Key
        /\ \E r \in {"onhand", "waiting"} : state' = [state EXCEPT ![job[w]] = r]
        /\ wait' = [wait EXCEPT ![job[w]] = Unset]
        /\ rest' = rest \/ rest' = [rest EXCEPT ![job[w]] = 0]
    BY <1>1, <1>5 DEF Land, LandTile, LandFailure, planVars, queueVars, noteVars, Outcomes
  <2>2. failures' \in [Key -> Nat] /\ \A k \in Key \ {job[w]} : failures'[k] = failures[k]
    <3>1. failures \in [Key -> Nat] /\ MaxFailures \in Nat
      BY PipelineAssumption DEF TimesInv, TimesTyped, PipelineAssumption
    <3>2. CASE LandTile(w)
      BY <2>1, <3>1, <3>2 DEF LandTile
    <3>3. CASE LandFailure(w)
      BY <2>1, <3>1, <3>3 DEF LandFailure
    <3> QED
      BY <1>5, <3>2, <3>3
  <2>3. LastRetry \in Nat
    BY PipelineAssumption DEF PipelineAssumption
  <2>4. TimesTyped'
    <3>1. wait' \in [Key -> Int] /\ later' \in [Key -> Int]
      BY <2>1 DEF TimesInv, TimesTyped, Unset
    <3>2. CASE rest' = rest
      BY <2>2, <3>1, <3>2 DEF TimesInv, TimesTyped
    <3>3. CASE rest' = [rest EXCEPT ![job[w]] = 0]
      <4>1. 0 \in 0 .. LastRetry
        BY <2>3
      <4>2. rest' \in [Key -> 0 .. LastRetry]
        BY <3>3, <4>1 DEF TimesInv, TimesTyped
      <4> QED
        BY <2>2, <3>1, <4>2 DEF TimesTyped
    <3> QED
      BY <2>1, <3>2, <3>3
  <2>5. /\ wait'[job[w]] = Unset
        /\ \A k \in Key \ {job[w]} :
              wait'[k] = wait[k] /\ rest'[k] = rest[k] /\ state'[k] = state[k]
    BY <1>0, <2>1 DEF TimesInv, TimesTyped
  <2>6. WaitInv'
    BY <2>2, <2>5 DEF TimesInv, WaitInv
  <2>7. RetryInv'
    BY <1>0, <2>1, <2>5 DEF TimesInv, RetryInv, NextCallKnowsEveryRetry
  <2> QED
    BY <2>4, <2>6, <2>7 DEF TimesInv
<1> QED
  BY <1>2, <1>3, <1>4, <1>5 DEF WorkerNext, Land

\* Time takes from a wait what it adds to the time since the failure, unless
\* that has grown as long as any wait.
LEMMA TickTimes ==
    ASSUME PipeInv, TimesInv, Tick
    PROVE  TimesInv'
<1>0. planned \subseteq Key /\ LastRetry \in Nat
  BY PipelineAssumption DEF PipeInv, PipeTyped, PipelineAssumption
<1>1. /\ wait' = [k \in Key |-> IF wait[k] > 0 THEN wait[k] - 1 ELSE wait[k]]
      /\ later' = [k \in Key |-> IF later[k] > 0 THEN later[k] - 1 ELSE later[k]]
      /\ rest' = [k \in Key |-> IF rest[k] < LastRetry THEN rest[k] + 1 ELSE rest[k]]
      /\ UNCHANGED <<state, failures, planned, owner, held>>
  BY DEF Tick, planVars, noteVars
<1>2. \A k \in Key : wait[k] \in Int /\ later[k] \in Int /\ rest[k] \in 0 .. LastRetry
                     /\ failures[k] \in Nat
  BY DEF TimesInv, TimesTyped
<1>3. TimesTyped'
  BY <1>0, <1>1, <1>2 DEF TimesInv, TimesTyped
<1>4. \A k \in Key : wait'[k] \in {Unset, Epoch} <=> wait[k] \in {Unset, Epoch}
  BY <1>1, <1>2 DEF Unset, Epoch
<1>5. WaitInv'
  <2> SUFFICES ASSUME NEW k \in Key, state[k] = "waiting", wait'[k] \notin {Unset, Epoch}
               PROVE  rest'[k] + wait'[k] >= backoff(failures[k])
    BY <1>1 DEF WaitInv
  <2>1. rest[k] + wait[k] >= backoff(failures[k])
    BY <1>4 DEF TimesInv, WaitInv
  <2>2. backoff(failures[k]) \in Int /\ backoff(failures[k]) <= LastRetry
    BY <1>2, BackoffIsBounded
  <2> QED
    BY <1>0, <1>1, <1>2, <2>1, <2>2
<1>6. \A k \in Key : /\ wait'[k] = Unset <=> wait[k] = Unset
                     /\ later[k] = wait[k] => later'[k] = wait'[k]
  BY <1>1, <1>2 DEF Unset
<1>7. RetryInv'
  BY <1>0, <1>1, <1>6 DEF TimesInv, RetryInv, NextCallKnowsEveryRetry
<1> QED
  BY <1>3, <1>5, <1>7 DEF TimesInv

LEMMA StepTimes == PipeInv /\ TimesInv /\ [Next]_vars => TimesInv'
<1> SUFFICES ASSUME PipeInv, TimesInv, [Next]_vars PROVE TimesInv'
  OBVIOUS
<1>1. CASE (\E w \in Workers : Cancel(w)) \/ (\E k \in Key : Evict(k)) \/ UNCHANGED vars
  <2>1. UNCHANGED <<state, failures, wait, rest, later, planned, owner, held>>
    BY <1>1 DEF Cancel, Evict, vars, trackVars, planVars, queueVars, noteVars
  <2> QED
    BY <2>1, TimesStay DEF PipeInv, PipeTyped
<1> QED
  BY <1>1, OwnerTimes, WorkerTimes, TickTimes DEF Next

\* However late answers come, a track that waits keeps the time it waits for.
THEOREM TimesInvariant == Spec => []TimesInv
<1>1. Init => TimesInv
  <2> SUFFICES ASSUME Init PROVE TimesInv
    OBVIOUS
  <2>1. TimesTyped
    BY PipelineAssumption DEF Init, TimesTyped, PipelineAssumption, Unset
  <2>2. WaitInv /\ RetryInv
    BY DEF Init, WaitInv, RetryInv, NextCallKnowsEveryRetry
  <2> QED
    BY <2>1, <2>2 DEF TimesInv
<1> QED
  BY <1>1, StepTimes, PipeInvariant, PTL DEF Spec

\* Between owner calls the host knows of every retry the last plan stamped, at
\* the time of the last failure: what a call holds back while it adds its jobs
\* is what it defers at its end.
THEOREM RetriesAreKnown == Spec => []NextCallKnowsEveryRetry
<1>1. TimesInv => NextCallKnowsEveryRetry
  BY DEF TimesInv, RetryInv, NextCallKnowsEveryRetry
<1> QED
  BY <1>1, TimesInvariant, PTL

-----------------------------------------------------------------------------
(* Nothing ends early.                                                     *)

\* A load is given up only where its context ended, its queue dropped it or its
\* source left.
GivenInv ==
    \A w \in Workers : pc[w] \in {"cancelled", "given"} =>
        \/ opts[w].net # job[w].source
        \/ w \in ended
        \/ job[w] \in dropped

LEMMA StepGiven == PipeInv /\ GivenInv /\ [Next]_vars => GivenInv'
<1> SUFFICES ASSUME PipeInv, GivenInv, [Next]_vars PROVE GivenInv'
  OBVIOUS
<1>1. CASE \/ OwnerNext \/ (\E w \in Workers : Cancel(w)) \/ (\E k \in Key : Evict(k))
           \/ Tick \/ UNCHANGED vars
  <2>1. UNCHANGED <<pc, job, opts>> /\ ended \subseteq ended' /\ dropped \subseteq dropped'
    BY <1>1 DEF OwnerNext, Render, SettleNote, Plan, Keep, AddOne, DeferRest, Look,
                Source, LabelLanguage, Purge, Cancel, Evict, Tick, vars, workerVars, queueVars
  <2> QED
    BY <2>1 DEF GivenInv
<1>2. ASSUME NEW w \in Workers, WorkerNext(w) PROVE GivenInv'
  <2>1. /\ \A x \in Workers \ {w} : pc'[x] = pc[x] /\ job'[x] = job[x] /\ opts'[x] = opts[x]
        /\ ended' = ended
    BY <1>2, OthersStay DEF WorkerNext, Take, Start, Load, Land, Finish, Sleep, TakeToken,
                Stop, workerVars
  <2>2. dropped' = dropped \/ (dropped' = dropped \ {job[w]} /\ Busy(w))
    BY <1>2 DEF WorkerNext, Take, Start, Load, Land, Finish, Sleep, TakeToken,
                Stop, queueVars, Busy
  <2>3. \A x \in Workers \ {w} : pc[x] \in {"cancelled", "given"} /\ Busy(w) => job[x] # job[w]
    BY DEF PipeInv, FlightInv, Busy, Outcomes
  <2>4. ASSUME pc'[w] \in {"cancelled", "given"}
        PROVE  \/ opts'[w].net # job'[w].source
               \/ w \in ended'
               \/ job'[w] \in dropped'
    <3>1. pc \in [Workers -> WorkerStates]
      BY DEF PipeInv, PipeTyped
    <3>2. CASE Load(w)
      BY <2>4, <3>1, <3>2 DEF Load, Loads, GivenUp, queueVars
    <3>3. CASE Land(w)
      <4>1. pc[w] = "cancelled" /\ UNCHANGED <<job, opts, ended, dropped>>
        BY <2>4, <3>1, <3>3 DEF Land, LandTile, LandFailure, LandNothing, queueVars
      <4> QED
        BY <4>1 DEF GivenInv
    <3>4. ~(\E k \in Key : Take(w, k)) /\ ~Start(w) /\ ~Finish(w) /\ ~Sleep(w)
          /\ ~TakeToken(w) /\ ~Stop(w)
      BY <2>4, <3>1 DEF Take, Start, Finish, Sleep, TakeToken, Stop
    <3> QED
      BY <1>2, <3>2, <3>3, <3>4 DEF WorkerNext
  <2> QED
    BY <2>1, <2>2, <2>3, <2>4 DEF GivenInv
<1> QED
  BY <1>1, <1>2 DEF Next

\* A pump's goroutine ends with its context, or on a load its source's leaving
\* gave up: what a dropped flight returns ends no goroutine.
LEMMA PumpStep ==
    ASSUME PipeInv, GivenInv, [Next]_vars, NEW w \in Workers,
           pc[w] # "gone", pc'[w] = "gone"
    PROVE  w \in ended \/ opts[w].net # job[w].source
<1>1. PICK v \in Workers : WorkerNext(v)
  <2>1. ~(OwnerNext \/ (\E x \in Workers : Cancel(x)) \/ (\E k \in Key : Evict(k))
          \/ Tick \/ UNCHANGED vars)
    BY DEF OwnerNext, Render, SettleNote, Plan, Keep, AddOne, DeferRest, Look,
           Source, LabelLanguage, Purge, Cancel, Evict, Tick, vars, workerVars
  <2> QED
    BY <2>1 DEF Next
<1>2. v = w
  BY <1>1, OthersStay
<1>3. Finish(w) \/ Stop(w)
  <2>1. pc \in [Workers -> WorkerStates]
    BY DEF PipeInv, PipeTyped
  <2>2. ~(\E k \in Key : Take(w, k)) /\ ~Start(w) /\ ~Load(w) /\ ~Land(w) /\ ~Sleep(w)
        /\ ~TakeToken(w)
    BY <2>1 DEF Take, Start, Load, Loads, Land, LandTile, LandFailure, LandNothing,
                Sleep, TakeToken, Outcomes
  <2> QED
    BY <1>1, <1>2, <2>2 DEF WorkerNext
<1>4. CASE Finish(w)
  <2>1. pc \in [Workers -> WorkerStates]
    BY DEF PipeInv, PipeTyped
  <2>2. job[w] \notin dropped /\ (w \in ended \/ pc[w] = "given")
    BY <1>4, <2>1 DEF Finish
  <2> QED
    BY <2>2 DEF GivenInv
<1> QED
  BY <1>3, <1>4 DEF Stop

\* A step that queues a failed tile again is a plan with a clock that finds its
\* wait over.
LEMMA RetryStep ==
    ASSUME PipeInv, TimesInv, [Next]_vars, NEW k \in Key,
           state[k] = "waiting", state'[k] = "queued", wait[k] # Epoch
    PROVE  rest[k] >= backoff(failures[k])
<1>0. state \in [Key -> States]
  BY DEF PipeInv, PipeTyped
<1>1. PICK clocked \in BOOLEAN : Plan(clocked)
  <2>1. ~(Keep \/ (\E j \in Key : AddOne(j)) \/ DeferRest \/ (\E v \in Views : Look(v))
          \/ Purge \/ (\E x \in Workers : Cancel(x)) \/ (\E j \in Key : Evict(j))
          \/ Tick \/ UNCHANGED vars)
    BY DEF Keep, AddOne, DeferRest, Look, Purge, Cancel, Evict, Tick, vars, trackVars
  <2>2. ~((\E n \in Named : Source(n)) \/ (\E l \in Languages : LabelLanguage(l)))
    BY DEF Source, LabelLanguage, SourcesChanged
  <2>3. ASSUME NEW w \in Workers PROVE ~WorkerNext(w)
    <3>1. ~((\E j \in Key : Take(w, j)) \/ Load(w) \/ Finish(w) \/ Sleep(w)
            \/ TakeToken(w) \/ Stop(w))
      BY DEF Take, Load, Finish, Sleep, TakeToken, Stop, trackVars
    <3>2. ~(Start(w) \/ Land(w))
      BY <1>0 DEF Start, Land, LandTile, LandFailure, LandNothing
    <3> QED
      BY <3>1, <3>2 DEF WorkerNext
  <2> QED
    BY <2>1, <2>2, <2>3 DEF Next, OwnerNext, Render, SettleNote
<1>2. Due(k, clocked)
  <2>1. state'[k] = PlannedState(k, clocked)
    BY <1>1 DEF Plan
  <2> QED
    BY <2>1, PlansOfWaiting
<1>3. wait[k] \in Int /\ rest[k] \in Nat /\ failures[k] \in Nat
  BY DEF TimesInv, TimesTyped
<1>4. CASE wait[k] # Unset
  <2>1. wait[k] = 0
    BY <1>2, <1>4 DEF Due, Stamped
  <2> QED
    BY <1>3, <1>4, <2>1, BackoffIsBounded DEF TimesInv, WaitInv, Unset, Epoch
<1>5. CASE wait[k] = Unset
  BY <1>2, <1>3, <1>5, BackoffIsBounded DEF Due, Stamped, Epoch
<1> QED
  BY <1>4, <1>5

\* Neither a goroutine of a pump nor the wait of a failed tile ends before its
\* time.
THEOREM NothingEnds == Spec => NothingEndsEarly
<1>1. Init => GivenInv
  BY DEF Init, GivenInv
<1>2. PipeInv /\ GivenInv /\ [Next]_vars =>
        [\A w \in Workers : pc[w] # "gone" /\ pc'[w] = "gone" =>
            w \in ended \/ opts[w].net # job[w].source]_vars
  BY PumpStep
<1>3. PipeInv /\ TimesInv /\ [Next]_vars =>
        [\A k \in Key :
            state[k] = "waiting" /\ state'[k] = "queued" /\ wait[k] # Epoch =>
                rest[k] >= backoff(failures[k])]_vars
  BY RetryStep
<1>4. Spec => PumpEndsWhenCalledOff
  BY <1>1, <1>2, StepGiven, PipeInvariant, PTL DEF Spec, PumpEndsWhenCalledOff
<1>5. Spec => RetryWaitsItsTime
  BY <1>3, PipeInvariant, TimesInvariant, PTL DEF Spec, RetryWaitsItsTime
<1> QED
  BY <1>4, <1>5 DEF NothingEndsEarly

-----------------------------------------------------------------------------
(***************************************************************************)
(* The decoder of vector tiles, for any bodies, layers and limits.         *)
(*                                                                         *)
(* First the pen.  Whatever it is told, it is either refused or leaves a   *)
(* drawing: the coordinates of the layer so far, cut into parts that come  *)
(* one after the other, with an open part behind the last (Drawing).       *)
(***************************************************************************)

Spots == Int \X Int
Pens == [x : Int, y : Int, open : Nat, lined : BOOLEAN, coords : Seq(Spots), parts : Seq(Nat), bad : BOOLEAN]

\* Where the coordinates before a part end, and where those of the last do.
EndsBefore(parts, p) == IF p = 1 THEN 0 ELSE parts[p - 1]
EndedAt(parts) == IF Len(parts) = 0 THEN 0 ELSE parts[Len(parts)]

Continues(s, t) == Len(t) <= Len(s) /\ \A i \in 1..Len(t) : s[i] = t[i]

PartsCut(coords, parts) ==
  \A p \in 1..Len(parts) : EndsBefore(parts, p) < parts[p] /\ parts[p] <= Len(coords)

RingCloses(coords, parts, p) == coords[EndsBefore(parts, p) + 1] = coords[parts[p]]

\* What a feature of a kind has drawn, after the coordinates and parts of
\* the layer it began with (first, cut).
Drawing(kind, first, cut, coords, parts, open) ==
  /\ coords \in Seq(Spots) /\ parts \in Seq(Nat) /\ open \in Nat
  /\ Continues(coords, first) /\ Continues(parts, cut)
  /\ PartsCut(coords, parts)
  /\ open = 0 => Len(coords) = EndedAt(parts)
  /\ open # 0 => open = EndedAt(parts) + 1 /\ open <= Len(coords)
  /\ kind = Polygon => \A p \in (Len(cut) + 1)..Len(parts) : RingCloses(coords, parts, p)

\* A coordinate behind the others changes none of the parts.
LEMMA OneMoreSpot ==
    ASSUME NEW c \in Seq(Spots), NEW p \in Seq(Nat), NEW at \in Spots, PartsCut(c, p)
    PROVE  /\ PartsCut(Append(c, at), p)
           /\ \A k \in 1..Len(p) : RingCloses(Append(c, at), p, k) <=> RingCloses(c, p, k)
<1> DEFINE d == Append(c, at)
<1>1. d \in Seq(Spots) /\ Len(d) = Len(c) + 1 /\ \A i \in 1..Len(c) : d[i] = c[i]
  OBVIOUS
<1>2. Len(c) \in Nat /\ Len(p) \in Nat /\ \A k \in 1..Len(p) : p[k] \in Nat
  OBVIOUS
<1> HIDE DEF d
<1>3. ASSUME NEW k \in 1..Len(p)
      PROVE  EndsBefore(p, k) \in Nat /\ EndsBefore(p, k) < p[k] /\ p[k] <= Len(c)
  BY <1>2 DEF EndsBefore, PartsCut
<1>4. PartsCut(d, p)
  BY <1>1, <1>2, <1>3 DEF PartsCut
<1>5. ASSUME NEW k \in 1..Len(p) PROVE RingCloses(d, p, k) <=> RingCloses(c, p, k)
  <2>1. EndsBefore(p, k) + 1 \in 1..Len(c) /\ p[k] \in 1..Len(c)
    BY <1>2, <1>3
  <2> QED
    BY <1>1, <2>1 DEF RingCloses
<1> QED
  BY <1>4, <1>5 DEF d

LEMMA ContinuesOn ==
    ASSUME NEW X, NEW s \in Seq(X), NEW t, Len(t) \in Nat, Continues(s, t), NEW x \in X
    PROVE  Continues(Append(s, x), t)
<1>1. /\ Len(Append(s, x)) = Len(s) + 1 /\ Len(s) \in Nat
      /\ \A i \in 1..Len(s) : Append(s, x)[i] = s[i]
  OBVIOUS
<1> QED
  BY <1>1 DEF Continues

\* The open part grows.
LEMMA DrawingGrows ==
    ASSUME NEW kind, NEW c0 \in Seq(Spots), NEW p0 \in Seq(Nat), NEW c, NEW p, NEW o,
           Drawing(kind, c0, p0, c, p, o), o # 0, NEW at \in Spots
    PROVE  Drawing(kind, c0, p0, Append(c, at), p, o)
<1>1. c \in Seq(Spots) /\ p \in Seq(Nat) /\ o \in Nat /\ Len(c) \in Nat /\ Len(p) \in Nat
  BY DEF Drawing
<1>2. Continues(Append(c, at), c0)
  <2>1. Len(c0) \in Nat
    OBVIOUS
  <2> QED
    BY <1>1, <2>1, ContinuesOn DEF Drawing
<1>3. Append(c, at) \in Seq(Spots) /\ Len(Append(c, at)) = Len(c) + 1
  BY <1>1
<1>4. /\ PartsCut(Append(c, at), p)
      /\ \A k \in 1..Len(p) : RingCloses(Append(c, at), p, k) <=> RingCloses(c, p, k)
  BY <1>1, OneMoreSpot DEF Drawing
<1>5. kind = Polygon => \A k \in (Len(p0) + 1)..Len(p) : RingCloses(Append(c, at), p, k)
  <2>1. \A k \in (Len(p0) + 1)..Len(p) : k \in 1..Len(p)
    BY <1>1
  <2> QED
    BY <1>4, <2>1 DEF Drawing
<1>6. Continues(p, p0) /\ o = EndedAt(p) + 1 /\ o <= Len(c) + 1
  BY <1>1 DEF Drawing
<1> QED
  BY <1>1, <1>2, <1>3, <1>4, <1>5, <1>6 DEF Drawing

\* A part is begun.
LEMMA DrawingBegins ==
    ASSUME NEW kind, NEW c0 \in Seq(Spots), NEW p0 \in Seq(Nat), NEW c, NEW p,
           Drawing(kind, c0, p0, c, p, 0), NEW at \in Spots
    PROVE  Drawing(kind, c0, p0, Append(c, at), p, Len(c) + 1)
<1>1. c \in Seq(Spots) /\ p \in Seq(Nat) /\ Len(c) \in Nat /\ Len(p) \in Nat /\ Len(c) = EndedAt(p)
  BY DEF Drawing
<1>2. Continues(Append(c, at), c0)
  <2>1. Len(c0) \in Nat
    OBVIOUS
  <2> QED
    BY <1>1, <2>1, ContinuesOn DEF Drawing
<1>3. Append(c, at) \in Seq(Spots) /\ Len(Append(c, at)) = Len(c) + 1
  BY <1>1
<1>4. /\ PartsCut(Append(c, at), p)
      /\ \A k \in 1..Len(p) : RingCloses(Append(c, at), p, k) <=> RingCloses(c, p, k)
  BY <1>1, OneMoreSpot DEF Drawing
<1>5. kind = Polygon => \A k \in (Len(p0) + 1)..Len(p) : RingCloses(Append(c, at), p, k)
  <2>1. \A k \in (Len(p0) + 1)..Len(p) : k \in 1..Len(p)
    BY <1>1
  <2> QED
    BY <1>4, <2>1 DEF Drawing
<1>6. Continues(p, p0) /\ Len(c) + 1 # 0
  BY <1>1 DEF Drawing
<1> QED
  BY <1>1, <1>2, <1>3, <1>4, <1>5, <1>6 DEF Drawing

\* The open part is ended; a ring only where it began.
LEMMA DrawingEnds ==
    ASSUME NEW kind, NEW c0 \in Seq(Spots), NEW p0 \in Seq(Nat), NEW c, NEW p, NEW o,
           Drawing(kind, c0, p0, c, p, o), o # 0, kind = Polygon => c[o] = c[Len(c)]
    PROVE  Drawing(kind, c0, p0, c, Append(p, Len(c)), 0)
<1> DEFINE q == Append(p, Len(c))
           n == Len(p)
<1>1. c \in Seq(Spots) /\ p \in Seq(Nat) /\ o \in Nat /\ Len(c) \in Nat /\ n \in Nat
  BY DEF Drawing
<1>2. o = EndedAt(p) + 1 /\ o <= Len(c)
  BY DEF Drawing
<1>3. /\ q \in Seq(Nat) /\ Len(q) = n + 1 /\ q[n + 1] = Len(c)
      /\ \A k \in 1..n : q[k] = p[k]
  BY <1>1
<1>4. Continues(q, p0)
  <2>1. Len(p0) \in Nat /\ Continues(p, p0)
    BY DEF Drawing
  <2> QED
    BY <1>1, <2>1, ContinuesOn
<1> HIDE DEF q, n
<1>5. EndsBefore(q, n + 1) = EndedAt(p)
  <2>1. CASE n = 0
    BY <2>1 DEF EndsBefore, EndedAt, n
  <2>2. CASE n # 0
    <3>1. n \in 1..n /\ n + 1 # 1 /\ (n + 1) - 1 = n
      BY <1>1, <2>2
    <3>2. EndsBefore(q, n + 1) = q[n]
      BY <3>1 DEF EndsBefore
    <3>3. EndedAt(p) = p[n]
      BY <2>2 DEF EndedAt, n
    <3> QED
      BY <1>3, <3>1, <3>2, <3>3
  <2> QED
    BY <2>1, <2>2
<1>6. \A k \in 1..n : EndsBefore(q, k) = EndsBefore(p, k)
  <2> SUFFICES ASSUME NEW k \in 1..n PROVE EndsBefore(q, k) = EndsBefore(p, k)
    OBVIOUS
  <2>1. CASE k = 1
    BY <2>1 DEF EndsBefore
  <2>2. CASE k # 1
    <3>1. k - 1 \in 1..n
      BY <1>1, <2>2
    <3> QED
      BY <1>3, <2>2, <3>1 DEF EndsBefore
  <2> QED
    BY <2>1, <2>2
<1>7. EndedAt(q) = Len(c)
  <2>1. Len(q) # 0
    BY <1>1, <1>3
  <2> QED
    BY <1>3, <2>1 DEF EndedAt
<1>8. EndedAt(p) \in Int
  BY <1>1 DEF EndedAt, n
<1>9. PartsCut(c, q)
  <2> SUFFICES ASSUME NEW k \in 1..(n + 1) PROVE EndsBefore(q, k) < q[k] /\ q[k] <= Len(c)
    BY <1>3 DEF PartsCut
  <2>1. CASE k = n + 1
    BY <1>1, <1>2, <1>3, <1>5, <1>8, <2>1
  <2>2. CASE k # n + 1
    <3>1. k \in 1..n
      BY <1>1, <2>2
    <3>2. EndsBefore(p, k) < p[k] /\ p[k] <= Len(c)
      BY <3>1 DEF Drawing, PartsCut, n
    <3> QED
      BY <1>3, <1>6, <3>1, <3>2
  <2> QED
    BY <2>1, <2>2
<1>10. kind = Polygon => \A k \in (Len(p0) + 1)..Len(q) : RingCloses(c, q, k)
  <2> SUFFICES ASSUME kind = Polygon, NEW k \in (Len(p0) + 1)..(n + 1) PROVE RingCloses(c, q, k)
    BY <1>3
  <2>1. CASE k = n + 1
    <3>1. c[EndsBefore(q, k) + 1] = c[o] /\ c[q[k]] = c[Len(c)]
      BY <1>2, <1>3, <1>5, <2>1
    <3> QED
      BY <3>1 DEF RingCloses
  <2>2. CASE k # n + 1
    <3>0. Len(p0) \in Nat
      OBVIOUS
    <3>1. k \in 1..n /\ k \in (Len(p0) + 1)..n
      BY <1>1, <2>2, <3>0
    <3>2. RingCloses(c, p, k)
      BY <3>1 DEF Drawing, n
    <3> QED
      BY <1>3, <1>6, <3>1, <3>2 DEF RingCloses
  <2> QED
    BY <2>1, <2>2
<1>11. Continues(c, c0)
  BY DEF Drawing
<1> QED
  BY <1>1, <1>3, <1>4, <1>7, <1>9, <1>10, <1>11 DEF Drawing, q

-----------------------------------------------------------------------------
(* The steps of the pen.                                                   *)

LEMMA StepPenIs ==
    ASSUME NEW pen \in Pens, NEW d \in Spots
    PROVE  /\ StepPen(pen, d) \in Pens
           /\ pen.bad => StepPen(pen, d).bad
           /\ StepPen(pen, d).bad
              \/ /\ \E at \in Spots : StepPen(pen, d).coords = Append(pen.coords, at)
                 /\ StepPen(pen, d).parts = pen.parts /\ StepPen(pen, d).open = pen.open
<1> DEFINE x == pen.x + d[1]
           y == pen.y + d[2]
<1>1. x \in Int /\ y \in Int /\ <<x, y>> \in Spots
  BY DEF Pens, Spots
<1>2. StepPen(pen, d) = IF {x, y} \subseteq (-PenReach - 1)..PenReach
                        THEN [pen EXCEPT !.x = x, !.y = y, !.coords = Append(@, <<x, y>>)]
                        ELSE [pen EXCEPT !.bad = TRUE]
  BY DEF StepPen, Refuse
<1>3. Append(pen.coords, <<x, y>>) \in Seq(Spots)
  BY <1>1 DEF Pens
<1> HIDE DEF x, y
<1>4. CASE {x, y} \subseteq (-PenReach - 1)..PenReach
  <2>1. StepPen(pen, d) = [pen EXCEPT !.x = x, !.y = y, !.coords = Append(pen.coords, <<x, y>>)]
    BY <1>2, <1>4
  <2>2. StepPen(pen, d) \in Pens
    BY <1>1, <1>3, <2>1 DEF Pens
  <2> QED
    BY <1>1, <2>1, <2>2 DEF Pens
<1>5. CASE ~({x, y} \subseteq (-PenReach - 1)..PenReach)
  BY <1>2, <1>5 DEF Pens
<1> QED
  BY <1>4, <1>5

LEMMA EndPartIs ==
    ASSUME NEW pen \in Pens
    PROVE  /\ EndPart(pen) \in Pens
           /\ EndPart(pen).bad = pen.bad /\ EndPart(pen).open = 0
           /\ EndPart(pen).coords = pen.coords
           /\ EndPart(pen).parts = IF pen.open = 0 THEN pen.parts ELSE Append(pen.parts, Len(pen.coords))
<1> DEFINE more == Append(pen.parts, Len(pen.coords))
           no == FALSE
<1>1. more \in Seq(Nat) /\ no \in BOOLEAN
  BY DEF Pens
<1>2. CASE pen.open = 0
  BY <1>2 DEF EndPart, Pens
<1>3. CASE pen.open # 0
  <2>1. EndPart(pen) = [pen EXCEPT !.parts = more, !.open = 0, !.lined = no]
    BY <1>3 DEF EndPart, Pens
  <2> HIDE DEF more, no
  <2>2. EndPart(pen) \in Pens
    <3>1. [pen EXCEPT !.parts = more] \in Pens
      BY <1>1 DEF Pens
    <3>2. \A q \in Pens : [q EXCEPT !.open = 0] \in Pens
      BY DEF Pens
    <3>3. \A q \in Pens : [q EXCEPT !.lined = no] \in Pens
      BY <1>1 DEF Pens
    <3> QED
      BY <2>1, <3>1, <3>2, <3>3
  <2>3. EndPart(pen).open = 0 /\ EndPart(pen).coords = pen.coords /\ EndPart(pen).parts = more
    BY <2>1 DEF Pens
  <2>4. EndPart(pen).bad = pen.bad
    BY <2>1 DEF Pens
  <2> QED
    BY <1>3, <2>2, <2>3, <2>4 DEF more
<1> QED
  BY <1>2, <1>3

LEMMA StartPartIs ==
    ASSUME NEW pen \in Pens, NEW d \in Spots
    PROVE  /\ StartPart(pen, d) \in Pens
           /\ pen.bad => StartPart(pen, d).bad
           /\ StartPart(pen, d).bad
              \/ /\ \E at \in Spots : StartPart(pen, d).coords = Append(pen.coords, at)
                 /\ StartPart(pen, d).parts = EndPart(pen).parts
                 /\ StartPart(pen, d).open = Len(pen.coords) + 1
<1> DEFINE done == EndPart(pen)
           begun == [done EXCEPT !.open = Len(done.coords) + 1]
<1>1. done \in Pens /\ done.bad = pen.bad /\ done.coords = pen.coords
  BY EndPartIs
<1> HIDE DEF done
<1>2. Len(pen.coords) + 1 \in Nat
  BY DEF Pens
<1>3. /\ begun \in Pens /\ begun.bad = pen.bad /\ begun.coords = pen.coords
      /\ begun.parts = done.parts /\ begun.open = Len(pen.coords) + 1
  BY <1>1, <1>2 DEF Pens
<1>4. StartPart(pen, d) = StepPen(begun, d)
  BY DEF StartPart, done
<1> HIDE DEF begun
<1> QED
  BY <1>3, <1>4, StepPenIs DEF done

\* What a pen has drawn, and how many parts it has begun.
Draws(kind, first, cut, pen) == Drawing(kind, first, cut, pen.coords, pen.parts, pen.open)
Begun(pen) == Len(pen.parts) + IF pen.open = 0 THEN 0 ELSE 1

\* The pen has drawn on by n coordinates and k parts.
DrawsOn(kind, first, cut, pen, n, k, after) ==
  /\ Draws(kind, first, cut, after)
  /\ Len(after.coords) = Len(pen.coords) + n /\ Begun(after) = Begun(pen) + k

LEMMA BegunIsNatural == ASSUME NEW pen \in Pens PROVE Begun(pen) \in Nat /\ Len(pen.coords) \in Nat
BY DEF Pens, Begun

LEMMA StepPenDraws ==
    ASSUME NEW kind, NEW c0 \in Seq(Spots), NEW p0 \in Seq(Nat), NEW d \in Spots,
           NEW pen \in Pens, Draws(kind, c0, p0, pen), pen.open # 0
    PROVE  LET q == StepPen(pen, d)
           IN  q.bad \/ (DrawsOn(kind, c0, p0, pen, 1, 0, q) /\ q.open # 0)
<1> DEFINE q == StepPen(pen, d)
<1> SUFFICES ASSUME ~q.bad PROVE DrawsOn(kind, c0, p0, pen, 1, 0, q) /\ q.open # 0
  OBVIOUS
<1>1. PICK at \in Spots : q.coords = Append(pen.coords, at)
  BY StepPenIs
<1>2. q.parts = pen.parts /\ q.open = pen.open
  BY StepPenIs
<1> HIDE DEF q
<1>3. Drawing(kind, c0, p0, Append(pen.coords, at), pen.parts, pen.open)
  BY DrawingGrows DEF Draws
<1>4. Len(q.coords) = Len(pen.coords) + 1
  BY <1>1 DEF Pens
<1>5. Begun(q) = Begun(pen) + 0
  BY <1>2, BegunIsNatural DEF Begun
<1> QED
  BY <1>1, <1>2, <1>3, <1>4, <1>5 DEF Draws, DrawsOn

LEMMA EndPartDraws ==
    ASSUME NEW kind, NEW c0 \in Seq(Spots), NEW p0 \in Seq(Nat),
           NEW pen \in Pens, Draws(kind, c0, p0, pen),
           kind = Polygon /\ pen.open # 0 => pen.coords[pen.open] = pen.coords[Len(pen.coords)]
    PROVE  /\ Draws(kind, c0, p0, EndPart(pen))
           /\ Len(EndPart(pen).parts) = Begun(pen)
<1> DEFINE q == EndPart(pen)
<1>1. /\ q.open = 0 /\ q.coords = pen.coords
      /\ q.parts = IF pen.open = 0 THEN pen.parts ELSE Append(pen.parts, Len(pen.coords))
  BY EndPartIs
<1> HIDE DEF q
<1>2. CASE pen.open = 0
  <2>1. Len(pen.parts) \in Nat
    BY DEF Pens
  <2> QED
    BY <1>1, <1>2, <2>1 DEF Draws, Begun, q
<1>3. CASE pen.open # 0
  <2>1. Drawing(kind, c0, p0, pen.coords, Append(pen.parts, Len(pen.coords)), 0)
    BY <1>3, DrawingEnds DEF Draws
  <2>2. Len(Append(pen.parts, Len(pen.coords))) = Len(pen.parts) + 1
    BY DEF Pens
  <2> QED
    BY <1>1, <1>3, <2>1, <2>2 DEF Draws, Begun, q
<1> QED
  BY <1>2, <1>3

LEMMA StartPartDraws ==
    ASSUME NEW kind, NEW c0 \in Seq(Spots), NEW p0 \in Seq(Nat), NEW d \in Spots,
           NEW pen \in Pens, Draws(kind, c0, p0, pen), kind = Polygon => pen.open = 0
    PROVE  LET q == StartPart(pen, d)
           IN  q.bad \/ DrawsOn(kind, c0, p0, pen, 1, 1, q)
<1> DEFINE q == StartPart(pen, d)
           done == EndPart(pen)
<1> SUFFICES ASSUME ~q.bad PROVE DrawsOn(kind, c0, p0, pen, 1, 1, q)
  OBVIOUS
<1>1. PICK at \in Spots : q.coords = Append(pen.coords, at)
  BY StartPartIs
<1>2. q.parts = done.parts /\ q.open = Len(pen.coords) + 1
  BY StartPartIs
<1>3. Draws(kind, c0, p0, done) /\ Len(done.parts) = Begun(pen)
  BY EndPartDraws
<1>4. done.coords = pen.coords /\ done.open = 0
  BY EndPartIs
<1>5. Len(pen.coords) \in Nat /\ Len(Append(pen.coords, at)) = Len(pen.coords) + 1
  BY DEF Pens
<1> HIDE DEF q, done
<1>6. Drawing(kind, c0, p0, Append(pen.coords, at), done.parts, Len(pen.coords) + 1)
  BY <1>3, <1>4, DrawingBegins DEF Draws
<1>7. Draws(kind, c0, p0, q)
  BY <1>1, <1>2, <1>6 DEF Draws
<1>8. Len(q.parts) = Begun(pen) /\ q.open # 0
  BY <1>2, <1>3, <1>5
<1>9. Begun(q) = Begun(pen) + 1
  BY <1>8 DEF Begun
<1> QED
  BY <1>1, <1>5, <1>7, <1>9 DEF q, DrawsOn

LEMMA ClosePartDraws ==
    ASSUME NEW kind, NEW c0 \in Seq(Spots), NEW p0 \in Seq(Nat), NEW c,
           NEW pen \in Pens, Draws(kind, c0, p0, pen)
    PROVE  LET q == ClosePart(pen, c)
           IN  /\ q \in Pens
               /\ q.bad \/ /\ Draws(kind, c0, p0, q)
                           /\ Len(q.coords) <= Len(pen.coords) + 1 /\ Begun(q) <= Begun(pen)
<1> DEFINE first == pen.coords[pen.open]
           closed == Len(pen.coords) - pen.open + 1 >= 4 /\ Last(pen.coords) = first
           round == IF closed THEN pen ELSE [pen EXCEPT !.coords = Append(@, first)]
           q == ClosePart(pen, c)
<1>1. CASE c.count # 1 \/ pen.open = 0
  <2>1. q = [pen EXCEPT !.bad = TRUE]
    BY <1>1 DEF ClosePart, Refuse
  <2> HIDE DEF q
  <2>2. q \in Pens /\ q.bad
    BY <2>1 DEF Pens
  <2> QED
    BY <2>2 DEF q
<1>2. CASE ~(c.count # 1 \/ pen.open = 0)
  <2>1. q = EndPart(round)
    BY <1>2 DEF ClosePart
  <2>2. pen.open # 0 /\ pen.open \in 1..Len(pen.coords) /\ pen.coords \in Seq(Spots) /\ Len(pen.coords) \in Nat
    BY <1>2 DEF Draws, Drawing
  <2>3. first \in Spots
    BY <2>2
  <2>4. /\ round \in Pens /\ Draws(kind, c0, p0, round) /\ round.open = pen.open
        /\ round.parts = pen.parts /\ Len(round.coords) <= Len(pen.coords) + 1
        /\ round.coords[pen.open] = round.coords[Len(round.coords)]
    <3>1. CASE closed
      <4>1. round = pen /\ Last(pen.coords) = first
        BY <3>1
      <4> QED
        BY <2>2, <4>1 DEF Last
    <3>2. CASE ~closed
      <4>1. round = [pen EXCEPT !.coords = Append(pen.coords, first)]
        BY <3>2 DEF Pens
      <4> HIDE DEF round, first, closed
      <4>2. /\ Append(pen.coords, first) \in Seq(Spots)
            /\ Len(Append(pen.coords, first)) = Len(pen.coords) + 1
            /\ Append(pen.coords, first)[Len(pen.coords) + 1] = first
            /\ Append(pen.coords, first)[pen.open] = pen.coords[pen.open]
        BY <2>2, <2>3
      <4>3. /\ round \in Pens /\ round.open = pen.open /\ round.parts = pen.parts
            /\ round.coords = Append(pen.coords, first)
        BY <4>1, <4>2 DEF Pens
      <4>4. Drawing(kind, c0, p0, Append(pen.coords, first), pen.parts, pen.open)
        BY <2>2, <2>3, DrawingGrows DEF Draws
      <4>5. Draws(kind, c0, p0, round)
        BY <4>3, <4>4 DEF Draws
      <4>6. round.coords[pen.open] = round.coords[Len(round.coords)] /\ Len(round.coords) = Len(pen.coords) + 1
        BY <4>2, <4>3 DEF first
      <4>7. Len(round.coords) <= Len(pen.coords) + 1
        BY <2>2, <4>6
      <4> QED
        BY <4>3, <4>5, <4>6, <4>7
    <3> HIDE DEF closed
    <3> QED
      BY <3>1, <3>2
  <2> HIDE DEF round, q, first, closed
  <2>5. Draws(kind, c0, p0, q) /\ Len(q.parts) = Begun(round)
    BY <2>1, <2>4, EndPartDraws
  <2>6. q \in Pens /\ q.open = 0 /\ q.coords = round.coords
    BY <2>1, <2>4, EndPartIs
  <2>7. Begun(round) = Begun(pen) /\ Begun(q) = Begun(round)
    <3>1. Len(q.parts) \in Nat
      BY <2>6 DEF Pens
    <3> QED
      BY <2>4, <2>5, <2>6, <3>1 DEF Begun
  <2>8. Begun(pen) \in Nat
    BY DEF Begun, Pens
  <2> QED
    BY <2>4, <2>5, <2>6, <2>7, <2>8 DEF q
<1> QED
  BY <1>1, <1>2

-----------------------------------------------------------------------------
(* One command: the points it names, one after the other.                  *)

Lining(k, pen, d) == StepPen(pen, d)
Lines == INSTANCE FoldTheorems WITH Folding <- Lining

Moving(k, pen, d) == StartPart(pen, d)
Moves == INSTANCE FoldTheorems WITH Folding <- Moving

LEMMA LinesAreAFold == ASSUME NEW pen, NEW seq PROVE FoldLeft(StepPen, pen, seq) = Lines!FoldOf(0, pen, seq)
BY DEF FoldLeft, MapThenFoldSet, Lines!FoldOf, Lines!FoldsUp, Max, Lines!Max, Lining

LEMMA MovesAreAFold == ASSUME NEW pen, NEW seq PROVE FoldLeft(StartPart, pen, seq) = Moves!FoldOf(0, pen, seq)
BY DEF FoldLeft, MapThenFoldSet, Moves!FoldOf, Moves!FoldsUp, Max, Moves!Max, Moving

LEMMA DrawsOnAndOn ==
    ASSUME NEW kind, NEW first, NEW cut, NEW pen \in Pens, NEW q, NEW r,
           NEW n \in Int, NEW k \in Int, NEW m \in Int, NEW j \in Int,
           DrawsOn(kind, first, cut, pen, n, k, q), DrawsOn(kind, first, cut, q, m, j, r)
    PROVE  DrawsOn(kind, first, cut, pen, n + m, k + j, r)
<1>1. Begun(pen) \in Int /\ Len(pen.coords) \in Int
  BY BegunIsNatural
<1>2. \A a \in Int : (a + n) + m = a + (n + m) /\ (a + k) + j = a + (k + j)
  OBVIOUS
<1>3. Begun(r) = (Begun(pen) + k) + j /\ Len(r.coords) = (Len(pen.coords) + n) + m
  BY DEF DrawsOn
<1> QED
  BY <1>1, <1>2, <1>3 DEF DrawsOn

\* Of a line of n points each lengthens the open part.
LEMMA LinesDraw ==
    ASSUME NEW kind, NEW c0 \in Seq(Spots), NEW p0 \in Seq(Nat),
           NEW pen \in Pens, Draws(kind, c0, p0, pen), pen.open # 0,
           NEW seq \in Seq(Spots)
    PROVE  LET q == FoldLeft(StepPen, pen, seq)
           IN  /\ q \in Pens
               /\ q.bad \/ DrawsOn(kind, c0, p0, pen, Len(seq), 0, q)
<1> DEFINE n == Len(seq)
           Right(q, i) == /\ q \in Pens
                          /\ q.bad \/ (DrawsOn(kind, c0, p0, pen, i, 0, q) /\ q.open # 0)
<1>1. n \in Nat /\ DOMAIN seq = 1..n
  OBVIOUS
<1>2. PICK f : /\ f[0] = pen /\ f[n] = FoldLeft(StepPen, pen, seq)
               /\ \A i \in 1..n : f[i] = StepPen(f[i - 1], seq[i])
  <2>1. \E f : Lines!FoldPasses(f, 0, pen, seq, n)
    <3> HIDE DEF n
    <3> QED
      BY <1>1, Lines!FoldSteps
  <2>2. PICK f : Lines!FoldPasses(f, 0, pen, seq, n)
    BY <2>1
  <2>3. /\ f[0] = pen /\ f[n] = Lines!FoldOf(0, pen, seq)
        /\ \A i \in 1..n : f[i] = Lining(0, f[i - 1], seq[i])
    BY <2>2, Zenon DEF Lines!FoldPasses
  <2> QED
    BY <2>3, LinesAreAFold DEF Lining
<1> DEFINE H == {i \in 0..n : Right(f[i], i)}
<1>3. 0 \in H
  BY <1>1, <1>2, BegunIsNatural DEF DrawsOn
<1>4. ASSUME NEW i \in 1..n, i - 1 \in H PROVE i \in H
  <2>1. seq[i] \in Spots
    BY <1>1
  <2>2. Right(f[i - 1], i - 1) /\ f[i] = StepPen(f[i - 1], seq[i])
    BY <1>2, <1>4
  <2> DEFINE q == f[i - 1]
             at == seq[i]
             r == f[i]
  <2> HIDE DEF H, q, at, r
  <2>3. f[i] \in Pens /\ (q.bad => f[i].bad)
    BY <2>1, <2>2, StepPenIs DEF q
  <2>4. CASE q.bad
    BY <1>1, <2>3, <2>4 DEF H
  <2>5. CASE ~q.bad
    <3>1. q \in Pens /\ DrawsOn(kind, c0, p0, pen, i - 1, 0, q) /\ q.open # 0
      BY <2>2, <2>5 DEF q
    <3>2. r = StepPen(q, at) /\ at \in Spots /\ Draws(kind, c0, p0, q)
      BY <2>1, <2>2, <3>1 DEF q, at, r, DrawsOn
    <3>3. r.bad \/ (DrawsOn(kind, c0, p0, q, 1, 0, r) /\ r.open # 0)
      BY <3>1, <3>2, StepPenDraws, Zenon
    <3>4. DrawsOn(kind, c0, p0, q, 1, 0, r) => DrawsOn(kind, c0, p0, pen, (i - 1) + 1, 0 + 0, r)
      <4>1. i - 1 \in Int /\ 0 \in Int /\ 1 \in Int
        OBVIOUS
      <4> QED
        BY <3>1, <4>1, DrawsOnAndOn, Zenon
    <3>5. Right(r, i)
      BY <2>3, <3>3, <3>4 DEF r
    <3> QED
      BY <1>1, <3>5 DEF H, r
  <2> QED
    BY <2>4, <2>5
<1>5. n \in H
  <2> HIDE DEF H, n
  <2>1. \A i \in 0..n : i \in H
    BY <1>1, <1>3, <1>4, OneByOne
  <2> QED
    BY <1>1, <2>1
<1> QED
  BY <1>2, <1>5

\* Of a command that moves n times each move begins a part; of a ring it is
\* the one move, and nothing is open.
LEMMA MovesDraw ==
    ASSUME NEW kind, NEW c0 \in Seq(Spots), NEW p0 \in Seq(Nat),
           NEW pen \in Pens, ~pen.bad, Draws(kind, c0, p0, pen),
           NEW seq \in Seq(Spots), kind = Polygon => pen.open = 0 /\ Len(seq) = 1
    PROVE  LET q == FoldLeft(StartPart, pen, seq)
           IN  /\ q \in Pens
               /\ q.bad \/ DrawsOn(kind, c0, p0, pen, Len(seq), Len(seq), q)
<1> DEFINE n == Len(seq)
           Right(q, i) == /\ q \in Pens
                          /\ q.bad \/ DrawsOn(kind, c0, p0, pen, i, i, q)
<1>1. n \in Nat /\ DOMAIN seq = 1..n
  OBVIOUS
<1>2. PICK f : /\ f[0] = pen /\ f[n] = FoldLeft(StartPart, pen, seq)
               /\ \A i \in 1..n : f[i] = StartPart(f[i - 1], seq[i])
  <2>1. \E f : Moves!FoldPasses(f, 0, pen, seq, n)
    <3> HIDE DEF n
    <3> QED
      BY <1>1, Moves!FoldSteps
  <2>2. PICK f : Moves!FoldPasses(f, 0, pen, seq, n)
    BY <2>1
  <2>3. /\ f[0] = pen /\ f[n] = Moves!FoldOf(0, pen, seq)
        /\ \A i \in 1..n : f[i] = Moving(0, f[i - 1], seq[i])
    BY <2>2, Zenon DEF Moves!FoldPasses
  <2> QED
    BY <2>3, MovesAreAFold DEF Moving
<1> DEFINE H == {i \in 0..n : Right(f[i], i)}
<1>3. 0 \in H
  BY <1>1, <1>2, BegunIsNatural DEF DrawsOn
<1>4. ASSUME NEW i \in 1..n, i - 1 \in H PROVE i \in H
  <2>1. seq[i] \in Spots
    BY <1>1
  <2>2. Right(f[i - 1], i - 1) /\ f[i] = StartPart(f[i - 1], seq[i])
    BY <1>2, <1>4
  <2> DEFINE q == f[i - 1]
             at == seq[i]
             r == f[i]
  <2>0. kind = Polygon => q.open = 0
    <3> SUFFICES ASSUME kind = Polygon PROVE q.open = 0
      OBVIOUS
    <3>1. i - 1 = 0
      BY <1>1, SMTT(30)
    <3> QED
      BY <1>2, <3>1
  <2> HIDE DEF H, q, at, r
  <2>3. f[i] \in Pens /\ (q.bad => f[i].bad)
    BY <2>1, <2>2, StartPartIs DEF q
  <2>4. CASE q.bad
    BY <1>1, <2>3, <2>4 DEF H
  <2>5. CASE ~q.bad
    <3>1. q \in Pens /\ DrawsOn(kind, c0, p0, pen, i - 1, i - 1, q)
      BY <2>2, <2>5 DEF q
    <3>2. r = StartPart(q, at) /\ at \in Spots /\ Draws(kind, c0, p0, q)
      BY <2>1, <2>2, <3>1 DEF q, at, r, DrawsOn
    <3>3. r.bad \/ DrawsOn(kind, c0, p0, q, 1, 1, r)
      BY <2>0, <3>1, <3>2, StartPartDraws, Zenon
    <3>4. DrawsOn(kind, c0, p0, q, 1, 1, r) => DrawsOn(kind, c0, p0, pen, (i - 1) + 1, (i - 1) + 1, r)
      <4>1. i - 1 \in Int /\ 0 \in Int /\ 1 \in Int
        OBVIOUS
      <4> QED
        BY <3>1, <4>1, DrawsOnAndOn, Zenon
    <3>5. Right(r, i)
      BY <2>3, <3>3, <3>4 DEF r
    <3> QED
      BY <1>1, <3>5 DEF H, r
  <2> QED
    BY <2>4, <2>5
<1>5. n \in H
  <2> HIDE DEF H, n
  <2>1. \A i \in 0..n : i \in H
    BY <1>1, <1>3, <1>4, OneByOne
  <2> QED
    BY <1>1, <2>1
<1> QED
  BY <1>2, <1>5

LEMMA OutOfPlaceIs ==
    ASSUME NEW kind, NEW pen, NEW c
    PROVE  /\ c.id = MoveTo /\ ~OutOfPlace(kind, pen, c) =>
                (kind # Line => pen.open = 0) /\ (kind # Point => c.count = 1)
           /\ c.id = LineTo /\ ~OutOfPlace(kind, pen, c) => pen.open # 0
           /\ ~OutOfPlace(kind, pen, c) => c.id \in {MoveTo, LineTo, ClosePath}
<1>1. CASE c.id = MoveTo
  <2>1. OutOfPlace(kind, pen, c) <=> (kind # Line /\ pen.open # 0) \/ (kind # Point /\ c.count # 1)
    BY <1>1 DEF OutOfPlace, MoveTo, LineTo, ClosePath
  <2> QED
    BY <1>1, <2>1 DEF MoveTo, LineTo
<1>2. CASE c.id = LineTo
  <2>1. OutOfPlace(kind, pen, c) <=> kind = Point \/ pen.open = 0 \/ (kind = Polygon /\ pen.lined)
    BY <1>2 DEF OutOfPlace, MoveTo, LineTo, ClosePath
  <2> QED
    BY <1>2, <2>1 DEF MoveTo, LineTo
<1>3. CASE c.id \notin {MoveTo, LineTo}
  BY <1>3 DEF OutOfPlace, MoveTo, LineTo, ClosePath
<1> QED
  BY <1>1, <1>2, <1>3

\* What the counting pass counted for a command is room for what it draws.
LEMMA CommandDraws ==
    ASSUME NEW kind, NEW c0 \in Seq(Spots), NEW p0 \in Seq(Nat),
           NEW pen \in Pens, pen.bad \/ Draws(kind, c0, p0, pen), NEW c \in Command
    PROVE  LET q == RunCommand(kind, pen, c)
           IN  /\ q \in Pens
               /\ q.bad \/ /\ ~pen.bad /\ Draws(kind, c0, p0, q)
                           /\ Len(q.coords) <= Len(pen.coords) + CommandCounts(c).coords
                           /\ Begun(q) <= Begun(pen) + CommandCounts(c).parts
<1> DEFINE q == RunCommand(kind, pen, c)
           seq == SubSeq(c.points, 1, c.count)
<1>1. CASE pen.bad \/ c.count = 0 \/ CutShort(c) \/ OutOfPlace(kind, pen, c)
  <2>1. q = [pen EXCEPT !.bad = TRUE]
    BY <1>1 DEF RunCommand, Refuse
  <2> HIDE DEF q
  <2>2. q \in Pens /\ q.bad
    BY <2>1 DEF Pens
  <2> QED
    BY <2>2 DEF q
<1>2. CASE ~(pen.bad \/ c.count = 0 \/ CutShort(c) \/ OutOfPlace(kind, pen, c))
  <2>0. Len(pen.coords) \in Nat /\ Begun(pen) \in Nat
    BY BegunIsNatural
  <2>1. c.id \in Nat /\ c.count \in Nat /\ c.points \in Seq(Spots)
    BY DEF Command, Spots
  <2>2. c.id # ClosePath => seq \in Seq(Spots) /\ Len(seq) = c.count
    <3> SUFFICES ASSUME c.id # ClosePath PROVE seq \in Seq(Spots) /\ Len(seq) = c.count
      OBVIOUS
    <3>1. c.count <= Len(c.points) /\ c.count >= 1
      BY <1>2, <2>1 DEF CutShort
    <3>2. \A i \in 1..c.count : c.points[i] \in Spots
      BY <2>1, <3>1
    <3> QED
      BY <2>1, <3>1, <3>2, SubSeqProperties
  <2>3. CASE c.id = MoveTo
    <3>1. kind = Polygon => pen.open = 0 /\ c.count = 1
      BY <1>2, <2>3, OutOfPlaceIs DEF Polygon, Point, Line
    <3>2. q = FoldLeft(StartPart, pen, seq)
      BY <1>2, <2>3 DEF RunCommand, MoveTo, LineTo, ClosePath
    <3>3. CommandCounts(c).coords = c.count /\ CommandCounts(c).parts = c.count
      BY <2>3 DEF CommandCounts, MoveTo, ClosePath
    <3>4. Len(seq) = c.count /\ seq \in Seq(Spots) /\ Draws(kind, c0, p0, pen) /\ ~pen.bad
      BY <1>2, <2>2, <2>3 DEF MoveTo, ClosePath
    <3> HIDE DEF seq, q
    <3>5. q \in Pens /\ (q.bad \/ DrawsOn(kind, c0, p0, pen, c.count, c.count, q))
      BY <3>1, <3>2, <3>4, MovesDraw
    <3> QED
      BY <1>2, <2>0, <2>1, <3>3, <3>4, <3>5 DEF q, DrawsOn
  <2>4. CASE c.id = LineTo
    <3>1. pen.open # 0
      BY <1>2, <2>4, OutOfPlaceIs
    <3> DEFINE yes == TRUE
               base == [pen EXCEPT !.lined = yes]
    <3>2. q = FoldLeft(StepPen, base, seq)
      BY <1>2, <2>4 DEF RunCommand, MoveTo, LineTo, ClosePath
    <3>3. CommandCounts(c).coords = c.count /\ CommandCounts(c).parts = 0
      BY <2>4 DEF CommandCounts, MoveTo, LineTo, ClosePath
    <3>4. Len(seq) = c.count /\ seq \in Seq(Spots) /\ Draws(kind, c0, p0, pen) /\ ~pen.bad
      BY <1>2, <2>2, <2>4 DEF LineTo, ClosePath
    <3>5. yes \in BOOLEAN
      OBVIOUS
    <3> HIDE DEF seq, q, yes
    <3>6. /\ base \in Pens /\ base.open = pen.open /\ base.coords = pen.coords /\ base.parts = pen.parts
      BY <3>5 DEF Pens
    <3> HIDE DEF base
    <3>7. Draws(kind, c0, p0, base) /\ Begun(base) = Begun(pen)
      BY <3>4, <3>6 DEF Draws, Begun
    <3>8. q \in Pens /\ (q.bad \/ DrawsOn(kind, c0, p0, base, c.count, 0, q))
      BY <3>1, <3>2, <3>4, <3>6, <3>7, LinesDraw
    <3> QED
      BY <1>2, <2>0, <2>1, <3>3, <3>4, <3>6, <3>7, <3>8 DEF q, DrawsOn
  <2>5. CASE c.id = ClosePath
    <3>1. q = ClosePart(pen, c)
      BY <1>2, <2>5 DEF RunCommand, MoveTo, LineTo, ClosePath
    <3>2. CommandCounts(c).coords = 1 /\ CommandCounts(c).parts = 0
      BY <2>5 DEF CommandCounts, MoveTo, ClosePath
    <3>3. Draws(kind, c0, p0, pen) /\ ~pen.bad
      BY <1>2
    <3> HIDE DEF q
    <3>4. /\ q \in Pens
          /\ q.bad \/ /\ Draws(kind, c0, p0, q)
                      /\ Len(q.coords) <= Len(pen.coords) + 1 /\ Begun(q) <= Begun(pen)
      BY <3>1, <3>3, ClosePartDraws
    <3>5. Begun(pen) + 0 = Begun(pen)
      BY <2>0
    <3> QED
      BY <3>2, <3>3, <3>4, <3>5 DEF q
  <2>6. c.id \in {MoveTo, LineTo, ClosePath}
    BY <1>2, OutOfPlaceIs
  <2> QED
    BY <2>3, <2>4, <2>5, <2>6
<1> QED
  BY <1>1, <1>2

-----------------------------------------------------------------------------
(* A feature's geometry: its commands, one after the other, in the room    *)
(* that was counted for them.                                              *)

Running(kind, pen, c) == RunCommand(kind, pen, c)
Runs == INSTANCE FoldTheorems WITH Folding <- Running

LEMMA RunsAreAFold ==
    ASSUME NEW kind, NEW layer, NEW geometry
    PROVE  LET pen == Runs!FoldOf(kind, NewPen(layer), geometry)
           IN  RunCommands(kind, layer, geometry)
                 = IF kind = Polygon /\ pen.open # 0 THEN Refuse(pen) ELSE EndPart(pen)
BY DEF RunCommands, FoldLeft, MapThenFoldSet, Runs!FoldOf, Runs!FoldsUp, Max, Runs!Max, Running

\* The coordinates and parts of a layer, all of it ended.
Slab(coords, parts) ==
  /\ coords \in Seq(Spots) /\ parts \in Seq(Nat)
  /\ PartsCut(coords, parts) /\ Len(coords) = EndedAt(parts)

LEMMA NewPenDraws ==
    ASSUME NEW kind, NEW layer, Slab(layer.coords, layer.parts)
    PROVE  /\ NewPen(layer) \in Pens /\ ~NewPen(layer).bad
           /\ Draws(kind, layer.coords, layer.parts, NewPen(layer))
           /\ Len(NewPen(layer).coords) = Len(layer.coords) /\ Begun(NewPen(layer)) = Len(layer.parts)
<1> DEFINE pen == NewPen(layer)
           no == FALSE
<1>1. pen = [x |-> 0, y |-> 0, open |-> 0, lined |-> no, coords |-> layer.coords, parts |-> layer.parts, bad |-> no]
  BY DEF NewPen
<1>2. layer.coords \in Seq(Spots) /\ layer.parts \in Seq(Nat) /\ no \in BOOLEAN
  BY DEF Slab
<1>3. Len(layer.coords) \in Nat /\ Len(layer.parts) \in Nat
  BY <1>2
<1>4. ~pen.bad
  BY DEF NewPen
<1> HIDE DEF pen, no
<1>5. pen \in Pens /\ pen.open = 0 /\ pen.coords = layer.coords /\ pen.parts = layer.parts
  BY <1>1, <1>2 DEF Pens
<1>6. Continues(layer.coords, layer.coords) /\ Continues(layer.parts, layer.parts)
  BY <1>3 DEF Continues
<1>7. Drawing(kind, layer.coords, layer.parts, layer.coords, layer.parts, 0)
  <2>1. (Len(layer.parts) + 1)..Len(layer.parts) = {}
    BY <1>3
  <2> QED
    BY <1>2, <1>6, <2>1 DEF Drawing, Slab
<1> QED
  BY <1>3, <1>4, <1>5, <1>7 DEF pen, Draws, Begun

LEMMA GeometryDraws ==
    ASSUME NEW kind, NEW layer, Slab(layer.coords, layer.parts),
           NEW geometry \in Seq(Command), NEW A, NEW B,
           \A i \in 0..Len(geometry) : A[i] \in Nat /\ B[i] \in Nat,
           Len(layer.coords) <= A[0], Len(layer.parts) <= B[0],
           \A i \in 1..Len(geometry) :
              /\ A[i] = A[i - 1] + CommandCounts(geometry[i]).coords
              /\ B[i] = B[i - 1] + CommandCounts(geometry[i]).parts
    PROVE  LET q == RunCommands(kind, layer, geometry)
           IN  /\ q \in Pens
               /\ q.bad \/ /\ Draws(kind, layer.coords, layer.parts, q) /\ q.open = 0
                           /\ Len(q.coords) <= A[Len(geometry)] /\ Len(q.parts) <= B[Len(geometry)]
<1> DEFINE n == Len(geometry)
           c0 == layer.coords
           p0 == layer.parts
           Right(q, i) == /\ q \in Pens
                          /\ q.bad \/ /\ Draws(kind, c0, p0, q)
                                      /\ Len(q.coords) <= A[i] /\ Begun(q) <= B[i]
<1>1. n \in Nat /\ DOMAIN geometry = 1..n /\ c0 \in Seq(Spots) /\ p0 \in Seq(Nat)
  BY DEF Slab
<1>2. PICK f : /\ f[0] = NewPen(layer) /\ f[n] = Runs!FoldOf(kind, NewPen(layer), geometry)
               /\ \A i \in 1..n : f[i] = RunCommand(kind, f[i - 1], geometry[i])
  <2>1. \E f : Runs!FoldPasses(f, kind, NewPen(layer), geometry, n)
    <3> HIDE DEF n
    <3> QED
      BY <1>1, Runs!FoldSteps
  <2>2. PICK f : Runs!FoldPasses(f, kind, NewPen(layer), geometry, n)
    BY <2>1
  <2>3. /\ f[0] = NewPen(layer) /\ f[n] = Runs!FoldOf(kind, NewPen(layer), geometry)
        /\ \A i \in 1..n : f[i] = Running(kind, f[i - 1], geometry[i])
    BY <2>2, Zenon DEF Runs!FoldPasses
  <2> QED
    BY <2>3 DEF Running
<1> DEFINE H == {i \in 0..n : Right(f[i], i)}
<1> HIDE DEF c0, p0
<1>3. 0 \in H
  <2>1. /\ f[0] \in Pens /\ Draws(kind, c0, p0, f[0])
        /\ Len(f[0].coords) = Len(layer.coords) /\ Begun(f[0]) = Len(layer.parts)
    BY <1>2, NewPenDraws DEF c0, p0
  <2>2. Len(f[0].coords) <= A[0] /\ Begun(f[0]) <= B[0]
    BY <2>1
  <2> QED
    BY <1>1, <2>1, <2>2
<1>4. ASSUME NEW i \in 1..n, i - 1 \in H PROVE i \in H
  <2>1. geometry[i] \in Command
    BY <1>1
  <2>2. Right(f[i - 1], i - 1) /\ f[i] = RunCommand(kind, f[i - 1], geometry[i])
    BY <1>2, <1>4
  <2> DEFINE q == f[i - 1]
             r == f[i]
             c == geometry[i]
  <2>3. r = RunCommand(kind, q, c) /\ q \in Pens /\ (q.bad \/ Draws(kind, c0, p0, q)) /\ c \in Command
    BY <2>1, <2>2
  <2>4. ~q.bad => Len(q.coords) <= A[i - 1] /\ Begun(q) <= B[i - 1]
    BY <2>2
  <2>5. /\ A[i] = A[i - 1] + CommandCounts(c).coords /\ B[i] = B[i - 1] + CommandCounts(c).parts
        /\ A[i - 1] \in Nat /\ B[i - 1] \in Nat
    BY <1>1
  <2> HIDE DEF q, r, c, H
  <2>6. /\ r \in Pens
        /\ r.bad \/ /\ ~q.bad /\ Draws(kind, c0, p0, r)
                    /\ Len(r.coords) <= Len(q.coords) + CommandCounts(c).coords
                    /\ Begun(r) <= Begun(q) + CommandCounts(c).parts
    BY <1>1, <2>3, CommandDraws
  <2>7. CommandCounts(c).coords \in Nat /\ CommandCounts(c).parts \in Nat
    BY <2>3 DEF CommandCounts, Command
  <2>8. Len(q.coords) \in Nat /\ Begun(q) \in Nat /\ Len(r.coords) \in Nat /\ Begun(r) \in Nat
    BY <2>3, <2>6, BegunIsNatural
  <2>9. r.bad \/ (Draws(kind, c0, p0, r) /\ Len(r.coords) <= A[i] /\ Begun(r) <= B[i])
    <3> SUFFICES ASSUME ~r.bad PROVE Draws(kind, c0, p0, r) /\ Len(r.coords) <= A[i] /\ Begun(r) <= B[i]
      BY Zenon
    <3>1. /\ Draws(kind, c0, p0, r) /\ Len(r.coords) <= Len(q.coords) + CommandCounts(c).coords
          /\ Begun(r) <= Begun(q) + CommandCounts(c).parts
      BY <2>6
    <3>2. Len(q.coords) <= A[i - 1] /\ Begun(q) <= B[i - 1]
      BY <2>4, <2>6
    <3>3. Len(r.coords) <= A[i]
      <4> DEFINE before == Len(q.coords)
                 after == Len(r.coords)
                 counted == CommandCounts(c).coords
      <4>1. /\ after <= before + counted /\ before <= A[i - 1] /\ A[i] = A[i - 1] + counted
            /\ after \in Nat /\ before \in Nat /\ counted \in Nat /\ A[i - 1] \in Nat
        BY <2>5, <2>7, <2>8, <3>1, <3>2
      <4> HIDE DEF before, after, counted
      <4>2. after <= A[i]
        BY <4>1
      <4> QED
        BY <4>2 DEF after
    <3>4. Begun(r) <= B[i]
      <4> DEFINE before == Begun(q)
                 after == Begun(r)
                 counted == CommandCounts(c).parts
      <4>1. /\ after <= before + counted /\ before <= B[i - 1] /\ B[i] = B[i - 1] + counted
            /\ after \in Nat /\ before \in Nat /\ counted \in Nat /\ B[i - 1] \in Nat
        BY <2>5, <2>7, <2>8, <3>1, <3>2
      <4> HIDE DEF before, after, counted
      <4>2. after <= B[i]
        BY <4>1
      <4> QED
        BY <4>2 DEF after
    <3> QED
      BY <3>1, <3>3, <3>4
  <2> QED
    BY <1>1, <2>6, <2>9 DEF H, r
<1>5. n \in H
  <2> HIDE DEF H, n
  <2>1. \A i \in 0..n : i \in H
    BY <1>1, <1>3, <1>4, OneByOne
  <2> QED
    BY <1>1, <2>1
<1> DEFINE pen == f[n]
           q == RunCommands(kind, layer, geometry)
<1>6. q = IF kind = Polygon /\ pen.open # 0 THEN Refuse(pen) ELSE EndPart(pen)
  BY <1>2, RunsAreAFold
<1>7. /\ pen \in Pens
      /\ pen.bad \/ (Draws(kind, c0, p0, pen) /\ Len(pen.coords) <= A[n] /\ Begun(pen) <= B[n])
  BY <1>5
<1> HIDE DEF pen, q, n, H
<1>8. CASE kind = Polygon /\ pen.open # 0
  <2>1. q = [pen EXCEPT !.bad = TRUE]
    BY <1>6, <1>8 DEF Refuse
  <2>2. q \in Pens /\ q.bad
    BY <1>7, <2>1 DEF Pens
  <2> QED
    BY <2>2 DEF q
<1>9. CASE ~(kind = Polygon /\ pen.open # 0)
  <2>1. q = EndPart(pen)
    BY <1>6, <1>9
  <2>2. q \in Pens /\ q.bad = pen.bad /\ q.open = 0 /\ q.coords = pen.coords
    BY <1>7, <2>1, EndPartIs
  <2>3. CASE pen.bad
    BY <2>2, <2>3 DEF q
  <2>4. CASE ~pen.bad
    <3>1. Draws(kind, c0, p0, pen) /\ Len(pen.coords) <= A[n] /\ Begun(pen) <= B[n]
      BY <1>7, <2>4
    <3>2. Draws(kind, c0, p0, q) /\ Len(q.parts) = Begun(pen)
      BY <1>1, <1>7, <1>9, <2>1, <3>1, EndPartDraws
    <3> QED
      BY <2>2, <3>1, <3>2 DEF q, n, c0, p0
  <2> QED
    BY <2>3, <2>4
<1> QED
  BY <1>8, <1>9

-----------------------------------------------------------------------------
(* The parts of a slab as rings, and the features that share them out.     *)

LEMMA PartOfIs ==
    ASSUME NEW layer, Slab(layer.coords, layer.parts), NEW p \in 1..Len(layer.parts)
    PROVE  /\ PartOf(layer, p)[1] = layer.coords[EndsBefore(layer.parts, p) + 1]
           /\ Last(PartOf(layer, p)) = layer.coords[layer.parts[p]]
<1> DEFINE c == layer.coords
           m == EndsBefore(layer.parts, p)
           n == layer.parts[p]
           ring == SubSeq(c, m + 1, n)
<1>1. c \in Seq(Spots) /\ Len(c) \in Nat /\ m \in Nat /\ n \in Nat /\ m < n /\ n <= Len(c)
  <2>1. layer.parts \in Seq(Nat) /\ c \in Seq(Spots) /\ m < n /\ n <= Len(c)
    BY DEF Slab, PartsCut
  <2>2. m \in Nat
    BY <2>1 DEF EndsBefore
  <2> QED
    BY <2>1, <2>2
<1>2. PartOf(layer, p) = ring
  BY DEF PartOf, EndsBefore
<1> HIDE DEF c, m, n
<1>3. \A i \in (m + 1)..n : c[i] \in Spots
  BY <1>1
<1>4. Len(ring) = n - m /\ \A i \in 1..(n - m) : ring[i] = c[m + i]
  <2>1. m + 1 <= n /\ n - (m + 1) + 1 = n - m
    BY <1>1
  <2>2. m + 1 \in Int /\ n \in Int
    BY <1>1
  <2>3. Len(ring) = n - m /\ \A i \in 1..(n - m) : ring[i] = c[(m + 1) + i - 1]
    BY <1>3, <2>1, <2>2, SubSeqProperties
  <2>4. \A i \in 1..(n - m) : (m + 1) + i - 1 = m + i
    BY <1>1
  <2> QED
    BY <2>3, <2>4
<1> HIDE DEF ring
<1>5. ring[1] = c[m + 1] /\ ring[n - m] = c[n]
  BY <1>1, <1>4
<1> QED
  BY <1>2, <1>4, <1>5 DEF Last, c, m, n

\* What is drawn behind a part leaves it as it is.
LEMMA PartsStay ==
    ASSUME NEW layer, NEW drawn, Slab(layer.coords, layer.parts),
           drawn.coords \in Seq(Spots), drawn.parts \in Seq(Nat),
           Continues(drawn.coords, layer.coords), Continues(drawn.parts, layer.parts),
           NEW p \in 1..Len(layer.parts)
    PROVE  /\ PartOf(drawn, p) = PartOf(layer, p)
           /\ RingCloses(drawn.coords, drawn.parts, p) <=> RingCloses(layer.coords, layer.parts, p)
<1> DEFINE m == EndsBefore(layer.parts, p)
           n == layer.parts[p]
           c == layer.coords
           d == drawn.coords
<1>1. /\ c \in Seq(Spots) /\ Len(c) \in Nat /\ m \in Nat /\ n \in Nat /\ m < n /\ n <= Len(c)
  <2>1. layer.parts \in Seq(Nat) /\ c \in Seq(Spots) /\ m < n /\ n <= Len(c)
    BY DEF Slab, PartsCut
  <2>2. m \in Nat
    BY <2>1 DEF EndsBefore
  <2> QED
    BY <2>1, <2>2
<1>2. EndsBefore(drawn.parts, p) = m /\ drawn.parts[p] = n
  <2>1. layer.parts \in Seq(Nat) /\ \A i \in 1..Len(layer.parts) : drawn.parts[i] = layer.parts[i]
    BY DEF Slab, Continues
  <2>2. p # 1 => p - 1 \in 1..Len(layer.parts)
    BY <2>1
  <2> QED
    BY <2>1, <2>2 DEF EndsBefore
<1>3. \A i \in 1..Len(c) : d[i] = c[i]
  BY DEF Continues
<1>4. PartOf(drawn, p) = SubSeq(d, m + 1, n) /\ PartOf(layer, p) = SubSeq(c, m + 1, n)
  BY <1>2 DEF PartOf, EndsBefore
<1> HIDE DEF m, n, c, d
<1>5. \A i \in (m + 1)..n : c[i] \in Spots /\ d[i] = c[i]
  BY <1>1, <1>3
<1>6. SubSeq(d, m + 1, n) = SubSeq(c, m + 1, n)
  <2> DEFINE s == SubSeq(d, m + 1, n)
             t == SubSeq(c, m + 1, n)
             k == n - (m + 1) + 1
  <2>1. m + 1 \in Int /\ n \in Int /\ m + 1 <= n
    BY <1>1
  <2>2. t \in Seq(Spots) /\ Len(t) = k /\ \A i \in 1..k : t[i] = c[(m + 1) + i - 1]
    BY <1>5, <2>1, SubSeqProperties
  <2>3. s \in Seq(Spots) /\ Len(s) = k /\ \A i \in 1..k : s[i] = d[(m + 1) + i - 1]
    BY <1>5, <2>1, SubSeqProperties
  <2>4. \A i \in 1..k : (m + 1) + i - 1 \in (m + 1)..n
    BY <2>1
  <2> HIDE DEF s, t, k
  <2>5. \A i \in 1..Len(s) : s[i] = t[i]
    BY <1>5, <2>2, <2>3, <2>4
  <2> QED
    BY <2>2, <2>3, <2>5, SeqEqual DEF s, t
<1>7. c[m + 1] = d[m + 1] /\ c[n] = d[n]
  BY <1>1, <1>3
<1> QED
  BY <1>2, <1>4, <1>6, <1>7 DEF RingCloses, m, n, c, d

\* Features one after the other, from behind the part a to the part b.
Chain(fs, a, b) ==
  /\ \A j \in 1..Len(fs) :
       /\ fs[j].first \in Nat /\ fs[j].end \in Nat /\ fs[j].first <= fs[j].end
       /\ fs[j].first = IF j = 1 THEN a + 1 ELSE fs[j - 1].end + 1
  /\ b = IF Len(fs) = 0 THEN a ELSE fs[Len(fs)].end

Listed(s) == \E S : s \in Seq(S)

LEMMA ListsJoin ==
    ASSUME NEW s, NEW t, Listed(s), Listed(t)
    PROVE  /\ Listed(s \o t) /\ Len(s \o t) = Len(s) + Len(t) /\ Len(s) \in Nat /\ Len(t) \in Nat
           /\ \A i \in 1..Len(s) : (s \o t)[i] = s[i]
           /\ \A i \in 1..Len(t) : (s \o t)[Len(s) + i] = t[i]
<1>1. PICK S : s \in Seq(S)
  BY DEF Listed
<1>2. PICK T : t \in Seq(T)
  BY DEF Listed
<1> DEFINE U == S \cup T
<1>3. s \in Seq(U) /\ t \in Seq(U)
  <2>1. S \subseteq U /\ T \subseteq U
    OBVIOUS
  <2> HIDE DEF U
  <2> QED
    BY <1>1, <1>2, <2>1, SeqMonotonic
<1> HIDE DEF U
<1>4. /\ s \o t \in Seq(U) /\ Len(s \o t) = Len(s) + Len(t) /\ Len(s) \in Nat /\ Len(t) \in Nat
  BY <1>3
<1>5. \A i \in 1..(Len(s) + Len(t)) : (s \o t)[i] = IF i <= Len(s) THEN s[i] ELSE t[i - Len(s)]
  BY <1>3, ConcatProperties
<1>6. ASSUME NEW i \in 1..Len(s) PROVE (s \o t)[i] = s[i]
  BY <1>4, <1>5
<1>7. ASSUME NEW i \in 1..Len(t) PROVE (s \o t)[Len(s) + i] = t[i]
  <2>1. Len(s) + i \in 1..(Len(s) + Len(t)) /\ ~(Len(s) + i <= Len(s)) /\ (Len(s) + i) - Len(s) = i
    BY <1>4
  <2> QED
    BY <1>5, <2>1
<1> QED
  BY <1>4, <1>6, <1>7 DEF Listed

LEMMA ChainsJoin ==
    ASSUME NEW fs, NEW gs, Listed(fs), Listed(gs), NEW a \in Nat, NEW b \in Nat, NEW c \in Nat,
           Chain(fs, a, b), Chain(gs, b, c)
    PROVE  Chain(fs \o gs, a, c)
<1> DEFINE hs == fs \o gs
           n == Len(fs)
           m == Len(gs)
<1>1. /\ Len(hs) = n + m /\ n \in Nat /\ m \in Nat
      /\ \A i \in 1..n : hs[i] = fs[i]
      /\ \A i \in 1..m : hs[n + i] = gs[i]
  BY ListsJoin
<1>2. /\ \A j \in 1..n : /\ fs[j].first \in Nat /\ fs[j].end \in Nat /\ fs[j].first <= fs[j].end
                         /\ fs[j].first = IF j = 1 THEN a + 1 ELSE fs[j - 1].end + 1
      /\ b = IF n = 0 THEN a ELSE fs[n].end
  BY DEF Chain
<1>3. /\ \A j \in 1..m : /\ gs[j].first \in Nat /\ gs[j].end \in Nat /\ gs[j].first <= gs[j].end
                         /\ gs[j].first = IF j = 1 THEN b + 1 ELSE gs[j - 1].end + 1
      /\ c = IF m = 0 THEN b ELSE gs[m].end
  BY DEF Chain
<1> HIDE DEF hs, n, m
<1>4. ASSUME NEW j \in 1..(n + m)
      PROVE  /\ hs[j].first \in Nat /\ hs[j].end \in Nat /\ hs[j].first <= hs[j].end
             /\ hs[j].first = IF j = 1 THEN a + 1 ELSE hs[j - 1].end + 1
  <2>1. CASE j <= n
    <3>1. j \in 1..n /\ (j # 1 => j - 1 \in 1..n)
      BY <1>1, <2>1
    <3>2. hs[j] = fs[j] /\ (j # 1 => hs[j - 1] = fs[j - 1])
      BY <1>1, <3>1
    <3> QED
      BY <1>2, <3>1, <3>2
  <2>2. CASE ~(j <= n)
    <3> DEFINE i == j - n
    <3>1. i \in 1..m /\ j = n + i
      BY <1>1, <2>2
    <3>2. hs[j] = gs[i]
      BY <1>1, <3>1
    <3>3. CASE i = 1
      <4>1. j = n + 1 /\ gs[i].first = b + 1
        BY <1>3, <3>1, <3>3
      <4>2. CASE n = 0
        BY <1>2, <1>3, <3>1, <3>2, <4>1, <4>2
      <4>3. CASE n # 0
        <5>1. n \in 1..n /\ j # 1 /\ j - 1 = n
          BY <1>1, <4>1, <4>3
        <5>2. hs[j - 1] = fs[n] /\ b = fs[n].end
          BY <1>1, <1>2, <4>3, <5>1
        <5> QED
          BY <1>3, <3>1, <3>2, <4>1, <5>1, <5>2
      <4> QED
        BY <4>2, <4>3
    <3>4. CASE i # 1
      <4>1. i - 1 \in 1..m /\ j - 1 = n + (i - 1) /\ j # 1
        BY <1>1, <3>1, <3>4
      <4>2. hs[j - 1] = gs[i - 1]
        BY <1>1, <4>1
      <4> HIDE DEF i
      <4> QED
        BY <1>3, <3>1, <3>2, <3>4, <4>1, <4>2
    <3> QED
      BY <3>3, <3>4
  <2> QED
    BY <2>1, <2>2
<1>5. c = IF n + m = 0 THEN a ELSE hs[n + m].end
  <2>1. CASE m = 0
    <3>1. n + m = n /\ (n # 0 => n \in 1..n)
      BY <1>1, <2>1
    <3> QED
      BY <1>1, <1>2, <1>3, <2>1, <3>1
  <2>2. CASE m # 0
    <3>1. n + m # 0 /\ m \in 1..m
      BY <1>1, <2>2
    <3> QED
      BY <1>1, <1>3, <2>2, <3>1
  <2> QED
    BY <2>1, <2>2
<1> QED
  BY <1>1, <1>4, <1>5 DEF Chain, hs, n, m

\* Each part is in one feature.
LEMMA ChainCovers ==
    ASSUME NEW fs, Listed(fs), NEW n \in Nat, Chain(fs, 0, n), NEW p \in 1..n
    PROVE  Cardinality({j \in DOMAIN fs : p \in fs[j].first..fs[j].end}) = 1
<1> DEFINE m == Len(fs)
<1>1. m \in Nat /\ DOMAIN fs = 1..m
  BY DEF Listed
<1>2. /\ \A j \in 1..m : /\ fs[j].first \in Nat /\ fs[j].end \in Nat /\ fs[j].first <= fs[j].end
                         /\ fs[j].first = IF j = 1 THEN 1 ELSE fs[j - 1].end + 1
      /\ n = IF m = 0 THEN 0 ELSE fs[m].end
  BY DEF Chain
<1> HIDE DEF m
<1> DEFINE ends == {j \in 1..m : p <= fs[j].end}
           k == Min(ends)
<1>3. ends \subseteq Nat /\ m \in ends
  BY <1>1, <1>2
<1>4. k \in ends /\ \A j \in ends : k <= j
  <2>1. ends # {}
    BY <1>3
  <2> HIDE DEF ends
  <2> QED
    BY <1>3, <2>1, LeastOf
<1> HIDE DEF k
<1>5. k \in 1..m /\ p \in fs[k].first..fs[k].end
  <2>1. k \in 1..m /\ p <= fs[k].end
    BY <1>4
  <2>2. fs[k].first <= p
    <3>1. CASE k = 1
      BY <1>2, <2>1, <3>1
    <3>2. CASE k # 1
      <4>1. k - 1 \in 1..m /\ k - 1 < k
        BY <1>1, <2>1, <3>2
      <4>2. ~(k <= k - 1)
        BY <1>1, <2>1, <4>1
      <4>3. k - 1 \notin ends
        BY <1>4, <4>2
      <4>4. fs[k - 1].end < p
        BY <1>2, <4>1, <4>3
      <4> QED
        BY <1>2, <2>1, <3>2, <4>1, <4>4
    <3> QED
      BY <3>1, <3>2
  <2> QED
    BY <1>2, <2>1, <2>2
<1> HIDE DEF ends
<1>6. \A j \in 1..m : \A i \in 1..(j - 1) : fs[i].end < fs[j].first
  <2> DEFINE H == {j \in 0..m : j # 0 => \A i \in 1..(j - 1) : fs[i].end < fs[j].first}
  <2>1. 0 \in H
    BY <1>1
  <2>2. ASSUME NEW j \in 1..m, j - 1 \in H PROVE j \in H
    <3> SUFFICES ASSUME NEW i \in 1..(j - 1) PROVE fs[i].end < fs[j].first
      BY <1>1
    <3>1. i \in 1..m /\ j # 1 /\ j - 1 \in 1..m
      BY <1>1
    <3>2. fs[j].first = fs[j - 1].end + 1 /\ fs[j - 1].end \in Nat
      BY <1>2, <3>1
    <3>3. CASE i = j - 1
      BY <3>2, <3>3
    <3>4. CASE i # j - 1
      <4>1. i \in 1..((j - 1) - 1) /\ j - 1 # 0
        BY <3>1, <3>4
      <4>2. fs[i].end < fs[j - 1].first
        BY <2>2, <4>1
      <4>3. fs[j - 1].first <= fs[j - 1].end /\ fs[j - 1].first \in Nat /\ fs[i].end \in Nat
        BY <1>2, <3>1
      <4> QED
        BY <3>2, <4>2, <4>3
    <3> QED
      BY <3>3, <3>4
  <2> HIDE DEF H
  <2>3. \A j \in 0..m : j \in H
    BY <1>1, <2>1, <2>2, OneByOne
  <2> SUFFICES ASSUME NEW j \in 1..m PROVE \A i \in 1..(j - 1) : fs[i].end < fs[j].first
    OBVIOUS
  <2>4. j \in 0..m /\ j # 0
    BY <1>1
  <2> QED
    BY <2>3, <2>4 DEF H
<1>7. ASSUME NEW i \in 1..m, p \in fs[i].first..fs[i].end PROVE i = k
  <2>1. /\ fs[i].first \in Nat /\ fs[i].end \in Nat /\ fs[k].first \in Nat /\ fs[k].end \in Nat
        /\ fs[i].first <= p /\ p <= fs[i].end /\ fs[k].first <= p /\ p <= fs[k].end
    BY <1>2, <1>5, <1>7
  <2>2. ~(i < k)
    <3> SUFFICES ASSUME i < k PROVE FALSE
      OBVIOUS
    <3>1. i \in 1..(k - 1)
      BY <1>1, <1>5
    <3>2. fs[i].end < fs[k].first
      BY <1>5, <1>6, <3>1
    <3> QED
      BY <2>1, <3>2
  <2>3. ~(k < i)
    <3> SUFFICES ASSUME k < i PROVE FALSE
      OBVIOUS
    <3>1. k \in 1..(i - 1)
      BY <1>1, <1>5
    <3>2. fs[k].end < fs[i].first
      BY <1>5, <1>6, <3>1
    <3> QED
      BY <2>1, <3>2
  <2> QED
    BY <1>1, <1>5, <2>2, <2>3
<1>8. {j \in DOMAIN fs : p \in fs[j].first..fs[j].end} = {k}
  BY <1>1, <1>5, <1>7
<1> QED
  BY <1>8, FS_Singleton

\* The rings of a polygon are grouped by outline: the groups follow on one
\* another, and each has the outline it starts with and no other.
FeatureOf(kind, attributes, first, end) ==
  [kind |-> kind, attributes |-> attributes, first |-> first, end |-> end]

LEMMA RingsAreGrouped ==
    ASSUME NEW layer, NEW kind, NEW attributes, NEW first \in Nat \ {0}, NEW end \in Nat, first <= end
    PROVE  LET feature == FeatureOf(kind, attributes, first, end)
               gs == GroupRings(layer, feature, first, end)
           IN  /\ Listed(gs) /\ Chain(gs, first - 1, end)
               /\ \A j \in 1..Len(gs) :
                    /\ gs[j].kind = kind
                    /\ \A p \in gs[j].first..gs[j].end : SignedArea(PartOf(layer, p)) > 0 => p = gs[j].first
<1> DEFINE feature == FeatureOf(kind, attributes, first, end)
           gs == GroupRings(layer, feature, first, end)
           S == Outlines(layer, first, end)
           n == Cardinality(S)
           Below(x) == {q \in S : q < x}
           StartOf(i) == CHOOSE p \in S : Cardinality({q \in S : q < p}) = i - 1
           EndOf(i) == IF i = n THEN end ELSE StartOf(i + 1) - 1
<1>1. S \subseteq first..end /\ first \in S /\ IsFiniteSet(S)
  <2>1. S \subseteq first..end /\ first \in S
    BY DEF Outlines
  <2>2. IsFiniteSet(first..end)
    BY FS_Interval
  <2> HIDE DEF S
  <2> QED
    BY <2>1, <2>2, FS_Subset
<1>2. \A p \in first..end : SignedArea(PartOf(layer, p)) > 0 => p \in S
  BY DEF Outlines
<1> HIDE DEF S
<1>3. n \in Nat
  BY <1>1, FS_CardinalityType
<1>4. ASSUME NEW x \in S
      PROVE  IsFiniteSet(Below(x)) /\ Cardinality(Below(x)) \in Nat /\ Cardinality(Below(x)) < n
  <2>1. Below(x) \in SUBSET S /\ x \notin Below(x)
    BY <1>1
  <2> HIDE DEF Below
  <2>2. Below(x) # S
    BY <2>1
  <2>3. IsFiniteSet(Below(x)) /\ Cardinality(Below(x)) <= n /\ Cardinality(Below(x)) # n
    BY <1>1, <2>1, <2>2, FS_Subset
  <2>4. Cardinality(Below(x)) \in Nat
    BY <2>3, FS_CardinalityType
  <2> QED
    BY <1>3, <2>3, <2>4
<1>0. \A x \in S : x \in Int /\ x \in Nat /\ first <= x /\ x <= end
  <2>1. \A x \in first..end : x \in Int /\ x \in Nat /\ first <= x /\ x <= end
    OBVIOUS
  <2> QED
    BY <1>1, <2>1
<1>5. ASSUME NEW x \in S, NEW y \in S, x < y PROVE Cardinality(Below(x)) < Cardinality(Below(y))
  <2>0. \A q \in S : q < x => q < y
    BY <1>0, <1>5
  <2>1. Below(x) \in SUBSET Below(y) /\ x \in Below(y) /\ x \notin Below(x)
    BY <1>0, <1>5, <2>0
  <2>2. IsFiniteSet(Below(y)) /\ Cardinality(Below(x)) \in Nat /\ Cardinality(Below(y)) \in Nat
    BY <1>4
  <2> HIDE DEF Below
  <2>3. Cardinality(Below(x)) <= Cardinality(Below(y)) /\ Cardinality(Below(x)) # Cardinality(Below(y))
    BY <2>1, <2>2, FS_Subset
  <2> QED
    BY <2>2, <2>3
<1>6. ASSUME NEW i \in 1..n PROVE StartOf(i) \in S /\ Cardinality(Below(StartOf(i))) = i - 1
  <2> DEFINE before == {p \in S \X S : p[1] < p[2]}
  <2>1. \A x, y \in S : <<x, y>> \in before <=> x < y
    OBVIOUS
  <2>2. \A x \in S : x \in Int
    BY <1>1
  <2> HIDE DEF before
  <2>3. /\ \A x \in S : <<x, x>> \notin before
        /\ \A x, y \in S : x # y => <<x, y>> \in before \/ <<y, x>> \in before
        /\ \A x, y, z \in S : <<x, y>> \in before /\ <<y, z>> \in before => <<x, z>> \in before
    BY <2>1, <2>2
  <2>4. \E x \in S : Cardinality({y \in S : <<y, x>> \in before}) = i - 1
    <3>1. \A k \in 1..Cardinality(S) : \E x \in S : Cardinality({y \in S : <<y, x>> \in before}) = k - 1
      BY <1>1, <2>3, PlacesAreTaken
    <3> QED
      BY <3>1
  <2>5. \A x \in S : {y \in S : <<y, x>> \in before} = {q \in S : q < x}
    BY <2>1
  <2>6. \E x \in S : Cardinality({q \in S : q < x}) = i - 1
    BY <2>4, <2>5
  <2> QED
    BY <2>6
<1>7. gs = [i \in 1..n |-> [feature EXCEPT !.first = StartOf(i), !.end = EndOf(i)]]
  BY DEF GroupRings, S
<1> HIDE DEF StartOf, Below
<1>8. n >= 1
  <2>1. n # 0
    BY <1>1, FS_EmptySet
  <2> QED
    BY <1>3, <2>1
<1>9. ASSUME NEW i \in 1..n
      PROVE  /\ StartOf(i) \in first..end /\ StartOf(i) \in Nat
             /\ i # n => StartOf(i) < StartOf(i + 1) /\ StartOf(i + 1) \in first..end
  <2>1. StartOf(i) \in S /\ Cardinality(Below(StartOf(i))) = i - 1
    BY <1>6
  <2>2. StartOf(i) \in first..end /\ StartOf(i) \in Nat
    BY <1>0, <1>1, <2>1
  <2>3. ASSUME i # n PROVE StartOf(i) < StartOf(i + 1) /\ StartOf(i + 1) \in first..end
    <3>1. i + 1 \in 1..n /\ (i + 1) - 1 = i
      BY <1>3, <2>3
    <3>2. StartOf(i + 1) \in S /\ Cardinality(Below(StartOf(i + 1))) = i
      BY <1>6, <3>1
    <3>3. StartOf(i) # StartOf(i + 1)
      <4> SUFFICES ASSUME StartOf(i) = StartOf(i + 1) PROVE FALSE
        OBVIOUS
      <4>1. Cardinality(Below(StartOf(i))) = i
        BY <3>2
      <4> QED
        BY <2>1, <4>1
    <3>4. ~(StartOf(i + 1) < StartOf(i))
      <4> SUFFICES ASSUME StartOf(i + 1) < StartOf(i) PROVE FALSE
        OBVIOUS
      <4>1. Cardinality(Below(StartOf(i + 1))) < Cardinality(Below(StartOf(i)))
        BY <1>5, <2>1, <3>2
      <4>2. i < i - 1
        BY <2>1, <3>2, <4>1
      <4> QED
        BY <4>2
    <3>5. StartOf(i + 1) \in first..end
      BY <1>1, <3>2
    <3> QED
      BY <2>2, <3>3, <3>4, <3>5
  <2> QED
    BY <2>2, <2>3
<1>10. StartOf(1) = first
  <2> SUFFICES ASSUME StartOf(1) # first PROVE FALSE
    OBVIOUS
  <2>1. 1 \in 1..n /\ 1 - 1 = 0
    BY <1>3, <1>8
  <2>2. StartOf(1) \in S /\ Cardinality(Below(StartOf(1))) = 0
    BY <1>6, <2>1
  <2>3. first < StartOf(1)
    BY <1>0, <2>2
  <2>4. Cardinality(Below(first)) < Cardinality(Below(StartOf(1)))
    BY <1>1, <1>5, <2>2, <2>3
  <2>5. Cardinality(Below(first)) \in Nat
    BY <1>1, <1>4
  <2> QED
    BY <2>2, <2>4, <2>5
<1> HIDE DEF gs, EndOf, n
<1>11. /\ DOMAIN gs = 1..n /\ Len(gs) = n /\ Listed(gs)
       /\ \A i \in 1..n : gs[i].kind = kind /\ gs[i].first = StartOf(i) /\ gs[i].end = EndOf(i)
  <2> DEFINE T == {[feature EXCEPT !.first = StartOf(i), !.end = EndOf(i)] : i \in 1..n}
  <2>1. gs \in [1..n -> T]
    BY <1>7
  <2>2. gs \in Seq(T) /\ DOMAIN gs = 1..n
    <3> HIDE DEF T
    <3> QED
      BY <1>3, <2>1
  <2>3. Len(gs) = n
    <3> HIDE DEF T
    <3>1. Len(gs) \in Nat /\ DOMAIN gs = 1..Len(gs)
      BY <2>2
    <3> QED
      BY <1>3, <2>2, <3>1
  <2>4. ASSUME NEW i \in 1..n
        PROVE  gs[i] = [kind |-> kind, attributes |-> attributes, first |-> StartOf(i), end |-> EndOf(i)]
    <3>1. gs[i] = [feature EXCEPT !.first = StartOf(i), !.end = EndOf(i)]
      BY <1>7
    <3>2. feature = [kind |-> kind, attributes |-> attributes, first |-> first, end |-> end]
      BY DEF FeatureOf
    <3> HIDE DEF feature
    <3> QED
      BY <3>1, <3>2
  <2>5. ASSUME NEW i \in 1..n PROVE gs[i].kind = kind /\ gs[i].first = StartOf(i) /\ gs[i].end = EndOf(i)
    <3>1. gs[i] = [kind |-> kind, attributes |-> attributes, first |-> StartOf(i), end |-> EndOf(i)]
      BY <2>4
    <3> QED
      BY ONLY <3>1
  <2> HIDE DEF T
  <2> QED
    BY <2>2, <2>3, <2>5 DEF Listed
<1>12. ASSUME NEW j \in 1..n
       PROVE  /\ StartOf(j) \in Nat /\ EndOf(j) \in Nat /\ StartOf(j) <= EndOf(j)
              /\ StartOf(j) = IF j = 1 THEN (first - 1) + 1 ELSE EndOf(j - 1) + 1
  <2>1. CASE j = n
    <3>1. EndOf(j) = end
      BY <2>1 DEF EndOf
    <3> QED
      <4>1. StartOf(j) \in Nat /\ EndOf(j) \in Nat /\ StartOf(j) <= EndOf(j)
        BY <1>9, <3>1
      <4>2. j # 1 => StartOf(j) = EndOf(j - 1) + 1
        <5> SUFFICES ASSUME j # 1 PROVE StartOf(j) = EndOf(j - 1) + 1
          OBVIOUS
        <5>1. j - 1 # n /\ (j - 1) + 1 = j
          BY <1>3, <2>1
        <5>2. EndOf(j - 1) = StartOf(j) - 1
          BY <5>1 DEF EndOf
        <5> QED
          BY <4>1, <5>2
      <4> QED
        BY <1>10, <4>1, <4>2
  <2>2. CASE j # n
    <3>1. EndOf(j) = StartOf(j + 1) - 1
      BY <2>2 DEF EndOf
    <3>2. StartOf(j) \in Nat /\ EndOf(j) \in Nat /\ StartOf(j) <= EndOf(j)
      <4>1. StartOf(j) \in Nat /\ StartOf(j) < StartOf(j + 1) /\ StartOf(j + 1) \in first..end
        BY <1>9, <2>2
      <4> QED
        BY <3>1, <4>1
    <3>3. j # 1 => StartOf(j) = EndOf(j - 1) + 1
      <4> SUFFICES ASSUME j # 1 PROVE StartOf(j) = EndOf(j - 1) + 1
        OBVIOUS
      <4>1. j - 1 # n /\ (j - 1) + 1 = j
        BY <1>3
      <4>2. EndOf(j - 1) = StartOf(j) - 1
        BY <4>1 DEF EndOf
      <4> QED
        BY <3>2, <4>2
    <3> QED
      BY <1>10, <3>2, <3>3
  <2> QED
    BY <2>1, <2>2
<1>13. Chain(gs, first - 1, end)
  <2>1. \A j \in 1..n : j # 1 => j - 1 \in 1..n
    BY <1>3
  <2>2. ASSUME NEW j \in 1..Len(gs)
        PROVE  /\ gs[j].first \in Nat /\ gs[j].end \in Nat /\ gs[j].first <= gs[j].end
               /\ gs[j].first = IF j = 1 THEN (first - 1) + 1 ELSE gs[j - 1].end + 1
    BY <1>11, <1>12, <2>1
  <2>3. n \in 1..n /\ n # 0
    BY <1>3, <1>8
  <2>4. gs[n].end = end
    BY <1>11, <2>3 DEF EndOf
  <2> QED
    BY <1>11, <2>2, <2>3, <2>4 DEF Chain
<1>14. ASSUME NEW j \in 1..n, NEW p \in StartOf(j)..EndOf(j), SignedArea(PartOf(layer, p)) > 0
       PROVE  p = StartOf(j)
  <2> SUFFICES ASSUME p # StartOf(j) PROVE FALSE
    OBVIOUS
  <2>1. StartOf(j) \in Nat /\ EndOf(j) \in Nat /\ StartOf(j) \in first..end
    BY <1>9, <1>12
  <2>2. EndOf(j) <= end
    <3>1. CASE j = n
      BY <3>1 DEF EndOf
    <3>2. CASE j # n
      <4>1. StartOf(j + 1) \in first..end /\ EndOf(j) = StartOf(j + 1) - 1
        BY <1>9, <3>2 DEF EndOf
      <4> QED
        BY <4>1
    <3> QED
      BY <3>1, <3>2
  <2>3. p \in first..end /\ p > StartOf(j)
    BY <2>1, <2>2
  <2>4. p \in S /\ StartOf(j) \in S /\ Cardinality(Below(StartOf(j))) = j - 1
    BY <1>2, <1>6, <1>14, <2>3
  <2>5. Cardinality(Below(StartOf(j))) < Cardinality(Below(p)) /\ Cardinality(Below(p)) \in Nat /\ Cardinality(Below(p)) < n
    BY <1>4, <1>5, <2>3, <2>4
  <2>6. CASE j = n
    BY <1>3, <2>4, <2>5, <2>6
  <2>7. CASE j # n
    <3>1. EndOf(j) = StartOf(j + 1) - 1 /\ StartOf(j + 1) \in first..end
      BY <1>9, <2>7 DEF EndOf
    <3>2. p < StartOf(j + 1)
      BY <2>3, <3>1
    <3>3. j + 1 \in 1..n /\ (j + 1) - 1 = j
      BY <1>3, <2>7
    <3>4. StartOf(j + 1) \in S /\ Cardinality(Below(StartOf(j + 1))) = j
      BY <1>6, <3>3
    <3>5. Cardinality(Below(p)) < Cardinality(Below(StartOf(j + 1)))
      BY <1>5, <2>4, <3>2, <3>4
    <3> QED
      BY <2>4, <2>5, <3>4, <3>5
  <2> QED
    BY <2>6, <2>7
<1> QED
  BY <1>11, <1>13, <1>14 DEF gs, feature

-----------------------------------------------------------------------------
(* What is counted for a layer's features, and for those read so far.      *)

CoordsFor(features) == [p \in Commands(features) |-> CommandCounts(features[p[1]].geometry[p[2]]).coords]
PartsFor(features) == [p \in Commands(features) |-> CommandCounts(features[p[1]].geometry[p[2]]).parts]
IntegersFor(features) == [p \in Commands(features) |-> CommandCounts(features[p[1]].geometry[p[2]]).integers]

LEMMA CountedIs ==
    ASSUME NEW features
    PROVE  /\ Counted(features).features = Len(features)
           /\ Counted(features).integers = SumOf(IntegersFor(features), Commands(features))
           /\ Counted(features).coords = SumOf(CoordsFor(features), Commands(features))
           /\ Counted(features).parts = SumOf(PartsFor(features), Commands(features))
<1> DEFINE counts == [p \in Commands(features) |-> CommandCounts(features[p[1]].geometry[p[2]])]
           F == [p \in DOMAIN counts |-> counts[p].integers]
           G == [p \in DOMAIN counts |-> counts[p].coords]
           J == [p \in DOMAIN counts |-> counts[p].parts]
<1>1. Counted(features) = [features |-> Len(features), integers |-> SumFunction(F),
                           coords |-> SumFunction(G), parts |-> SumFunction(J)]
  BY DEF Counted
<1>2. F = IntegersFor(features) /\ G = CoordsFor(features) /\ J = PartsFor(features)
  BY DEF IntegersFor, CoordsFor, PartsFor
<1>3. DOMAIN F = Commands(features) /\ DOMAIN G = Commands(features) /\ DOMAIN J = Commands(features)
  OBVIOUS
<1> HIDE DEF F, G, J
<1>4. /\ SumFunction(F) = SumOf(F, Commands(features)) /\ SumFunction(G) = SumOf(G, Commands(features))
      /\ SumFunction(J) = SumOf(J, Commands(features))
  BY <1>3, SumOfAFunction
<1> QED
  BY <1>1, <1>2, <1>4

LEMMA CommandsAreFinite ==
    ASSUME NEW features \in Seq(Feature)
    PROVE  /\ IsFiniteSet(Commands(features))
           /\ \A p \in Commands(features) :
                p[1] \in 1..Len(features) /\ p[2] \in 1..Len(features[p[1]].geometry) /\ p = <<p[1], p[2]>>
           /\ \A i \in 1..Len(features) :
                /\ features[i].geometry \in Seq(Command)
                /\ \A j \in 1..Len(features[i].geometry) : <<i, j>> \in Commands(features)
           /\ \A p \in Commands(features) :
                /\ CoordsFor(features)[p] \in Nat /\ PartsFor(features)[p] \in Nat
                /\ IntegersFor(features)[p] \in Nat
<1> DEFINE rows == {{i} \X DOMAIN features[i].geometry : i \in DOMAIN features}
<1>1. DOMAIN features = 1..Len(features) /\ Len(features) \in Nat
  OBVIOUS
<1>2. ASSUME NEW i \in DOMAIN features
      PROVE  features[i].geometry \in Seq(Command) /\ DOMAIN features[i].geometry = 1..Len(features[i].geometry)
             /\ Len(features[i].geometry) \in Nat
  <2>1. features[i] \in Feature
    OBVIOUS
  <2>2. features[i].geometry \in Seq(Command)
    BY <2>1 DEF Feature
  <2> QED
    BY <2>2
<1>3. IsFiniteSet(Commands(features))
  <2>1. ASSUME NEW r \in rows PROVE IsFiniteSet(r)
    <3>1. PICK i \in DOMAIN features : r = {i} \X DOMAIN features[i].geometry
      OBVIOUS
    <3>2. IsFiniteSet(DOMAIN features[i].geometry)
      <4> DEFINE m == Len(features[i].geometry)
      <4>1. m \in Int /\ DOMAIN features[i].geometry = 1..m
        BY <1>2
      <4> HIDE DEF m
      <4>2. IsFiniteSet(1..m)
        BY <4>1, FS_Interval
      <4> QED
        BY <4>1, <4>2
    <3> QED
      BY <3>1, <3>2, FS_Singleton, FS_Product
  <2>2. IsFiniteSet(rows)
    <3>1. IsFiniteSet(DOMAIN features)
      BY <1>1, FS_Interval
    <3> DEFINE row == [i \in DOMAIN features |-> {i} \X DOMAIN features[i].geometry]
    <3>2. row \in Surjection(DOMAIN features, rows)
      BY DEF Surjection
    <3> HIDE DEF row, rows
    <3> QED
      BY <3>1, <3>2, FS_Surjection
  <2> HIDE DEF rows
  <2>3. IsFiniteSet(UNION rows)
    BY <2>1, <2>2, FS_UNION
  <2> QED
    BY <2>3 DEF Commands, rows
<1>4. ASSUME NEW p \in Commands(features)
      PROVE  p[1] \in 1..Len(features) /\ p[2] \in 1..Len(features[p[1]].geometry) /\ p = <<p[1], p[2]>>
  <2>1. PICK i \in DOMAIN features : p \in {i} \X DOMAIN features[i].geometry
    BY DEF Commands
  <2> QED
    BY <1>1, <1>2, <2>1
<1>5. ASSUME NEW i \in 1..Len(features), NEW j \in 1..Len(features[i].geometry) PROVE <<i, j>> \in Commands(features)
  <2>1. <<i, j>> \in {i} \X DOMAIN features[i].geometry
    BY <1>1, <1>2
  <2> QED
    BY <1>1, <2>1 DEF Commands
<1>6. ASSUME NEW p \in Commands(features)
      PROVE  CoordsFor(features)[p] \in Nat /\ PartsFor(features)[p] \in Nat /\ IntegersFor(features)[p] \in Nat
  <2> DEFINE c == features[p[1]].geometry[p[2]]
  <2>1. c \in Command
    BY <1>1, <1>2, <1>4
  <2>2. CommandCounts(c).coords \in Nat /\ CommandCounts(c).parts \in Nat /\ CommandCounts(c).integers \in Nat
    <3> HIDE DEF c
    <3>1. c.count \in Nat
      BY <2>1 DEF Command
    <3> QED
      BY <3>1 DEF CommandCounts
  <2> QED
    BY <2>2 DEF CoordsFor, PartsFor, IntegersFor
<1> QED
  BY <1>1, <1>2, <1>3, <1>4, <1>5, <1>6

\* The commands of the first k features, and with the first i of the next.
Before(features, k) == {p \in Commands(features) : p[1] <= k}
BeforeAnd(features, k, i) == {p \in Commands(features) : p[1] <= k \/ (p[1] = k + 1 /\ p[2] <= i)}

LEMMA RoomGrows ==
    ASSUME NEW features \in Seq(Feature), NEW k \in 0..(Len(features) - 1), NEW w,
           \A p \in Commands(features) : w[p] \in Nat
    PROVE  LET n == Len(features[k + 1].geometry)
               A == [i \in 0..n |-> SumOf(w, BeforeAnd(features, k, i))]
           IN  /\ n \in Nat /\ A[0] = SumOf(w, Before(features, k))
               /\ A[n] = SumOf(w, Before(features, k + 1))
               /\ \A i \in 0..n : A[i] \in Nat
               /\ \A i \in 1..n : A[i] = A[i - 1] + w[<<k + 1, i>>]
<1> DEFINE n == Len(features[k + 1].geometry)
           C == Commands(features)
           B(i) == BeforeAnd(features, k, i)
<1>1. k \in Int /\ k + 1 \in 1..Len(features) /\ n \in Nat
  <2>1. k \in Int /\ k + 1 \in 1..Len(features)
    OBVIOUS
  <2>2. features[k + 1].geometry \in Seq(Command)
    BY <2>1, CommandsAreFinite
  <2> QED
    BY <2>1, <2>2
<1>2. IsFiniteSet(C)
  BY CommandsAreFinite
<1>3. ASSUME NEW p \in C
      PROVE  p[1] \in Int /\ p[2] \in Int /\ p[2] >= 1 /\ p = <<p[1], p[2]>> /\ (p[1] = k + 1 => p[2] <= n)
  BY <1>1, CommandsAreFinite
<1>4. \A i \in 1..n : <<k + 1, i>> \in C
  BY <1>1, CommandsAreFinite
<1> HIDE DEF n, C
<1>5. B(0) = Before(features, k)
  BY <1>3 DEF BeforeAnd, Before, C
<1>6. B(n) = Before(features, k + 1)
  <2>1. \A p \in C : (p[1] <= k \/ (p[1] = k + 1 /\ p[2] <= n)) <=> p[1] <= k + 1
    BY <1>1, <1>3
  <2> QED
    BY <2>1 DEF BeforeAnd, Before, C
<1>7. ASSUME NEW i \in 1..n
      PROVE  B(i) = B(i - 1) \cup {<<k + 1, i>>} /\ <<k + 1, i>> \notin B(i - 1) /\ <<k + 1, i>> \in C
  <2> DEFINE x == <<k + 1, i>>
  <2>1. x \in C /\ x[1] = k + 1 /\ x[2] = i
    BY <1>4
  <2>2. \A p \in C : p[1] = k + 1 /\ p[2] = i => p = x
    BY <1>3
  <2> HIDE DEF x
  <2>3. \A p \in C : (p[1] <= k \/ (p[1] = k + 1 /\ p[2] <= i))
                       <=> (p[1] <= k \/ (p[1] = k + 1 /\ p[2] <= i - 1)) \/ p = x
    BY <1>1, <1>3, <2>1, <2>2
  <2>4. B(i) = B(i - 1) \cup {x}
    BY <2>1, <2>3 DEF BeforeAnd, C
  <2>5. x \notin B(i - 1)
    BY <1>1, <2>1 DEF BeforeAnd, C
  <2> QED
    BY <2>1, <2>4, <2>5 DEF x
<1>8. \A i : B(i) \in SUBSET C
  BY DEF BeforeAnd, C
<1>9. ASSUME NEW i PROVE IsFiniteSet(B(i)) /\ SumOf(w, B(i)) \in Nat
  <2>1. B(i) \in SUBSET C
    BY <1>8
  <2> HIDE DEF B
  <2>2. IsFiniteSet(B(i))
    BY <1>2, <2>1, FS_Subset
  <2>3. \A p \in B(i) : w[p] \in Nat
    BY <2>1 DEF C
  <2> QED
    BY <2>2, <2>3, SumIsNatural
<1>10. ASSUME NEW i \in 1..n PROVE SumOf(w, B(i)) = SumOf(w, B(i - 1)) + w[<<k + 1, i>>]
  <2> DEFINE S == B(i - 1)
             x == <<k + 1, i>>
  <2>1. IsFiniteSet(S) /\ x \notin S /\ B(i) = S \cup {x} /\ SumOf(w, S) \in Nat
    BY <1>7, <1>9
  <2>2. \A p \in S \cup {x} : w[p] \in Int
    BY <1>7, <1>8 DEF C
  <2> HIDE DEF S, x, B
  <2>3. SumOf(w, S \cup {x}) = w[x] + SumOf(w, S)
    BY <2>1, <2>2, SumWith
  <2>4. w[x] \in Int
    BY <2>2
  <2> QED
    BY <2>1, <2>3, <2>4 DEF S, x
<1> HIDE DEF B
<1> DEFINE A == [i \in 0..n |-> SumOf(w, B(i))]
<1>11. /\ A[0] = SumOf(w, Before(features, k)) /\ A[n] = SumOf(w, Before(features, k + 1))
       /\ \A i \in 0..n : A[i] \in Nat
  <2>1. 0 \in 0..n /\ n \in 0..n
    BY <1>1
  <2> QED
    BY <1>5, <1>6, <1>9, <2>1
<1>12. ASSUME NEW i \in 1..n PROVE A[i] = A[i - 1] + w[<<k + 1, i>>]
  <2>1. i \in 0..n /\ i - 1 \in 0..n
    BY <1>1
  <2> QED
    BY <1>10, <2>1
<1> QED
  BY <1>1, <1>11, <1>12 DEF n, B

-----------------------------------------------------------------------------
(* The layers of a tile, kept and being read.                              *)

\* A chain stays between its ends.
LEMMA ChainWithin ==
    ASSUME NEW fs, Listed(fs), NEW a \in Nat, NEW b \in Nat, Chain(fs, a, b)
    PROVE  \A j \in 1..Len(fs) : a < fs[j].first /\ fs[j].end <= b
<1> DEFINE m == Len(fs)
<1>1. m \in Nat
  BY DEF Listed
<1>2. /\ \A j \in 1..m : /\ fs[j].first \in Nat /\ fs[j].end \in Nat /\ fs[j].first <= fs[j].end
                         /\ fs[j].first = IF j = 1 THEN a + 1 ELSE fs[j - 1].end + 1
      /\ b = IF m = 0 THEN a ELSE fs[m].end
  BY DEF Chain
<1> HIDE DEF m
<1>3. \A j \in 1..m : a < fs[j].first
  <2> DEFINE H == {j \in 0..m : j # 0 => a < fs[j].first}
  <2>1. 0 \in H
    BY <1>1
  <2>2. ASSUME NEW j \in 1..m, j - 1 \in H PROVE j \in H
    <3>1. j \in 0..m /\ (j # 1 => j - 1 \in 1..m /\ j - 1 # 0)
      BY <1>1
    <3>2. CASE j = 1
      BY <1>2, <3>1, <3>2
    <3>3. CASE j # 1
      <4>1. a < fs[j - 1].first /\ fs[j - 1].first \in Nat /\ fs[j - 1].end \in Nat /\ fs[j - 1].first <= fs[j - 1].end
        BY <1>2, <2>2, <3>1, <3>3
      <4>2. fs[j].first = fs[j - 1].end + 1
        BY <1>2, <3>3
      <4> QED
        BY <3>1, <4>1, <4>2
    <3> QED
      BY <3>2, <3>3
  <2> HIDE DEF H
  <2>3. \A j \in 0..m : j \in H
    BY <1>1, <2>1, <2>2, OneByOne
  <2>4. ASSUME NEW j \in 1..m PROVE j \in 0..m /\ j # 0
    BY <1>1
  <2> QED
    BY <2>3, <2>4 DEF H
<1>4. \A j \in 1..m : fs[j].end <= b
  <2> DEFINE H == {i \in 0..m : i # m => fs[m - i].end <= b}
  <2>1. 0 \in H
    <3>1. 0 \in 0..m /\ (m # 0 => m - 0 = m /\ m \in 1..m)
      BY <1>1
    <3> QED
      BY <1>2, <3>1
  <2>2. ASSUME NEW i \in 1..m, i - 1 \in H PROVE i \in H
    <3> SUFFICES ASSUME i # m PROVE fs[m - i].end <= b
      BY <1>1
    <3> DEFINE j == m - i
    <3>1. j \in 1..m /\ j + 1 \in 1..m /\ j + 1 # 1 /\ (j + 1) - 1 = j /\ m - (i - 1) = j + 1 /\ i - 1 # m
      BY <1>1
    <3>2. fs[j + 1].end <= b
      BY <2>2, <3>1
    <3> HIDE DEF j
    <3>3. fs[j + 1].first = fs[j].end + 1 /\ fs[j + 1].first <= fs[j + 1].end
      BY <1>2, <3>1
    <3>4. fs[j].end \in Nat /\ fs[j + 1].end \in Nat
      BY <1>2, <3>1
    <3>5. fs[j].end <= b
      BY <3>2, <3>3, <3>4
    <3> QED
      BY <3>5 DEF j
  <2> HIDE DEF H
  <2>3. \A i \in 0..m : i \in H
    BY <1>1, <2>1, <2>2, OneByOne
  <2> SUFFICES ASSUME NEW j \in 1..m PROVE fs[j].end <= b
    OBVIOUS
  <2>4. m - j \in 0..m /\ m - j # m /\ m - (m - j) = j
    BY <1>1
  <2> QED
    BY <2>3, <2>4 DEF H
<1> QED
  BY <1>3, <1>4 DEF m

\* The rings of polygons: closed, and outlines only where they begin.
Grouped(layer, fs) ==
  \A j \in 1..Len(fs) : fs[j].kind = Polygon =>
    \A p \in fs[j].first..fs[j].end :
      /\ RingCloses(layer.coords, layer.parts, p)
      /\ SignedArea(PartOf(layer, p)) > 0 => p = fs[j].first

LayerInv(layer) ==
  /\ layer = [name |-> layer.name, keys |-> layer.keys, values |-> layer.values, counted |-> layer.counted,
              features |-> layer.features, coords |-> layer.coords, parts |-> layer.parts,
              untyped |-> layer.untyped]
  /\ Slab(layer.coords, layer.parts)
  /\ Listed(layer.features) /\ Chain(layer.features, 0, Len(layer.parts))
  /\ Grouped(layer, layer.features)
  /\ {layer.counted.coords, layer.counted.parts, layer.counted.integers} \subseteq Nat
  /\ Len(layer.coords) <= layer.counted.coords /\ Len(layer.parts) <= layer.counted.parts

LEMMA LayerGrows ==
    ASSUME NEW layer, LayerInv(layer), NEW made, NEW new,
           new = [name |-> new.name, keys |-> new.keys, values |-> new.values, counted |-> new.counted,
                  features |-> new.features, coords |-> new.coords, parts |-> new.parts, untyped |-> new.untyped],
           new.counted = layer.counted, new.features = layer.features \o made,
           Slab(new.coords, new.parts), Continues(new.coords, layer.coords), Continues(new.parts, layer.parts),
           Len(new.coords) <= layer.counted.coords, Len(new.parts) <= layer.counted.parts,
           Listed(made), Chain(made, Len(layer.parts), Len(new.parts)), Grouped(new, made)
    PROVE  LayerInv(new)
<1> DEFINE fs == layer.features
           n == Len(layer.parts)
<1>1. Listed(fs) /\ Chain(fs, 0, n) /\ Slab(layer.coords, layer.parts) /\ Grouped(layer, fs)
  BY DEF LayerInv
<1>2. n \in Nat /\ Len(new.parts) \in Nat /\ 0 \in Nat /\ new.coords \in Seq(Spots) /\ new.parts \in Seq(Nat)
  BY <1>1 DEF Slab
<1>3. /\ Listed(new.features) /\ Len(new.features) = Len(fs) + Len(made) /\ Len(fs) \in Nat /\ Len(made) \in Nat
      /\ \A i \in 1..Len(fs) : new.features[i] = fs[i]
      /\ \A i \in 1..Len(made) : new.features[Len(fs) + i] = made[i]
  BY <1>1, ListsJoin, SMTT(30)
<1> HIDE DEF fs, n
<1>4. Chain(new.features, 0, Len(new.parts))
  <2>1. Chain(fs \o made, 0, Len(new.parts))
    BY <1>1, <1>2, ChainsJoin DEF n
  <2> QED
    BY <2>1 DEF fs
<1>5. Grouped(new, new.features)
  <2> SUFFICES ASSUME NEW j \in 1..Len(new.features), new.features[j].kind = Polygon,
                      NEW p \in new.features[j].first..new.features[j].end
               PROVE  /\ RingCloses(new.coords, new.parts, p)
                      /\ SignedArea(PartOf(new, p)) > 0 => p = new.features[j].first
    BY DEF Grouped
  <2>1. CASE j <= Len(fs)
    <3>1. j \in 1..Len(fs) /\ new.features[j] = fs[j]
      BY <1>3, <2>1
    <3>2. 0 < fs[j].first /\ fs[j].end <= n /\ fs[j].first \in Nat /\ fs[j].end \in Nat
      BY <1>1, <1>2, <3>1, ChainWithin DEF Chain
    <3>3. p \in 1..n
      BY <1>2, <3>1, <3>2, SMTT(30)
    <3>4. PartOf(new, p) = PartOf(layer, p)
          /\ (RingCloses(new.coords, new.parts, p) <=> RingCloses(layer.coords, layer.parts, p))
      BY <1>1, <1>2, <3>3, PartsStay DEF n
    <3>5. /\ RingCloses(layer.coords, layer.parts, p)
          /\ SignedArea(PartOf(layer, p)) > 0 => p = fs[j].first
      BY <1>1, <3>1 DEF Grouped
    <3> QED
      BY <3>1, <3>4, <3>5
  <2>2. CASE ~(j <= Len(fs))
    <3> DEFINE i == j - Len(fs)
    <3>1. i \in 1..Len(made) /\ j = Len(fs) + i
      BY <1>3, <2>2
    <3>2. new.features[j] = made[i]
      BY <1>3, <3>1
    <3> HIDE DEF i
    <3> QED
      BY <3>1, <3>2 DEF Grouped
  <2> QED
    BY <2>1, <2>2
<1>6. {new.counted.coords, new.counted.parts, new.counted.integers} \subseteq Nat
  BY DEF LayerInv
<1> QED
  BY <1>3, <1>4, <1>5, <1>6 DEF LayerInv

\* A layer being read: what is left of all its features, and the room what
\* was read was counted for.
ReadOf(layer, left, whole, k) ==
  /\ Len(left) = Len(whole) - k /\ \A i \in 1..Len(left) : left[i] = whole[k + i]
  /\ layer.counted = Counted(whole)
  /\ Len(layer.coords) <= SumOf(CoordsFor(whole), Before(whole, k))
  /\ Len(layer.parts) <= SumOf(PartsFor(whole), Before(whole, k))

Reading(layer, left) == \E whole \in Seq(Feature) : \E k \in 0..Len(whole) : ReadOf(layer, left, whole, k)

LEMMA RoomIsCounted ==
    ASSUME NEW whole \in Seq(Feature), NEW k
    PROVE  /\ SumOf(CoordsFor(whole), Before(whole, k)) \in Nat
           /\ SumOf(PartsFor(whole), Before(whole, k)) \in Nat
           /\ Counted(whole).coords \in Nat /\ Counted(whole).parts \in Nat /\ Counted(whole).integers \in Nat
           /\ Counted(whole).features \in Nat
           /\ SumOf(CoordsFor(whole), Before(whole, k)) <= Counted(whole).coords
           /\ SumOf(PartsFor(whole), Before(whole, k)) <= Counted(whole).parts
<1> DEFINE C == Commands(whole)
           B == Before(whole, k)
           F == CoordsFor(whole)
           G == PartsFor(whole)
           J == IntegersFor(whole)
<1>1. IsFiniteSet(C) /\ \A p \in C : F[p] \in Nat /\ G[p] \in Nat /\ J[p] \in Nat
  BY CommandsAreFinite
<1>2. B \in SUBSET C
  BY DEF Before
<1>3. /\ Counted(whole).features = Len(whole) /\ Counted(whole).integers = SumOf(J, C)
      /\ Counted(whole).coords = SumOf(F, C) /\ Counted(whole).parts = SumOf(G, C)
  BY CountedIs
<1> HIDE DEF B, C, F, G, J
<1>4. IsFiniteSet(B) /\ \A p \in B : F[p] \in Nat /\ G[p] \in Nat
  BY <1>1, <1>2, FS_Subset
<1>5. SumOf(F, B) \in Nat /\ SumOf(G, B) \in Nat
  BY <1>4, SumIsNatural
<1>6. SumOf(F, C) \in Nat /\ SumOf(G, C) \in Nat /\ SumOf(J, C) \in Nat
  BY <1>1, SumIsNatural
<1>7. SumOf(F, B) <= SumOf(F, C) /\ SumOf(G, B) <= SumOf(G, C)
  BY <1>1, <1>2, SumOfPart
<1>8. Len(whole) \in Nat
  OBVIOUS
<1> QED
  BY <1>3, <1>5, <1>6, <1>7, <1>8 DEF B, F, G

\* One feature's geometry stays within what was counted for it.
LEMMA FeatureHasRoom ==
    ASSUME NEW layer, Slab(layer.coords, layer.parts), NEW left \in Seq(Feature), left # <<>>,
           NEW whole \in Seq(Feature), NEW k \in 0..Len(whole), ReadOf(layer, left, whole, k),
           NEW kind
    PROVE  LET pen == RunCommands(kind, layer, Head(left).geometry)
           IN  /\ k + 1 \in 0..Len(whole) /\ Head(left) = whole[k + 1]
               /\ pen \in Pens
               /\ ~pen.bad =>
                    /\ Draws(kind, layer.coords, layer.parts, pen) /\ pen.open = 0
                    /\ Len(pen.coords) <= SumOf(CoordsFor(whole), Before(whole, k + 1))
                    /\ Len(pen.parts) <= SumOf(PartsFor(whole), Before(whole, k + 1))
<1> DEFINE f == whole[k + 1]
           n == Len(f.geometry)
           F == CoordsFor(whole)
           G == PartsFor(whole)
           A == [i \in 0..n |-> SumOf(F, BeforeAnd(whole, k, i))]
           B == [i \in 0..n |-> SumOf(G, BeforeAnd(whole, k, i))]
           pen == RunCommands(kind, layer, f.geometry)
<1>1. /\ k \in 0..(Len(whole) - 1) /\ k + 1 \in 1..Len(whole) /\ k + 1 \in 0..Len(whole) /\ Head(left) = f
  <2>1. Len(left) \in Nat /\ Len(left) # 0 /\ Len(whole) \in Nat /\ Len(left) = Len(whole) - k
    BY DEF ReadOf
  <2>2. 1 \in 1..Len(left)
    BY <2>1
  <2>3. left[1] = whole[k + 1]
    BY <2>2 DEF ReadOf
  <2>4. Head(left) = left[1]
    OBVIOUS
  <2>5. k \in 0..(Len(whole) - 1) /\ k + 1 \in 1..Len(whole) /\ k + 1 \in 0..Len(whole)
    BY <2>1
  <2> QED
    BY <2>3, <2>4, <2>5
<1>2. /\ f.geometry \in Seq(Command) /\ \A p \in Commands(whole) : F[p] \in Nat /\ G[p] \in Nat
      /\ \A i \in 1..n : <<k + 1, i>> \in Commands(whole)
  BY <1>1, CommandsAreFinite
<1>3. /\ n \in Nat /\ A[0] = SumOf(F, Before(whole, k)) /\ A[n] = SumOf(F, Before(whole, k + 1))
      /\ \A i \in 0..n : A[i] \in Nat
      /\ \A i \in 1..n : A[i] = A[i - 1] + F[<<k + 1, i>>]
  BY <1>1, <1>2, RoomGrows
<1>4. /\ B[0] = SumOf(G, Before(whole, k)) /\ B[n] = SumOf(G, Before(whole, k + 1))
      /\ \A i \in 0..n : B[i] \in Nat
      /\ \A i \in 1..n : B[i] = B[i - 1] + G[<<k + 1, i>>]
  BY <1>1, <1>2, RoomGrows
<1>5. ASSUME NEW i \in 1..n
      PROVE  /\ F[<<k + 1, i>>] = CommandCounts(f.geometry[i]).coords
             /\ G[<<k + 1, i>>] = CommandCounts(f.geometry[i]).parts
  BY <1>2 DEF CoordsFor, PartsFor
<1>6. Len(layer.coords) <= A[0] /\ Len(layer.parts) <= B[0]
  BY <1>3, <1>4 DEF ReadOf
<1> HIDE DEF A, B, F, G, f
<1>7. /\ pen \in Pens
      /\ pen.bad \/ /\ Draws(kind, layer.coords, layer.parts, pen) /\ pen.open = 0
                    /\ Len(pen.coords) <= A[n] /\ Len(pen.parts) <= B[n]
  <2> DEFINE geometry == f.geometry
  <2>1. /\ Slab(layer.coords, layer.parts) /\ geometry \in Seq(Command)
        /\ \A i \in 0..Len(geometry) : A[i] \in Nat /\ B[i] \in Nat
        /\ Len(layer.coords) <= A[0] /\ Len(layer.parts) <= B[0]
        /\ \A i \in 1..Len(geometry) :
             /\ A[i] = A[i - 1] + CommandCounts(geometry[i]).coords
             /\ B[i] = B[i - 1] + CommandCounts(geometry[i]).parts
    BY <1>2, <1>3, <1>4, <1>5, <1>6 DEF n
  <2>2. pen = RunCommands(kind, layer, geometry) /\ n = Len(geometry)
    BY DEF pen, n
  <2> HIDE DEF geometry, pen
  <2> QED
    BY ONLY <2>1, <2>2, GeometryDraws
<1> HIDE DEF pen, n
<1>8. ~pen.bad => /\ Draws(kind, layer.coords, layer.parts, pen) /\ pen.open = 0
                  /\ Len(pen.coords) <= SumOf(F, Before(whole, k + 1))
                  /\ Len(pen.parts) <= SumOf(G, Before(whole, k + 1))
  BY <1>3, <1>4, <1>7
<1>9. k + 1 \in 0..Len(whole) /\ Head(left) = whole[k + 1] /\ pen = RunCommands(kind, layer, Head(left).geometry)
  BY <1>1 DEF pen, f
<1>10. pen \in Pens
  BY <1>7
<1> HIDE DEF A, B
<1> QED
  BY <1>8, <1>9, <1>10, Zenon DEF F, G

LEMMA ReadingGoesOn ==
    ASSUME NEW layer, NEW left \in Seq(Feature), left # <<>>,
           NEW whole \in Seq(Feature), NEW k \in 0..Len(whole), ReadOf(layer, left, whole, k),
           NEW new, new.counted = layer.counted,
           Len(new.coords) <= SumOf(CoordsFor(whole), Before(whole, k + 1)),
           Len(new.parts) <= SumOf(PartsFor(whole), Before(whole, k + 1))
    PROVE  Reading(new, Tail(left))
<1>1. /\ Len(left) \in Nat /\ Len(left) # 0 /\ Len(whole) \in Nat /\ Len(left) = Len(whole) - k
      /\ \A i \in 1..Len(left) : left[i] = whole[k + i]
  BY DEF ReadOf
<1>2. k \in Int /\ k + 1 \in 0..Len(whole)
  BY <1>1
<1>3. Len(Tail(left)) = Len(left) - 1 /\ \A i \in 1..Len(Tail(left)) : Tail(left)[i] = left[i + 1]
  BY HeadTailProperties
<1>4. Len(Tail(left)) = Len(whole) - (k + 1)
  BY <1>1, <1>2, <1>3
<1>5. ASSUME NEW i \in 1..Len(Tail(left)) PROVE Tail(left)[i] = whole[(k + 1) + i]
  <2>1. i + 1 \in 1..Len(left) /\ k + (i + 1) = (k + 1) + i
    BY <1>1, <1>2, <1>3
  <2> QED
    BY <1>1, <1>3, <2>1
<1>6. ReadOf(new, Tail(left), whole, k + 1)
  BY <1>4, <1>5 DEF ReadOf
<1> QED
  BY <1>2, <1>6 DEF Reading

\* The layer with a feature's drawing, and with what was made of it.
WithMade(new, layer, pen, made) ==
  new = [name |-> layer.name, keys |-> layer.keys, values |-> layer.values, counted |-> layer.counted,
         features |-> layer.features \o made, coords |-> pen.coords, parts |-> pen.parts,
         untyped |-> layer.untyped]

\* A feature that is read, whatever is made of it, leaves the layer whole.
LEMMA FeatureIsRead ==
    ASSUME NEW layer, LayerInv(layer), NEW left \in Seq(Feature), left # <<>>, Reading(layer, left),
           NEW kind, NEW pen, pen = RunCommands(kind, layer, Head(left).geometry), ~pen.bad,
           NEW made, Listed(made), NEW new,
           WithMade(new, layer, pen, made),
           Chain(made, Len(layer.parts), Len(pen.parts)),
           \A j \in 1..Len(made) : made[j].kind = Polygon =>
              /\ kind = Polygon
              /\ \A p \in made[j].first..made[j].end : SignedArea(PartOf(new, p)) > 0 => p = made[j].first
    PROVE  /\ LayerInv(new) /\ Reading(new, Tail(left)) /\ new.counted = layer.counted
           /\ Len(new.features) = Len(layer.features) + Len(made) /\ Len(made) \in Nat
<1>0. PICK whole \in Seq(Feature) : \E k \in 0..Len(whole) : ReadOf(layer, left, whole, k)
  BY DEF Reading
<1>1. PICK k \in 0..Len(whole) : ReadOf(layer, left, whole, k)
  BY <1>0
<1>2. Slab(layer.coords, layer.parts)
  BY DEF LayerInv
<1>3. /\ k + 1 \in 0..Len(whole) /\ pen \in Pens
      /\ Draws(kind, layer.coords, layer.parts, pen) /\ pen.open = 0
      /\ Len(pen.coords) <= SumOf(CoordsFor(whole), Before(whole, k + 1))
      /\ Len(pen.parts) <= SumOf(PartsFor(whole), Before(whole, k + 1))
  <2>1. /\ Slab(layer.coords, layer.parts) /\ left \in Seq(Feature) /\ left # <<>>
        /\ whole \in Seq(Feature) /\ k \in 0..Len(whole) /\ ReadOf(layer, left, whole, k)
        /\ pen = RunCommands(kind, layer, Head(left).geometry) /\ ~pen.bad
    BY <1>1, <1>2
  <2> QED
    BY ONLY <2>1, FeatureHasRoom, SMTT(30)
<1>5. /\ new.counted = layer.counted /\ new.features = layer.features \o made
      /\ new.coords = pen.coords /\ new.parts = pen.parts
  BY DEF WithMade
<1>6. new = [name |-> new.name, keys |-> new.keys, values |-> new.values, counted |-> new.counted,
             features |-> new.features, coords |-> new.coords, parts |-> new.parts, untyped |-> new.untyped]
  BY DEF WithMade
<1>7. /\ Slab(new.coords, new.parts) /\ Continues(new.coords, layer.coords) /\ Continues(new.parts, layer.parts)
      /\ kind = Polygon => \A p \in (Len(layer.parts) + 1)..Len(new.parts) : RingCloses(new.coords, new.parts, p)
  BY <1>3, <1>5 DEF Draws, Drawing, Slab
<1>8. Len(new.coords) <= layer.counted.coords /\ Len(new.parts) <= layer.counted.parts
  <2>1. layer.counted = Counted(whole)
    BY <1>1 DEF ReadOf
  <2>2. Len(pen.coords) \in Nat /\ Len(pen.parts) \in Nat
    BY <1>3 DEF Pens
  <2> QED
    BY <1>3, <1>5, <2>1, <2>2, RoomIsCounted
<1>9. Reading(new, Tail(left))
  BY <1>1, <1>3, <1>5, ReadingGoesOn
<1>10. Grouped(new, made)
  <2> SUFFICES ASSUME NEW j \in 1..Len(made), made[j].kind = Polygon,
                      NEW p \in made[j].first..made[j].end
               PROVE  RingCloses(new.coords, new.parts, p)
    BY DEF Grouped
  <2>1. Len(layer.parts) \in Nat /\ Len(pen.parts) \in Nat
    BY <1>2, <1>3 DEF Slab, Pens
  <2>2. /\ made[j].first \in Nat /\ made[j].end \in Nat
        /\ Len(layer.parts) < made[j].first /\ made[j].end <= Len(pen.parts)
    BY <2>1, ChainWithin DEF Chain
  <2>3. p \in (Len(layer.parts) + 1)..Len(new.parts)
    BY <1>5, <2>1, <2>2, SMTT(30)
  <2> QED
    BY <1>7, <2>3
<1>11. Chain(made, Len(layer.parts), Len(new.parts))
  BY <1>5
<1>12. LayerInv(new)
  BY <1>5, <1>6, <1>7, <1>8, <1>10, <1>11, LayerGrows
<1>13. Len(new.features) = Len(layer.features) + Len(made) /\ Len(made) \in Nat
  <2>1. Listed(layer.features)
    BY DEF LayerInv
  <2> QED
    BY <1>5, <2>1, ListsJoin
<1> QED
  BY <1>5, <1>9, <1>12, <1>13

-----------------------------------------------------------------------------
(* The limits, which run across the layers.                                *)

\* One term more, and one term changed.
LEMMA SumGetsOneMore ==
    ASSUME NEW n \in Nat, NEW f, NEW g, \A i \in 1..n : f[i] \in Nat /\ g[i] = f[i], g[n + 1] \in Nat
    PROVE  SumOf(g, 1..(n + 1)) = SumOf(f, 1..n) + g[n + 1] /\ SumOf(f, 1..n) \in Nat
<1>1. IsFiniteSet(1..n)
  BY FS_Interval
<1>2. 1..(n + 1) = (1..n) \cup {n + 1} /\ n + 1 \notin 1..n
  OBVIOUS
<1>3. \A i \in (1..n) \cup {n + 1} : g[i] \in Int
  OBVIOUS
<1>4. SumOf(g, (1..n) \cup {n + 1}) = g[n + 1] + SumOf(g, 1..n)
  BY <1>1, <1>2, <1>3, SumWith
<1>5. SumOf(g, 1..n) = SumOf(f, 1..n)
  BY <1>1, SumsOfSame
<1>6. SumOf(f, 1..n) \in Nat
  BY <1>1, SumIsNatural
<1>7. SumOf(g, 1..(n + 1)) = g[n + 1] + SumOf(f, 1..n)
  BY <1>2, <1>4, <1>5
<1> DEFINE was == SumOf(f, 1..n)
           x == g[n + 1]
<1>8. was \in Nat /\ x \in Nat
  BY <1>6
<1>9. SumOf(g, 1..(n + 1)) = x + was
  BY <1>7
<1> HIDE DEF was, x
<1>10. SumOf(g, 1..(n + 1)) = was + x
  BY <1>8, <1>9
<1> QED
  BY <1>6, <1>10 DEF was, x

LEMMA SumChangesLast ==
    ASSUME NEW n \in Nat \ {0}, NEW f, NEW g, \A i \in 1..(n - 1) : g[i] = f[i],
           \A i \in 1..n : f[i] \in Nat /\ g[i] \in Nat
    PROVE  SumOf(g, 1..n) = (SumOf(f, 1..n) - f[n]) + g[n] /\ SumOf(f, 1..n) \in Nat
<1>1. n - 1 \in Nat /\ (n - 1) + 1 = n /\ n \in 1..n /\ \A i \in 1..(n - 1) : i \in 1..n
  OBVIOUS
<1>2. SumOf(g, 1..((n - 1) + 1)) = SumOf(f, 1..(n - 1)) + g[(n - 1) + 1] /\ SumOf(f, 1..(n - 1)) \in Nat
  BY <1>1, SumGetsOneMore
<1>3. SumOf(f, 1..((n - 1) + 1)) = SumOf(f, 1..(n - 1)) + f[(n - 1) + 1]
  BY <1>1, SumGetsOneMore
<1> QED
  BY <1>1, <1>2, <1>3

IntegersKept(kept) == [i \in DOMAIN kept |-> kept[i].counted.integers]
FeaturesKept(kept) == [i \in DOMAIN kept |-> Len(kept[i].features)]

\* Layers whose features can be read.
Layered(ls) == \E S : ls \in Seq(S) /\ \A l \in S : l.features \in Seq(Feature)

\* The layer being read is the last of those kept, and what has been read of
\* it fits what the counting pass set aside for the features before this one.
TileInv ==
  /\ tileLimits \in TileLimits
  /\ Layered(layersLeft) /\ featuresLeft \in Seq(Feature)
  /\ Listed(tileKept) /\ \A i \in 1..Len(tileKept) : LayerInv(tileKept[i])
  /\ featuresLeft # <<>> => Len(tileKept) # 0 /\ Reading(tileKept[Len(tileKept)], featuresLeft)
  /\ featureCount \in Nat /\ featureCount <= tileLimits.features
  /\ integerCount \in Nat /\ integerCount <= tileLimits.integers
  /\ integerCount = SumOf(IntegersKept(tileKept), 1..Len(tileKept))
  /\ SumOf(FeaturesKept(tileKept), 1..Len(tileKept)) <= featureCount
  /\ decoded \in {"", "kept", "over limit", "malformed", "unsupported"} /\ layersRead \in Nat

LEMMA LayersAreLayered ==
    ASSUME NEW body \in TileBodies
    PROVE  Layered(body.layers)
BY TileAssumption DEF TileAssumption, Layered

LEMMA LayeredOf ==
    ASSUME NEW S, NEW ls \in Seq(S), \A l \in S : l.features \in Seq(Feature)
    PROVE  Layered(ls)
BY DEF Layered

LEMMA NoLayersAreLayered == Layered(<<>>)
<1> DEFINE none == {}
<1>1. <<>> \in Seq(none)
  OBVIOUS
<1>2. \A l \in none : l.features \in Seq(Feature)
  OBVIOUS
<1> HIDE DEF none
<1> QED
  BY <1>1, <1>2, LayeredOf

LEMMA TileInvInit == TileInit => TileInv
<1> SUFFICES ASSUME TileInit PROVE TileInv
  OBVIOUS
<1>1. PICK body \in TileBodies, limits \in TileLimits :
        /\ tileLimits = limits
        /\ decoded = Opened(body)
        /\ layersLeft = IF Opened(body) = "" THEN body.layers ELSE <<>>
        /\ layersRead = 0 /\ featuresLeft = <<>> /\ tileKept = <<>>
        /\ featureCount = 0 /\ integerCount = 0
  BY DEF TileInit
<1>2. Layered(layersLeft)
  BY <1>1, NoLayersAreLayered, LayersAreLayered
<1>3. Listed(tileKept) /\ Len(tileKept) = 0 /\ 1..Len(tileKept) = {}
  <2>1. <<>> \in Seq({}) /\ Len(<<>>) = 0
    BY EmptySeq
  <2>2. Listed(<<>>)
    BY <2>1 DEF Listed
  <2>3. Len(tileKept) = 0
    BY <1>1, <2>1
  <2>4. 1..0 = {}
    OBVIOUS
  <2> QED
    BY <1>1, <2>2, <2>3, <2>4
<1>4. 0 <= tileLimits.features /\ 0 <= tileLimits.integers
  <2>1. tileLimits.features \in Nat /\ tileLimits.integers \in Nat
    BY <1>1, TileAssumption DEF TileAssumption
  <2> QED
    BY <2>1
<1>5. SumOf(IntegersKept(tileKept), 1..Len(tileKept)) = 0 /\ SumOf(FeaturesKept(tileKept), 1..Len(tileKept)) = 0
  BY <1>3, SumOfNone
<1>6. decoded \in {"", "kept", "over limit", "malformed", "unsupported"}
  BY <1>1 DEF Opened
<1>7. tileLimits \in TileLimits /\ featuresLeft = <<>> /\ featureCount = 0 /\ integerCount = 0 /\ layersRead = 0
  BY <1>1
<1>8. featuresLeft \in Seq(Feature)
  BY <1>7, EmptySeq
<1>9. \A i \in 1..Len(tileKept) : LayerInv(tileKept[i])
  BY <1>3
<1>10. integerCount = SumOf(IntegersKept(tileKept), 1..Len(tileKept))
  BY <1>5, <1>7
<1>11. SumOf(FeaturesKept(tileKept), 1..Len(tileKept)) <= featureCount
  BY <1>5, <1>7
<1>12. /\ featureCount \in Nat /\ featureCount <= tileLimits.features
       /\ integerCount \in Nat /\ integerCount <= tileLimits.integers /\ layersRead \in Nat
  BY <1>4, <1>7
<1>13. ~(featuresLeft # <<>>)
  BY <1>7
<1> QED
  BY <1>2, <1>3, <1>6, <1>7, <1>8, <1>9, <1>10, <1>11, <1>12, <1>13, Zenon DEF TileInv

LEMMA RefusedKeeps ==
    ASSUME TileInv, NEW why \in {"over limit", "malformed"}, Refused(why)
    PROVE  TileInv'
<1>1. Layered(<<>>) /\ <<>> \in Seq(Feature)
  BY NoLayersAreLayered, EmptySeq
<1>2. Layered(layersLeft') /\ featuresLeft' \in Seq(Feature) /\ ~(featuresLeft' # <<>>)
  BY <1>1 DEF Refused
<1>3. UNCHANGED <<tileLimits, layersRead, tileKept, featureCount, integerCount>> /\ decoded' = why
  BY DEF Refused
<1>4. decoded' \in {"", "kept", "over limit", "malformed", "unsupported"}
  BY <1>3
<1> QED
  BY <1>2, <1>3, <1>4 DEF TileInv

LEMMA LayerReadKeeps == ASSUME TileInv, LayerRead PROVE TileInv'
BY DEF TileInv, LayerRead

LEMMA TailIsLayered ==
    ASSUME NEW ls, Layered(ls), ls # <<>>
    PROVE  Layered(Tail(ls)) /\ Head(ls).features \in Seq(Feature)
<1>1. PICK S : ls \in Seq(S) /\ \A l \in S : l.features \in Seq(Feature)
  BY DEF Layered
<1>2. Head(ls) \in S /\ Tail(ls) \in Seq(S)
  BY <1>1, HeadTailProperties
<1> QED
  BY <1>1, <1>2 DEF Layered

LEMMA ListsGrow ==
    ASSUME NEW s, Listed(s), NEW x
    PROVE  /\ Listed(Append(s, x)) /\ Len(Append(s, x)) = Len(s) + 1 /\ Len(s) \in Nat
           /\ \A i \in 1..Len(s) : Append(s, x)[i] = s[i]
           /\ Append(s, x)[Len(s) + 1] = x
<1>1. PICK S : s \in Seq(S)
  BY DEF Listed
<1> DEFINE U == S \cup {x}
<1>2. s \in Seq(U) /\ x \in U
  <2>1. S \subseteq U /\ x \in U
    OBVIOUS
  <2> HIDE DEF U
  <2> QED
    BY <1>1, <2>1, SeqMonotonic
<1> HIDE DEF U
<1>3. /\ Append(s, x) \in Seq(U) /\ Len(Append(s, x)) = Len(s) + 1 /\ Len(s) \in Nat
      /\ \A i \in 1..Len(s) : Append(s, x)[i] = s[i]
      /\ Append(s, x)[Len(s) + 1] = x
  BY <1>2, AppendProperties, LenProperties
<1> QED
  BY <1>3 DEF Listed

LEMMA LayerBegins ==
    ASSUME NEW layer, NEW features \in Seq(Feature), NEW new,
           new = [name |-> layer.name, keys |-> layer.keys, values |-> layer.values, counted |-> Counted(features),
                  features |-> <<>>, coords |-> <<>>, parts |-> <<>>, untyped |-> 0]
    PROVE  LayerInv(new) /\ Reading(new, features)
<1>1. /\ new = [name |-> new.name, keys |-> new.keys, values |-> new.values, counted |-> new.counted,
                features |-> new.features, coords |-> new.coords, parts |-> new.parts, untyped |-> new.untyped]
      /\ new.counted = Counted(features) /\ new.features = <<>> /\ new.coords = <<>> /\ new.parts = <<>>
  OBVIOUS
<1>2. Slab(<<>>, <<>>)
  <2>1. <<>> \in Seq(Spots) /\ <<>> \in Seq(Nat) /\ Len(<<>>) = 0 /\ 1..0 = {}
    OBVIOUS
  <2> QED
    BY <2>1 DEF Slab, PartsCut, EndedAt
<1>3. Listed(<<>>) /\ Len(<<>>) = 0 /\ 1..Len(<<>>) = {} /\ Chain(<<>>, 0, 0)
  <2>1. <<>> \in Seq({}) /\ Len(<<>>) = 0 /\ 1..0 = {}
    OBVIOUS
  <2> QED
    BY <2>1 DEF Listed, Chain
<1>4. Grouped(new, new.features)
  BY <1>1, <1>3 DEF Grouped
<1>5. LayerInv(new)
  <2>1. /\ Counted(features).coords \in Nat /\ Counted(features).parts \in Nat
        /\ Counted(features).integers \in Nat
    BY RoomIsCounted
  <2> HIDE DEF Counted
  <2>2. {new.counted.coords, new.counted.parts, new.counted.integers} \subseteq Nat
    BY <1>1, <2>1
  <2>3. Len(new.coords) <= new.counted.coords /\ Len(new.parts) <= new.counted.parts
    BY <1>1, <1>3, <2>1
  <2> QED
    BY <1>1, <1>2, <1>3, <1>4, <2>2, <2>3 DEF LayerInv
<1>6. Reading(new, features)
  <2>1. Len(features) \in Nat /\ 0 \in 0..Len(features)
    OBVIOUS
  <2>2. Len(features) = Len(features) - 0 /\ \A i \in 1..Len(features) : features[i] = features[0 + i]
    BY <2>1
  <2>3. SumOf(CoordsFor(features), Before(features, 0)) \in Nat /\ SumOf(PartsFor(features), Before(features, 0)) \in Nat
    BY RoomIsCounted
  <2>4. ReadOf(new, features, features, 0)
    BY <1>1, <1>3, <2>2, <2>3 DEF ReadOf
  <2> QED
    BY <2>1, <2>4 DEF Reading
<1> QED
  BY <1>5, <1>6

\* What is summed over the layers kept.
LEMMA KeptIs ==
    ASSUME NEW kept, Listed(kept), \A i \in 1..Len(kept) : LayerInv(kept[i])
    PROVE  /\ Len(kept) \in Nat /\ DOMAIN kept = 1..Len(kept)
           /\ \A i \in 1..Len(kept) :
                /\ IntegersKept(kept)[i] = kept[i].counted.integers /\ IntegersKept(kept)[i] \in Nat
                /\ FeaturesKept(kept)[i] = Len(kept[i].features) /\ FeaturesKept(kept)[i] \in Nat
<1>1. Len(kept) \in Nat /\ DOMAIN kept = 1..Len(kept)
  BY DEF Listed
<1>2. ASSUME NEW i \in 1..Len(kept) PROVE kept[i].counted.integers \in Nat /\ Len(kept[i].features) \in Nat
  <2>1. LayerInv(kept[i])
    OBVIOUS
  <2> QED
    BY <2>1 DEF LayerInv, Listed
<1> QED
  BY <1>1, <1>2 DEF IntegersKept, FeaturesKept

LEMMA LayerIsKept ==
    ASSUME NEW kept, Listed(kept), \A i \in 1..Len(kept) : LayerInv(kept[i]), NEW new, LayerInv(new)
    PROVE  LET more == Append(kept, new)
           IN  /\ Listed(more) /\ Len(more) = Len(kept) + 1 /\ Len(kept) \in Nat /\ more[Len(more)] = new
               /\ \A i \in 1..Len(more) : LayerInv(more[i])
               /\ SumOf(IntegersKept(more), 1..Len(more))
                    = SumOf(IntegersKept(kept), 1..Len(kept)) + new.counted.integers
               /\ SumOf(FeaturesKept(more), 1..Len(more))
                    = SumOf(FeaturesKept(kept), 1..Len(kept)) + Len(new.features)
               /\ new.counted.integers \in Nat
<1> DEFINE more == Append(kept, new)
<1>1. /\ Listed(more) /\ Len(more) = Len(kept) + 1 /\ Len(kept) \in Nat
      /\ \A i \in 1..Len(kept) : more[i] = kept[i]
      /\ more[Len(kept) + 1] = new
  BY ListsGrow
<1> HIDE DEF more
<1>2. \A i \in 1..Len(more) : LayerInv(more[i])
  <2>1. \A i \in 1..Len(more) : i \in 1..Len(kept) \/ i = Len(kept) + 1
    BY <1>1
  <2> QED
    BY <1>1, <2>1
<1>3. /\ \A i \in 1..Len(more) :
           /\ IntegersKept(more)[i] = more[i].counted.integers /\ IntegersKept(more)[i] \in Nat
           /\ FeaturesKept(more)[i] = Len(more[i].features) /\ FeaturesKept(more)[i] \in Nat
      /\ \A i \in 1..Len(kept) :
           /\ IntegersKept(kept)[i] = kept[i].counted.integers /\ IntegersKept(kept)[i] \in Nat
           /\ FeaturesKept(kept)[i] = Len(kept[i].features) /\ FeaturesKept(kept)[i] \in Nat
  BY <1>1, <1>2, KeptIs
<1>4. Len(kept) + 1 \in 1..Len(more) /\ \A i \in 1..Len(kept) : i \in 1..Len(more)
  BY <1>1
<1>5. \A i \in 1..Len(kept) : /\ IntegersKept(more)[i] = IntegersKept(kept)[i]
                              /\ FeaturesKept(more)[i] = FeaturesKept(kept)[i]
  BY <1>1, <1>3, <1>4
<1> DEFINE n == Len(kept)
           f == IntegersKept(kept)
           g == IntegersKept(more)
           d == FeaturesKept(kept)
           e == FeaturesKept(more)
<1>6. /\ n \in Nat /\ \A i \in 1..n : (f[i] \in Nat /\ g[i] = f[i]) /\ (d[i] \in Nat /\ e[i] = d[i])
      /\ g[n + 1] \in Nat /\ e[n + 1] \in Nat
  BY <1>1, <1>3, <1>4, <1>5
<1> HIDE DEF n, f, g, d, e
<1>7. SumOf(g, 1..(n + 1)) = SumOf(f, 1..n) + g[n + 1] /\ SumOf(e, 1..(n + 1)) = SumOf(d, 1..n) + e[n + 1]
  BY <1>6, SumGetsOneMore
<1>8. g[n + 1] = new.counted.integers /\ e[n + 1] = Len(new.features)
  BY <1>1, <1>3, <1>4 DEF g, e, n
<1> QED
  BY <1>1, <1>2, <1>6, <1>7, <1>8 DEF g, f, d, e, n, more

LEMMA LastIsReplaced ==
    ASSUME NEW s, Listed(s), Len(s) # 0, NEW x
    PROVE  LET t == [s EXCEPT ![Len(s)] = x]
           IN  /\ Listed(t) /\ Len(t) = Len(s) /\ Len(s) \in Nat \ {0} /\ t[Len(s)] = x
               /\ \A i \in 1..(Len(s) - 1) : t[i] = s[i]
<1> DEFINE t == [s EXCEPT ![Len(s)] = x]
<1>1. PICK S : s \in Seq(S)
  BY DEF Listed
<1> DEFINE n == Len(s)
           U == S \cup {x}
<1>2. n \in Nat \ {0} /\ DOMAIN s = 1..n /\ n \in 1..n /\ \A i \in 1..n : s[i] \in U
  BY <1>1
<1>3. x \in U
  OBVIOUS
<1>4. t = [s EXCEPT ![n] = x]
  OBVIOUS
<1> HIDE DEF n, U, t
<1>5. t = [i \in 1..n |-> IF i = n THEN x ELSE s[i]]
  BY <1>2, <1>4
<1>6. t \in Seq(U) /\ DOMAIN t = 1..n
  <2>1. t \in [1..n -> U]
    BY <1>2, <1>3, <1>5
  <2> QED
    BY <1>2, <2>1
<1>7. Len(t) = n
  BY <1>2, <1>6
<1>8. t[n] = x /\ \A i \in 1..(n - 1) : t[i] = s[i]
  <2>1. \A i \in 1..(n - 1) : i \in 1..n /\ i # n
    BY <1>2
  <2> QED
    BY <1>2, <1>5, <2>1
<1>9. Listed(t)
  BY <1>6 DEF Listed
<1> QED
  BY <1>2, <1>7, <1>8, <1>9 DEF n, t

LEMMA LayerIsChanged ==
    ASSUME NEW kept, Listed(kept), Len(kept) # 0, \A i \in 1..Len(kept) : LayerInv(kept[i]),
           NEW new, LayerInv(new), new.counted = kept[Len(kept)].counted,
           NEW more, more = [kept EXCEPT ![Len(kept)] = new]
    PROVE  /\ Listed(more) /\ Len(more) = Len(kept) /\ Len(kept) \in Nat \ {0} /\ more[Len(more)] = new
           /\ \A i \in 1..Len(more) : LayerInv(more[i])
           /\ SumOf(IntegersKept(more), 1..Len(more)) = SumOf(IntegersKept(kept), 1..Len(kept))
           /\ SumOf(FeaturesKept(more), 1..Len(more))
                = (SumOf(FeaturesKept(kept), 1..Len(kept)) - Len(kept[Len(kept)].features)) + Len(new.features)
           /\ SumOf(FeaturesKept(kept), 1..Len(kept)) \in Nat
<1>1. /\ Listed(more) /\ Len(more) = Len(kept) /\ Len(kept) \in Nat \ {0} /\ more[Len(kept)] = new
      /\ \A i \in 1..(Len(kept) - 1) : more[i] = kept[i]
  <2> DEFINE with == [kept EXCEPT ![Len(kept)] = new]
  <2>1. /\ Listed(with) /\ Len(with) = Len(kept) /\ Len(kept) \in Nat \ {0} /\ with[Len(kept)] = new
        /\ \A i \in 1..(Len(kept) - 1) : with[i] = kept[i]
    <3>1. Listed(kept) /\ Len(kept) # 0
      OBVIOUS
    <3> QED
      BY ONLY <3>1, LastIsReplaced
  <2>2. more = with
    OBVIOUS
  <2> HIDE DEF with
  <2> QED
    BY <2>1, <2>2
<1> DEFINE n == Len(kept)
           f == IntegersKept(kept)
           g == IntegersKept(more)
           d == FeaturesKept(kept)
           e == FeaturesKept(more)
<1>2. n \in 1..n /\ \A i \in 1..n : i \in 1..(n - 1) \/ i = n
  BY <1>1
<1>3. \A i \in 1..n : LayerInv(more[i])
  BY <1>1, <1>2
<1>4. /\ \A i \in 1..n :
           /\ IntegersKept(more)[i] = more[i].counted.integers /\ IntegersKept(more)[i] \in Nat
           /\ FeaturesKept(more)[i] = Len(more[i].features) /\ FeaturesKept(more)[i] \in Nat
      /\ \A i \in 1..n :
           /\ IntegersKept(kept)[i] = kept[i].counted.integers /\ IntegersKept(kept)[i] \in Nat
           /\ FeaturesKept(kept)[i] = Len(kept[i].features) /\ FeaturesKept(kept)[i] \in Nat
  BY <1>1, <1>3, KeptIs
<1>5. \A i \in 1..(n - 1) : i \in 1..n
  BY <1>1
<1>6. \A i \in 1..(n - 1) : e[i] = d[i] /\ g[i] = f[i]
  <2> TAKE i \in 1..(n - 1)
  <2>1. i \in 1..n /\ more[i] = kept[i]
    BY <1>1, <1>5
  <2> QED
    BY <1>4, <2>1, ZenonT(60)
<1>7. \A i \in 1..n : g[i] = f[i]
  <2>1. g[n] = more[n].counted.integers /\ f[n] = kept[n].counted.integers
    BY <1>2, <1>4
  <2>2. more[n].counted = kept[n].counted
    BY <1>1
  <2> HIDE DEF f, g
  <2>3. g[n] = f[n]
    BY <2>1, <2>2
  <2> QED
    BY <1>2, <1>6, <2>3
<1>8. IsFiniteSet(1..n)
  BY <1>1, FS_Interval
<1>9. n \in Nat \ {0} /\ (\A i \in 1..(n - 1) : e[i] = d[i]) /\ \A i \in 1..n : d[i] \in Nat /\ e[i] \in Nat
  BY <1>1, <1>4, <1>6
<1>10. d[n] = Len(kept[n].features) /\ e[n] = Len(new.features)
  BY <1>1, <1>2, <1>4
<1> HIDE DEF n, f, g, d, e
<1>11. SumOf(g, 1..n) = SumOf(f, 1..n)
  BY <1>7, <1>8, SumsOfSame
<1>12. SumOf(e, 1..n) = (SumOf(d, 1..n) - d[n]) + e[n] /\ SumOf(d, 1..n) \in Nat
  BY <1>9, SumChangesLast
<1> QED
  BY <1>1, <1>3, <1>10, <1>11, <1>12 DEF n, f, g, d, e

-----------------------------------------------------------------------------
(* The steps.                                                              *)

\* A layer that is passed by, and one that is begun.
PassedBy ==
  /\ layersRead' = layersRead + 1 /\ layersLeft' = Tail(layersLeft)
  /\ UNCHANGED <<tileLimits, featuresLeft, tileKept, featureCount, integerCount, decoded>>

BegunOn(layer) ==
  /\ integerCount + Counted(layer.features).integers <= tileLimits.integers
  /\ layersRead' = layersRead + 1 /\ layersLeft' = Tail(layersLeft)
  /\ featuresLeft' = layer.features
  /\ integerCount' = integerCount + Counted(layer.features).integers
  /\ tileKept' = Append(tileKept,
       [name |-> layer.name, keys |-> layer.keys, values |-> layer.values, counted |-> Counted(layer.features),
        features |-> <<>>, coords |-> <<>>, parts |-> <<>>, untyped |-> 0])
  /\ UNCHANGED <<tileLimits, featureCount, decoded>>

LEMMA DecodeLayerIs ==
    ASSUME TileInv, DecodeLayer
    PROVE  /\ layersLeft # <<>>
           /\ (\E why \in {"over limit", "malformed"} : Refused(why)) \/ PassedBy \/ BegunOn(Head(layersLeft))
<1> DEFINE layer == Head(layersLeft)
           n == Counted(layer.features).integers
<1>1. layersLeft # <<>> /\ layer.features \in Seq(Feature)
  <2>1. layersLeft # <<>>
    BY DEF DecodeLayer
  <2> QED
    BY <2>1, TailIsLayered DEF TileInv
<1>2. n \in Nat /\ integerCount \in Nat /\ tileLimits.integers \in Nat
  BY <1>1, RoomIsCounted, TileAssumption DEF TileInv, TileAssumption
<1>3. ASSUME ~CountsTooLarge(Counted(layer.features)) PROVE integerCount + n <= tileLimits.integers
  <2>1. ~(integerCount + n > tileLimits.integers)
    BY <1>3 DEF CountsTooLarge, IntegersSoFar
  <2> HIDE DEF n
  <2> QED
    BY <1>2, <2>1
<1>4. CASE Refused("over limit") \/ Refused("malformed")
  BY <1>1, <1>4
<1>5. CASE PassedBy
  BY <1>1, <1>5
<1>6. CASE ~(Refused("over limit") \/ Refused("malformed")) /\ ~PassedBy
  <2>1. /\ ~CountsTooLarge(Counted(layer.features))
        /\ layersRead' = layersRead + 1 /\ layersLeft' = Tail(layersLeft)
        /\ featuresLeft' = layer.features
        /\ integerCount' = IntegersSoFar(Counted(layer.features))
        /\ tileKept' = Append(tileKept,
             [name |-> layer.name, keys |-> layer.keys, values |-> layer.values,
              counted |-> Counted(layer.features),
              features |-> <<>>, coords |-> <<>>, parts |-> <<>>, untyped |-> 0])
        /\ UNCHANGED <<tileLimits, featureCount, decoded>>
    BY <1>6, Zenon DEF DecodeLayer, PassedBy
  <2>2. BegunOn(layer)
    BY <1>3, <2>1 DEF BegunOn, IntegersSoFar
  <2> QED
    BY <1>1, <2>2
<1> QED
  BY <1>4, <1>5, <1>6

LEMMA DecodeLayerKeeps == ASSUME TileInv, DecodeLayer PROVE TileInv'
<1> DEFINE layer == Head(layersLeft)
           new == [name |-> layer.name, keys |-> layer.keys, values |-> layer.values,
                   counted |-> Counted(layer.features),
                   features |-> <<>>, coords |-> <<>>, parts |-> <<>>, untyped |-> 0]
<1>1. /\ layersLeft # <<>>
      /\ (\E why \in {"over limit", "malformed"} : Refused(why)) \/ PassedBy \/ BegunOn(layer)
  BY DecodeLayerIs
<1>2. Layered(Tail(layersLeft)) /\ layer.features \in Seq(Feature)
  BY <1>1, TailIsLayered DEF TileInv
<1>3. CASE \E why \in {"over limit", "malformed"} : Refused(why)
  BY <1>3, RefusedKeeps
<1>4. CASE PassedBy
  <2>1. layersRead' = layersRead + 1 /\ layersRead \in Nat
    BY <1>4 DEF TileInv, PassedBy
  <2>2. layersRead' \in Nat
    BY <2>1
  <2>3. layersLeft' = Tail(layersLeft) /\ UNCHANGED <<tileLimits, featuresLeft, tileKept, featureCount, integerCount, decoded>>
    BY <1>4 DEF PassedBy
  <2> QED
    BY <1>2, <2>2, <2>3 DEF TileInv
<1>5. CASE BegunOn(layer)
  <2>1. LayerInv(new) /\ Reading(new, layer.features)
    BY <1>2, LayerBegins
  <2>2. new.counted.integers = Counted(layer.features).integers /\ Len(new.features) = 0
    OBVIOUS
  <2>3. /\ tileKept' = Append(tileKept, new) /\ featuresLeft' = layer.features /\ layersLeft' = Tail(layersLeft)
        /\ integerCount' = integerCount + new.counted.integers
        /\ integerCount + new.counted.integers <= tileLimits.integers
        /\ layersRead' = layersRead + 1
        /\ UNCHANGED <<tileLimits, featureCount, decoded>>
    BY <1>5, <2>2 DEF BegunOn
  <2> HIDE DEF new, layer
  <2>4. /\ Listed(tileKept') /\ Len(tileKept') = Len(tileKept) + 1 /\ Len(tileKept) \in Nat
        /\ tileKept'[Len(tileKept')] = new
        /\ \A i \in 1..Len(tileKept') : LayerInv(tileKept'[i])
        /\ SumOf(IntegersKept(tileKept'), 1..Len(tileKept'))
             = SumOf(IntegersKept(tileKept), 1..Len(tileKept)) + new.counted.integers
        /\ SumOf(FeaturesKept(tileKept'), 1..Len(tileKept'))
             = SumOf(FeaturesKept(tileKept), 1..Len(tileKept)) + Len(new.features)
        /\ new.counted.integers \in Nat
    <3>1. Listed(tileKept) /\ \A i \in 1..Len(tileKept) : LayerInv(tileKept[i])
      BY DEF TileInv
    <3> QED
      <4> DEFINE with == Append(tileKept, new)
      <4>1. tileKept' = with /\ LayerInv(new)
        BY <2>1, <2>3
      <4>2. /\ Listed(with) /\ Len(with) = Len(tileKept) + 1 /\ Len(tileKept) \in Nat
            /\ with[Len(with)] = new
            /\ \A i \in 1..Len(with) : LayerInv(with[i])
            /\ SumOf(IntegersKept(with), 1..Len(with))
                 = SumOf(IntegersKept(tileKept), 1..Len(tileKept)) + new.counted.integers
            /\ SumOf(FeaturesKept(with), 1..Len(with))
                 = SumOf(FeaturesKept(tileKept), 1..Len(tileKept)) + Len(new.features)
            /\ new.counted.integers \in Nat
        BY ONLY <3>1, <4>1, LayerIsKept
      <4> HIDE DEF with
      <4> QED
        BY <4>1, <4>2
  <2>5. /\ featureCount \in Nat /\ featureCount <= tileLimits.features
        /\ integerCount \in Nat
        /\ integerCount = SumOf(IntegersKept(tileKept), 1..Len(tileKept))
        /\ SumOf(FeaturesKept(tileKept), 1..Len(tileKept)) <= featureCount
        /\ decoded \in {"", "kept", "over limit", "malformed", "unsupported"} /\ layersRead \in Nat
        /\ tileLimits \in TileLimits
    BY DEF TileInv
  <2>6. SumOf(FeaturesKept(tileKept), 1..Len(tileKept)) \in Nat
    <3>1. Listed(tileKept) /\ \A i \in 1..Len(tileKept) : LayerInv(tileKept[i])
      BY DEF TileInv
    <3>2. IsFiniteSet(1..Len(tileKept))
      BY <2>4, FS_Interval
    <3> QED
      BY <3>1, <3>2, KeptIs, SumIsNatural
  <2>7. SumOf(FeaturesKept(tileKept'), 1..Len(tileKept')) <= featureCount'
    <3> DEFINE a == SumOf(FeaturesKept(tileKept'), 1..Len(tileKept'))
               b == SumOf(FeaturesKept(tileKept), 1..Len(tileKept))
    <3>1. a = b + 0 /\ b \in Nat /\ b <= featureCount /\ featureCount' = featureCount
      BY <2>2, <2>3, <2>4, <2>5, <2>6
    <3> HIDE DEF a, b
    <3>2. a <= featureCount'
      BY <3>1
    <3> QED
      BY <3>2 DEF a
  <2>8. /\ integerCount' \in Nat /\ integerCount' <= tileLimits'.integers
        /\ integerCount' = SumOf(IntegersKept(tileKept'), 1..Len(tileKept'))
        /\ featureCount' \in Nat /\ featureCount' <= tileLimits'.features
        /\ layersRead' \in Nat
    <3> DEFINE more == new.counted.integers
               b == SumOf(IntegersKept(tileKept), 1..Len(tileKept))
               a == SumOf(IntegersKept(tileKept'), 1..Len(tileKept'))
    <3>1. /\ integerCount' = integerCount + more /\ integerCount \in Nat /\ more \in Nat
          /\ integerCount + more <= tileLimits.integers /\ tileLimits' = tileLimits
          /\ integerCount = b /\ a = b + more
          /\ layersRead' = layersRead + 1 /\ layersRead \in Nat
      BY <2>3, <2>4, <2>5
    <3> HIDE DEF more, a, b
    <3>2. integerCount' \in Nat /\ integerCount' <= tileLimits'.integers /\ integerCount' = a /\ layersRead' \in Nat
      BY <3>1
    <3>3. featureCount' \in Nat /\ featureCount' <= tileLimits'.features
      BY <2>3, <2>5
    <3> QED
      BY <3>2, <3>3 DEF a
  <2>9. Len(tileKept') # 0 /\ Reading(tileKept'[Len(tileKept')], featuresLeft')
    BY <2>1, <2>3, <2>4
  <2>10. Layered(layersLeft') /\ featuresLeft' \in Seq(Feature) /\ tileLimits' \in TileLimits
         /\ decoded' \in {"", "kept", "over limit", "malformed", "unsupported"}
    BY <1>2, <2>3, <2>5
  <2> QED
    BY <2>4, <2>7, <2>8, <2>9, <2>10 DEF TileInv
<1> QED
  BY <1>1, <1>3, <1>4, <1>5

\* A feature that was read: the layer is whole with what was made of it.
LEMMA FeatureKeeps ==
    ASSUME TileInv, featuresLeft # <<>>,
           NEW new, LayerInv(new), Reading(new, Tail(featuresLeft)),
           new.counted = tileKept[Len(tileKept)].counted,
           NEW made \in Nat, NEW more \in Nat, made <= more,
           Len(new.features) = Len(tileKept[Len(tileKept)].features) + made,
           tileKept' = [tileKept EXCEPT ![Len(tileKept)] = new],
           featureCount' = featureCount + more, featureCount + more <= tileLimits.features,
           featuresLeft' = Tail(featuresLeft),
           UNCHANGED <<tileLimits, layersLeft, layersRead, integerCount, decoded>>
    PROVE  TileInv'
<1>1. /\ Listed(tileKept) /\ Len(tileKept) # 0 /\ \A i \in 1..Len(tileKept) : LayerInv(tileKept[i])
      /\ featureCount \in Nat /\ featuresLeft \in Seq(Feature)
      /\ SumOf(FeaturesKept(tileKept), 1..Len(tileKept)) <= featureCount
  BY DEF TileInv
<1> DEFINE a == SumOf(FeaturesKept(tileKept'), 1..Len(tileKept'))
           b == SumOf(FeaturesKept(tileKept), 1..Len(tileKept))
           m == Len(tileKept[Len(tileKept)].features)
<1>2. /\ Listed(tileKept') /\ Len(tileKept') = Len(tileKept) /\ Len(tileKept) \in Nat \ {0}
      /\ tileKept'[Len(tileKept')] = new
      /\ \A i \in 1..Len(tileKept') : LayerInv(tileKept'[i])
      /\ SumOf(IntegersKept(tileKept'), 1..Len(tileKept')) = SumOf(IntegersKept(tileKept), 1..Len(tileKept))
      /\ a = (b - m) + Len(new.features) /\ b \in Nat
  <2> DEFINE with == [tileKept EXCEPT ![Len(tileKept)] = new]
  <2>1. /\ Listed(with) /\ Len(with) = Len(tileKept) /\ Len(tileKept) \in Nat \ {0} /\ with[Len(with)] = new
        /\ \A i \in 1..Len(with) : LayerInv(with[i])
        /\ SumOf(IntegersKept(with), 1..Len(with)) = SumOf(IntegersKept(tileKept), 1..Len(tileKept))
        /\ SumOf(FeaturesKept(with), 1..Len(with))
             = (SumOf(FeaturesKept(tileKept), 1..Len(tileKept)) - Len(tileKept[Len(tileKept)].features))
               + Len(new.features)
        /\ SumOf(FeaturesKept(tileKept), 1..Len(tileKept)) \in Nat
    BY <1>1, LayerIsChanged
  <2>2. tileKept' = with
    OBVIOUS
  <2> HIDE DEF with
  <2> QED
    BY <2>1, <2>2
<1>3. m \in Nat
  <2>1. Len(tileKept) \in 1..Len(tileKept)
    <3> DEFINE n == Len(tileKept)
    <3>1. n \in Nat \ {0}
      BY <1>2
    <3> HIDE DEF n
    <3>2. n \in 1..n
      BY <3>1
    <3> QED
      BY <3>2 DEF n
  <2>2. LayerInv(tileKept[Len(tileKept)])
    BY <1>1, <2>1, SMTT(30)
  <2> QED
    BY <2>2, SMTT(30) DEF LayerInv, Listed
<1>4. a = (b - m) + (m + made) /\ b <= featureCount
  BY <1>1, <1>2
<1> HIDE DEF a, b, m
<1>5. a <= featureCount'
  <2>1. /\ a = (b - m) + (m + made) /\ b <= featureCount /\ b \in Nat /\ m \in Nat /\ featureCount \in Nat
        /\ made \in Nat /\ more \in Nat /\ made <= more /\ featureCount' = featureCount + more
    BY <1>1, <1>2, <1>3, <1>4
  <2> QED
    BY ONLY <2>1, SMTT(30)
<1>6. featureCount' \in Nat /\ featureCount' <= tileLimits'.features
  BY <1>1
<1>7. featuresLeft' \in Seq(Feature)
  BY <1>1, HeadTailProperties, SMTT(30)
<1>8. Len(tileKept') # 0 /\ Reading(tileKept'[Len(tileKept')], featuresLeft')
  BY <1>2
<1>9. /\ tileLimits' \in TileLimits /\ Layered(layersLeft')
      /\ integerCount' \in Nat /\ integerCount' <= tileLimits'.integers
      /\ integerCount' = SumOf(IntegersKept(tileKept'), 1..Len(tileKept'))
      /\ decoded' \in {"", "kept", "over limit", "malformed", "unsupported"} /\ layersRead' \in Nat
  BY <1>2 DEF TileInv
<1> QED
  BY <1>2, <1>5, <1>6, <1>7, <1>8, <1>9 DEF TileInv, a

\* A feature of no declared kind draws nothing.
LEMMA UntypedIsRead ==
    ASSUME NEW layer, LayerInv(layer), NEW left \in Seq(Feature), left # <<>>, Reading(layer, left), NEW new,
           new = [[layer EXCEPT !.untyped = @ + 1] EXCEPT !.features = @ \o <<>>]
    PROVE  /\ LayerInv(new) /\ Reading(new, Tail(left)) /\ new.counted = layer.counted
           /\ Len(new.features) = Len(layer.features) + 0
<1>1. layer = [name |-> layer.name, keys |-> layer.keys, values |-> layer.values, counted |-> layer.counted,
               features |-> layer.features, coords |-> layer.coords, parts |-> layer.parts,
               untyped |-> layer.untyped]
  BY DEF LayerInv
<1>2. Listed(layer.features) /\ layer.features \o <<>> = layer.features /\ Len(layer.features) \in Nat
  <2>1. Listed(layer.features)
    BY DEF LayerInv
  <2>2. PICK S : layer.features \in Seq(S)
    BY <2>1 DEF Listed
  <2> QED
    BY <2>1, <2>2, ConcatEmptySeq
<1>3. new = [name |-> layer.name, keys |-> layer.keys, values |-> layer.values, counted |-> layer.counted,
             features |-> layer.features, coords |-> layer.coords, parts |-> layer.parts,
             untyped |-> layer.untyped + 1]
  <2>1. new = [name |-> layer.name, keys |-> layer.keys, values |-> layer.values, counted |-> layer.counted,
               features |-> layer.features \o <<>>, coords |-> layer.coords, parts |-> layer.parts,
               untyped |-> layer.untyped + 1]
    BY <1>1
  <2> QED
    BY <1>2, <2>1
<1>4. /\ new.counted = layer.counted /\ new.features = layer.features
      /\ new.coords = layer.coords /\ new.parts = layer.parts
      /\ new = [name |-> new.name, keys |-> new.keys, values |-> new.values, counted |-> new.counted,
                features |-> new.features, coords |-> new.coords, parts |-> new.parts, untyped |-> new.untyped]
  BY ONLY <1>3
<1>5. Grouped(new, new.features)
  BY <1>4 DEF Grouped, PartOf, LayerInv
<1>6. LayerInv(new)
  BY <1>4, <1>5 DEF LayerInv
<1>7. PICK whole \in Seq(Feature) : \E k \in 0..Len(whole) : ReadOf(layer, left, whole, k)
  BY DEF Reading
<1>8. PICK k \in 0..Len(whole) : ReadOf(layer, left, whole, k)
  BY <1>7
<1> DEFINE C == Commands(whole)
           F == CoordsFor(whole)
           G == PartsFor(whole)
           now == Before(whole, k)
           next == Before(whole, k + 1)
<1>9. IsFiniteSet(next) /\ now \in SUBSET next /\ \A p \in next : F[p] \in Nat /\ G[p] \in Nat
  <2>1. IsFiniteSet(C) /\ \A p \in C : F[p] \in Nat /\ G[p] \in Nat /\ p[1] \in 1..Len(whole)
    BY CommandsAreFinite
  <2>2. next \in SUBSET C
    BY DEF Before
  <2>3. now \in SUBSET next
    <3>1. k \in Int
      OBVIOUS
    <3>2. \A p \in C : p[1] <= k => p[1] <= k + 1
      <4> SUFFICES ASSUME NEW p \in C, p[1] <= k PROVE p[1] <= k + 1
        OBVIOUS
      <4>1. p[1] \in Int
        BY <2>1
      <4> QED
        BY <3>1, <4>1
    <3> QED
      BY <3>2 DEF Before
  <2> HIDE DEF C, now, next, F, G
  <2> QED
    BY <2>1, <2>2, <2>3, FS_Subset
<1>10. SumOf(F, now) <= SumOf(F, next) /\ SumOf(G, now) <= SumOf(G, next)
  <2> HIDE DEF now, next, F, G
  <2> QED
    BY <1>9, SumOfPart
<1>11. /\ Len(layer.coords) <= SumOf(F, now) /\ Len(layer.parts) <= SumOf(G, now)
       /\ Len(layer.coords) \in Nat /\ Len(layer.parts) \in Nat
  <2>1. Slab(layer.coords, layer.parts)
    BY DEF LayerInv
  <2> QED
    BY <1>8, <2>1 DEF ReadOf, Slab
<1>12. /\ SumOf(F, now) \in Nat /\ SumOf(G, now) \in Nat
       /\ SumOf(F, next) \in Nat /\ SumOf(G, next) \in Nat
  BY RoomIsCounted
<1>13. Len(new.coords) <= SumOf(F, next) /\ Len(new.parts) <= SumOf(G, next)
  <2> HIDE DEF now, next, F, G
  <2>1. Len(layer.coords) <= SumOf(F, next) /\ Len(layer.parts) <= SumOf(G, next)
    BY <1>10, <1>11, <1>12
  <2> QED
    BY <1>4, <2>1
<1>14. Reading(new, Tail(left))
  BY <1>4, <1>8, <1>13, ReadingGoesOn
<1> QED
  BY <1>2, <1>4, <1>6, <1>14

LEMMA DrawnIs ==
    ASSUME NEW layer, LayerInv(layer), NEW c, NEW p
    PROVE  [layer EXCEPT !.coords = c, !.parts = p]
             = [name |-> layer.name, keys |-> layer.keys, values |-> layer.values, counted |-> layer.counted,
                features |-> layer.features, coords |-> c, parts |-> p, untyped |-> layer.untyped]
<1>1. layer = [name |-> layer.name, keys |-> layer.keys, values |-> layer.values, counted |-> layer.counted,
               features |-> layer.features, coords |-> layer.coords, parts |-> layer.parts,
               untyped |-> layer.untyped]
  BY DEF LayerInv
<1>2. ASSUME NEW drawn, drawn = [layer EXCEPT !.coords = c, !.parts = p]
      PROVE  drawn = [name |-> layer.name, keys |-> layer.keys, values |-> layer.values, counted |-> layer.counted,
                      features |-> layer.features, coords |-> c, parts |-> p, untyped |-> layer.untyped]
  BY <1>1, <1>2
<1> QED
  BY <1>2, Zenon

DrawnOf(drawn, layer, c, p) ==
  drawn = [name |-> layer.name, keys |-> layer.keys, values |-> layer.values, counted |-> layer.counted,
           features |-> layer.features, coords |-> c, parts |-> p, untyped |-> layer.untyped]

LEMMA MadeIs ==
    ASSUME NEW layer, NEW drawn, NEW pen, NEW made, DrawnOf(drawn, layer, pen.coords, pen.parts)
    PROVE  WithMade([drawn EXCEPT !.features = @ \o made], layer, pen, made)
<1>1. ASSUME NEW new, new = [drawn EXCEPT !.features = @ \o made]
      PROVE  WithMade(new, layer, pen, made)
  BY <1>1 DEF DrawnOf, WithMade
<1> QED
  BY <1>1, Zenon

LEMMA DecodeFeatureKeeps == ASSUME TileInv, DecodeFeature PROVE TileInv'
<1> DEFINE f == Head(featuresLeft)
           layer == Last(tileKept)
           pen == RunCommands(f.kind, layer, f.geometry)
           drawn == [layer EXCEPT !.coords = pen.coords, !.parts = pen.parts]
           first == Len(layer.parts) + 1
           end == Len(drawn.parts)
           feature == [kind |-> f.kind, attributes |-> Attributes(layer, f.tags), first |-> first, end |-> end]
           polygons == GroupRings(drawn, feature, first, end)
<1>1. featuresLeft # <<>> /\ featuresLeft \in Seq(Feature)
  BY DEF DecodeFeature, TileInv
<1>2. /\ Listed(tileKept) /\ Len(tileKept) \in Nat \ {0} /\ layer = tileKept[Len(tileKept)]
      /\ LayerInv(layer) /\ Reading(layer, featuresLeft)
  <2>1. /\ Listed(tileKept) /\ Len(tileKept) # 0 /\ Reading(tileKept[Len(tileKept)], featuresLeft)
        /\ \A i \in 1..Len(tileKept) : LayerInv(tileKept[i])
    BY <1>1 DEF TileInv
  <2>2. Len(tileKept) \in Nat
    BY <2>1 DEF Listed
  <2>3. Len(tileKept) \in 1..Len(tileKept)
    <3> DEFINE n == Len(tileKept)
    <3>1. n \in Nat /\ n # 0
      BY <2>1, <2>2
    <3> HIDE DEF n
    <3>2. n \in 1..n
      BY <3>1
    <3> QED
      BY <3>2 DEF n
  <2> QED
    BY <2>1, <2>2, <2>3 DEF Last
<1>3. /\ featureCount \in Nat /\ tileLimits.features \in Nat
      /\ featureCount = tileLimits.features \/ featureCount < tileLimits.features
  <2>1. featureCount \in Nat /\ featureCount <= tileLimits.features /\ tileLimits.features \in Nat
    BY TileAssumption DEF TileInv, TileAssumption
  <2> QED
    BY <2>1
<1>4. CASE featureCount = tileLimits.features
  <2>1. ~(featureCount < tileLimits.features)
    BY <1>3, <1>4
  <2>2. Refused("over limit")
    BY <1>4, <2>1, Zenon DEF DecodeFeature
  <2> QED
    BY <2>2, RefusedKeeps
<1>5. CASE featureCount < tileLimits.features /\ f.kind = 0
  <2> DEFINE new == [[layer EXCEPT !.untyped = @ + 1] EXCEPT !.features = @ \o <<>>]
  <2>1. featureCount # tileLimits.features
    BY <1>3, <1>5
  <2>2. featureCount' = featureCount + 1 /\ Add([layer EXCEPT !.untyped = @ + 1], <<>>)
    BY <1>5, <2>1, Zenon DEF DecodeFeature
  <2>3. /\ tileKept' = [tileKept EXCEPT ![Len(tileKept)] = new] /\ featuresLeft' = Tail(featuresLeft)
        /\ UNCHANGED <<tileLimits, layersLeft, layersRead, integerCount, decoded>>
    BY <2>2, Zenon DEF Add
  <2>4. /\ LayerInv(new) /\ Reading(new, Tail(featuresLeft)) /\ new.counted = layer.counted
        /\ Len(new.features) = Len(layer.features) + 0
    BY <1>1, <1>2, UntypedIsRead
  <2>5. featureCount + 1 <= tileLimits.features /\ 0 \in Nat /\ 1 \in Nat /\ 0 <= 1
    BY <1>3, <1>5
  <2> HIDE DEF new, layer
  <2> QED
    BY <1>1, <1>2, <2>2, <2>3, <2>4, <2>5, FeatureKeeps
<1>6. CASE featureCount < tileLimits.features /\ f.kind # 0
  <2>1. featureCount # tileLimits.features
    BY <1>3, <1>6
  <2> DEFINE full == featureCount = tileLimits.features
             untyped == featureCount < tileLimits.features /\ f.kind = 0
             typed == featureCount < tileLimits.features /\ f.kind # 0
             A == Refused("over limit")
             B == featureCount' = featureCount + 1 /\ Add([layer EXCEPT !.untyped = @ + 1], <<>>)
             C == IF f.kind > Polygon \/ BadTags(layer, f.tags) \/ pen.bad THEN Refused("malformed")
                  ELSE IF end < first
                  THEN featureCount' = featureCount + 1 /\ Add(drawn, <<>>)
                  ELSE IF f.kind # Polygon
                  THEN featureCount' = featureCount + 1 /\ Add(drawn, <<feature>>)
                  ELSE IF featureCount + 1 + Len(polygons) > tileLimits.features
                  THEN Refused("over limit")
                  ELSE featureCount' = featureCount + Len(polygons) /\ Add(drawn, polygons)
  <2>2. C
    <3>1. (CASE full -> A [] untyped -> B [] typed -> C)
      BY Zenon DEF DecodeFeature
    <3>2. ~full /\ ~untyped /\ typed
      BY <1>6, <2>1
    <3> HIDE DEF full, untyped, typed, A, B, C
    <3> QED
      BY <3>1, <3>2
  <2>3. CASE Refused("malformed") \/ Refused("over limit")
    BY <2>3, RefusedKeeps
  <2>4. CASE ~(Refused("malformed") \/ Refused("over limit"))
    <3>1. ~pen.bad
      BY <2>2, <2>4
    <3>2. \/ end < first /\ featureCount' = featureCount + 1 /\ Add(drawn, <<>>)
          \/ ~(end < first) /\ f.kind # Polygon /\ featureCount' = featureCount + 1 /\ Add(drawn, <<feature>>)
          \/ /\ ~(end < first) /\ f.kind = Polygon
             /\ ~(featureCount + 1 + Len(polygons) > tileLimits.features)
             /\ featureCount' = featureCount + Len(polygons) /\ Add(drawn, polygons)
      BY <2>2, <2>4
    <3>3. ASSUME NEW made, Add(drawn, made)
          PROVE  /\ tileKept' = [tileKept EXCEPT ![Len(tileKept)] = [drawn EXCEPT !.features = @ \o made]]
                 /\ featuresLeft' = Tail(featuresLeft)
                 /\ UNCHANGED <<tileLimits, layersLeft, layersRead, integerCount, decoded>>
      BY <3>3, Zenon DEF Add
    <3>4. /\ drawn.coords = pen.coords /\ drawn.parts = pen.parts
          /\ \A made : WithMade([drawn EXCEPT !.features = @ \o made], layer, pen, made)
      <4> HIDE DEF layer, pen
      <4>1. LayerInv(layer)
        BY <1>2
      <4>2. drawn = [name |-> layer.name, keys |-> layer.keys, values |-> layer.values, counted |-> layer.counted,
                     features |-> layer.features, coords |-> pen.coords, parts |-> pen.parts,
                     untyped |-> layer.untyped]
        BY <4>1, DrawnIs, Zenon
      <4> HIDE DEF drawn
      <4>3. drawn.coords = pen.coords /\ drawn.parts = pen.parts
        BY <4>2
      <4>4. ASSUME NEW made PROVE WithMade([drawn EXCEPT !.features = @ \o made], layer, pen, made)
        <5>1. DrawnOf(drawn, layer, pen.coords, pen.parts)
          BY <4>2 DEF DrawnOf
        <5> QED
          BY <5>1, MadeIs, Zenon
      <4> QED
        BY <4>3, <4>4, Zenon
    <3>5. Len(layer.parts) \in Nat /\ Len(pen.parts) \in Nat /\ Len(layer.parts) <= Len(pen.parts)
      <4>1. Slab(layer.coords, layer.parts)
        BY <1>2 DEF LayerInv
      <4>2. PICK whole \in Seq(Feature) : \E k \in 0..Len(whole) : ReadOf(layer, featuresLeft, whole, k)
        BY <1>2 DEF Reading
      <4>3. pen \in Pens /\ Draws(f.kind, layer.coords, layer.parts, pen)
        BY <1>1, <3>1, <4>1, <4>2, FeatureHasRoom
      <4> HIDE DEF layer, pen
      <4>4. Continues(pen.parts, layer.parts)
        BY <4>3 DEF Draws, Drawing
      <4> QED
        BY <4>1, <4>3, <4>4 DEF Slab, Pens, Continues
    <3>10. first = Len(layer.parts) + 1 /\ end = Len(pen.parts) /\ first \in Nat \ {0} /\ end \in Nat
      <4> HIDE DEF layer, pen, drawn
      <4> QED
        BY <3>4, <3>5
    \* What is made of the feature is added, and counted.
    <3>6. ASSUME NEW made, Listed(made), NEW more \in Nat, Len(made) <= more,
                 Add(drawn, made), featureCount' = featureCount + more, featureCount + more <= tileLimits.features,
                 Chain(made, Len(layer.parts), Len(pen.parts)),
                 \A j \in 1..Len(made) : made[j].kind = Polygon =>
                    /\ f.kind = Polygon
                    /\ \A p \in made[j].first..made[j].end : SignedArea(PartOf(drawn, p)) > 0 => p = made[j].first
          PROVE  TileInv'
      <4> DEFINE new == [drawn EXCEPT !.features = @ \o made]
      <4>1. /\ tileKept' = [tileKept EXCEPT ![Len(tileKept)] = new]
            /\ featuresLeft' = Tail(featuresLeft)
            /\ UNCHANGED <<tileLimits, layersLeft, layersRead, integerCount, decoded>>
        BY <3>3, <3>6
      <4>2. new.coords = drawn.coords /\ new.parts = drawn.parts
        <5>1. WithMade(new, layer, pen, made)
          BY <3>4, Zenon
        <5>2. drawn.coords = pen.coords /\ drawn.parts = pen.parts
          BY <3>4
        <5> HIDE DEF new, drawn, layer, pen
        <5> QED
          BY <5>1, <5>2 DEF WithMade
      <4>3. \A p : PartOf(new, p) = PartOf(drawn, p)
        <5> HIDE DEF new, drawn
        <5> QED
          BY <4>2 DEF PartOf
      <4>4. \A j \in 1..Len(made) : made[j].kind = Polygon =>
               /\ f.kind = Polygon
               /\ \A p \in made[j].first..made[j].end : SignedArea(PartOf(new, p)) > 0 => p = made[j].first
        <5> HIDE DEF new, drawn, f
        <5> QED
          BY <3>6, <4>3
      <4>5. /\ LayerInv(new) /\ Reading(new, Tail(featuresLeft)) /\ new.counted = layer.counted
            /\ Len(new.features) = Len(layer.features) + Len(made) /\ Len(made) \in Nat
        <5> DEFINE kind == f.kind
        <5>1. /\ LayerInv(layer) /\ featuresLeft \in Seq(Feature) /\ featuresLeft # <<>>
              /\ Reading(layer, featuresLeft)
              /\ pen = RunCommands(kind, layer, Head(featuresLeft).geometry) /\ ~pen.bad
              /\ WithMade(new, layer, pen, made)
          BY <1>1, <1>2, <3>1, <3>4, Zenon
        <5>2. \A j \in 1..Len(made) : made[j].kind = Polygon =>
               /\ kind = Polygon
               /\ \A p \in made[j].first..made[j].end : SignedArea(PartOf(new, p)) > 0 => p = made[j].first
          BY <4>4
        <5> HIDE DEF new, drawn, layer, pen, kind
        <5> QED
          BY <3>6, <5>1, <5>2, FeatureIsRead
      <4> HIDE DEF new, layer
      <4> QED
        BY <1>1, <1>2, <3>6, <4>1, <4>5, FeatureKeeps
    <3>7. CASE end < first /\ featureCount' = featureCount + 1 /\ Add(drawn, <<>>)
      <4>1. Listed(<<>>) /\ Len(<<>>) = 0
        <5>1. <<>> \in Seq({}) /\ Len(<<>>) = 0
          BY EmptySeq
        <5> QED
          BY <5>1 DEF Listed
      <4>2. 1 \in Nat /\ Len(<<>>) <= 1 /\ 1..Len(<<>>) = {} /\ featureCount + 1 <= tileLimits.features
        BY <1>3, <1>6, <4>1
      <4>3. Len(pen.parts) = Len(layer.parts)
        <5>1. end < first
          BY <3>7
        <5> HIDE DEF layer, pen, drawn, first, end
        <5> QED
          BY <3>5, <3>10, <5>1
      <4>4. Chain(<<>>, Len(layer.parts), Len(pen.parts))
        BY <4>1, <4>2, <4>3 DEF Chain
      <4> HIDE DEF layer, pen, drawn
      <4> QED
        BY <3>6, <3>7, <4>1, <4>2, <4>4
    <3>8. CASE ~(end < first) /\ f.kind # Polygon /\ featureCount' = featureCount + 1 /\ Add(drawn, <<feature>>)
      <4> DEFINE made == <<feature>>
      <4>1. Listed(made) /\ Len(made) = 1 /\ made[1] = feature
        <5> HIDE DEF feature
        <5>1. made \in Seq({feature})
          OBVIOUS
        <5> QED
          BY <5>1 DEF Listed
      <4>2. feature.kind # Polygon /\ feature.first = first /\ feature.end = end
        BY <3>8
      <4>3. first = Len(layer.parts) + 1 /\ end = Len(pen.parts) /\ first <= end /\ first \in Nat /\ end \in Nat
        <5>1. ~(end < first)
          BY <3>8
        <5> HIDE DEF layer, pen, drawn, first, end
        <5> QED
          BY <3>10, <5>1
      <4> HIDE DEF layer, pen, drawn, feature, first, end
      <4>4. 1 \in Nat /\ Len(made) <= 1 /\ \A j \in 1..Len(made) : j = 1
        BY <4>1
      <4>5. featureCount + 1 <= tileLimits.features
        BY <1>3, <1>6
      <4>6. Chain(made, Len(layer.parts), Len(pen.parts))
        BY <4>1, <4>2, <4>3, <4>4 DEF Chain
      <4>7. \A j \in 1..Len(made) : made[j].kind # Polygon
        BY <4>1, <4>2, <4>4
      <4>8. Add(drawn, made) /\ featureCount' = featureCount + 1
        BY <3>8
      <4> HIDE DEF made
      <4> QED
        BY <3>6, <4>1, <4>4, <4>5, <4>6, <4>7, <4>8
    <3>9. CASE /\ ~(end < first) /\ f.kind = Polygon
               /\ ~(featureCount + 1 + Len(polygons) > tileLimits.features)
               /\ featureCount' = featureCount + Len(polygons) /\ Add(drawn, polygons)
      <4>1. first = Len(layer.parts) + 1 /\ end = Len(pen.parts) /\ first <= end /\ first \in Nat \ {0} /\ end \in Nat
        <5>1. ~(end < first)
          BY <3>9
        <5> HIDE DEF layer, pen, drawn, first, end
        <5> QED
          BY <3>10, <5>1
      <4>2. /\ Listed(polygons) /\ Chain(polygons, first - 1, end)
            /\ \A j \in 1..Len(polygons) :
                 /\ polygons[j].kind = f.kind
                 /\ \A p \in polygons[j].first..polygons[j].end :
                      SignedArea(PartOf(drawn, p)) > 0 => p = polygons[j].first
        <5> DEFINE kind == f.kind
                   attributes == Attributes(layer, f.tags)
        <5>1. feature = FeatureOf(kind, attributes, first, end)
          BY Zenon DEF FeatureOf
        <5>2. polygons = GroupRings(drawn, feature, first, end) /\ first <= end
          BY <4>1
        <5> HIDE DEF kind, attributes, drawn, first, end, feature, polygons
        <5>3. polygons = GroupRings(drawn, FeatureOf(kind, attributes, first, end), first, end)
          BY <5>1, <5>2
        <5>4. first \in Nat \ {0} /\ end \in Nat
          BY <4>1
        <5> DEFINE gs == GroupRings(drawn, FeatureOf(kind, attributes, first, end), first, end)
        <5>5. /\ Listed(gs) /\ Chain(gs, first - 1, end)
              /\ \A j \in 1..Len(gs) :
                 /\ gs[j].kind = kind
                 /\ \A p \in gs[j].first..gs[j].end : SignedArea(PartOf(drawn, p)) > 0 => p = gs[j].first
          <6>1. first <= end /\ first \in Nat \ {0} /\ end \in Nat
            BY <5>2, <5>4
          <6> QED
            BY ONLY <6>1, RingsAreGrouped
        <5> HIDE DEF gs
        <5>6. polygons = gs
          BY <5>3 DEF gs
        <5> QED
          BY <5>5, <5>6 DEF kind
      <4> HIDE DEF layer, pen, drawn, feature, first, end, polygons
      <4>3. Len(polygons) \in Nat
        BY <4>2 DEF Listed
      <4>4. Len(polygons) <= Len(polygons) /\ featureCount + Len(polygons) <= tileLimits.features
        BY <1>3, <3>9, <4>3
      <4>5. first - 1 = Len(layer.parts)
        BY <3>5, <4>1
      <4>6. Chain(polygons, Len(layer.parts), Len(pen.parts))
        BY <4>1, <4>2, <4>5
      <4>7. Add(drawn, polygons) /\ featureCount' = featureCount + Len(polygons) /\ f.kind = Polygon
        BY <3>9
      <4> QED
        BY <3>6, <4>2, <4>3, <4>4, <4>6, <4>7
    <3> QED
      BY <3>2, <3>7, <3>8, <3>9
  <2> QED
    BY <2>3, <2>4
<1> QED
  BY <1>3, <1>4, <1>5, <1>6

LEMMA TileInvStep == TileInv /\ [TileNext]_tileVars => TileInv'
<1> SUFFICES ASSUME TileInv, [TileNext]_tileVars PROVE TileInv'
  OBVIOUS
<1>1. CASE DecodeLayer
  BY <1>1, DecodeLayerKeeps
<1>2. CASE DecodeFeature
  BY <1>2, DecodeFeatureKeeps
<1>3. CASE LayerRead
  BY <1>3, LayerReadKeeps
<1>4. CASE UNCHANGED tileVars
  BY <1>4 DEF tileVars, TileInv
<1> QED
  BY <1>1, <1>2, <1>3, <1>4 DEF TileNext

-----------------------------------------------------------------------------
(* What is decoded.                                                        *)

LEMMA LayerIsWhole ==
    ASSUME NEW layer, LayerInv(layer)
    PROVE  LET fs == layer.features
           IN  /\ \A p \in DOMAIN layer.parts : Cardinality({j \in DOMAIN fs : p \in fs[j].first..fs[j].end}) = 1
               /\ \A j \in DOMAIN fs :
                    /\ fs[j].first = IF j = 1 THEN 1 ELSE fs[j - 1].end + 1
                    /\ fs[j].kind = Polygon =>
                         \A p \in fs[j].first..fs[j].end :
                           LET ring == PartOf(layer, p)
                           IN ring[1] = Last(ring) /\ (SignedArea(ring) > 0 => p = fs[j].first)
<1> DEFINE fs == layer.features
           n == Len(layer.parts)
<1>1. /\ Listed(fs) /\ Chain(fs, 0, n) /\ Slab(layer.coords, layer.parts) /\ Grouped(layer, fs)
      /\ n \in Nat /\ DOMAIN layer.parts = 1..n
  BY DEF LayerInv, Slab
<1>2. Len(fs) \in Nat /\ DOMAIN fs = 1..Len(fs)
  BY <1>1 DEF Listed
<1> HIDE DEF fs
<1>3. ASSUME NEW p \in DOMAIN layer.parts
      PROVE  Cardinality({j \in DOMAIN fs : p \in fs[j].first..fs[j].end}) = 1
  BY <1>1, ChainCovers
<1>4. ASSUME NEW j \in DOMAIN fs
      PROVE  fs[j].first = IF j = 1 THEN 1 ELSE fs[j - 1].end + 1
  BY <1>1, <1>2 DEF Chain
<1>5. ASSUME NEW j \in DOMAIN fs, fs[j].kind = Polygon, NEW p \in fs[j].first..fs[j].end
      PROVE  LET ring == PartOf(layer, p)
             IN ring[1] = Last(ring) /\ (SignedArea(ring) > 0 => p = fs[j].first)
  <2>1. RingCloses(layer.coords, layer.parts, p) /\ (SignedArea(PartOf(layer, p)) > 0 => p = fs[j].first)
    BY <1>1, <1>2, <1>5 DEF Grouped
  <2>2. p \in 1..n
    <3>1. fs[j].first \in Nat /\ fs[j].end \in Nat /\ 0 < fs[j].first /\ fs[j].end <= n
      <4>1. 0 \in Nat
        OBVIOUS
      <4> HIDE DEF n
      <4> QED
        BY <1>1, <1>2, <4>1, ChainWithin DEF Chain
    <3> HIDE DEF n
    <3> QED
      BY <1>1, <3>1
  <2>3. /\ PartOf(layer, p)[1] = layer.coords[EndsBefore(layer.parts, p) + 1]
        /\ Last(PartOf(layer, p)) = layer.coords[layer.parts[p]]
    BY <1>1, <2>2, PartOfIs
  <2> QED
    BY <2>1, <2>3 DEF RingCloses
<1> QED
  BY <1>3, <1>4, <1>5 DEF fs

LEMMA TileInvDecodes == TileInv => DecodedIsWhole
<1> SUFFICES ASSUME TileInv PROVE DecodedIsWhole
  OBVIOUS
<1>1. /\ Listed(tileKept) /\ \A i \in 1..Len(tileKept) : LayerInv(tileKept[i])
      /\ featureCount \in Nat /\ featureCount <= tileLimits.features /\ integerCount <= tileLimits.integers
      /\ integerCount = SumOf(IntegersKept(tileKept), 1..Len(tileKept))
      /\ SumOf(FeaturesKept(tileKept), 1..Len(tileKept)) <= featureCount
  BY DEF TileInv
<1>2. /\ Len(tileKept) \in Nat /\ DOMAIN tileKept = 1..Len(tileKept)
      /\ \A i \in 1..Len(tileKept) : FeaturesKept(tileKept)[i] \in Nat
  BY <1>1, KeptIs
<1>3. SlabsAreEnough
  BY <1>1, <1>2 DEF SlabsAreEnough, LayerInv
<1>4. EveryPartHasOneFeature
  BY <1>1, <1>2, LayerIsWhole, Zenon DEF EveryPartHasOneFeature
<1>5. LimitsHoldAcrossLayers
  <2>1. /\ SumFunction([i \in DOMAIN tileKept |-> tileKept[i].counted.integers])
             = SumOf(IntegersKept(tileKept), 1..Len(tileKept))
        /\ SumFunction([i \in DOMAIN tileKept |-> Len(tileKept[i].features)])
             = SumOf(FeaturesKept(tileKept), 1..Len(tileKept))
    <3>1. /\ DOMAIN IntegersKept(tileKept) = 1..Len(tileKept) /\ DOMAIN FeaturesKept(tileKept) = 1..Len(tileKept)
      BY <1>2 DEF IntegersKept, FeaturesKept
    <3>2. /\ SumFunction(IntegersKept(tileKept)) = SumOf(IntegersKept(tileKept), DOMAIN IntegersKept(tileKept))
          /\ SumFunction(FeaturesKept(tileKept)) = SumOf(FeaturesKept(tileKept), DOMAIN FeaturesKept(tileKept))
      BY SumOfAFunction
    <3>3. /\ SumFunction(IntegersKept(tileKept)) = SumOf(IntegersKept(tileKept), 1..Len(tileKept))
          /\ SumFunction(FeaturesKept(tileKept)) = SumOf(FeaturesKept(tileKept), 1..Len(tileKept))
      BY <3>1, <3>2
    <3> QED
      BY <3>3, Zenon DEF IntegersKept, FeaturesKept
  <2> DEFINE a == SumOf(FeaturesKept(tileKept), 1..Len(tileKept))
  <2>2. a \in Nat
    <3>1. IsFiniteSet(1..Len(tileKept))
      BY <1>2, FS_Interval
    <3> QED
      BY <1>2, <3>1, SumIsNatural
  <2>3. tileLimits.features \in Nat
    BY TileAssumption DEF TileInv, TileAssumption
  <2>4. a <= featureCount
    BY <1>1
  <2> HIDE DEF a
  <2>5. a <= tileLimits.features
    BY <1>1, <2>2, <2>3, <2>4
  <2> QED
    BY <1>1, <2>1, <2>5 DEF a, LimitsHoldAcrossLayers
<1> QED
  BY <1>3, <1>4, <1>5 DEF DecodedIsWhole

\* Every ending of the decoder is one it has a name for, and its counts are
\* numbers (layer.go, decode).
THEOREM TileTypes == TileSpec => []TileTypeOK
<1>1. TileInv => TileTypeOK
  BY DEF TileInv, TileTypeOK
<1> QED
  BY <1>1, TileInvInit, TileInvStep, PTL DEF TileSpec

\* A tile decodes whole or not at all: what its commands draw fits what was
\* counted for them, every part has one feature and every ring is closed and
\* in its own polygon, and the limits hold of all the layers together
\* (layer.go, decode and readFeatures; geometry.go).
THEOREM TilesDecodeWhole == TileSpec => []DecodedIsWhole
<1> QED
  BY TileInvInit, TileInvStep, TileInvDecodes, PTL DEF TileSpec
================================================================================
