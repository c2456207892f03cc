------------------------------ MODULE WorkQueue ------------------------------
(***************************************************************************)
(* The queue of slow jobs (internal/work) and the pumps that drain it.     *)
(*                                                                         *)
(* The library starts no goroutine.  Maps (Members) ask for jobs on their  *)
(* owner's goroutine; the host's own goroutines (Workers) call Work, each  *)
(* for the map MapOf names.  A Work call holds the queue's lock while it   *)
(* takes a job and while it records the outcome, and holds nothing while   *)
(* the job runs, so each Work is a take step and a finish step with        *)
(* anything in between.  The pending-work hook is called after the lock is *)
(* released, and is therefore a step of its own too.                       *)
(*                                                                         *)
(* A job is its key.  Whether a job succeeds, fails or panics makes no     *)
(* difference to the queue, so Finish does not say which.  One outcome     *)
(* makes a difference to the goroutine: an error of the cancelled kind,    *)
(* which pump and Settle take for the end of their own context (GivenUp).  *)
(***************************************************************************)
EXTENDS Integers, FiniteSets

CONSTANTS
    Members,    \* maps that joined the queue
    Workers,    \* goroutines of the hosts that call Work or Settle
    MapOf,      \* the map each worker calls
    Settlers,   \* the workers that call Settle once, and are no pump
    Jobs,       \* job keys
    Tiles,      \* the jobs of the tile kind; the others are overlay work
    Limit,      \* how many jobs may wait
    Slots,      \* slots in each host's wake channel
    IdleLimit,  \* noWorkRenders: renders with work pending before the warning
    Rendering,  \* bound: the maps whose moves, renders and retries are followed
    Times,      \* the times a failed job may be put off until
    MaxSeq,     \* bound: jobs newly queued in one behaviour
    MaxView     \* bound: times one map's view moves

ASSUME QueueAssumption ==
    /\ IsFiniteSet(Jobs)
    /\ IsFiniteSet(Workers)
    /\ Tiles \subseteq Jobs
    /\ Settlers \subseteq Workers
    /\ MapOf \in [Workers -> Members]
    /\ Limit \in Nat \ {0}
    /\ Slots \in Nat \ {0}
    /\ IdleLimit \in Nat \ {0}
    /\ Rendering \subseteq Members
    /\ Times \subseteq Nat
    /\ MaxSeq \in Nat
    /\ MaxView \in Nat

VARIABLES
    waiting,    \* entries no Work has taken
    flying,     \* entries inside a Work call
    seq,        \* the order entries were first asked for
    view,       \* per map: how often its view has moved
    closed,     \* the maps that left
    later,      \* per map: failed jobs held until a time
    idle,       \* per map: renders in a row that found work and no Work
    warned,     \* the maps warned since their last Work
    owner,      \* per map: where its owner call is
    pc,         \* per worker: where it is
    job,        \* per worker: the job it runs, while it runs one
    wake,       \* per worker: the maps whose hooks it has still to call
    ended,      \* the workers whose context has ended
    tokens      \* per map: tokens in its host's wake channel

queueVars  == <<waiting, flying, seq>>
memberVars == <<view, closed, later, idle, warned>>
workerVars == <<pc, job, wake, ended>>
vars == <<queueVars, memberVars, owner, workerVars, tokens>>

Entry  == [key : Jobs, wanters : SUBSET Members, view : Nat, seq : Nat]
Flight == [entry : Entry, dropped : BOOLEAN]

OwnerStates  == {"free", "hook"}
WorkerStates == {"awake", "run", "fire", "asleep", "stopped", "gone"}

-----------------------------------------------------------------------------
(* What the queue holds.                                                   *)

IsFlying(k)  == \E f \in flying : f.entry.key = k
IsWaiting(k) == \E e \in waiting : e.key = k

\* The waiting jobs a map wants: what Pending counts.
PendingIn(q, m) == {e \in q : m \in e.wanters}
Pending(m) == PendingIn(waiting, m)

\* The order a Work takes jobs in: newest view, then tiles, then oldest.
RunsBefore(e, b) ==
    \/ e.view > b.view
    \/ /\ e.view = b.view
       /\ \/ e.key \in Tiles /\ b.key \notin Tiles
          \/ /\ e.key \in Tiles <=> b.key \in Tiles
             /\ e.seq < b.seq

\* A job of a view no asker is showing goes first, then one that is no tile.
\* Mutant: a view counts as left while it is still shown.
RankOffByOne(e) ==
    IF \A w \in e.wanters : e.view <= view[w] THEN 3
    ELSE IF e.key \notin Tiles THEN 2 ELSE 1

Rank(e) ==
    IF \A w \in e.wanters : e.view < view[w] THEN 3
    ELSE IF e.key \notin Tiles THEN 2 ELSE 1

DropsBefore(e, b) ==
    \/ Rank(e) > Rank(b)
    \/ Rank(e) = Rank(b) /\ e.seq < b.seq

dropOneLocked(q) == q \ {e \in q : \A b \in q \ {e} : DropsBefore(e, b)}

Hold(q) == IF Cardinality(q) > Limit THEN dropOneLocked(q) ELSE q

-----------------------------------------------------------------------------
(* Owner calls.  A map's owner makes one at a time; one that fired the     *)
(* hook is not over until the hook has returned.                           *)

Owner(m) == m \notin closed /\ owner[m] = "free"

\* An entry with one more asker, or one fewer.
Joined(e, m) == [e EXCEPT !.wanters = @ \cup {m}]
Left(e, m)   == [e EXCEPT !.wanters = @ \ {m}]

JoinedFlight(f, m) == [entry |-> Joined(f.entry, m), dropped |-> f.dropped]

\* A waiting job moves up to the newest view that asks for it.
JoinedAt(e, m) ==
    IF view[m] > e.view THEN [Joined(e, m) EXCEPT !.view = view[m]]
                        ELSE Joined(e, m)

JoinFlight(m, k) ==
    /\ IsFlying(k)
    /\ flying' = {IF f.entry.key = k THEN JoinedFlight(f, m) ELSE f : f \in flying}
    /\ UNCHANGED <<waiting, seq>>

JoinWaiting(m, k) ==
    /\ ~IsFlying(k) /\ IsWaiting(k)
    /\ waiting' = {IF e.key = k THEN JoinedAt(e, m) ELSE e : e \in waiting}
    /\ UNCHANGED <<flying, seq>>

\* Mutant: only the waiting jobs are searched.
EnqueueBlind(m, k) ==
    /\ ~IsWaiting(k)
    /\ seq < MaxSeq
    /\ seq' = seq + 1
    /\ waiting' = Hold(waiting \cup
           {[key |-> k, wanters |-> {m}, view |-> view[m], seq |-> seq + 1]})
    /\ UNCHANGED flying

Enqueue(m, k) ==
    /\ ~IsFlying(k) /\ ~IsWaiting(k)
    /\ seq < MaxSeq
    /\ seq' = seq + 1
    /\ waiting' = Hold(waiting \cup
           {[key |-> k, wanters |-> {m}, view |-> view[m], seq |-> seq + 1]})
    /\ UNCHANGED flying

\* Add: join the job or queue it, then call the hook if this map's pending
\* work went from none to some.
Add(m, k) ==
    /\ Owner(m)
    /\ JoinFlight(m, k) \/ JoinWaiting(m, k) \/ Enqueue(m, k)
    /\ owner' = [owner EXCEPT ![m] =
           IF Pending(m) = {} /\ PendingIn(waiting', m) # {}
           THEN "hook" ELSE "free"]
    /\ UNCHANGED <<memberVars, workerVars, tokens>>

\* Mutant: the host's hook sends one token, whatever its pump's width.
OwnerHookOnce(m) ==
    /\ owner[m] = "hook"
    /\ tokens' = [tokens EXCEPT ![m] = IF @ < Slots THEN @ + 1 ELSE @]
    /\ owner' = [owner EXCEPT ![m] = "free"]
    /\ UNCHANGED <<queueVars, memberVars, workerVars>>

\* The hook an owner call fires: the host fills its wake channel, and only
\* then may the owner call again.
OwnerHook(m) ==
    /\ owner[m] = "hook"
    /\ tokens' = [tokens EXCEPT ![m] = Slots]
    /\ owner' = [owner EXCEPT ![m] = "free"]
    /\ UNCHANGED <<queueVars, memberVars, workerVars>>

\* Withdraw a map from a job outside the set it still wants; a flight it was
\* the last to want is cancelled.
Kept(e, m, wanted) == IF e.key \in wanted THEN e ELSE Left(e, m)

\* Mutant: one map letting go cancels the job for all.
KeptFlightForNobody(f, m, wanted) ==
    IF m \in f.entry.wanters /\ f.entry.key \notin wanted
    THEN [entry |-> Left(f.entry, m), dropped |-> TRUE]
    ELSE f

KeptFlight(f, m, wanted) ==
    IF m \in f.entry.wanters /\ f.entry.key \notin wanted
    THEN [entry   |-> Left(f.entry, m),
          dropped |-> f.dropped \/ f.entry.wanters = {m}]
    ELSE f

releaseLocked(m, wanted) ==
    /\ waiting' = {e \in {Kept(x, m, wanted) : x \in waiting} : e.wanters # {}}
    /\ flying' = {KeptFlight(f, m, wanted) : f \in flying}
    /\ UNCHANGED seq

Keep(m, wanted) ==
    /\ Owner(m)
    /\ releaseLocked(m, wanted)
    /\ later' = [later EXCEPT ![m] = {d \in @ : d.key \in wanted}]
    /\ UNCHANGED <<view, closed, idle, warned, owner, workerVars, tokens>>

Leave(m) ==
    /\ Owner(m)
    /\ releaseLocked(m, {})
    /\ later' = [later EXCEPT ![m] = {}]
    /\ closed' = closed \cup {m}
    /\ UNCHANGED <<view, idle, warned, owner, workerVars, tokens>>

NewView(m) ==
    /\ m \in Rendering
    /\ Owner(m)
    /\ view[m] < MaxView
    /\ view' = [view EXCEPT ![m] = @ + 1]
    /\ UNCHANGED <<queueVars, closed, later, idle, warned, owner, workerVars,
                   tokens>>

\* Only the tile pipeline defers jobs.
Defer(m, k, t) ==
    /\ m \in Rendering
    /\ Owner(m)
    /\ later' = [later EXCEPT ![m] =
           {d \in @ : d.key # k} \cup {[key |-> k, at |-> t]}]
    /\ UNCHANGED <<queueVars, view, closed, idle, warned, owner, workerVars,
                   tokens>>

\* The count stops at the limit: beyond it nothing distinguishes two values.
NoteRender(m) ==
    /\ m \in Rendering
    /\ Owner(m)
    /\ IF Pending(m) = {}
       THEN /\ idle' = [idle EXCEPT ![m] = 0]
            /\ UNCHANGED warned
       ELSE /\ idle' = [idle EXCEPT ![m] = IF @ < IdleLimit THEN @ + 1 ELSE @]
            /\ warned' = IF idle'[m] = IdleLimit THEN warned \cup {m}
                         ELSE warned
    /\ UNCHANGED <<queueVars, view, closed, later, owner, workerVars, tokens>>

-----------------------------------------------------------------------------
(* Work, on a host's goroutine.                                            *)

\* RunOne refused: the context has ended, or the map is closed.  Either ends
\* the pump.
Refused(w) ==
    /\ pc[w] = "awake"
    /\ w \in ended \/ MapOf[w] \in closed
    /\ pc' = [pc EXCEPT ![w] = "gone"]
    /\ UNCHANGED <<queueVars, memberVars, owner, job, wake, ended, tokens>>

CanTake(w) ==
    /\ pc[w] = "awake"
    /\ w \notin ended
    /\ MapOf[w] \notin closed

NoteWork(m) ==
    /\ idle' = [idle EXCEPT ![m] = 0]
    /\ warned' = warned \ {m}

\* takeLocked found a job, whoever asked for it.
Take(w) ==
    /\ CanTake(w)
    /\ \E e \in waiting :
          /\ \A b \in waiting \ {e} : RunsBefore(e, b)
          /\ ~IsFlying(e.key)
          /\ waiting' = waiting \ {e}
          /\ flying' = flying \cup {[entry |-> e, dropped |-> FALSE]}
          /\ job' = [job EXCEPT ![w] = {e.key}]
    /\ pc' = [pc EXCEPT ![w] = "run"]
    /\ NoteWork(MapOf[w])
    /\ UNCHANGED <<seq, view, closed, later, owner, wake, ended, tokens>>

\* takeLocked found nothing: a pump goroutine sleeps, a Settle returns.
NothingToDo(w) ==
    /\ CanTake(w)
    /\ waiting = {}
    /\ pc' = [pc EXCEPT ![w] = IF w \in Settlers THEN "gone" ELSE "asleep"]
    /\ NoteWork(MapOf[w])
    /\ UNCHANGED <<queueVars, view, closed, later, owner, job, wake, ended,
                   tokens>>

\* The flight a worker's job is recorded under.
FlightOf(w) == {f \in flying : f.entry.key \in job[w]}

Land(w) ==
    /\ pc[w] = "run"
    /\ flying' = flying \ FlightOf(w)
    /\ job' = [job EXCEPT ![w] = {}]
    /\ UNCHANGED <<seq, memberVars, owner, ended, tokens>>

\* The job ran, or was dropped while it ran, and the goroutine goes on.
Finish(w) ==
    /\ \A f \in FlightOf(w) : f.dropped \/ w \notin ended
    /\ Land(w)
    /\ pc' = [pc EXCEPT ![w] = "awake"]
    /\ UNCHANGED <<waiting, wake>>

\* A tile job whose source was changed while it waited gives itself up with
\* the cancelled kind, and that ends the goroutine though its context is open.
GivenUp(w) ==
    /\ job[w] \subseteq Tiles
    /\ w \notin ended
    /\ \A f \in FlightOf(w) : ~f.dropped
    /\ Land(w)
    /\ pc' = [pc EXCEPT ![w] = "stopped"]
    /\ UNCHANGED <<waiting, wake>>

\* Mutant: the job goes back and nobody is told.
GiveBackInSilence(w) ==
    /\ w \in ended
    /\ Land(w)
    /\ \E f \in FlightOf(w) :
          LET e == Left(f.entry, MapOf[w])
          IN  /\ ~f.dropped
              /\ waiting' = IF e.wanters = {} THEN waiting ELSE waiting \cup {e}
    /\ pc' = [pc EXCEPT ![w] = "gone"]
    /\ UNCHANGED wake

\* The call's context ended: the job goes back for the maps that still want
\* it, and those that had nothing pending are to be woken from here.
GiveBack(w) ==
    /\ w \in ended
    /\ Land(w)
    /\ \E f \in FlightOf(w) :
          LET e == Left(f.entry, MapOf[w])
          IN  /\ ~f.dropped
              /\ waiting' = IF e.wanters = {} THEN waiting ELSE waiting \cup {e}
              /\ wake' = [wake EXCEPT ![w] = {m \in e.wanters : Pending(m) = {}}]
    /\ pc' = [pc EXCEPT ![w] = IF wake'[w] = {} THEN "gone" ELSE "fire"]

\* The cancelled call wakes one of those maps; it arms nothing.
FireHook(w) ==
    /\ pc[w] = "fire"
    /\ \E m \in wake[w] :
          /\ tokens' = [tokens EXCEPT ![m] = Slots]
          /\ wake' = [wake EXCEPT ![w] = @ \ {m}]
    /\ pc' = [pc EXCEPT ![w] = IF wake'[w] = {} THEN "gone" ELSE "fire"]
    /\ UNCHANGED <<queueVars, memberVars, owner, job, ended>>

-----------------------------------------------------------------------------
(* The host's pump around Work.                                            *)

TakeToken(w) ==
    /\ pc[w] = "asleep"
    /\ tokens[MapOf[w]] > 0
    /\ tokens' = [tokens EXCEPT ![MapOf[w]] = @ - 1]
    /\ pc' = [pc EXCEPT ![w] = "awake"]
    /\ UNCHANGED <<queueVars, memberVars, owner, job, wake, ended>>

Quit(w) ==
    /\ pc[w] = "asleep"
    /\ w \in ended
    /\ pc' = [pc EXCEPT ![w] = "gone"]
    /\ UNCHANGED <<queueVars, memberVars, owner, job, wake, ended, tokens>>

\* The host ends a Work call's context, at any moment.
Cancel(w) ==
    /\ w \notin ended
    /\ ended' = ended \cup {w}
    /\ UNCHANGED <<queueVars, memberVars, owner, pc, job, wake, tokens>>

-----------------------------------------------------------------------------

Init ==
    /\ waiting = {} /\ flying = {} /\ seq = 0
    /\ view = [m \in Members |-> 0]
    /\ closed = {}
    /\ later = [m \in Members |-> {}]
    /\ idle = [m \in Members |-> 0]
    /\ warned = {}
    /\ owner = [m \in Members |-> "free"]
    /\ pc = [w \in Workers |-> "awake"]
    /\ job = [w \in Workers |-> {}]
    /\ wake = [w \in Workers |-> {}]
    /\ ended = {}
    /\ tokens = [m \in Members |-> 0]

OwnerNext(m) ==
    \/ \E k \in Jobs : Add(m, k)
    \/ OwnerHook(m)
    \/ \E wanted \in SUBSET Jobs : Keep(m, wanted)
    \/ Leave(m)
    \/ NewView(m)
    \/ \E k \in Tiles, t \in Times : Defer(m, k, t)
    \/ NoteRender(m)

\* Everything a host goroutine does once its Work call is under way.
WorkerNext(w) ==
    \/ Refused(w) \/ Take(w) \/ NothingToDo(w)
    \/ Finish(w) \/ GivenUp(w) \/ GiveBack(w) \/ FireHook(w)
    \/ TakeToken(w) \/ Quit(w)

Next ==
    \/ \E m \in Members : OwnerNext(m)
    \/ \E w \in Workers : WorkerNext(w) \/ Cancel(w)

Spec == Init /\ [][Next]_vars

\* A host goroutine that can go on does; a hook returns.  Owners ask for what
\* they like, or nothing; a job ends, because every fetch has a time limit.
Fairness ==
    /\ \A w \in Workers : WF_vars(WorkerNext(w))
    /\ \A m \in Members : WF_vars(OwnerHook(m))

FairSpec == Spec /\ Fairness

-----------------------------------------------------------------------------
(* Properties.                                                             *)

TypeOK ==
    /\ waiting \subseteq Entry
    /\ flying \subseteq Flight
    /\ seq \in Nat
    /\ view \in [Members -> Nat]
    /\ closed \subseteq Members
    /\ later \in [Members -> SUBSET [key : Tiles, at : Times]]
    /\ idle \in [Members -> 0 .. IdleLimit]
    /\ warned \subseteq Members
    /\ owner \in [Members -> OwnerStates]
    /\ pc \in [Workers -> WorkerStates]
    /\ job \in [Workers -> SUBSET Jobs]
    /\ wake \in [Workers -> SUBSET Members]
    /\ ended \subseteq Workers
    /\ tokens \in [Members -> 0 .. Slots]

\* One piece of work has one place: it is queued once, flies once and never
\* both, however maps ask, let go, cancel and give back.  takeLocked calls the
\* opposite a defect of the library (run.go, "never both waits and flies").
NeverTwice ==
    /\ \A e, b \in waiting : e.key = b.key => e = b
    /\ \A f, g \in flying : f.entry.key = g.entry.key => f = g
    /\ \A e \in waiting, f \in flying : e.key # f.entry.key

\* The flights are exactly the jobs inside Work calls, each in one call, so
\* finish always finds its flight: the "not recorded as in flight" defect
\* branch is never taken and no two goroutines run the same work.
FlightsAreRuns ==
    /\ \A w \in Workers : pc[w] = "run" <=> job[w] # {}
    /\ \A w \in Workers : \A k \in job[w] : job[w] = {k} /\ IsFlying(k)
    /\ \A f \in flying : \E w \in Workers : f.entry.key \in job[w]
    /\ \A v, w \in Workers : v # w => job[v] \cap job[w] = {}

\* Nothing waits for nobody, and nothing is held or run for a map that has
\* left: an undropped flight too has an asker whose map is open, unless that
\* asker is let go of by dropping the flight.
WantedByOpenMaps ==
    /\ \A e \in waiting : e.wanters # {} /\ e.wanters \cap closed = {}
    /\ \A f \in flying :
          /\ f.entry.wanters \cap closed = {}
          /\ f.entry.wanters = {} => f.dropped

\* A job is in one place, run by the one call that recorded it, and kept only
\* for maps that are open.
EveryJobIsAccounted == NeverTwice /\ FlightsAreRuns /\ WantedByOpenMaps

\* The hook of a map with pending work has been called since that work became
\* pending, or is about to be, on the owner's goroutine or in a cancelled Work.
HookDue(m) ==
    \/ owner[m] = "hook"
    \/ \E w \in Workers : m \in wake[w]

\* No lost wake, as wide as the pump: while a map's work waits and no hook call
\* is outstanding, every goroutine of its pump that sleeps has a token to wake
\* it.  This is what "so no goroutine sleeps on work another wake brought" asks
\* of the none-to-some hook, with work taken, given back and joined by other
\* maps' pumps in between.
WholePumpWakes ==
    \A m \in Members :
        Pending(m) # {} /\ ~HookDue(m) =>
            Cardinality({w \in Workers : MapOf[w] = m /\ pc[w] = "asleep"})
                <= tokens[m]

\* The cap's order, across maps: when queueing a job pushes another out, a tile
\* of a view still shown goes only when nothing but such tiles waits, and only
\* one job goes.
BasemapGoesLast ==
    [][seq' # seq =>
         LET shed == {e \in waiting : \A b \in waiting' : b.key # e.key}
         IN  /\ Cardinality(shed) <= 1
             /\ \A e \in shed :
                   e.key \in Tiles /\ (\E m \in e.wanters : e.view >= view[m]) =>
                       \A b \in waiting' :
                           /\ b.key \in Tiles
                           /\ \E m \in b.wanters : b.view >= view[m]]_vars

\* The demands the queue still serves: a dropped flight serves none.
Demands ==
    {d \in Members \X Jobs :
        \/ \E e \in waiting : e.key = d[2] /\ d[1] \in e.wanters
        \/ \E f \in flying :
              f.entry.key = d[2] /\ d[1] \in f.entry.wanters /\ ~f.dropped}

Promise == INSTANCE WorkPromise WITH wanted <- Demands, running <- job

\* The queue keeps its promise: one runner a job, and no map loses a job to
\* another map's Keep, Leave, Cancel or late Add ("hands any shared job another
\* map still wants back to the queue").
KeepsPromise == Promise!Spec

\* A map's pump is open while the map is, and the context of one of its
\* goroutines; it is alive while a job has not stopped that goroutine.
PumpOpen(m) ==
    /\ m \notin closed
    /\ \E w \in Workers \ (Settlers \cup ended) : MapOf[w] = m

PumpAlive(m) ==
    /\ m \notin closed
    /\ \E w \in Workers \ (Settlers \cup ended) : MapOf[w] = m /\ pc[w] # "stopped"

\* Work that waits for a map with a live pump does not wait for ever: it is
\* taken, let go of or pushed out.  It is what the hook, the tokens and the
\* give-back are for.  A pump whose goroutines were all stopped by jobs that
\* gave themselves up is not alive, which is an exception the code makes and
\* its comments do not: see OpenPumpsTake.
WaitingWorkIsTaken ==
    \A m \in Members, k \in Jobs :
        (PumpAlive(m) /\ \E e \in Pending(m) : e.key = k)
        ~> (~PumpAlive(m) \/ \A e \in Pending(m) : e.key # k)

\* "Settle always ends", whatever other goroutines hold in flight.
SettleEnds == \A w \in Settlers : <>(pc[w] \in {"stopped", "gone"})

\* Nobody waits for ever: neither work that has a live pump nor a host in
\* Settle.
NothingWaitsForEver == WaitingWorkIsTaken /\ SettleEnds

\* What the code says of the queue and its pumps, and does not keep.

\* pump: "Only a map closed or a context ended stops it", so that work waits
\* for no pump whose context is open.
OpenPumpsTake ==
    \A m \in Members, k \in Jobs :
        (PumpOpen(m) /\ \E e \in Pending(m) : e.key = k)
        ~> (~PumpOpen(m) \/ \A e \in Pending(m) : e.key # k)

\* Drain: "Work until nothing is pending or the context ends".
SettleTakesAll ==
    [][\A w \in Settlers :
         pc[w] \notin {"stopped", "gone"} /\ pc'[w] \in {"stopped", "gone"} =>
             w \in ended \/ MapOf[w] \in closed \/ Pending(MapOf[w])' = {}]_vars

\* NewQueue: a queue "that lets limit jobs wait".
WaitingWithinLimit == Cardinality(waiting) <= Limit

\* flight.dropped: "nobody wants it any longer; its outcome is ignored".
DroppedIsUnwanted == \A f \in flying : f.dropped => f.entry.wanters = {}

\* Contract, section 6: a Work still inside when its map closes "returns
\* closed", which ends the pump.
InsideAtCloseEndsClosed ==
    [][\A w \in Workers :
         pc[w] = "run" /\ pc'[w] # "run" /\ MapOf[w] \in closed
             => pc'[w] \in {"gone", "fire"}]_vars
==============================================================================
