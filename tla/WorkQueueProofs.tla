-------------------------- MODULE WorkQueueProofs --------------------------
(***************************************************************************)
(* The work queue, for any maps, goroutines, jobs and limits.              *)
(*                                                                         *)
(* Every job is queued once or flies once, in one call of Work, for maps   *)
(* that are open (JobsAreAccounted, and the theorems before it). While the *)
(* wake channel is as wide as the pump, no wake is lost (NoWakeIsLost).    *)
(* The queue implements WorkPromise, what is asked for and what runs       *)
(* without a queue (QueueKeepsPromise). At the cap the tiles of the map in *)
(* view are shed last (ShownTilesGoLast).                                  *)
(***************************************************************************)
EXTENDS WorkQueue, FiniteSetTheorems, TLAPS

\* Holding the queue to its limit only ever takes entries away.
LEMMA HoldOnlyDrops == ASSUME NEW q PROVE Hold(q) \subseteq q
  BY DEF Hold, dropOneLocked

\* An entry joined, left or moved up is an entry for the same job, asked for at
\* the same moment.
LEMMA EntryOps ==
  ASSUME TypeOK, NEW e \in Entry, NEW m \in Members, NEW wanted
  PROVE  /\ Joined(e, m) \in Entry /\ Joined(e, m).key = e.key
         /\ Joined(e, m).wanters = e.wanters \cup {m}
         /\ Left(e, m) \in Entry /\ Left(e, m).key = e.key
         /\ Left(e, m).wanters = e.wanters \ {m}
         /\ JoinedAt(e, m) \in Entry /\ JoinedAt(e, m).key = e.key
         /\ JoinedAt(e, m).wanters = e.wanters \cup {m}
         /\ Kept(e, m, wanted) \in Entry /\ Kept(e, m, wanted).key = e.key
<1>1. Joined(e, m) \in Entry /\ Joined(e, m).key = e.key
      /\ Joined(e, m).wanters = e.wanters \cup {m}
  BY DEF Joined, Entry
<1>2. Left(e, m) \in Entry /\ Left(e, m).key = e.key
      /\ Left(e, m).wanters = e.wanters \ {m}
  BY DEF Left, Entry
<1>3. view[m] \in Nat
  BY DEF TypeOK
<1>4. JoinedAt(e, m) \in Entry /\ JoinedAt(e, m).key = e.key
      /\ JoinedAt(e, m).wanters = e.wanters \cup {m}
  BY <1>1, <1>3 DEF JoinedAt, Entry
<1> QED BY <1>1, <1>2, <1>4 DEF Kept

\* The same for a flight.
LEMMA FlightOps ==
  ASSUME TypeOK, NEW f \in Flight, NEW m \in Members, NEW wanted
  PROVE  /\ f.entry \in Entry /\ f.dropped \in BOOLEAN
         /\ JoinedFlight(f, m) \in Flight
         /\ JoinedFlight(f, m).entry = Joined(f.entry, m)
         /\ JoinedFlight(f, m).dropped = f.dropped
         /\ KeptFlight(f, m, wanted) \in Flight
         /\ KeptFlight(f, m, wanted).entry.key = f.entry.key
<1>1. f.entry \in Entry /\ f.dropped \in BOOLEAN
  BY DEF Flight
<1>2. Joined(f.entry, m) \in Entry /\ Left(f.entry, m) \in Entry
      /\ Left(f.entry, m).key = f.entry.key
  BY <1>1, EntryOps
<1>3. JoinedFlight(f, m) \in Flight
      /\ JoinedFlight(f, m).entry = Joined(f.entry, m)
      /\ JoinedFlight(f, m).dropped = f.dropped
  BY <1>1, <1>2 DEF JoinedFlight, Flight
<1>4. KeptFlight(f, m, wanted) \in Flight
      /\ KeptFlight(f, m, wanted).entry.key = f.entry.key
  BY <1>1, <1>2 DEF KeptFlight, Flight
<1> QED BY <1>1, <1>3, <1>4

\* Withdrawing a map invents no entry and no flight.
LEMMA ReleaseTypes ==
  ASSUME TypeOK, NEW m \in Members, NEW wanted, releaseLocked(m, wanted)
  PROVE  waiting' \subseteq Entry /\ flying' \subseteq Flight /\ seq' \in Nat
<1>1. \A e \in waiting : Kept(e, m, wanted) \in Entry
  BY EntryOps DEF TypeOK
<1>2. \A f \in flying : KeptFlight(f, m, wanted) \in Flight
  BY FlightOps DEF TypeOK
<1> QED BY <1>1, <1>2 DEF releaseLocked, TypeOK

\* Every variable keeps its type.
LEMMA TypeStep == TypeOK /\ [Next]_vars => TypeOK'
<1> SUFFICES ASSUME TypeOK, [Next]_vars PROVE TypeOK'
  OBVIOUS
<1> USE QueueAssumption DEF queueVars, memberVars, workerVars
<1>1. ASSUME NEW m \in Members, NEW k \in Jobs, Add(m, k) PROVE TypeOK'
  <2>1. waiting' \subseteq Entry /\ flying' \subseteq Flight /\ seq' \in Nat
    <3> waiting \subseteq Entry /\ flying \subseteq Flight /\ seq \in Nat
      BY DEF TypeOK
    <3>1. CASE JoinFlight(m, k)
      <4>1. \A f \in flying : JoinedFlight(f, m) \in Flight
        BY FlightOps
      <4> QED BY <3>1, <4>1 DEF JoinFlight
    <3>2. CASE JoinWaiting(m, k)
      <4>1. \A e \in waiting : JoinedAt(e, m) \in Entry
        BY EntryOps
      <4> QED BY <3>2, <4>1 DEF JoinWaiting
    <3>3. CASE Enqueue(m, k)
      <4> DEFINE new == [key |-> k, wanters |-> {m}, view |-> view[m],
                         seq |-> seq + 1]
      <4>1. new \in Entry
        BY DEF TypeOK, Entry
      <4>2. waiting' \subseteq waiting \cup {new}
        BY <3>3, HoldOnlyDrops DEF Enqueue
      <4>3. flying' = flying /\ seq' \in Nat
        BY <3>3 DEF Enqueue
      <4> HIDE DEF new
      <4> QED BY <4>1, <4>2, <4>3
    <3> QED BY <1>1, <3>1, <3>2, <3>3 DEF Add
  <2> QED BY <1>1, <2>1 DEF Add, TypeOK, OwnerStates
<1>2. ASSUME NEW m \in Members, OwnerHook(m) PROVE TypeOK'
  BY <1>2 DEF OwnerHook, TypeOK, OwnerStates
<1>3. ASSUME NEW m \in Members, NEW wanted \in SUBSET Jobs, Keep(m, wanted)
      PROVE  TypeOK'
  BY <1>3, ReleaseTypes DEF Keep, TypeOK
<1>4. ASSUME NEW m \in Members, Leave(m) PROVE TypeOK'
  BY <1>4, ReleaseTypes DEF Leave, TypeOK
<1>5. ASSUME NEW m \in Members, NewView(m) PROVE TypeOK'
  BY <1>5 DEF NewView, TypeOK
<1>6. ASSUME NEW m \in Members, NEW k \in Tiles, NEW t \in Times, Defer(m, k, t)
      PROVE  TypeOK'
  BY <1>6 DEF Defer, TypeOK
<1>7. ASSUME NEW m \in Members, NoteRender(m) PROVE TypeOK'
  BY <1>7 DEF NoteRender, TypeOK
<1>8. ASSUME NEW w \in Workers, Refused(w) PROVE TypeOK'
  BY <1>8 DEF Refused, TypeOK, WorkerStates
<1>9. ASSUME NEW w \in Workers, Take(w) PROVE TypeOK'
  <2>1. waiting' \subseteq Entry /\ flying' \subseteq Flight
        /\ job' \in [Workers -> SUBSET Jobs]
    <3>1. PICK e \in waiting :
             /\ waiting' = waiting \ {e}
             /\ flying' = flying \cup {[entry |-> e, dropped |-> FALSE]}
             /\ job' = [job EXCEPT ![w] = {e.key}]
      BY <1>9 DEF Take
    <3>2. e \in Entry /\ e.key \in Jobs
      BY DEF TypeOK, Entry
    <3>3. [entry |-> e, dropped |-> FALSE] \in Flight
      BY <3>2 DEF Flight
    <3> QED BY <3>1, <3>2, <3>3 DEF TypeOK
  <2> QED BY <1>9, <2>1 DEF Take, NoteWork, TypeOK, WorkerStates
<1>10. ASSUME NEW w \in Workers, NothingToDo(w) PROVE TypeOK'
  BY <1>10 DEF NothingToDo, NoteWork, TypeOK, WorkerStates
<1>11. ASSUME NEW w \in Workers, Finish(w) \/ GivenUp(w) PROVE TypeOK'
  BY <1>11 DEF Finish, GivenUp, Land, TypeOK, WorkerStates
<1>12. ASSUME NEW w \in Workers, GiveBack(w) PROVE TypeOK'
  <2>1. waiting' \subseteq Entry /\ wake' \in [Workers -> SUBSET Members]
    <3>1. PICK f \in flying :
             LET e == Left(f.entry, MapOf[w])
             IN  /\ waiting' = IF e.wanters = {} THEN waiting
                               ELSE waiting \cup {e}
                 /\ wake' = [wake EXCEPT ![w] =
                               {m \in e.wanters : Pending(m) = {}}]
      BY <1>12 DEF GiveBack, FlightOf
    <3>2. MapOf[w] \in Members
      OBVIOUS
    <3>3. Left(f.entry, MapOf[w]) \in Entry
      <4>1. f \in Flight
        BY DEF TypeOK
      <4> QED BY <3>2, <4>1, FlightOps, EntryOps
    <3>4. Left(f.entry, MapOf[w]).wanters \subseteq Members
      BY <3>3 DEF Entry
    <3> QED BY <3>1, <3>3, <3>4 DEF TypeOK
  <2> QED BY <1>12, <2>1 DEF GiveBack, Land, TypeOK, WorkerStates
<1>13. ASSUME NEW w \in Workers, FireHook(w) PROVE TypeOK'
  BY <1>13 DEF FireHook, TypeOK, WorkerStates
<1>14. ASSUME NEW w \in Workers, TakeToken(w) PROVE TypeOK'
  BY <1>14 DEF TakeToken, TypeOK, WorkerStates
<1>15. ASSUME NEW w \in Workers, Quit(w) PROVE TypeOK'
  BY <1>15 DEF Quit, TypeOK, WorkerStates
<1>16. ASSUME NEW w \in Workers, Cancel(w) PROVE TypeOK'
  BY <1>16 DEF Cancel, TypeOK
<1>17. CASE UNCHANGED vars
  BY <1>17 DEF vars, TypeOK
<1> QED
  BY <1>1, <1>2, <1>3, <1>4, <1>5, <1>6, <1>7, <1>8, <1>9, <1>10, <1>11,
     <1>12, <1>13, <1>14, <1>15, <1>16, <1>17 DEF Next, OwnerNext, WorkerNext

\* Type correctness of the queue, its members and its pumps.
THEOREM QueueTypes == Spec => []TypeOK
<1>1. Init => TypeOK
  BY QueueAssumption DEF Init, TypeOK, OwnerStates, WorkerStates
<1> QED BY <1>1, TypeStep, PTL DEF Spec

-----------------------------------------------------------------------------
(***************************************************************************)
(* The inductive invariant.  NeverTwice alone is not inductive: that Take  *)
(* and GiveBack keep it depends on flights being exactly the running jobs, *)
(* and FlightsAreRuns in turn needs flights told apart by their keys.      *)
(***************************************************************************)

IInv == TypeOK /\ NeverTwice /\ FlightsAreRuns

\* Rewriting entries and flights in place, keys kept, keeps both parts.
LEMMA SameKeys ==
  ASSUME IInv,
         \A x \in waiting' : \E e \in waiting :
            x.key = e.key /\ \A y \in waiting' : y.key = e.key => y = x,
         \A x \in flying' : \E f \in flying :
            x.entry.key = f.entry.key
            /\ \A y \in flying' : y.entry.key = f.entry.key => y = x,
         \A f \in flying : \E x \in flying' : x.entry.key = f.entry.key,
         UNCHANGED <<pc, job>>
  PROVE  NeverTwice' /\ FlightsAreRuns'
<1>1. NeverTwice'
  BY DEF IInv, NeverTwice
<1>2. FlightsAreRuns'
  BY DEF IInv, FlightsAreRuns, IsFlying
<1> QED BY <1>1, <1>2

\* A step that moves no entry, no flight and no running job keeps both parts.
LEMMA NothingMoves ==
  ASSUME IInv, UNCHANGED <<waiting, flying, job>>,
         \A w \in Workers : pc'[w] = "run" <=> pc[w] = "run"
  PROVE  NeverTwice' /\ FlightsAreRuns'
  BY DEF IInv, NeverTwice, FlightsAreRuns, IsFlying

LEMMA AddKeeps ==
  ASSUME IInv, NEW m \in Members, NEW k \in Jobs, Add(m, k)
  PROVE  NeverTwice' /\ FlightsAreRuns'
<1> TypeOK /\ NeverTwice /\ FlightsAreRuns
  BY DEF IInv
<1> waiting \subseteq Entry /\ flying \subseteq Flight
  BY DEF TypeOK
<1> pc' = pc /\ job' = job
  BY DEF Add, workerVars
<1>1. CASE JoinFlight(m, k)
  <2>1. \A f \in flying : JoinedFlight(f, m).entry.key = f.entry.key
    <3> TAKE f \in flying
    <3>1. JoinedFlight(f, m).entry = Joined(f.entry, m) /\ f.entry \in Entry
      BY FlightOps
    <3> QED BY <3>1, EntryOps
  <2>2. waiting' = waiting
        /\ flying' = {IF f.entry.key = k THEN JoinedFlight(f, m) ELSE f :
                        f \in flying}
    BY <1>1 DEF JoinFlight
  <2>3. \A x \in flying' : \E f \in flying :
           x.entry.key = f.entry.key
           /\ \A y \in flying' : y.entry.key = f.entry.key => y = x
    BY <2>1, <2>2 DEF NeverTwice
  <2>4. \A f \in flying : \E x \in flying' : x.entry.key = f.entry.key
    BY <2>1, <2>2
  <2>5. \A x \in waiting' : \E e \in waiting :
           x.key = e.key /\ \A y \in waiting' : y.key = e.key => y = x
    BY <2>2 DEF NeverTwice
  <2> QED BY <2>3, <2>4, <2>5, SameKeys
<1>2. CASE JoinWaiting(m, k)
  <2>1. \A e \in waiting : JoinedAt(e, m).key = e.key
    BY EntryOps
  <2>2. flying' = flying
        /\ waiting' = {IF e.key = k THEN JoinedAt(e, m) ELSE e : e \in waiting}
    BY <1>2 DEF JoinWaiting
  <2>3. \A x \in waiting' : \E e \in waiting :
           x.key = e.key /\ \A y \in waiting' : y.key = e.key => y = x
    BY <2>1, <2>2 DEF NeverTwice
  <2>4. \A x \in flying' : \E f \in flying :
           x.entry.key = f.entry.key
           /\ \A y \in flying' : y.entry.key = f.entry.key => y = x
    BY <2>2 DEF NeverTwice
  <2>5. \A f \in flying : \E x \in flying' : x.entry.key = f.entry.key
    BY <2>2
  <2> QED BY <2>3, <2>4, <2>5, SameKeys
<1>3. CASE Enqueue(m, k)
  <2> DEFINE new == [key |-> k, wanters |-> {m}, view |-> view[m],
                     seq |-> seq + 1]
  <2>1. new.key = k
    OBVIOUS
  <2>2. waiting' \subseteq waiting \cup {new} /\ flying' = flying
    BY <1>3, HoldOnlyDrops DEF Enqueue
  <2>3. (\A e \in waiting : e.key # k) /\ (\A f \in flying : f.entry.key # k)
    BY <1>3 DEF Enqueue, IsWaiting, IsFlying
  <2> HIDE DEF new
  <2>4. NeverTwice'
    BY <2>1, <2>2, <2>3 DEF NeverTwice
  <2>5. FlightsAreRuns'
    BY <2>2 DEF FlightsAreRuns, IsFlying
  <2> QED BY <2>4, <2>5
<1> QED BY <1>1, <1>2, <1>3 DEF Add

\* Keep and Leave both withdraw a map from jobs.
LEMMA ReleaseKeeps ==
  ASSUME IInv, NEW m \in Members, NEW wanted, releaseLocked(m, wanted),
         UNCHANGED <<pc, job>>
  PROVE  NeverTwice' /\ FlightsAreRuns'
<1> TypeOK /\ NeverTwice
  BY DEF IInv
<1>1. \A e \in waiting : Kept(e, m, wanted).key = e.key
  <2> waiting \subseteq Entry
    BY DEF TypeOK
  <2> QED BY EntryOps
<1>2. \A f \in flying : KeptFlight(f, m, wanted).entry.key = f.entry.key
  <2> flying \subseteq Flight
    BY DEF TypeOK
  <2> QED BY FlightOps
<1>3. \A x \in waiting' : \E e \in waiting : x = Kept(e, m, wanted)
  BY DEF releaseLocked
<1>4. flying' = {KeptFlight(f, m, wanted) : f \in flying}
  BY DEF releaseLocked
<1>5. \A x \in waiting' : \E e \in waiting :
         x.key = e.key /\ \A y \in waiting' : y.key = e.key => y = x
  BY <1>1, <1>3 DEF NeverTwice
<1>6. \A x \in flying' : \E f \in flying :
         x.entry.key = f.entry.key
         /\ \A y \in flying' : y.entry.key = f.entry.key => y = x
  BY <1>2, <1>4 DEF NeverTwice
<1>7. \A f \in flying : \E x \in flying' : x.entry.key = f.entry.key
  BY <1>2, <1>4
<1> QED BY <1>5, <1>6, <1>7, SameKeys

LEMMA TakeKeeps ==
  ASSUME IInv, NEW w \in Workers, Take(w)
  PROVE  NeverTwice' /\ FlightsAreRuns'
<1> TypeOK /\ NeverTwice /\ FlightsAreRuns
  BY DEF IInv
<1>1. PICK e \in waiting :
         /\ ~IsFlying(e.key)
         /\ waiting' = waiting \ {e}
         /\ flying' = flying \cup {[entry |-> e, dropped |-> FALSE]}
         /\ job' = [job EXCEPT ![w] = {e.key}]
  BY DEF Take
<1>2. pc' = [pc EXCEPT ![w] = "run"] /\ pc[w] = "awake"
  BY DEF Take, CanTake
<1> DEFINE new == [entry |-> e, dropped |-> FALSE]
<1>3. new.entry = e
  OBVIOUS
<1> HIDE DEF new
<1>4. flying' = flying \cup {new}
  BY <1>1 DEF new
<1>5. \A f \in flying : f.entry.key # e.key
  BY <1>1 DEF IsFlying
<1>6. NeverTwice'
  BY <1>1, <1>3, <1>4, <1>5 DEF NeverTwice
<1>7. \A v \in Workers : job'[v] = IF v = w THEN {e.key} ELSE job[v]
  BY <1>1 DEF TypeOK
<1>8. \A v \in Workers : e.key \notin job[v]
  BY <1>1 DEF FlightsAreRuns
<1>9. \A v \in Workers : pc'[v] = IF v = w THEN "run" ELSE pc[v]
  BY <1>2 DEF TypeOK
<1>10. FlightsAreRuns'
  <2>1. \A v \in Workers : pc'[v] = "run" <=> job'[v] # {}
    BY <1>7, <1>9 DEF FlightsAreRuns
  <2>2. \A v \in Workers : \A k \in job'[v] :
           job'[v] = {k} /\ \E f \in flying' : f.entry.key = k
    BY <1>3, <1>4, <1>7 DEF FlightsAreRuns, IsFlying
  <2>3. \A f \in flying' : \E v \in Workers : f.entry.key \in job'[v]
    <3>1. job[w] = {}
      BY <1>2 DEF FlightsAreRuns
    <3> QED BY <1>3, <1>4, <1>7, <3>1 DEF FlightsAreRuns
  <2>4. \A v, x \in Workers : v # x => job'[v] \cap job'[x] = {}
    BY <1>7, <1>8 DEF FlightsAreRuns
  <2> QED BY <2>1, <2>2, <2>3, <2>4 DEF FlightsAreRuns, IsFlying
<1> QED BY <1>6, <1>10

\* A flight that ends takes its own record away and nobody else's.
LEMMA LandKeeps ==
  ASSUME IInv, NEW w \in Workers, Land(w), pc' # pc,
         \A v \in Workers : pc'[v] = "run" <=> v # w /\ pc[v] = "run"
  PROVE  FlightsAreRuns'
<1> TypeOK /\ NeverTwice /\ FlightsAreRuns
  BY DEF IInv
<1>1. flying' = flying \ FlightOf(w)
  BY DEF Land
<1>2. \A v \in Workers : job'[v] = IF v = w THEN {} ELSE job[v]
  BY DEF Land, TypeOK
<1>3. \A f \in flying : f \notin FlightOf(w) <=> f.entry.key \notin job[w]
  BY DEF FlightOf
<1> QED BY <1>1, <1>2, <1>3 DEF FlightsAreRuns, IsFlying

LEMMA FinishKeeps ==
  ASSUME IInv, NEW w \in Workers, Finish(w) \/ GivenUp(w)
  PROVE  NeverTwice' /\ FlightsAreRuns'
<1> TypeOK /\ NeverTwice
  BY DEF IInv
<1>1. NeverTwice'
  BY DEF NeverTwice, Finish, GivenUp, Land
<1>2. pc' # pc /\ \A v \in Workers : pc'[v] = "run" <=> v # w /\ pc[v] = "run"
  BY DEF Finish, GivenUp, Land, TypeOK
<1> QED BY <1>1, <1>2, LandKeeps DEF Finish, GivenUp

LEMMA GiveBackKeeps ==
  ASSUME IInv, NEW w \in Workers, GiveBack(w)
  PROVE  NeverTwice' /\ FlightsAreRuns'
<1> TypeOK /\ NeverTwice
  BY DEF IInv
<1>1. PICK f \in FlightOf(w) :
         waiting' \subseteq waiting \cup {Left(f.entry, MapOf[w])}
  BY DEF GiveBack
<1>2. f \in flying /\ f \in Flight
  BY <1>1 DEF FlightOf, TypeOK
<1>3. Left(f.entry, MapOf[w]).key = f.entry.key
  <2>1. MapOf[w] \in Members
    BY QueueAssumption
  <2> QED BY <1>2, <2>1, FlightOps, EntryOps
<1>4. flying' \subseteq flying /\ f \notin flying'
  BY <1>1 DEF GiveBack, Land
<1>5. NeverTwice'
  BY <1>1, <1>2, <1>3, <1>4 DEF NeverTwice
<1>6. pc' # pc /\ \A v \in Workers : pc'[v] = "run" <=> v # w /\ pc[v] = "run"
  BY DEF GiveBack, Land, TypeOK
<1> QED BY <1>5, <1>6, LandKeeps DEF GiveBack

LEMMA InvStep == IInv /\ [Next]_vars => IInv'
<1> SUFFICES ASSUME IInv, [Next]_vars PROVE NeverTwice' /\ FlightsAreRuns'
  BY TypeStep DEF IInv
<1> TypeOK
  BY DEF IInv
<1> USE DEF queueVars, memberVars, workerVars
<1>1. ASSUME NEW m \in Members, OwnerNext(m)
      PROVE  NeverTwice' /\ FlightsAreRuns'
  <2>1. ASSUME NEW k \in Jobs, Add(m, k) PROVE NeverTwice' /\ FlightsAreRuns'
    BY <2>1, AddKeeps
  <2>2. ASSUME NEW wanted \in SUBSET Jobs, Keep(m, wanted)
        PROVE  NeverTwice' /\ FlightsAreRuns'
    BY <2>2, ReleaseKeeps DEF Keep
  <2>3. CASE Leave(m)
    BY <2>3, ReleaseKeeps DEF Leave
  <2>4. CASE OwnerHook(m)
    BY <2>4, NothingMoves DEF OwnerHook
  <2>5. CASE NewView(m)
    BY <2>5, NothingMoves DEF NewView
  <2>6. ASSUME NEW k \in Tiles, NEW t \in Times, Defer(m, k, t)
        PROVE  NeverTwice' /\ FlightsAreRuns'
    BY <2>6, NothingMoves DEF Defer
  <2>7. CASE NoteRender(m)
    BY <2>7, NothingMoves DEF NoteRender
  <2> QED BY <1>1, <2>1, <2>2, <2>3, <2>4, <2>5, <2>6, <2>7 DEF OwnerNext
<1>2. ASSUME NEW w \in Workers, WorkerNext(w) \/ Cancel(w)
      PROVE  NeverTwice' /\ FlightsAreRuns'
  <2>1. CASE Take(w)
    BY <2>1, TakeKeeps
  <2>2. CASE Finish(w) \/ GivenUp(w)
    BY <2>2, FinishKeeps
  <2>3. CASE GiveBack(w)
    BY <2>3, GiveBackKeeps
  <2>4. CASE Refused(w)
    BY <2>4, NothingMoves DEF Refused, TypeOK
  <2>5. CASE NothingToDo(w)
    BY <2>5, NothingMoves DEF NothingToDo, CanTake, TypeOK
  <2>6. CASE FireHook(w)
    BY <2>6, NothingMoves DEF FireHook, TypeOK
  <2>7. CASE TakeToken(w)
    BY <2>7, NothingMoves DEF TakeToken, TypeOK
  <2>8. CASE Quit(w)
    BY <2>8, NothingMoves DEF Quit, TypeOK
  <2>9. CASE Cancel(w)
    BY <2>9, NothingMoves DEF Cancel
  <2> QED
    BY <1>2, <2>1, <2>2, <2>3, <2>4, <2>5, <2>6, <2>7, <2>8, <2>9 DEF WorkerNext
<1>3. CASE UNCHANGED vars
  BY <1>3, NothingMoves DEF vars
<1> QED BY <1>1, <1>2, <1>3 DEF Next

LEMMA InvInit == Init => IInv
  BY QueueAssumption
  DEF Init, IInv, TypeOK, NeverTwice, FlightsAreRuns, IsFlying, OwnerStates,
      WorkerStates

LEMMA Invariance == Spec => []IInv
  BY InvInit, InvStep, PTL DEF Spec

\* One piece of work is never held twice and never both waits and flies, for
\* any number of maps and goroutines: takeLocked's defect branch is dead code.
THEOREM WorkIsHeldOnce == Spec => []NeverTwice
<1>1. IInv => NeverTwice
  BY DEF IInv
<1> QED BY <1>1, Invariance, PTL

\* A Work that ran a job always finds the flight it recorded, and no two Works
\* run the same job: finish's defect branch is dead code.
THEOREM EveryRunIsRecorded == Spec => []FlightsAreRuns
<1>1. IInv => FlightsAreRuns
  BY DEF IInv
<1> QED BY <1>1, Invariance, PTL

-----------------------------------------------------------------------------
(***************************************************************************)
(* Who work is held for.  WantedByOpenMaps is inductive with the types     *)
(* alone: each operation that lets a map go also lets the emptied entry go *)
(* or marks the emptied flight dropped.                                    *)
(***************************************************************************)

LEMMA WantedAdd ==
  ASSUME TypeOK, WantedByOpenMaps, NEW m \in Members, NEW k \in Jobs, Add(m, k)
  PROVE  WantedByOpenMaps'
<1> waiting \subseteq Entry /\ flying \subseteq Flight
  BY DEF TypeOK
<1>1. closed' = closed /\ m \notin closed
  BY DEF Add, Owner, memberVars
<1>2. CASE JoinFlight(m, k)
  <2>1. \A f \in flying :
           JoinedFlight(f, m).entry.wanters = f.entry.wanters \cup {m}
    <3> TAKE f \in flying
    <3>1. JoinedFlight(f, m).entry = Joined(f.entry, m) /\ f.entry \in Entry
      BY FlightOps
    <3> QED BY <3>1, EntryOps
  <2> QED BY <1>1, <1>2, <2>1 DEF JoinFlight, WantedByOpenMaps
<1>3. CASE JoinWaiting(m, k)
  <2>1. \A e \in waiting : JoinedAt(e, m).wanters = e.wanters \cup {m}
    BY EntryOps
  <2> QED BY <1>1, <1>3, <2>1 DEF JoinWaiting, WantedByOpenMaps
<1>4. CASE Enqueue(m, k)
  <2> DEFINE new == [key |-> k, wanters |-> {m}, view |-> view[m],
                     seq |-> seq + 1]
  <2>1. new.wanters = {m}
    OBVIOUS
  <2>2. waiting' \subseteq waiting \cup {new} /\ flying' = flying
    BY <1>4, HoldOnlyDrops DEF Enqueue
  <2> HIDE DEF new
  <2> QED BY <1>1, <2>1, <2>2 DEF WantedByOpenMaps
<1> QED BY <1>2, <1>3, <1>4 DEF Add

\* Letting go, whether or not the map then leaves.
LEMMA WantedRelease ==
  ASSUME TypeOK, WantedByOpenMaps, NEW m \in Members, NEW wanted,
         releaseLocked(m, wanted),
         closed' = closed \/ (wanted = {} /\ closed' = closed \cup {m})
  PROVE  WantedByOpenMaps'
<1>1. \A x \in waiting' : x.wanters # {} /\ x.wanters \cap closed' = {}
  <2> SUFFICES ASSUME NEW x \in waiting'
               PROVE  x.wanters # {} /\ x.wanters \cap closed' = {}
    OBVIOUS
  <2>1. PICK e \in waiting : x = Kept(e, m, wanted)
    BY DEF releaseLocked
  <2>2. e \in Entry
    BY DEF TypeOK
  <2>3. Left(e, m).wanters = e.wanters \ {m}
    BY <2>2, EntryOps
  <2>4. x.wanters # {}
    BY DEF releaseLocked
  <2>5. x = e \/ x = Left(e, m)
    BY <2>1 DEF Kept
  <2>6. wanted = {} => x = Left(e, m)
    BY <2>1 DEF Kept
  <2> QED BY <2>3, <2>4, <2>5, <2>6 DEF WantedByOpenMaps
<1>2. \A y \in flying' : /\ y.entry.wanters \cap closed' = {}
                         /\ y.entry.wanters = {} => y.dropped
  <2> SUFFICES ASSUME NEW f \in flying
               PROVE  LET y == KeptFlight(f, m, wanted)
                      IN  /\ y.entry.wanters \cap closed' = {}
                          /\ y.entry.wanters = {} => y.dropped
    BY DEF releaseLocked
  <2>1. f \in Flight /\ f.entry \in Entry
    BY FlightOps DEF TypeOK, Flight
  <2>2. Left(f.entry, m).wanters = f.entry.wanters \ {m}
    BY <2>1, EntryOps
  <2>3. CASE m \in f.entry.wanters /\ f.entry.key \notin wanted
    <3>1. /\ KeptFlight(f, m, wanted).entry = Left(f.entry, m)
          /\ f.entry.wanters = {m} => KeptFlight(f, m, wanted).dropped
      BY <2>3 DEF KeptFlight
    <3> QED BY <2>2, <2>3, <3>1 DEF WantedByOpenMaps
  <2>4. CASE ~(m \in f.entry.wanters /\ f.entry.key \notin wanted)
    <3>1. KeptFlight(f, m, wanted) = f
      BY <2>4 DEF KeptFlight
    <3> QED BY <2>4, <3>1 DEF WantedByOpenMaps
  <2> QED BY <2>3, <2>4
<1> QED BY <1>1, <1>2 DEF WantedByOpenMaps

LEMMA WantedTake ==
  ASSUME TypeOK, WantedByOpenMaps, NEW w \in Workers, Take(w)
  PROVE  WantedByOpenMaps'
<1>1. PICK e \in waiting :
         /\ waiting' = waiting \ {e}
         /\ flying' = flying \cup {[entry |-> e, dropped |-> FALSE]}
  BY DEF Take
<1>2. closed' = closed
  BY DEF Take
<1> DEFINE new == [entry |-> e, dropped |-> FALSE]
<1>3. new.entry = e
  OBVIOUS
<1> HIDE DEF new
<1>4. flying' = flying \cup {new}
  BY <1>1 DEF new
<1> QED BY <1>1, <1>2, <1>3, <1>4 DEF WantedByOpenMaps

LEMMA WantedGiveBack ==
  ASSUME TypeOK, WantedByOpenMaps, NEW w \in Workers, GiveBack(w)
  PROVE  WantedByOpenMaps'
<1>1. PICK f \in FlightOf(w) :
         waiting' = IF Left(f.entry, MapOf[w]).wanters = {} THEN waiting
                    ELSE waiting \cup {Left(f.entry, MapOf[w])}
  BY DEF GiveBack
<1>2. f \in flying /\ f \in Flight
  BY <1>1 DEF FlightOf, TypeOK
<1>3. Left(f.entry, MapOf[w]).wanters = f.entry.wanters \ {MapOf[w]}
  <2>1. MapOf[w] \in Members
    BY QueueAssumption
  <2> QED BY <1>2, <2>1, FlightOps, EntryOps
<1>4. flying' \subseteq flying /\ closed' = closed
  BY DEF GiveBack, Land, memberVars
<1> QED BY <1>1, <1>2, <1>3, <1>4 DEF WantedByOpenMaps

LEMMA WantedStep == TypeOK /\ WantedByOpenMaps /\ [Next]_vars => WantedByOpenMaps'
<1> SUFFICES ASSUME TypeOK, WantedByOpenMaps, [Next]_vars
             PROVE  WantedByOpenMaps'
  OBVIOUS
<1> USE DEF queueVars, memberVars
<1>1. ASSUME UNCHANGED <<waiting, flying, closed>> PROVE WantedByOpenMaps'
  BY <1>1 DEF WantedByOpenMaps
<1>2. ASSUME NEW m \in Members, OwnerNext(m) PROVE WantedByOpenMaps'
  <2>1. ASSUME NEW k \in Jobs, Add(m, k) PROVE WantedByOpenMaps'
    BY <2>1, WantedAdd
  <2>2. ASSUME NEW wanted \in SUBSET Jobs, Keep(m, wanted)
        PROVE  WantedByOpenMaps'
    BY <2>2, WantedRelease DEF Keep
  <2>3. CASE Leave(m)
    BY <2>3, WantedRelease DEF Leave
  <2>4. CASE OwnerHook(m) \/ NewView(m) \/ NoteRender(m)
             \/ \E k \in Tiles, t \in Times : Defer(m, k, t)
    BY <1>1, <2>4 DEF OwnerHook, NewView, NoteRender, Defer
  <2> QED BY <1>2, <2>1, <2>2, <2>3, <2>4 DEF OwnerNext
<1>3. ASSUME NEW w \in Workers, WorkerNext(w) \/ Cancel(w)
      PROVE  WantedByOpenMaps'
  <2>1. CASE Take(w)
    BY <2>1, WantedTake
  <2>2. CASE GiveBack(w)
    BY <2>2, WantedGiveBack
  <2>3. CASE Finish(w) \/ GivenUp(w)
    <3>1. waiting' = waiting /\ flying' \subseteq flying /\ closed' = closed
      BY <2>3 DEF Finish, GivenUp, Land
    <3> QED BY <3>1 DEF WantedByOpenMaps
  <2>4. CASE Refused(w) \/ NothingToDo(w) \/ FireHook(w) \/ TakeToken(w)
             \/ Quit(w) \/ Cancel(w)
    BY <1>1, <2>4 DEF Refused, NothingToDo, FireHook, TakeToken, Quit, Cancel
  <2> QED BY <1>3, <2>1, <2>2, <2>3, <2>4 DEF WorkerNext
<1>4. CASE UNCHANGED vars
  BY <1>1, <1>4 DEF vars
<1> QED BY <1>2, <1>3, <1>4 DEF Next

\* No work is held, run or given back for a map that has left or for nobody.
THEOREM WorkIsWanted == Spec => []WantedByOpenMaps
<1>1. Init => WantedByOpenMaps
  BY DEF Init, WantedByOpenMaps
<1> QED BY <1>1, WantedStep, QueueTypes, PTL DEF Spec

\* Every job is in one place, recorded by the call that runs it, for an open
\* map (the queue of work.go, its flights and run.go).
THEOREM JobsAreAccounted == Spec => []EveryJobIsAccounted
<1>1. NeverTwice /\ FlightsAreRuns /\ WantedByOpenMaps => EveryJobIsAccounted
  BY DEF EveryJobIsAccounted
<1> QED BY <1>1, WorkIsHeldOnce, EveryRunIsRecorded, WorkIsWanted, PTL

-----------------------------------------------------------------------------
(***************************************************************************)
(* The wakes.  WholePumpWakes counts the sleepers of a pump against the    *)
(* tokens of its host's channel.  A step either puts nobody to sleep and   *)
(* makes nothing pending without a hook to come, or fills the channel; and *)
(* filling it is enough when the channel is as wide as the pump, which the *)
(* one-slot instance of the README shows to be needed.  That a give-back   *)
(* loses no hook it owes needs FiresWhileFiring.                           *)
(***************************************************************************)

\* Each host made its wake channel as wide as its pump.
PumpIsWide == \A m \in Members : Cardinality({w \in Workers : MapOf[w] = m}) <= Slots

Sleepers(m) == {w \in Workers : MapOf[w] = m /\ pc[w] = "asleep"}

PumpWakes(m) == Pending(m) # {} /\ ~HookDue(m) => Cardinality(Sleepers(m)) <= tokens[m]

\* Only a cancelled Work on its way out has hooks left to call.
FiresWhileFiring == \A w \in Workers : wake[w] # {} => pc[w] = "fire"

WakeInv == TypeOK /\ FiresWhileFiring /\ WholePumpWakes

LEMMA WholeIsEach == WholePumpWakes <=> \A m \in Members : PumpWakes(m)
  BY DEF WholePumpWakes, PumpWakes, Sleepers

LEMMA SleepersCount ==
  ASSUME NEW m \in Members
  PROVE  /\ IsFiniteSet(Sleepers(m)) /\ Cardinality(Sleepers(m)) \in Nat
         /\ PumpIsWide => Cardinality(Sleepers(m)) <= Slots
<1> DEFINE pump == {w \in Workers : MapOf[w] = m}
<1>1. IsFiniteSet(pump) /\ pump \subseteq Workers
  BY QueueAssumption, FS_Subset
<1>2. /\ IsFiniteSet(Sleepers(m)) /\ Cardinality(Sleepers(m)) <= Cardinality(pump)
  <2>1. Sleepers(m) \subseteq pump
    BY DEF Sleepers
  <2> QED BY <1>1, <2>1, FS_Subset
<1>3. Cardinality(Sleepers(m)) \in Nat /\ Cardinality(pump) \in Nat
  BY <1>1, <1>2, FS_CardinalityType
<1> QED BY <1>2, <1>3, QueueAssumption DEF PumpIsWide

LEMMA SleepersCountNext ==
  ASSUME PumpIsWide, NEW m \in Members
  PROVE  Cardinality(Sleepers(m)') <= Slots
<1>1. Sleepers(m)' = {w \in Workers : MapOf[w] = m /\ pc'[w] = "asleep"}
  BY DEF Sleepers
<1> DEFINE pump == {w \in Workers : MapOf[w] = m}
<1>2. IsFiniteSet(pump) /\ Sleepers(m)' \subseteq pump
  BY <1>1, QueueAssumption, FS_Subset
<1>3. IsFiniteSet(Sleepers(m)') /\ Cardinality(Sleepers(m)') <= Cardinality(pump)
  BY <1>2, FS_Subset
<1>4. Cardinality(Sleepers(m)') \in Nat /\ Cardinality(pump) \in Nat
  BY <1>2, <1>3, FS_CardinalityType
<1> QED BY <1>3, <1>4, QueueAssumption DEF PumpIsWide

\* A map that gains no sleeper, loses no token and comes to owe no wake.
LEMMA NobodyFallsAsleep ==
  ASSUME TypeOK, NEW m \in Members, PumpWakes(m), Sleepers(m)' \subseteq Sleepers(m),
         tokens'[m] = tokens[m],
         Pending(m)' # {} /\ ~HookDue(m)' => Pending(m) # {} /\ ~HookDue(m)
  PROVE  PumpWakes(m)'
<1>1. /\ Cardinality(Sleepers(m)') <= Cardinality(Sleepers(m))
      /\ Cardinality(Sleepers(m)') \in Nat
  BY SleepersCount, FS_Subset, FS_CardinalityType
<1>2. Cardinality(Sleepers(m)) \in Nat /\ tokens[m] \in Nat
  BY SleepersCount, QueueAssumption DEF TypeOK
<1> QED BY <1>1, <1>2 DEF PumpWakes

\* A map whose channel was filled.
LEMMA FilledWakes ==
  ASSUME PumpIsWide, NEW m \in Members, tokens'[m] = Slots
  PROVE  PumpWakes(m)'
<1>1. Cardinality(Sleepers(m)') <= Slots
  BY SleepersCountNext
<1>2. Cardinality(Sleepers(m))' = Cardinality(Sleepers(m)')
  OBVIOUS
<1> QED BY <1>1, <1>2 DEF PumpWakes

\* Asking for a job makes pending work only for the map that asks.
LEMMA AddPends ==
  ASSUME TypeOK, NEW m \in Members, NEW k \in Jobs, Add(m, k),
         NEW n \in Members, n # m, Pending(n)' # {}
  PROVE  Pending(n) # {}
<1> waiting \subseteq Entry
  BY DEF TypeOK
<1>1. PICK x \in waiting' : n \in x.wanters
  BY DEF Pending, PendingIn
<1>2. CASE JoinFlight(m, k)
  BY <1>1, <1>2 DEF JoinFlight, Pending, PendingIn
<1>3. CASE JoinWaiting(m, k)
  <2>1. PICK e \in waiting : x = IF e.key = k THEN JoinedAt(e, m) ELSE e
    BY <1>1, <1>3 DEF JoinWaiting
  <2>2. JoinedAt(e, m).wanters = e.wanters \cup {m}
    BY EntryOps
  <2>3. n \in e.wanters
    BY <1>1, <2>1, <2>2
  <2> QED BY <2>3 DEF Pending, PendingIn
<1>4. CASE Enqueue(m, k)
  <2> DEFINE new == [key |-> k, wanters |-> {m}, view |-> view[m], seq |-> seq + 1]
  <2>1. waiting' \subseteq waiting \cup {new}
    BY <1>4, HoldOnlyDrops DEF Enqueue
  <2>2. new.wanters = {m}
    OBVIOUS
  <2> HIDE DEF new
  <2> QED BY <1>1, <2>1, <2>2 DEF Pending, PendingIn
<1> QED BY <1>2, <1>3, <1>4 DEF Add

\* Letting go leaves no map with pending work that had none.
LEMMA ReleasePends ==
  ASSUME TypeOK, NEW m \in Members, NEW wanted, releaseLocked(m, wanted),
         NEW n \in Members, Pending(n)' # {}
  PROVE  Pending(n) # {}
<1>1. PICK x \in waiting' : n \in x.wanters
  BY DEF Pending, PendingIn
<1>2. PICK e \in waiting : x = Kept(e, m, wanted)
  BY DEF releaseLocked
<1>3. e \in Entry
  BY DEF TypeOK
<1>4. Left(e, m).wanters = e.wanters \ {m}
  BY <1>3, EntryOps
<1>5. n \in e.wanters
  BY <1>1, <1>2, <1>4 DEF Kept
<1> QED BY <1>5 DEF Pending, PendingIn

LEMMA AddWakes ==
  ASSUME WakeInv, NEW m \in Members, NEW k \in Jobs, Add(m, k), NEW n \in Members
  PROVE  PumpWakes(n)'
<1> TypeOK
  BY DEF WakeInv
<1>1. Sleepers(n)' = Sleepers(n) /\ tokens' = tokens /\ wake' = wake
  BY DEF Add, workerVars, Sleepers
<1>2. owner[m] = "free"
  BY DEF Add, Owner
<1>3. owner' = [owner EXCEPT ![m] =
                  IF Pending(m) = {} /\ Pending(m)' # {} THEN "hook" ELSE "free"]
  BY DEF Add, Pending
<1>4. Pending(n)' # {} /\ ~HookDue(n)' => Pending(n) # {} /\ ~HookDue(n)
  <2>1. CASE n = m
    BY <1>1, <1>2, <1>3, <2>1 DEF HookDue, TypeOK
  <2>2. CASE n # m
    <3>1. owner'[n] = owner[n]
      BY <1>3, <2>2 DEF TypeOK
    <3>2. HookDue(n)' <=> HookDue(n)
      BY <1>1, <3>1 DEF HookDue
    <3> QED BY <2>2, <3>2, AddPends
  <2> QED BY <2>1, <2>2
<1> QED BY <1>1, <1>4, NobodyFallsAsleep, WholeIsEach DEF WakeInv

\* The maps a give-back makes pending are owed their hook by that call.
LEMMA GiveBackWakes ==
  ASSUME WakeInv, NEW w \in Workers, GiveBack(w), NEW n \in Members
  PROVE  PumpWakes(n)'
<1> TypeOK
  BY DEF WakeInv
<1> DEFINE Given(f) == Left(f.entry, MapOf[w])
<1>1. PICK f \in FlightOf(w) :
         /\ waiting' = IF Given(f).wanters = {} THEN waiting ELSE waiting \cup {Given(f)}
         /\ wake' = [wake EXCEPT ![w] = {m \in Given(f).wanters : Pending(m) = {}}]
  BY DEF GiveBack
<1> HIDE DEF Given
<1>2. pc[w] = "run" /\ tokens' = tokens /\ owner' = owner
  BY DEF GiveBack, Land
<1>3. wake[w] = {}
  BY <1>2 DEF WakeInv, FiresWhileFiring
<1>4. \A v \in Workers : v # w => wake'[v] = wake[v] /\ pc'[v] = pc[v]
  BY <1>1 DEF GiveBack, TypeOK
<1>5. wake'[w] = {m \in Given(f).wanters : Pending(m) = {}}
  BY <1>1 DEF TypeOK
<1>6. Sleepers(n)' \subseteq Sleepers(n)
  <2>1. pc'[w] \in {"gone", "fire"}
    BY DEF GiveBack, TypeOK
  <2> QED BY <1>4, <2>1 DEF Sleepers
<1>7. HookDue(n) => HookDue(n)'
  BY <1>2, <1>3, <1>4 DEF HookDue
<1>8. Pending(n)' # {} /\ Pending(n) = {} => HookDue(n)'
  BY <1>1, <1>5 DEF Pending, PendingIn, HookDue
<1> QED BY <1>2, <1>6, <1>7, <1>8, NobodyFallsAsleep, WholeIsEach DEF WakeInv

LEMMA FireHookWakes ==
  ASSUME PumpIsWide, WakeInv, NEW w \in Workers, FireHook(w), NEW n \in Members
  PROVE  PumpWakes(n)'
<1> TypeOK
  BY DEF WakeInv
<1>1. PICK m \in wake[w] : /\ tokens' = [tokens EXCEPT ![m] = Slots]
                           /\ wake' = [wake EXCEPT ![w] = @ \ {m}]
  BY DEF FireHook
<1>2. CASE n = m
  BY <1>1, <1>2, FilledWakes DEF TypeOK
<1>3. CASE n # m
  <2>1. tokens'[n] = tokens[n] /\ \A v \in Workers : n \in wake'[v] <=> n \in wake[v]
    BY <1>1, <1>3 DEF TypeOK
  <2>2. owner' = owner /\ waiting' = waiting
    BY DEF FireHook, queueVars
  <2>3. Sleepers(n)' \subseteq Sleepers(n)
    BY DEF FireHook, Sleepers, TypeOK
  <2> QED BY <2>1, <2>2, <2>3, NobodyFallsAsleep, WholeIsEach
          DEF WakeInv, Pending, PendingIn, HookDue
<1> QED BY <1>2, <1>3

LEMMA TokenWakes ==
  ASSUME WakeInv, NEW w \in Workers, TakeToken(w), NEW n \in Members
  PROVE  PumpWakes(n)'
<1> TypeOK
  BY DEF WakeInv
<1>1. /\ pc[w] = "asleep" /\ pc' = [pc EXCEPT ![w] = "awake"] /\ tokens[MapOf[w]] > 0
      /\ tokens' = [tokens EXCEPT ![MapOf[w]] = @ - 1]
      /\ waiting' = waiting /\ owner' = owner /\ wake' = wake
  BY DEF TakeToken, queueVars
<1>2. (Pending(n)' # {} <=> Pending(n) # {}) /\ (HookDue(n)' <=> HookDue(n))
  BY <1>1 DEF Pending, PendingIn, HookDue
<1>3. CASE MapOf[w] # n
  <2>1. Sleepers(n)' \subseteq Sleepers(n) /\ tokens'[n] = tokens[n]
    BY <1>1, <1>3, QueueAssumption DEF Sleepers, TypeOK
  <2> QED BY <1>2, <2>1, NobodyFallsAsleep, WholeIsEach DEF WakeInv
<1>4. CASE MapOf[w] = n
  <2>1. Sleepers(n)' = Sleepers(n) \ {w} /\ w \in Sleepers(n)
    BY <1>1, <1>4 DEF Sleepers, TypeOK
  <2>2. /\ Cardinality(Sleepers(n)') = Cardinality(Sleepers(n)) - 1
        /\ Cardinality(Sleepers(n)) \in Nat
    BY <2>1, SleepersCount, FS_RemoveElement
  <2>3. tokens'[n] = tokens[n] - 1 /\ tokens[n] \in Nat
    BY <1>1, <1>4, QueueAssumption DEF TypeOK
  <2> QED BY <1>2, <2>2, <2>3, WholeIsEach DEF WakeInv, PumpWakes
<1> QED BY <1>3, <1>4

\* A step that moves neither work nor wakes, and puts nobody to sleep.
LEMMA RestWakes ==
  ASSUME WakeInv, UNCHANGED <<owner, wake, tokens>>,
         \A m \in Members : Pending(m)' # {} => Pending(m) # {},
         \A w \in Workers : pc'[w] = "asleep" => pc[w] = "asleep"
  PROVE  WholePumpWakes'
<1> SUFFICES ASSUME NEW n \in Members PROVE PumpWakes(n)'
  BY DEF WholePumpWakes, PumpWakes, Sleepers
<1>1. Sleepers(n)' \subseteq Sleepers(n)
  BY DEF Sleepers
<1>2. HookDue(n)' <=> HookDue(n)
  BY DEF HookDue
<1> QED BY <1>1, <1>2, NobodyFallsAsleep, WholeIsEach DEF WakeInv

LEMMA WakesKept == PumpIsWide /\ WakeInv /\ [Next]_vars => WholePumpWakes'
<1> SUFFICES ASSUME PumpIsWide, WakeInv, [Next]_vars PROVE WholePumpWakes'
  OBVIOUS
<1> TypeOK
  BY DEF WakeInv
<1> USE DEF queueVars, memberVars, workerVars
<1>0. ASSUME UNCHANGED waiting PROVE \A m \in Members : Pending(m)' = Pending(m)
  BY <1>0 DEF Pending, PendingIn
<1>1. ASSUME \A n \in Members : PumpWakes(n)' PROVE WholePumpWakes'
  BY <1>1 DEF WholePumpWakes, PumpWakes, Sleepers
<1>2. ASSUME NEW m \in Members, OwnerNext(m) PROVE WholePumpWakes'
  <2>1. ASSUME NEW k \in Jobs, Add(m, k) PROVE WholePumpWakes'
    BY <1>1, <2>1, AddWakes
  <2>2. CASE OwnerHook(m)
    <3> SUFFICES ASSUME NEW n \in Members PROVE PumpWakes(n)'
      BY <1>1
    <3>1. CASE n = m
      BY <2>2, <3>1, FilledWakes DEF OwnerHook, TypeOK
    <3>2. CASE n # m
      <4>1. tokens'[n] = tokens[n] /\ owner'[n] = owner[n]
        BY <2>2, <3>2 DEF OwnerHook, TypeOK
      <4>2. wake' = wake /\ waiting' = waiting /\ pc' = pc
        BY <2>2 DEF OwnerHook
      <4> QED BY <1>0, <4>1, <4>2, NobodyFallsAsleep, WholeIsEach
              DEF WakeInv, HookDue, Sleepers
    <3> QED BY <3>1, <3>2
  <2>3. ASSUME NEW wanted \in SUBSET Jobs, Keep(m, wanted) PROVE WholePumpWakes'
    BY <2>3, ReleasePends, RestWakes DEF Keep
  <2>4. CASE Leave(m)
    BY <2>4, ReleasePends, RestWakes DEF Leave
  <2>5. CASE NewView(m) \/ NoteRender(m) \/ \E k \in Tiles, t \in Times : Defer(m, k, t)
    BY <1>0, <2>5, RestWakes DEF NewView, NoteRender, Defer
  <2> QED BY <1>2, <2>1, <2>2, <2>3, <2>4, <2>5 DEF OwnerNext
<1>3. ASSUME NEW w \in Workers, WorkerNext(w) \/ Cancel(w) PROVE WholePumpWakes'
  <2>1. CASE Refused(w) \/ Quit(w) \/ Cancel(w)
    <3>1. UNCHANGED <<waiting, owner, wake, tokens>>
      BY <2>1 DEF Refused, Quit, Cancel
    <3>2. \A v \in Workers : pc'[v] = "asleep" => pc[v] = "asleep"
      BY <2>1 DEF Refused, Quit, Cancel, TypeOK
    <3> QED BY <1>0, <3>1, <3>2, RestWakes
  <2>2. CASE Take(w) \/ Finish(w) \/ GivenUp(w)
    <3>1. UNCHANGED <<owner, wake, tokens>> /\ waiting' \subseteq waiting
      BY <2>2 DEF Take, Finish, GivenUp, Land
    <3>2. \A v \in Workers : pc'[v] = "asleep" => pc[v] = "asleep"
      BY <2>2 DEF Take, Finish, GivenUp, TypeOK
    <3> QED BY <3>1, <3>2, RestWakes DEF Pending, PendingIn
  <2>3. CASE NothingToDo(w)
    BY <2>3 DEF NothingToDo, WholePumpWakes, Pending, PendingIn
  <2>4. CASE GiveBack(w)
    BY <1>1, <2>4, GiveBackWakes
  <2>5. CASE FireHook(w)
    BY <1>1, <2>5, FireHookWakes
  <2>6. CASE TakeToken(w)
    BY <1>1, <2>6, TokenWakes
  <2> QED BY <1>3, <2>1, <2>2, <2>3, <2>4, <2>5, <2>6 DEF WorkerNext
<1>4. CASE UNCHANGED vars
  BY <1>0, <1>4, RestWakes DEF vars
<1> QED BY <1>2, <1>3, <1>4 DEF Next

LEMMA FiringKept == TypeOK /\ FiresWhileFiring /\ [Next]_vars => FiresWhileFiring'
<1> SUFFICES ASSUME TypeOK, FiresWhileFiring, [Next]_vars PROVE FiresWhileFiring'
  OBVIOUS
<1>1. ASSUME NEW m \in Members, OwnerNext(m) PROVE UNCHANGED <<pc, wake>>
  BY <1>1 DEF OwnerNext, Add, OwnerHook, Keep, Leave, NewView, Defer, NoteRender, workerVars
<1>2. ASSUME NEW w \in Workers, WorkerNext(w) \/ Cancel(w) PROVE FiresWhileFiring'
  <2>1. CASE GiveBack(w) \/ FireHook(w)
    BY <2>1 DEF GiveBack, FireHook, FiresWhileFiring, TypeOK
  <2>2. CASE ~(GiveBack(w) \/ FireHook(w))
    <3>1. wake' = wake /\ (pc' = pc \/ (pc[w] # "fire" /\ pc' = [pc EXCEPT ![w] = pc'[w]]))
      BY <1>2, <2>2 DEF WorkerNext, Refused, Take, NothingToDo, CanTake, Finish, GivenUp, Land,
                       TakeToken, Quit, Cancel, TypeOK
    <3> QED BY <3>1 DEF FiresWhileFiring, TypeOK
  <2> QED BY <2>1, <2>2
<1>3. CASE UNCHANGED <<pc, wake>>
  BY <1>3 DEF FiresWhileFiring
<1> QED BY <1>1, <1>2, <1>3 DEF Next, vars, workerVars

\* No lost wake, as wide as the pump, for any maps and goroutines: while work
\* waits and no hook call is to come, every sleeper has a token (Add and
\* finish of internal/work, and the host's channel).
THEOREM NoWakeIsLost == ASSUME PumpIsWide PROVE Spec => []WholePumpWakes
<1>1. Init => FiresWhileFiring /\ WholePumpWakes
  BY DEF Init, FiresWhileFiring, WholePumpWakes, Pending, PendingIn
<1>2. TypeOK /\ FiresWhileFiring /\ WholePumpWakes /\ [Next]_vars
        => (FiresWhileFiring /\ WholePumpWakes)'
  BY WakesKept, FiringKept DEF WakeInv
<1> QED BY <1>1, <1>2, QueueTypes, PTL DEF Spec

-----------------------------------------------------------------------------
(***************************************************************************)
(* The queue implements WorkPromise: what it serves is the demands, what   *)
(* runs is the jobs of its goroutines.  Each operation is one step of the  *)
(* promise or none; NeverTwice and FlightsAreRuns say that a job shed or   *)
(* begun runs nowhere, and that one that ends waits nowhere.               *)
(***************************************************************************)

\* The queue serves the demand of a map for a job.
Serves(m, k) ==
    \/ \E e \in waiting : e.key = k /\ m \in e.wanters
    \/ \E f \in flying : f.entry.key = k /\ m \in f.entry.wanters /\ ~f.dropped

LEMMA DemandsAreServed == Demands = {d \in Members \X Jobs : Serves(d[1], d[2])}
  BY DEF Demands, Serves

LEMMA DemandsAreServedNext ==
  Demands' = {d \in Members \X Jobs : Serves(d[1], d[2])'}
  BY DEF Demands, Serves

\* What pushes another out goes alone: no two entries each go first.
LEMMA HoldDropsOne ==
  ASSUME NEW q, q \subseteq Entry
  PROVE  \/ Hold(q) = q
         \/ \E e \in q : Hold(q) = q \ {e} /\ \A b \in q \ {e} : DropsBefore(e, b)
<1> DEFINE first == {e \in q : \A b \in q \ {e} : DropsBefore(e, b)}
<1>1. \A e \in q : Rank(e) \in 1..3 /\ e.seq \in Nat
  BY DEF Rank, Entry
<1>2. \A e, b \in q : ~(DropsBefore(e, b) /\ DropsBefore(b, e))
  BY <1>1 DEF DropsBefore
<1>3. \A e, b \in first : e = b
  BY <1>2
<1>4. Hold(q) = q \/ Hold(q) = q \ first
  BY DEF Hold, dropOneLocked
<1>5. first = {} \/ \E e \in q : first = {e} /\ \A b \in q \ {e} : DropsBefore(e, b)
  BY <1>3
<1> QED BY <1>4, <1>5

LEMMA AddAsks ==
  ASSUME IInv, NEW m \in Members, NEW k \in Jobs, Add(m, k)
  PROVE  Promise!Next \/ UNCHANGED <<Demands, job>>
<1> TypeOK /\ NeverTwice /\ FlightsAreRuns /\ waiting \subseteq Entry /\ flying \subseteq Flight
  BY DEF IInv, TypeOK
<1>0. job' = job
  BY DEF Add, workerVars
<1>1. CASE JoinFlight(m, k)
  <2>1. waiting' = waiting
        /\ flying' = {IF f.entry.key = k THEN JoinedFlight(f, m) ELSE f : f \in flying}
    BY <1>1 DEF JoinFlight
  <2>2. PICK f \in flying : f.entry.key = k
    BY <1>1 DEF JoinFlight, IsFlying
  <2>3. \A g \in flying : g.entry.key = k => g = f
    BY <2>2 DEF NeverTwice
  <2>4. /\ JoinedFlight(f, m).entry.key = k /\ JoinedFlight(f, m).dropped = f.dropped
        /\ JoinedFlight(f, m).entry.wanters = f.entry.wanters \cup {m}
    <3>1. /\ f.entry \in Entry /\ JoinedFlight(f, m).dropped = f.dropped
          /\ JoinedFlight(f, m).entry = Joined(f.entry, m)
      BY FlightOps
    <3>2. /\ Joined(f.entry, m).key = f.entry.key
          /\ Joined(f.entry, m).wanters = f.entry.wanters \cup {m}
      BY <3>1, EntryOps
    <3> QED BY <2>2, <3>1, <3>2
  <2>5. \A n \in Members, j \in Jobs :
           Serves(n, j)' <=> Serves(n, j) \/ (n = m /\ j = k /\ ~f.dropped)
    <3> TAKE n \in Members, j \in Jobs
    <3>1. CASE j # k
      BY <2>1, <2>3, <2>4, <3>1 DEF Serves
    <3>2. CASE j = k
      BY <2>1, <2>2, <2>3, <2>4, <3>2 DEF Serves
    <3> QED BY <3>1, <3>2
  <2>6. CASE f.dropped
    BY <1>0, <2>5, <2>6, DemandsAreServed, DemandsAreServedNext
  <2>7. CASE ~f.dropped
    <3>1. Demands' = Demands \cup {<<m, k>>}
      BY <2>5, <2>7, DemandsAreServed, DemandsAreServedNext
    <3>2. Promise!Ask(m, k, {})
      BY <1>0, <3>1 DEF Promise!Ask
    <3> QED BY <3>2 DEF Promise!Next
  <2> QED BY <2>6, <2>7
<1>2. CASE JoinWaiting(m, k)
  <2>1. flying' = flying
        /\ waiting' = {IF e.key = k THEN JoinedAt(e, m) ELSE e : e \in waiting}
    BY <1>2 DEF JoinWaiting
  <2>2. \E e \in waiting : e.key = k
    BY <1>2 DEF JoinWaiting, IsWaiting
  <2>3. \A e \in waiting : JoinedAt(e, m).key = e.key
                           /\ JoinedAt(e, m).wanters = e.wanters \cup {m}
    BY EntryOps
  <2>4. \A n \in Members, j \in Jobs : Serves(n, j)' <=> Serves(n, j) \/ (n = m /\ j = k)
    <3> TAKE n \in Members, j \in Jobs
    <3>1. CASE j # k
      BY <2>1, <2>3, <3>1 DEF Serves
    <3>2. CASE j = k
      BY <2>1, <2>2, <2>3, <3>2 DEF Serves
    <3> QED BY <3>1, <3>2
  <2>5. Demands' = Demands \cup {<<m, k>>}
    BY <2>4, DemandsAreServed, DemandsAreServedNext
  <2>6. Promise!Ask(m, k, {})
    BY <1>0, <2>5 DEF Promise!Ask
  <2> QED BY <2>6 DEF Promise!Next
<1>3. CASE Enqueue(m, k)
  <2> DEFINE new == [key |-> k, wanters |-> {m}, view |-> view[m], seq |-> seq + 1]
             q == waiting \cup {new}
  <2>1. new.key = k /\ new.wanters = {m} /\ new \in Entry
    BY DEF Entry, TypeOK
  <2>2. /\ waiting' = Hold(q) /\ flying' = flying
        /\ (\A e \in waiting : e.key # k) /\ (\A f \in flying : f.entry.key # k)
    BY <1>3 DEF Enqueue, IsFlying, IsWaiting
  <2> HIDE DEF new
  <2>3. \A e, b \in q : e.key = b.key => e = b
    BY <2>1, <2>2 DEF NeverTwice
  <2>4. CASE waiting' = q
    <3>1. \A n \in Members, j \in Jobs : Serves(n, j)' <=> Serves(n, j) \/ (n = m /\ j = k)
      BY <2>1, <2>2, <2>4 DEF Serves
    <3>2. Demands' = Demands \cup {<<m, k>>}
      BY <3>1, DemandsAreServed, DemandsAreServedNext
    <3>3. Promise!Ask(m, k, {})
      BY <1>0, <3>2 DEF Promise!Ask
    <3> QED BY <3>3 DEF Promise!Next
  <2>5. ASSUME NEW e \in q, waiting' = q \ {e} PROVE Promise!Next
    <3>1. e.key \in Jobs /\ \A f \in flying : f.entry.key # e.key
      BY <2>1, <2>2 DEF NeverTwice, Entry
    <3>2. \A w \in Workers : e.key \notin job[w]
      BY <3>1 DEF FlightsAreRuns, IsFlying
    <3>3. \A n \in Members, j \in Jobs :
             Serves(n, j)' <=> (Serves(n, j) \/ (n = m /\ j = k)) /\ j # e.key
      <4> TAKE n \in Members, j \in Jobs
      <4>1. CASE j = e.key
        BY <2>2, <2>3, <2>5, <3>1, <4>1 DEF Serves
      <4>2. CASE j # e.key
        BY <2>1, <2>2, <2>5, <4>2 DEF Serves
      <4> QED BY <4>1, <4>2
    <3>4. Demands' = {d \in Demands \cup {<<m, k>>} : d[2] \notin {e.key}}
      BY <3>3, DemandsAreServed, DemandsAreServedNext
    <3>5. Promise!Ask(m, k, {e.key})
      BY <1>0, <3>2, <3>4 DEF Promise!Ask, Promise!Idle
    <3> QED BY <3>1, <3>5 DEF Promise!Next
  <2>6. q \subseteq Entry
    BY <2>1
  <2> QED BY <2>2, <2>4, <2>5, <2>6, HoldDropsOne
<1> QED BY <1>1, <1>2, <1>3 DEF Add

\* Keep and Leave withdraw the map's demands outside the set it still wants.
LEMMA ReleaseLetsGo ==
  ASSUME IInv, NEW m \in Members, NEW wanted \in SUBSET Jobs, releaseLocked(m, wanted),
         UNCHANGED job
  PROVE  Promise!Next
<1> TypeOK /\ waiting \subseteq Entry /\ flying \subseteq Flight
  BY DEF IInv, TypeOK
<1>1. waiting' = {e \in {Kept(x, m, wanted) : x \in waiting} : e.wanters # {}}
      /\ flying' = {KeptFlight(f, m, wanted) : f \in flying}
  BY DEF releaseLocked
<1>2. \A e \in waiting :
         /\ Kept(e, m, wanted).key = e.key
         /\ Kept(e, m, wanted).wanters = IF e.key \in wanted THEN e.wanters ELSE e.wanters \ {m}
  BY EntryOps DEF Kept
<1>3. \A f \in flying :
         /\ KeptFlight(f, m, wanted).entry.key = f.entry.key
         /\ KeptFlight(f, m, wanted).entry.wanters =
              IF f.entry.key \in wanted THEN f.entry.wanters ELSE f.entry.wanters \ {m}
         /\ KeptFlight(f, m, wanted).dropped <=>
              (f.dropped \/ (f.entry.key \notin wanted /\ f.entry.wanters = {m}))
  <2> SUFFICES ASSUME NEW f \in flying
               PROVE /\ KeptFlight(f, m, wanted).entry.key = f.entry.key
                     /\ KeptFlight(f, m, wanted).entry.wanters =
                          IF f.entry.key \in wanted THEN f.entry.wanters ELSE f.entry.wanters \ {m}
                     /\ KeptFlight(f, m, wanted).dropped <=>
                          (f.dropped \/ (f.entry.key \notin wanted /\ f.entry.wanters = {m}))
    OBVIOUS
  <2>1. f.entry \in Entry /\ f.dropped \in BOOLEAN
    BY FlightOps
  <2>2. Left(f.entry, m).key = f.entry.key /\ Left(f.entry, m).wanters = f.entry.wanters \ {m}
    BY <2>1, EntryOps
  <2>3. CASE m \in f.entry.wanters /\ f.entry.key \notin wanted
    <3>1. /\ KeptFlight(f, m, wanted).entry = Left(f.entry, m)
          /\ KeptFlight(f, m, wanted).dropped <=> (f.dropped \/ f.entry.wanters = {m})
      BY <2>3 DEF KeptFlight
    <3> QED BY <2>2, <2>3, <3>1
  <2>4. CASE ~(m \in f.entry.wanters /\ f.entry.key \notin wanted)
    <3>1. KeptFlight(f, m, wanted) = f
      BY <2>4 DEF KeptFlight
    <3> QED BY <2>1, <2>4, <3>1
  <2> QED BY <2>3, <2>4
<1> DEFINE gone == Jobs \ wanted
<1>4. \A n \in Members, k \in Jobs : Serves(n, k)' <=> Serves(n, k) /\ ~(n = m /\ k \in gone)
  <2> TAKE n \in Members, k \in Jobs
  <2>1. (\E e \in waiting' : e.key = k /\ n \in e.wanters)
          <=> (\E e \in waiting : e.key = k /\ n \in e.wanters) /\ ~(n = m /\ k \in gone)
    BY <1>1, <1>2, ZenonT(40)
  <2>2. (\E f \in flying' : f.entry.key = k /\ n \in f.entry.wanters /\ ~f.dropped)
          <=> (\E f \in flying : f.entry.key = k /\ n \in f.entry.wanters /\ ~f.dropped)
              /\ ~(n = m /\ k \in gone)
    <3>1. \A f \in flying :
             (/\ KeptFlight(f, m, wanted).entry.key = k
              /\ n \in KeptFlight(f, m, wanted).entry.wanters
              /\ ~KeptFlight(f, m, wanted).dropped)
             <=> (/\ f.entry.key = k /\ n \in f.entry.wanters /\ ~f.dropped
                  /\ ~(n = m /\ k \in gone))
      <4> TAKE f \in flying
      <4>1. CASE f.entry.key \in wanted
        BY <1>3, <4>1
      <4>2. CASE f.entry.key \notin wanted
        <5>1. n \in f.entry.wanters /\ n # m => f.entry.wanters # {m}
          OBVIOUS
        <5>2. k = f.entry.key => k \in gone
          BY <4>2
        <5> HIDE DEF gone
        <5>3. /\ KeptFlight(f, m, wanted).entry.key = f.entry.key
              /\ KeptFlight(f, m, wanted).entry.wanters = f.entry.wanters \ {m}
              /\ KeptFlight(f, m, wanted).dropped <=> (f.dropped \/ f.entry.wanters = {m})
          BY <1>3, <4>2
        <5> QED BY <5>1, <5>2, <5>3
      <4> QED BY <4>1, <4>2
    <3> QED BY <1>1, <3>1
  <2> QED BY <2>1, <2>2 DEF Serves
<1> HIDE DEF gone
<1>5. Demands' = {d \in Demands : ~(d[1] = m /\ d[2] \in gone)}
  BY <1>4, DemandsAreServed, DemandsAreServedNext
<1>6. Promise!LetGo(m, gone)
  BY <1>5 DEF Promise!LetGo
<1> QED BY <1>6 DEF Promise!Next, gone

LEMMA TakeBegins ==
  ASSUME IInv, WantedByOpenMaps, NEW w \in Workers, Take(w)
  PROVE  Promise!Next
<1> TypeOK /\ NeverTwice /\ FlightsAreRuns /\ waiting \subseteq Entry
  BY DEF IInv, TypeOK
<1>1. PICK e \in waiting :
         /\ ~IsFlying(e.key)
         /\ waiting' = waiting \ {e}
         /\ flying' = flying \cup {[entry |-> e, dropped |-> FALSE]}
         /\ job' = [job EXCEPT ![w] = {e.key}]
  BY DEF Take
<1> DEFINE new == [entry |-> e, dropped |-> FALSE]
<1>2. new.entry = e /\ ~new.dropped
  OBVIOUS
<1>3. flying' = flying \cup {new}
  BY <1>1
<1> HIDE DEF new
<1>4. \A n \in Members, k \in Jobs : Serves(n, k)' <=> Serves(n, k)
  BY <1>1, <1>2, <1>3 DEF Serves
<1>5. Demands' = Demands
  BY <1>4, DemandsAreServed, DemandsAreServedNext
<1>6. e.key \in Jobs /\ \E m \in Members : <<m, e.key>> \in Demands
  <2>1. e.key \in Jobs /\ e.wanters \subseteq Members /\ e.wanters # {}
    BY DEF Entry, WantedByOpenMaps
  <2>2. \A m \in e.wanters : Serves(m, e.key)
    BY DEF Serves
  <2> QED BY <2>1, <2>2, DemandsAreServed
<1>7. job[w] = {}
  BY DEF FlightsAreRuns, Take, CanTake
<1>8. \A v \in Workers : e.key \notin job[v]
  BY <1>1 DEF FlightsAreRuns
<1>9. Promise!Begin(w, e.key)
  BY <1>1, <1>5, <1>6, <1>7, <1>8 DEF Promise!Begin, Promise!Idle
<1> QED BY <1>6, <1>9 DEF Promise!Next

LEMMA FinishEnds ==
  ASSUME IInv, NEW w \in Workers, Finish(w) \/ GivenUp(w)
  PROVE  Promise!Next
<1> TypeOK /\ NeverTwice /\ FlightsAreRuns
  BY DEF IInv
<1>1. /\ waiting' = waiting /\ flying' = flying \ FlightOf(w)
      /\ job' = [job EXCEPT ![w] = {}] /\ job[w] # {}
  BY DEF Finish, GivenUp, Land, FlightsAreRuns
<1>2. \A e \in waiting : e.key \notin job[w]
  BY DEF FlightsAreRuns, NeverTwice, IsFlying
<1>3. \A n \in Members, k \in Jobs : Serves(n, k)' <=> Serves(n, k) /\ k \notin job[w]
  BY <1>1, <1>2 DEF Serves, FlightOf
<1>4. Demands' = {d \in Demands : d[2] \notin job[w]}
  BY <1>3, DemandsAreServed, DemandsAreServedNext
<1>5. Promise!End(w)
  BY <1>1, <1>4 DEF Promise!End
<1> QED BY <1>5 DEF Promise!Next

LEMMA GiveBackAbandons ==
  ASSUME IInv, NEW w \in Workers, GiveBack(w)
  PROVE  Promise!Next
<1> TypeOK /\ NeverTwice /\ FlightsAreRuns /\ flying \subseteq Flight
  BY DEF IInv, TypeOK
<1>1. /\ flying' = flying \ FlightOf(w) /\ job' = [job EXCEPT ![w] = {}] /\ job[w] # {}
  BY DEF GiveBack, Land, FlightsAreRuns
<1>2. PICK f \in FlightOf(w) :
         /\ ~f.dropped
         /\ waiting' = IF Left(f.entry, MapOf[w]).wanters = {} THEN waiting
                       ELSE waiting \cup {Left(f.entry, MapOf[w])}
  BY DEF GiveBack
<1>3. f \in flying /\ f.entry.key \in job[w] /\ job[w] = {f.entry.key}
  BY DEF FlightOf, FlightsAreRuns
<1>4. FlightOf(w) = {f}
  BY <1>3 DEF FlightOf, NeverTwice
<1>5. /\ Left(f.entry, MapOf[w]).key = f.entry.key
      /\ Left(f.entry, MapOf[w]).wanters = f.entry.wanters \ {MapOf[w]}
  <2>1. f.entry \in Entry
    BY <1>3, QueueAssumption, FlightOps
  <2>2. MapOf[w] \in Members
    BY QueueAssumption
  <2> QED BY <2>1, <2>2, EntryOps
<1>6. \A e \in waiting : e.key # f.entry.key
  BY <1>3 DEF NeverTwice
<1>7. \A n \in Members, k \in Jobs :
         Serves(n, k)' <=> Serves(n, k) /\ ~(n = MapOf[w] /\ k \in job[w])
  <2> TAKE n \in Members, k \in Jobs
  <2>1. CASE k = f.entry.key
    <3>1. Serves(n, k) <=> n \in f.entry.wanters
      BY <1>2, <1>3, <1>6, <2>1 DEF Serves, NeverTwice
    <3>2. Serves(n, k)' <=> n \in f.entry.wanters \ {MapOf[w]}
      <4>1. \A g \in flying' : g.entry.key # k
        BY <1>1, <1>3, <2>1 DEF FlightOf
      <4> QED BY <1>2, <1>5, <1>6, <2>1, <4>1 DEF Serves
    <3> QED BY <1>3, <2>1, <3>1, <3>2
  <2>2. CASE k # f.entry.key
    BY <1>1, <1>2, <1>3, <1>4, <1>5, <2>2 DEF Serves
  <2> QED BY <2>1, <2>2
<1>8. Demands' = {d \in Demands : ~(d[1] = MapOf[w] /\ d[2] \in job[w])}
  BY <1>7, DemandsAreServed, DemandsAreServedNext
<1>9. Promise!Abandon(w)
  BY <1>1, <1>8 DEF Promise!Abandon
<1> QED BY <1>9 DEF Promise!Next

LEMMA PromiseStep ==
  IInv /\ WantedByOpenMaps /\ [Next]_vars => [Promise!Next]_(Promise!vars)
<1> SUFFICES ASSUME IInv, WantedByOpenMaps, [Next]_vars
             PROVE  Promise!Next \/ UNCHANGED <<Demands, job>>
  BY DEF Promise!vars
<1> USE DEF queueVars, workerVars
<1>1. ASSUME UNCHANGED <<waiting, flying, job>> PROVE UNCHANGED <<Demands, job>>
  BY <1>1 DEF Demands
<1>2. ASSUME NEW m \in Members, OwnerNext(m)
      PROVE  Promise!Next \/ UNCHANGED <<Demands, job>>
  <2>1. ASSUME NEW k \in Jobs, Add(m, k) PROVE Promise!Next \/ UNCHANGED <<Demands, job>>
    BY <2>1, AddAsks
  <2>2. ASSUME NEW wanted \in SUBSET Jobs, Keep(m, wanted) PROVE Promise!Next
    BY <2>2, ReleaseLetsGo DEF Keep
  <2>3. CASE Leave(m)
    BY <2>3, ReleaseLetsGo DEF Leave
  <2>4. CASE OwnerHook(m) \/ NewView(m) \/ NoteRender(m)
             \/ \E k \in Tiles, t \in Times : Defer(m, k, t)
    BY <1>1, <2>4 DEF OwnerHook, NewView, NoteRender, Defer
  <2> QED BY <1>2, <2>1, <2>2, <2>3, <2>4 DEF OwnerNext
<1>3. ASSUME NEW w \in Workers, WorkerNext(w) \/ Cancel(w)
      PROVE  Promise!Next \/ UNCHANGED <<Demands, job>>
  <2>1. CASE Take(w)
    BY <2>1, TakeBegins
  <2>2. CASE Finish(w) \/ GivenUp(w)
    BY <2>2, FinishEnds
  <2>3. CASE GiveBack(w)
    BY <2>3, GiveBackAbandons
  <2>4. CASE Refused(w) \/ NothingToDo(w) \/ FireHook(w) \/ TakeToken(w) \/ Quit(w) \/ Cancel(w)
    BY <1>1, <2>4 DEF Refused, NothingToDo, FireHook, TakeToken, Quit, Cancel
  <2> QED BY <1>3, <2>1, <2>2, <2>3, <2>4 DEF WorkerNext
<1>4. CASE UNCHANGED vars
  BY <1>1, <1>4 DEF vars
<1> QED BY <1>2, <1>3, <1>4 DEF Next

\* The queue keeps its promise for any maps, goroutines and limit: a job runs
\* in one place, for a demand, and no map loses a job to what another does.
THEOREM QueueKeepsPromise == Spec => KeepsPromise
<1>1. Init => Promise!Init
  BY DEF Init, Promise!Init, Demands
<1> QED
  BY <1>1, PromiseStep, Invariance, WorkIsWanted, PTL DEF Spec, KeepsPromise, Promise!Spec

-----------------------------------------------------------------------------
(* The cap's order.                                                        *)

\* Among entries, the least rank is that of the tiles of a view still shown.
LEMMA ShownTilesRankLeast ==
  ASSUME TypeOK, NEW e \in Entry
  PROVE  /\ Rank(e) \in 1..3
         /\ Rank(e) = 1 <=> e.key \in Tiles /\ \E m \in e.wanters : e.view >= view[m]
<1>1. e.view \in Nat /\ e.wanters \subseteq Members /\ \A m \in Members : view[m] \in Nat
  BY DEF Entry, TypeOK
<1> QED BY <1>1 DEF Rank

\* The jobs a step pushes out.
Shed == {e \in waiting : \A b \in waiting' : b.key # e.key}

LEMMA EnqueueShedsLast ==
  ASSUME TypeOK, NEW m \in Members, NEW k \in Jobs, Enqueue(m, k)
  PROVE  /\ Cardinality(Shed) <= 1
         /\ \A e \in Shed :
               e.key \in Tiles /\ (\E n \in e.wanters : e.view >= view[n]) =>
                   \A b \in waiting' : b.key \in Tiles /\ \E n \in b.wanters : b.view >= view[n]
<1> DEFINE new == [key |-> k, wanters |-> {m}, view |-> view[m], seq |-> seq + 1]
           q == waiting \cup {new}
<1>1. q \subseteq Entry
  BY DEF Entry, TypeOK
<1>2. waiting' = Hold(q)
  BY DEF Enqueue
<1> HIDE DEF new
<1>3. Cardinality({}) = 0
  BY FS_EmptySet
<1>4. CASE waiting' = q
  <2>1. Shed = {}
    BY <1>4 DEF Shed
  <2> QED BY <1>3, <2>1
<1>5. ASSUME NEW last \in q, waiting' = q \ {last}, \A b \in q \ {last} : DropsBefore(last, b)
      PROVE  /\ Cardinality(Shed) <= 1
             /\ \A e \in Shed :
                   e.key \in Tiles /\ (\E n \in e.wanters : e.view >= view[n]) =>
                       \A b \in waiting' : b.key \in Tiles /\ \E n \in b.wanters : b.view >= view[n]
  <2>1. Shed \subseteq {last}
    BY <1>5 DEF Shed
  <2>2. Cardinality(Shed) <= 1
    <3>1. Shed = {} \/ Shed = {last}
      BY <2>1
    <3>2. Cardinality({last}) = 1
      BY FS_Singleton
    <3> QED BY <1>3, <3>1, <3>2
  <2>3. ASSUME last.key \in Tiles, \E n \in last.wanters : last.view >= view[n], NEW b \in waiting'
        PROVE  b.key \in Tiles /\ \E n \in b.wanters : b.view >= view[n]
    <3>1. Rank(last) = 1 /\ Rank(b) \in 1..3 /\ b \in Entry
      BY <1>1, <1>5, <2>3, ShownTilesRankLeast
    <3>2. Rank(last) >= Rank(b)
      BY <1>5, <3>1 DEF DropsBefore
    <3> QED BY <3>1, <3>2, ShownTilesRankLeast
  <2> QED BY <2>1, <2>2, <2>3
<1>6. \/ waiting' = q
      \/ \E last \in q : waiting' = q \ {last} /\ \A b \in q \ {last} : DropsBefore(last, b)
  <2> HIDE DEF q
  <2> QED BY <1>1, <1>2, HoldDropsOne
<1> QED BY <1>4, <1>5, <1>6

\* A job that is queued pushes out at most one other, and a tile of a view
\* still shown only from among its like (dropOneLocked of internal/work).
THEOREM ShownTilesGoLast == Spec => BasemapGoesLast
<1> DEFINE Last == seq' # seq =>
                     /\ Cardinality(Shed) <= 1
                     /\ \A e \in Shed :
                          e.key \in Tiles /\ (\E m \in e.wanters : e.view >= view[m]) =>
                            \A b \in waiting' :
                              b.key \in Tiles /\ \E m \in b.wanters : b.view >= view[m]
<1>1. TypeOK /\ [Next]_vars => Last
  <2> SUFFICES ASSUME TypeOK, Next, seq' # seq PROVE Last
    BY DEF vars, queueVars
  <2>1. PICK m \in Members, k \in Jobs : Enqueue(m, k)
    <3>1. ASSUME NEW m \in Members, OwnerNext(m)
          PROVE  \E k \in Jobs : Enqueue(m, k)
      BY <3>1 DEF OwnerNext, Add, JoinFlight, JoinWaiting, OwnerHook, Keep, Leave, releaseLocked,
                  NewView, Defer, NoteRender, queueVars
    <3>2. ASSUME NEW w \in Workers, WorkerNext(w) \/ Cancel(w) PROVE FALSE
      BY <3>2 DEF WorkerNext, Refused, Take, NothingToDo, Finish, GivenUp, GiveBack, Land, FireHook,
                  TakeToken, Quit, Cancel, queueVars
    <3> QED BY <3>1, <3>2 DEF Next
  <2> QED BY <2>1, EnqueueShedsLast
<1>2. Last => (seq' # seq =>
         LET shed == {e \in waiting : \A b \in waiting' : b.key # e.key}
         IN  /\ Cardinality(shed) <= 1
             /\ \A e \in shed :
                   e.key \in Tiles /\ (\E m \in e.wanters : e.view >= view[m]) =>
                       \A b \in waiting' :
                           /\ b.key \in Tiles
                           /\ \E m \in b.wanters : b.view >= view[m])
  BY DEF Shed
<1> QED BY <1>1, <1>2, QueueTypes, PTL DEF Spec, BasemapGoesLast
=============================================================================
