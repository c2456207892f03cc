---------------------------- MODULE WorkPromise ----------------------------
(***************************************************************************)
(* What the work queue promises, without the queue: maps demand jobs, host *)
(* goroutines run them.  A job runs in one place at a time and only when   *)
(* somebody demands it; a demand ends when its job ends, when its own map  *)
(* lets go or gives up, or when a fuller queue sheds a job not running -   *)
(* never because of what another map does to a job both demand.            *)
(***************************************************************************)
CONSTANTS Members, Workers, Jobs, MapOf

VARIABLES
    wanted,     \* demands: pairs of a map and a job
    running     \* per goroutine: the job inside its Work call, if any

vars == <<wanted, running>>

Init ==
    /\ wanted = {}
    /\ running = [w \in Workers |-> {}]

Idle(k) == \A w \in Workers : k \notin running[w]

\* A map demands a job; the queue may shed one job nobody runs.
Ask(m, k, shed) ==
    /\ \A j \in shed : Idle(j)
    /\ wanted' = {d \in wanted \cup {<<m, k>>} : d[2] \notin shed}
    /\ UNCHANGED running

LetGo(m, gone) ==
    /\ wanted' = {d \in wanted : ~(d[1] = m /\ d[2] \in gone)}
    /\ UNCHANGED running

Begin(w, k) ==
    /\ running[w] = {}
    /\ Idle(k)
    /\ \E m \in Members : <<m, k>> \in wanted
    /\ running' = [running EXCEPT ![w] = {k}]
    /\ UNCHANGED wanted

\* The job has run for everybody, or was let go of by everybody.
End(w) ==
    /\ running[w] # {}
    /\ wanted' = {d \in wanted : d[2] \notin running[w]}
    /\ running' = [running EXCEPT ![w] = {}]

\* A cancelled call gives up its own map's demand and no other.
Abandon(w) ==
    /\ running[w] # {}
    /\ wanted' = {d \in wanted : ~(d[1] = MapOf[w] /\ d[2] \in running[w])}
    /\ running' = [running EXCEPT ![w] = {}]

Next ==
    \/ \E m \in Members, k \in Jobs :
          Ask(m, k, {}) \/ \E j \in Jobs : Ask(m, k, {j})
    \/ \E m \in Members, gone \in SUBSET Jobs : LetGo(m, gone)
    \/ \E w \in Workers, k \in Jobs : Begin(w, k)
    \/ \E w \in Workers : End(w) \/ Abandon(w)

Spec == Init /\ [][Next]_vars
=============================================================================
