----------------------------- MODULE MCMapReport -----------------------------
(* MapReport on one place and one overlay: an alert that is measured, an    *)
(* image that is classified, and an alert that is stale before the other.   *)
EXTENDS MapReport, TLC

CONSTANTS al, p, v1, v2, plain, bright, s1, s2, o1, o2, w1, w2

MCOffers ==
  {[kind |-> "alert", valid |-> 1, keeps |-> 1, views |-> {v1}, thin |-> FALSE],
   [kind |-> "alert", valid |-> 3, keeps |-> 2, views |-> {v1, v2}, thin |-> FALSE],
   [kind |-> "image", valid |-> 1, keeps |-> 3, views |-> {}, thin |-> TRUE]}
MCTurns == [q \in AllPlaces |-> {3, 5}]
AlikeWorkers == Permutations(Workers)
MCAllowed == {s1} \X {o1, o2} \union {<<s2, o1>>}
=============================================================================
