---------------------------- MODULE MCWorkQueue ----------------------------
(***************************************************************************)
(* Instances of WorkQueue for TLC.                                         *)
(***************************************************************************)
EXTENDS WorkQueue, TLC

CONSTANTS a, b, u, v, s, tile1, tile2, pic

\* A map pumped by two goroutines; another map on its queue has none.
BothForA == u :> a @@ v :> a

\* A map with a pump of one goroutine; another map's host calls Settle.
PumpAndSettle == u :> a @@ s :> b

\* The goroutines of a pump are alike.
Alike == Permutations({u, v})
=============================================================================
