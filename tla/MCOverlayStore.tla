---------------------------- MODULE MCOverlayStore ----------------------------
(***************************************************************************)
(* Instances of OverlayStore for TLC: two zoom buckets, a shape cache of   *)
(* four vertices, and offers that fit it, fill it, or are larger than it.  *)
(***************************************************************************)
EXTENDS OverlayStore, TLC

CONSTANTS alerts, radar, one, two

Offered(kind, n, coarse, fine, bad) ==
    [kind |-> kind, vertices |-> n, form |-> (0 :> coarse @@ 1 :> fine),
     charge |-> IF kind = "shape" THEN 0 ELSE 1, bad |-> bad]

Small  == Offered("shape", 2, 1, 2, FALSE)
Full   == Offered("shape", 4, 2, 4, FALSE)
Large  == Offered("shape", 6, 3, 6, FALSE)
Field  == Offered("grid", 0, 0, 0, FALSE)
Still  == Offered("image", 0, 0, 0, FALSE)
Loop   == Offered("loop", 0, 0, 0, FALSE)
Broken == Offered("loop", 0, 0, 0, TRUE)

Shapes == {Small, Full, Large}
Two == {Small, Loop}
Pair == {Full, Large, Field, Broken}

Alike2 == Permutations({one, two})
=============================================================================
