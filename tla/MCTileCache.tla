---------------------------- MODULE MCTileCache ----------------------------
(***************************************************************************)
(* Instances of TileCache for TLC: two tiles with one ancestor in common,  *)
(* fetched, and the embedded tile that stands in for all.                  *)
(***************************************************************************)
EXTENDS TileCache, TLC

CONSTANTS left, right, parent, world, a, b

Chain(t) == <<t, parent, world>>

LeftRight == SUBSET {Chain(left), Chain(right)}

Alike == Permutations({a, b}) \cup Permutations({left, right})
=============================================================================
