--------------------------- MODULE MCTilePipeline ---------------------------
(***************************************************************************)
(* Instances of TilePipeline for TLC.                                      *)
(***************************************************************************)
EXTENDS TilePipeline, TLC

CONSTANTS near, far, above, s1, s2, en, fr, u, v

\* Every tile its own root: no stand-in but an embedded tile of its own.
Roots == [t \in Tiles |-> <<t>>]

\* The tile above stands in for the two below it.
Below == [t \in Tiles |-> IF t = above THEN <<above>> ELSE <<t, above>>]

JustNear == {{near}}
NearOrBoth == {{near}, {near, far}}
NearOrNone == {{near}, {}}

OnlyS1 == {s1}
S1OrS2 == {s1, s2}
S1OrNone == {s1, Embedded}
AllOrNone == {s1, s2, Embedded}

\* Other sources, languages and views are reached from these by an upset.
FromOne == Init /\ net = s1 /\ lang = en /\ view = {near}

FromOneSpec == FromOne /\ [][Next]_vars

Alike == Permutations({u, v})
=============================================================================
