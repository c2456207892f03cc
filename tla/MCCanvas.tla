------------------------------- MODULE MCCanvas -------------------------------
(* A canvas of two cells: lines from beyond the margin on every side, areas *)
(* with and without a hole, and every marker.                               *)
EXTENDS Canvas, TLC

CONSTANTS red, blue

MCEnds == {<<0, 0>>, <<3, 2>>, <<1, 3>>, <<2, 0>>, <<-7, 1>>, <<9, 5>>, <<1, -8>>}
MCStreets == {[dots |-> l, border |-> <<FALSE, FALSE>>, ring |-> FALSE, width |-> w] : l \in {m \in MCEnds \X MCEnds : m[1] # m[2]}, w \in {1, 3}}
  \cup {[dots |-> << <<0, 1>>, <<3, 1>>, <<3, 3>> >>, border |-> <<FALSE, TRUE, FALSE>>, ring |-> TRUE, width |-> 1]}
MCAreas == { << <<a, b, <<3, 4>>, c>> >> : a \in {<<0, 0>>, <<2, 1>>}, b \in {<<4, 0>>, <<3, 1>>}, c \in {<<0, 4>>, <<1, 3>>, <<-2, 2>>} }
  \cup { << << <<0, 0>>, <<4, 0>>, <<4, 4>>, <<0, 4>> >>, << <<1, 1>>, <<3, 1>>, <<2, 3>> >>, << <<0, 0>>, <<1, 1>> >> >>,
         << << <<0, 0>>, <<1, 1>> >> >> }
MCOverlayRings == {<< <<1, 0>>, <<1, 3>> >>, << <<0, 0>>, <<3, 3>>, <<3, 0>> >>}
MCMarks == {[at |-> <<0, 1>>, shape |-> s, radius |-> r] : s \in {"ring", "disc"}, r \in 1..9}
  \cup {[at |-> <<2, 2>>, shape |-> s, radius |-> 3] : s \in {"dot", "cross", "diamond"}}
AlikeInks == Permutations(Inks)
==============================================================================
