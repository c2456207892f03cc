------------------------------ MODULE MCHostLoop ------------------------------
(* HostLoop with two goroutines in the pump and a channel of one event.     *)
EXTENDS HostLoop, TLC

CONSTANTS g1, g2, c1, c2

MCReads == {<<"d", "z">>, <<"esc">>, <<"esc", "[">>, <<"1", "A", "m">>, <<"tab", "esc", "O">>, <<"p", "q">>}
AlikePumps == Permutations(Pumps)
=============================================================================
