---------------------------- MODULE MCLoopPictures ----------------------------
(* LoopPictures on two maps that share their readings, one id each, three   *)
(* files and a provider.  The loops share frames, and differ in what their  *)
(* frames are read with.                                                    *)
EXTENDS LoopPictures, TLC

CONSTANTS m1, m2, l1, l2, r1, r2, rain, heavy, damaged

\* Colours: 10 and 20 are in the table, 11 is near, 31 is on the gradient.
MCFiles == (rain  :> [colours |-> <<10, 11, 31>>, bytes |-> 3, headed |-> TRUE, whole |-> TRUE])
        @@ (heavy :> [colours |-> <<20, Clear>>, bytes |-> 2, headed |-> TRUE, whole |-> TRUE])
        @@ (damaged :> [colours |-> <<20>>, bytes |-> 2, headed |-> TRUE, whole |-> FALSE])
MCTable == << [colour |-> 10, value |-> 1, missing |-> FALSE],
              [colour |-> 20, value |-> 3, missing |-> FALSE] >>
MCLegends == (1 :> [table |-> MCTable, approximate |-> TRUE,
                    gradient |-> <<[colour |-> 20, value |-> 3], [colour |-> 30, value |-> 6]>>])

Frame(valid, file) == [valid |-> valid, gap |-> FALSE, forecast |-> FALSE, file |-> file]
GapAt(valid) == [valid |-> valid, gap |-> TRUE, forecast |-> FALSE, file |-> rain]
Ahead1(f) == [f EXCEPT !.forecast = TRUE]
Img(frames, table, tolerance, provider) ==
    [frames |-> frames, file |-> rain, table |-> table, exact |-> FALSE,
     tolerance |-> tolerance, provider |-> provider, kind |-> <<2, 5>>]
MCLoopOffers ==
  { Img(<<Frame(1, rain), GapAt(2)>>, <<>>, 1, 1),
    Img(<<GapAt(1), Ahead1(Frame(2, heavy))>>, MCTable, 1, 0),
    Img(<<Frame(1, rain), Frame(2, heavy)>>, MCTable, 3, 1),
    Img(<<>>, MCTable, 1, 0),
    Img(<<Frame(1, damaged)>>, MCTable, 1, 0) }
AlikeLoops == Permutations(LoopMaps) \union Permutations(Readers) \union Permutations(LoopIds)
=============================================================================
