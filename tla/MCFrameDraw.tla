------------------------------ MODULE MCFrameDraw ------------------------------
(* A frame of eight cells by five, with everything that claims its text.    *)
EXTENDS FrameDraw

MCLabel(id, at, width, short) ==
  [id |-> id, anchors |-> <<at>>, width |-> width, short |-> short, rank |-> 1, tight |-> FALSE, fromPoint |-> FALSE, place |-> FALSE]

MCAlert(id, at, moment, width) ==
  [label |-> MCLabel(id, at, width, 1), moment |-> moment, area |-> {at, <<at[1], at[2] + 1>>},
   outline |-> << <<at[1] - 1, at[2]>>, <<at[1], at[2] + 1>>, <<at[1] + 1, at[2]>> >>]

\* An alert drawn as a line has no area, no digits and no shorter form.
MCFront(id, at, moment, width) ==
  [label |-> MCLabel(id, at, width, 0), moment |-> moment, area |-> {}, outline |-> <<>>]

MCPlace(id, at, width, blink) ==
  [at |-> at, glyph |-> 1, blink |-> blink,
   label |-> [MCLabel(id, <<at[1] + 1, at[2]>>, width, 1) EXCEPT !.fromPoint = TRUE, !.place = TRUE]]
MCMarker(at, width, blink) == MCPlace("home", at, width, blink)

MCTile(z, names, paint) == [at |-> <<z, 0, 0, 0>>, exact |-> z = 1, names |-> names, paint |-> paint]
MCTown == [MCLabel("town", <<2, 1>>, 2, 0) EXCEPT !.anchors = << <<2, 1>>, <<6, 3>> >>]
MCCity == [MCLabel("city", <<4, 3>>, 2, 0) EXCEPT !.rank = 0]
MCShallow == MCTile(0, <<MCTown>>, Screen)
MCDeep == MCTile(1, <<MCLabel("cove", <<1, 3>>, 1, 0), MCCity>>, {<<0, 0>>, <<4, 2>>})

MCFrame ==
  [tiles |-> <<MCDeep, MCShallow>>, missing |-> FALSE, budget |-> 2, labels |-> TRUE, palette |-> "p",
   alerts |-> <<MCAlert("flood", <<2, 2>>, "first", 2), MCAlert("storm", <<5, 2>>, "next", 3)>>,
   moment |-> "first", time |-> 2, markers |-> <<MCMarker(<<6, 1>>, 1, TRUE)>>, phase |-> TRUE,
   words |-> <<MCLabel("buoy", <<3, 4>>, 1, 0)>>, bands |-> <<[MCLabel("10", <<0, 3>>, 1, 0) EXCEPT !.tight = TRUE]>>,
   stale |-> 0, footer |-> 0, credit |-> 2, notice |-> 9]

MCInputs == {MCFrame, [MCFrame EXCEPT !.tiles = <<>>, !.alerts = <<MCAlert("flood", <<4, 2>>, "always", 4)>>],
  [MCFrame EXCEPT !.markers = <<>>, !.tiles = <<MCTile(1, <<MCLabel("town", <<7, 1>>, 1, 0)>>, {})>>,
                  !.alerts = <<MCAlert("flood", <<2, 1>>, "always", 3), MCAlert("storm", <<4, 1>>, "next", 3)>>]}

MCTweaks == {
  [moment |-> "next", time |-> 3], [moment |-> "first", time |-> 2], [time |-> 0],
  [palette |-> "q"], [phase |-> FALSE], [stale |-> 3], [footer |-> 4], [labels |-> FALSE], [missing |-> TRUE],
  [budget |-> 1], [notice |-> 4],
  [tiles |-> <<MCShallow>>], [tiles |-> <<MCShallow, MCDeep>>],
  [markers |-> <<MCMarker(<<1, 2>>, 4, FALSE)>>],
  [markers |-> <<MCPlace("mill", <<0, 0>>, 1, FALSE), MCPlace("quay", <<3, 1>>, 5, FALSE), MCPlace("pier", <<7, 3>>, 1, TRUE),
                 MCMarker(<<1, 2>>, 2, FALSE)>>],
  [alerts |-> <<MCFront("front", <<4, 2>>, "always", 3), MCFront("gust", <<5, 2>>, "first", 3), MCAlert("flood", <<3, 3>>, "always", 1),
                MCAlert("storm", <<1, 2>>, "always", 2)>>],
  [alerts |-> <<MCAlert("flood", <<3, 2>>, "always", 4), MCAlert("storm", <<4, 1>>, "always", 5)>>]}
================================================================================
