------------------------------ MODULE MCVectorTile ------------------------------
(* Small tiles: one or two layers of up to two features, whose geometries   *)
(* hold every command, in place and out of it.                              *)
EXTENDS VectorTile

MCMove(n) == [id |-> MoveTo, count |-> n, points |-> [i \in 1..n |-> <<1, 0>>]]
MCRun(points) == [id |-> LineTo, count |-> Len(points), points |-> points]
MCClose(n) == [id |-> ClosePath, count |-> n, points |-> <<>>]
MCOutline == <<MCMove(1), MCRun(<< <<1, 0>>, <<0, 1>> >>), MCClose(1)>>
MCHole == <<MCMove(1), MCRun(<< <<0, 1>>, <<1, 0>> >>), MCClose(1)>>
MCRound == <<MCMove(1), MCRun(<< <<1, 0>>, <<0, 1>>, <<-1, -1>> >>), MCClose(1)>>

MCGeometries == {<<>>, <<MCMove(2)>>, <<MCMove(1), MCMove(1)>>, <<MCMove(1), MCRun(<< <<1, 1>> >>)>>,
  <<MCMove(1), MCRun(<< <<1, 1>> >>), MCRun(<< <<0, 1>> >>), MCClose(1)>>, <<MCMove(1), MCClose(2)>>,
  <<MCMove(1), MCClose(1)>>, <<MCClose(1)>>, <<MCMove(0)>>, <<[id |-> LineTo, count |-> 2, points |-> << <<0, 0>> >>]>>,
  <<[id |-> 3, count |-> 1, points |-> << <<0, 0>> >>]>>, <<MCMove(1), MCRun(<< <<9, 0>> >>)>>,
  MCOutline, MCHole, MCRound, MCOutline \o MCHole, MCHole \o MCOutline, MCOutline \o MCOutline, MCRound \o MCHole \o MCOutline}

MCTags == << <<1, 1>>, <<2, 2>>, <<3, 3>>, <<4, 3>> >>
MCFeatures == {[kind |-> k, tags |-> <<>>, geometry |-> g] : k \in 0..4, g \in MCGeometries}
  \union {[kind |-> Point, tags |-> t, geometry |-> <<MCMove(1)>>] : t \in {<< <<1, 4>> >>, << <<4, 3>>, <<4, 4>>, <<3, 4>> >>}}
MCFew == {[kind |-> k[1], tags |-> k[2], geometry |-> k[3]] :
  k \in {<<0, <<>>, MCOutline>>, <<1, << <<9, 1>> >>, <<MCMove(1)>> >>, <<1, MCTags, <<MCMove(2)>> >>, <<3, MCTags, MCHole \o MCOutline>>}}

MCLayer(features) ==
  [name |-> "drawn", torn |-> FALSE, version |-> 2, extent |-> 1, features |-> features,
   keys |-> <<"name:lang", "name_lang", "rank", "admin_level">>,
   values |-> <<[form |-> "string", v |-> "b", fields |-> 1], [form |-> "string", v |-> "a", fields |-> 1],
                [form |-> "number", v |-> 4, fields |-> 1], [form |-> "torn", v |-> "", fields |-> 0]>>]
MCOddLayers == LET l == MCLayer(<<>>) IN
  {[l EXCEPT !.name = "other"], [l EXCEPT !.torn = TRUE], [l EXCEPT !.version = 3], [l EXCEPT !.extent = 0]}

MCTiles ==
  {<<MCLayer(<<f>>)>> : f \in MCFeatures}
  \union {<<MCLayer(<<f, g>>)>> : f \in MCFew, g \in MCFeatures}
  \union {<<MCLayer(<<f>>), MCLayer(<<g>>)>> : f \in MCFew, g \in MCFeatures}
  \union {<<l, MCLayer(<<f>>)>> : l \in MCOddLayers, f \in MCFew}

MCBodies == {[format |-> "plain", layers |-> t] : t \in MCTiles}
  \union {[format |-> f, layers |-> <<>>] : f \in {"empty", "picture", "gzip bomb"}}

MCLimits == {[layers |-> 2, features |-> 4, integers |-> 40, keys |-> 4, values |-> 4, extent |-> 1, retained |-> 60],
  [layers |-> 1, features |-> 4, integers |-> 40, keys |-> 4, values |-> 4, extent |-> 1, retained |-> 60],
  [layers |-> 2, features |-> 2, integers |-> 12, keys |-> 4, values |-> 4, extent |-> 1, retained |-> 12]}
================================================================================
