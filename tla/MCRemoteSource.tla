--------------------------- MODULE MCRemoteSource ---------------------------
(* Small instances of RemoteSource. *)
EXTENDS RemoteSource

Tile(place, tokens) == [place |-> place, odd |-> {}, tokens |-> tokens]
Document(tile, lo, hi) ==
  [within |-> TRUE, tiles |-> <<tile>>, lo |-> lo, hi |-> hi, schema |-> TRUE]

\* Two documents a source may be read by, and one that points elsewhere.
MCSays == [first  |-> Document(Tile("own", <<"z", "x", "y">>), Absent, 2),
           second |-> Document(Tile("own", <<"z", "y", "x">>), 1, Absent),
           astray |-> Document(Tile("other", <<"z", "x", "y">>), Absent, Absent)]
MCDocuments == DOMAIN MCSays

MCPlaces == {"own", "other"}
MCAddresses == {[place |-> "own", prefix |-> FALSE], [place |-> "own", prefix |-> TRUE]}
MCDocumentsTwo == {"first", "astray"}
=============================================================================
