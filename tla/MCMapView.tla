------------------------------- MODULE MCMapView -------------------------------
(* A world of sixteen units: four zooms, places on both sides of the       *)
(* antimeridian and of Greenwich, and a box that crosses each.             *)
EXTENDS MapView

MCMinZoom == -1
MCSizes == {<<2, 1>>, <<4, 2>>, <<9, 1>>}
MCSpots == {<<2, 4>>, <<10, 6>>, <<14, 6>>}
MCBoxes == {[w |-> 6, e |-> 12, n |-> 4, s |-> 8]}
MCBounds == {[zoom |-> 1, w |-> 12, e |-> 4, n |-> 2, s |-> 10], [zoom |-> 0, w |-> 4, e |-> 10, n |-> 4, s |-> 12]}
=============================================================================
