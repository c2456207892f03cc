--------------------------- MODULE MCShapeGeometry ---------------------------
(* ShapeGeometry on a world of four steps round, and views inside the       *)
(* world, across its edge and wider than it.                                *)
EXTENDS ShapeGeometry

MCLons == -2..2
MCLats == {0, 4}
MCSpend(n) == 2 * n
MCMapViews == {[x |-> 2, y |-> 0, cols |-> 1, rows |-> 9],
               [x |-> 3, y |-> 0, cols |-> 2, rows |-> 9],
               [x |-> -1, y |-> 0, cols |-> 6, rows |-> 3]}
=============================================================================
