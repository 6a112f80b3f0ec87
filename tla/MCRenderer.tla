------------------------------ MODULE MCRenderer ------------------------------
(* Two columns: a line goes over several row boundaries.  The arrow covers two  *)
(* cells at the origin, four in the middle, and one at the right edge.          *)
EXTENDS Renderer

MCPositions == {Origin, [X |-> 5, Y |-> 27], [X |-> 8, Y |-> 32]}
=============================================================================
