--------------------------- MODULE MCTreiberStack ---------------------------
(* Model checking of TreiberStack. *)
EXTENDS TreiberStack
=============================================================================
