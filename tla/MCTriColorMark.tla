--------------------------- MODULE MCTriColorMark ---------------------------
(* Model checking of TriColorMark. *)
EXTENDS TriColorMark
=============================================================================
