-------------------------- MODULE MCConcurrentMark --------------------------
(* Model checking of ConcurrentMark. *)
EXTENDS ConcurrentMark, TLC

Symmetry == Permutations(Mutators)
=============================================================================
