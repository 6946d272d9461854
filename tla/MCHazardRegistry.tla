-------------------------- MODULE MCHazardRegistry --------------------------
(* Model checking of HazardRegistry. *)
EXTENDS HazardRegistry, TLC

CONSTANTS
  Crew,  \* the users of the first thread; the others are those of the second
  A, B   \* the two threads

TwoThreads == [u \in Users |-> IF u \in Crew THEN A ELSE B]

Symmetry == Permutations(Crew) \union Permutations(Users \ Crew) \union Permutations(Pointers)
=============================================================================
