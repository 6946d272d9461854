------------------------- MODULE MCSafeTreiberStack -------------------------
(* Model checking of SafeTreiberStack. *)
EXTENDS SafeTreiberStack, TLC

Symmetry == Permutations(Threads) \union Permutations(Addrs)
=============================================================================
