------------------------------ MODULE MCArena ------------------------------
(* Model checking of Arena. *)
EXTENDS Arena
=============================================================================
