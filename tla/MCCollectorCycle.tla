-------------------------- MODULE MCCollectorCycle --------------------------
(* Model checking of CollectorCycle. *)
EXTENDS CollectorCycle
=============================================================================
