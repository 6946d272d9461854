--------------------------- MODULE MCRegionClient ---------------------------
(* Model checking of RegionClient. *)
EXTENDS RegionClient
=============================================================================
