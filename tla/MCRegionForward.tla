-------------------------- MODULE MCRegionForward --------------------------
(***************************************************************************)
(* RegionForward on a small instance.  Liveness is checked, so tasks are   *)
(* not declared symmetric.                                                 *)
(***************************************************************************)
EXTENDS RegionForward
=============================================================================
