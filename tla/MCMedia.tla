------------------------------ MODULE MCMedia ------------------------------
(***************************************************************************)
(* Bounds for Media.                                                       *)
(***************************************************************************)
EXTENDS Media
=============================================================================
