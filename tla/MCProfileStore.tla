--------------------------- MODULE MCProfileStore ---------------------------
(***************************************************************************)
(* Bounds for ProfileStore.                                                *)
(***************************************************************************)
EXTENDS ProfileStore
=============================================================================
