---------------------------- MODULE MCRevocation ----------------------------
(***************************************************************************)
(* Small instances of Revocation.  Workers are interchangeable, and so are *)
(* groups.                                                                 *)
(***************************************************************************)
EXTENDS Revocation, TLC

Symmetry == Permutations(Worker) \cup Permutations(Group)
=============================================================================
