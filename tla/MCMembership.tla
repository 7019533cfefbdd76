---------------------------- MODULE MCMembership ----------------------------
(***************************************************************************)
(* Membership for a few interchangeable devices, groups and requests.      *)
(***************************************************************************)
EXTENDS Membership, TLC

Symmetry == Permutations(Device) \cup Permutations(Group) \cup Permutations(Worker)
=============================================================================
