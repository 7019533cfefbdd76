---------------------------- MODULE MCGroupClient ----------------------------
(***************************************************************************)
(* GroupClient for a creator and two devices that are alike.               *)
(***************************************************************************)
EXTENDS GroupClient, TLC
CONSTANTS Bob, Carol
Symm == Permutations({Bob, Carol})
=============================================================================
