---------------------------- MODULE MCOrphanSweep ----------------------------
(***************************************************************************)
(* OrphanSweep for two environments, the last key being the second's.      *)
(***************************************************************************)
EXTENDS OrphanSweep

CONSTANTS First, Second

MCHome == [k \in Key |-> IF k = Max(Key) THEN Second ELSE First]
===============================================================================
