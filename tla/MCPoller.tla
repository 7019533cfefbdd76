------------------------------ MODULE MCPoller ------------------------------
(***************************************************************************)
(* Poller for two devices with paging: one row per page.                   *)
(***************************************************************************)
EXTENDS Poller, TLC

WorkerSymmetry == Permutations(Worker)
=============================================================================
