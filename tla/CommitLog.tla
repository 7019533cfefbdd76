----------------------------- MODULE CommitLog ------------------------------
(***************************************************************************)
(* What the port CommitLedger promises the members of a group (ports       *)
(* commit_ledger.rs): the epoch advances by exactly one, together with the *)
(* storing of the Commit that consumed it under the epoch it made, and in  *)
(* no other way; a Commit whose id is stored already is refused as a whole.*)
(* Stored Commits may go (read by all, expired), and none comes back.      *)
(***************************************************************************)
EXTENDS Naturals

CONSTANT Id     \* ids of envelopes

VARIABLES epoch, stored

Init == epoch = 0 /\ stored = {}

Accept(id) ==
    /\ \A c \in stored : c.id # id
    /\ epoch' = epoch + 1
    /\ stored' = stored \cup {[id |-> id, epoch |-> epoch + 1]}

Retire(gone) ==
    /\ stored' = stored \ gone
    /\ UNCHANGED epoch

Next ==
    \/ \E id \in Id : Accept(id)
    \/ \E gone \in SUBSET stored : Retire(gone)

Spec == Init /\ [][Next]_<<epoch, stored>>
=============================================================================
