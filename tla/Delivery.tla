------------------------------ MODULE Delivery ------------------------------
(***************************************************************************)
(* Message delivery inside one group of a home region: MessagingService    *)
(* over the Postgres envelope repository and commit ledger, raced by       *)
(* membership changes and by the retention job.                            *)
(*                                                                         *)
(* A request runs as a sequence of awaits, each of them one statement or   *)
(* transaction; a worker holds the locals of one request in flight.        *)
(* Envelope::new stamps (created_at, id) before the row is inserted, from  *)
(* the clock of the server instance that runs the request.  An envelope's  *)
(* id stands for its place in the keyset order of find_pending: rows may   *)
(* appear out of that order, and clocks that disagree may hand out places  *)
(* out of turn.  Transactions are READ COMMITTED.                          *)
(***************************************************************************)
EXTENDS Integers, Sequences, FiniteSets

CONSTANTS
    Device,         \* devices of the region
    Worker,         \* requests that may be in flight at once
    NoDevice,       \* recipient of a broadcast: NULL
    MaxEnvelopes    \* bound: envelopes ever stamped

ASSUME DeliveryAssumption ==
    /\ NoDevice \notin Device
    /\ MaxEnvelopes \in Nat

VARIABLES
    members,    \* group_members
    epoch,      \* groups.epoch
    envs,       \* envelopes
    acks,       \* envelope_acks: <<envelope id, device>>
    stamped,    \* the places handed out
    req,        \* req[w]: the request worker w is running
    log,        \* history: the Commits stored, in the order they were
    owed,       \* history: <<envelope id, device>> delivery still due
    skewed      \* history: <<i, j>>: i was stamped after j, by a clock behind
                \* j's, and comes first

historyVars == <<log, owed, skewed>>
vars == <<members, epoch, envs, acks, stamped, req, log, owed, skewed>>

Kind == {"application", "welcome", "commit"}
Envelope == [id : Nat, sender : Device, recipient : Device \cup {NoDevice},
             kind : Kind, epoch : Nat]

\* A frame keeps the envelope it works on, the epoch the client expects and the
\* devices whose acks are required.
Free == [pc |-> "free"]
Frame == [pc : {"save", "cas", "insert", "snapshot", "ack", "sweep", "commit",
                "delete"},
          dev : Device, env : Envelope, expected : Nat, need : SUBSET Device]

Start(w, pc, d, e, x) ==
    req' = [req EXCEPT ![w] = [pc |-> pc, dev |-> d, env |-> e,
                               expected |-> x, need |-> {}]]
Finish(w) == req' = [req EXCEPT ![w] = Free]

Init ==
    /\ members \in SUBSET Device
    /\ epoch = 0
    /\ envs = {}
    /\ acks = {}
    /\ stamped = {}
    /\ req = [w \in Worker |-> Free]
    /\ log = <<>>
    /\ owed = {}
    /\ skewed = {}

(***************************************************************************)
(* Sending.  check_sender_is_member and Envelope::new are one step: no     *)
(* await separates the answer from the stamp.                              *)
(***************************************************************************)
check_sender_is_member(d) == d \in members

\* Utc::now() of any instance, and a random id among equal times: any place
\* not taken.
Stamp(id) ==
    /\ id \notin stamped
    /\ stamped' = stamped \cup {id}
    /\ skewed' = skewed \cup {<<id, j>> : j \in {k \in stamped : id < k}}

NewEnvelope(id, d, to, kind) ==
    [id |-> id, sender |-> d, recipient |-> to, kind |-> kind, epoch |-> 0]

send_message(w, d) ==
    /\ req[w] = Free
    /\ check_sender_is_member(d)
    /\ \E id \in 1..MaxEnvelopes :
          /\ Stamp(id)
          /\ Start(w, "save", d, NewEnvelope(id, d, NoDevice, "application"), 0)
    /\ UNCHANGED <<members, epoch, envs, acks, log, owed>>

send_welcome(w, d, target) ==
    /\ req[w] = Free
    /\ check_sender_is_member(d)
    /\ \E id \in 1..MaxEnvelopes :
          /\ Stamp(id)
          /\ Start(w, "save", d, NewEnvelope(id, d, target, "welcome"), 0)
    /\ UNCHANGED <<members, epoch, envs, acks, log, owed>>

\* The sender built its Commit against an epoch it has seen.
send_commit(w, d, expected) ==
    /\ req[w] = Free
    /\ check_sender_is_member(d)
    /\ \E id \in 1..MaxEnvelopes :
          /\ Stamp(id)
          /\ Start(w, "cas", d, NewEnvelope(id, d, NoDevice, "commit"), expected)
    /\ UNCHANGED <<members, epoch, envs, acks, log, owed>>

\* History: whoever is to receive e is now owed it.
Recipients(e) == IF e.recipient = NoDevice THEN members \ {e.sender} ELSE {e.recipient}

save(w) ==
    /\ req[w].pc = "save"
    /\ envs' = envs \cup {req[w].env}
    /\ owed' = owed \cup ({req[w].env.id} \X Recipients(req[w].env))
    /\ Finish(w)
    /\ UNCHANGED <<members, epoch, acks, stamped, log, skewed>>

(***************************************************************************)
(* commit_epoch_and_save: the UPDATE takes the group's row lock, which is  *)
(* held until the INSERT has succeeded and the transaction commits.        *)
(***************************************************************************)
GroupRowFree == \A v \in Worker : req[v].pc # "insert"

CasMatchesAny(w) == TRUE                     \* mutant: re-targets the Commit
CasMatches(w) == req[w].expected = epoch

cas_lost(w) ==
    /\ req[w].pc = "cas"
    /\ GroupRowFree
    /\ ~CasMatches(w)
    /\ Finish(w)
    /\ UNCHANGED <<members, epoch, envs, acks, stamped, historyVars>>

cas_won_outside_tx(w) ==                     \* mutant: the epoch is written at once
    /\ req[w].pc = "cas"
    /\ GroupRowFree
    /\ CasMatches(w)
    /\ req' = [req EXCEPT ![w].pc = "insert"]
    /\ epoch' = epoch + 1
    /\ UNCHANGED <<members, envs, acks, stamped, historyVars>>

cas_won(w) ==
    /\ req[w].pc = "cas"
    /\ GroupRowFree
    /\ CasMatches(w)
    /\ req' = [req EXCEPT ![w].pc = "insert"]
    /\ UNCHANGED <<members, epoch, envs, acks, stamped, historyVars>>

insert_commit_as_given(w) ==                 \* mutant: binds commit_envelope.epoch
    /\ req[w].pc = "insert"
    /\ envs' = envs \cup {req[w].env}
    /\ owed' = owed \cup ({req[w].env.id} \X Recipients(req[w].env))
    /\ epoch' = epoch + 1
    /\ log' = Append(log, [id |-> req[w].env.id, expected |-> req[w].expected])
    /\ Finish(w)
    /\ UNCHANGED <<members, acks, stamped, skewed>>

insert_commit(w) ==
    /\ req[w].pc = "insert"
    /\ LET e == [req[w].env EXCEPT !.epoch = epoch + 1]
       IN  /\ envs' = envs \cup {e}
           /\ owed' = owed \cup ({e.id} \X Recipients(e))
    /\ epoch' = epoch + 1
    /\ log' = Append(log, [id |-> req[w].env.id, expected |-> req[w].expected])
    /\ Finish(w)
    /\ UNCHANGED <<members, acks, stamped, skewed>>

(***************************************************************************)
(* Acknowledging.  A broadcast goes through the membership check, the      *)
(* member list and the ack transaction, whose DELETE sees the acks         *)
(* committed before it and its own.  find_by_id and the check are one      *)
(* step: an envelope that goes between them only fails the INSERT below.   *)
(***************************************************************************)
ack_envelope(w, d, e) ==
    /\ req[w] = Free
    /\ e \in envs
    /\ \/ /\ e.recipient = NoDevice
          /\ check_sender_is_member(d)
          /\ Start(w, "snapshot", d, e, 0)
       \/ /\ e.recipient = d
          /\ Start(w, "delete", d, e, 0)
    /\ UNCHANGED <<members, epoch, envs, acks, stamped, historyVars>>

RequiredJustMe(w) == {req[w].dev}            \* mutant: one ack deletes
RequiredWithNull(w) ==                       \* mutant: keeps the NULL recipient
    (members \cup {req[w].env.recipient}) \ {req[w].env.sender}
Required(w) == members \ {req[w].env.sender}

list_members(w) ==
    /\ req[w].pc = "snapshot"
    /\ req' = [req EXCEPT ![w].pc = "ack", ![w].need = Required(w)]
    /\ UNCHANGED <<members, epoch, envs, acks, stamped, historyVars>>

Stored(id) == \E e \in envs : e.id = id

\* A transaction that inserted an ack keeps the envelope's row (foreign key).
HoldsRow(v, id) ==
    /\ req[v].pc \in {"sweep", "commit"}
    /\ req[v].env.id = id
    /\ <<id, req[v].dev>> \notin acks
RowFree(w, id) == \A v \in Worker \ {w} : ~HoldsRow(v, id)

\* INSERT ... ON CONFLICT DO NOTHING; it waits for a transaction that is
\* inserting the same ack, and fails once the envelope is gone.
ack_insert(w) ==
    /\ req[w].pc = "ack"
    /\ \A v \in Worker \ {w} :
          ~(HoldsRow(v, req[w].env.id) /\ req[v].dev = req[w].dev)
    /\ Stored(req[w].env.id)
    /\ req' = [req EXCEPT ![w].pc = "sweep"]
    /\ UNCHANGED <<members, epoch, envs, acks, stamped, historyVars>>

AllAcked(w) == \A d \in req[w].need :
                  d = req[w].dev \/ <<req[w].env.id, d>> \in acks

\* The DELETE finds every required ack: the envelope and its acks go.
ack_last(w) ==
    /\ req[w].pc = "sweep"
    /\ AllAcked(w)
    /\ RowFree(w, req[w].env.id)
    /\ envs' = {e \in envs : e.id # req[w].env.id}
    /\ acks' = {a \in acks : a[1] # req[w].env.id}
    /\ owed' = owed \ {<<req[w].env.id, req[w].dev>>}
    /\ Finish(w)
    /\ UNCHANGED <<members, epoch, stamped, log, skewed>>

ack_not_last(w) ==
    /\ req[w].pc = "sweep"
    /\ ~AllAcked(w)
    /\ req' = [req EXCEPT ![w].pc = "commit"]
    /\ UNCHANGED <<members, epoch, envs, acks, stamped, historyVars>>

ack_commit(w) ==
    /\ req[w].pc = "commit"
    /\ acks' = IF Stored(req[w].env.id)
               THEN acks \cup {<<req[w].env.id, req[w].dev>>} ELSE acks
    /\ owed' = owed \ {<<req[w].env.id, req[w].dev>>}
    /\ Finish(w)
    /\ UNCHANGED <<members, epoch, envs, stamped, log, skewed>>

\* A unicast goes with its recipient's ack.
delete(w) ==
    /\ req[w].pc = "delete"
    /\ envs' = {e \in envs : e.id # req[w].env.id}
    /\ owed' = owed \ {<<req[w].env.id, req[w].dev>>}
    /\ Finish(w)
    /\ UNCHANGED <<members, epoch, acks, stamped, log, skewed>>

\* Any await may be the last: a database error, or the client hangs up and the
\* handler is dropped.  An open transaction is rolled back.
request_fails(w) ==
    /\ req[w] # Free
    /\ Finish(w)
    /\ UNCHANGED <<members, epoch, envs, acks, stamped, historyVars>>

(***************************************************************************)
(* Membership, at the granularity of GroupRepository's transactions.       *)
(***************************************************************************)
accept_pending(d) ==
    /\ d \notin members
    /\ members' = members \cup {d}
    /\ UNCHANGED <<epoch, envs, acks, stamped, req, historyVars>>

\* A removed device is no longer owed the group's broadcasts.
remove_member(d) ==
    /\ d \in members
    /\ members' = members \ {d}
    /\ owed' = {p \in owed : p[2] # d \/ \E e \in envs : e.id = p[1] /\ e.recipient = d}
    /\ UNCHANGED <<epoch, envs, acks, stamped, req, log, skewed>>

(***************************************************************************)
(* Retention: time runs out for the envelopes of S, through their TTL or   *)
(* through DEFAULT_RETENTION_DAYS.  find_pending hides an envelope from    *)
(* the moment its TTL has passed, so passing and delete_expired's sweep    *)
(* are one step; the sweep waits for transactions that hold a row.         *)
(***************************************************************************)
delete_expired(S) ==
    /\ S # {}
    /\ \A w \in Worker, e \in S : ~HoldsRow(w, e.id)
    /\ envs' = envs \ S
    /\ acks' = {a \in acks : \A e \in S : a[1] # e.id}
    /\ owed' = {p \in owed : \A e \in S : p[1] # e.id}
    /\ UNCHANGED <<members, epoch, stamped, req, log, skewed>>

-----------------------------------------------------------------------------
Next ==
    \/ \E w \in Worker :
          \/ \E d \in Device :
                \/ send_message(w, d)
                \/ \E target \in Device : send_welcome(w, d, target)
                \/ \E expected \in 0..epoch : send_commit(w, d, expected)
                \/ \E e \in envs : ack_envelope(w, d, e)
          \/ save(w)
          \/ cas_won(w)
          \/ cas_lost(w)
          \/ insert_commit(w)
          \/ list_members(w)
          \/ ack_insert(w)
          \/ ack_last(w)
          \/ ack_not_last(w)
          \/ ack_commit(w)
          \/ delete(w)
          \/ request_fails(w)
    \/ \E d \in Device : accept_pending(d) \/ remove_member(d)
    \/ \E S \in SUBSET envs : delete_expired(S)

Spec == Init /\ [][Next]_vars

-----------------------------------------------------------------------------
\* Type invariant.
TypeOK ==
    /\ members \subseteq Device
    /\ epoch \in Nat
    /\ envs \subseteq Envelope
    /\ acks \subseteq Nat \X Device
    /\ stamped \subseteq Nat
    /\ req \in [Worker -> {Free} \cup Frame]
    /\ log \in Seq([id : Nat, expected : Nat])
    /\ owed \subseteq Nat \X Device
    /\ skewed \subseteq Nat \X Nat

\* No delivery is lost to somebody else's ack: an envelope that a device was to
\* receive when it was stored, and which the device has neither acked nor lost
\* the membership for, is still stored unless retention took it.  This is what
\* ack_envelope's all-members rule is for, under concurrent acks, joins and
\* removals around its stale member list.
OwedIsStored == \A p \in owed : \E e \in envs : e.id = p[1]

\* An epoch is consumed if and only if the Commit that consumed it was stored,
\* and that Commit was built against the epoch it replaced (commit_ledger's
\* contract), across lost races, failed inserts and dropped requests.
EpochConsumedIffStored ==
    /\ epoch = Len(log)
    /\ \A i \in 1..Len(log) : log[i].expected = i - 1

\* Pollers read Commits in the order they must apply them, unless the clock of
\* the instance that stamped the later one was behind the other's at that time:
\* stamping a Commit before it wins its epoch, with other requests in between,
\* never turns two Commits round by itself.
CommitsInEpochOrder ==
    \A a, b \in envs :
        (a.kind = "commit" /\ b.kind = "commit" /\ a.epoch <= b.epoch)
        => a.id <= b.id \/ <<b.id, a.id>> \in skewed

\* Does not hold (README, 6): useMessages.ts has a group's Commits and messages
\* "always processed in the server's delivery order", as if that were the order of
\* epochs; nothing bounds the disagreement of the servers' clocks.
CommitsNeverReversed ==
    \A a, b \in envs :
        (a.kind = "commit" /\ b.kind = "commit" /\ a.epoch <= b.epoch)
        => a.id <= b.id

\* The home region's ledger implements CommitLog: the two phases of the ledger's
\* transaction, its lost races and its rollbacks are invisible to members, and a
\* stored Commit carries the epoch it won whatever its sender put there.
Ledger == INSTANCE CommitLog WITH
    Id <- 1..MaxEnvelopes,
    stored <- {[id |-> e.id, epoch |-> e.epoch] : e \in {f \in envs : f.kind = "commit"}}
LedgerRefines == Ledger!Spec

\* Does not hold (README, 6): ports/envelope_repo.rs, on ack_broadcast: the envelope is deleted "iff every
\* id in group_member_ids has now acked it".
DeletedWhenAllAcked ==
    [][\A w \in Worker :
          ack_commit(w)
          => \/ ~Stored(req[w].env.id)
             \/ \E d \in req[w].need : <<req[w].env.id, d>> \notin acks']_vars

-----------------------------------------------------------------------------
(***************************************************************************)
(* The invariants behind those: what the theorems of DeliveryProofs rest   *)
(* on.                                                                     *)
(***************************************************************************)
Unsaved == {"save", "cas", "insert"}
Acking == {"snapshot", "ack", "sweep", "commit"}

\* i comes before j, or a clock that was behind stamped j.
Follows(i, j) == i < j \/ <<j, i>> \in skewed

\* A worker inside the ledger built on an epoch it had seen, was stamped after
\* every Commit up to that epoch, and holds the group's row alone.
LedgerFrames ==
    /\ \A w \in Worker : req[w].pc \in {"cas", "insert"} =>
          /\ req[w].expected <= epoch
          /\ \A i \in 1..req[w].expected : Follows(log[i].id, req[w].env.id)
    /\ \A w \in Worker : req[w].pc = "insert" => req[w].expected = epoch
    /\ \A v, w \in Worker : req[v].pc = "insert" /\ req[w].pc = "insert" => v = w

\* The history of accepted Commits, and the Commits still stored.
LogShape ==
    /\ \A i \in 1..Len(log) : log[i].id \in stamped
    /\ \A i, j \in 1..Len(log) : i < j => Follows(log[i].id, log[j].id)
    /\ \A e \in envs : e.kind = "commit" =>
          e.epoch \in 1..Len(log) /\ e.id = log[e.epoch].id

\* Every id was handed out; one not yet saved is nobody else's.
IdsAreFresh ==
    /\ stamped \subseteq 1..MaxEnvelopes
    /\ \A e \in envs : e.id \in stamped
    /\ \A e, f \in envs : e.id = f.id => e = f
    /\ \A a \in acks : a[1] \in stamped
    /\ \A w \in Worker : req[w] # Free => req[w].env.id \in stamped
    /\ \A w \in Worker : req[w].pc \in Unsaved =>
          /\ req[w].env.kind = "commit" <=> req[w].pc # "save"
          /\ \A e \in envs : e.id # req[w].env.id
          /\ \A a \in acks : a[1] # req[w].env.id
          /\ \A v \in Worker \ {w} : req[v] # Free => req[v].env.id # req[w].env.id

\* Who is owed a stored envelope, and what an ack in flight knows of it.
OwedShape ==
    /\ \A p \in owed, e \in envs : e.id = p[1] =>
          IF e.recipient = NoDevice THEN p[2] \in members \ {e.sender}
                                    ELSE p[2] = e.recipient
    /\ acks \cap owed = {}
    /\ \A w \in Worker, e \in envs :
          (req[w].pc \in Acking \cup {"delete"} /\ e.id = req[w].env.id) => e = req[w].env
    /\ \A w \in Worker : req[w].pc \in Acking => req[w].env.recipient = NoDevice
    /\ \A w \in Worker : req[w].pc = "delete" => req[w].env.recipient = req[w].dev
    /\ \A w \in Worker, d \in Device :
          (req[w].pc \in {"ack", "sweep", "commit"} /\ <<req[w].env.id, d>> \in owed)
          => d \in req[w].need

IInv ==
    /\ TypeOK /\ IdsAreFresh
    /\ EpochConsumedIffStored /\ LedgerFrames /\ LogShape
    /\ OwedIsStored /\ OwedShape
=============================================================================
