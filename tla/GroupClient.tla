---------------------------- MODULE GroupClient ----------------------------
(***************************************************************************)
(* One kind-Group conversation among command-line clients: `group add`,    *)
(* `group remove`, `group add --resume`, `accept`, `decline`, `send` and   *)
(* the inbox's handling of the group's envelopes, each against the         *)
(* Delivery Service's commit ledger and ack rule.                          *)
(*                                                                         *)
(* A device's profile is durable; a command runs alone on it (the store's  *)
(* lock), and may die or return an error between any two of its writes and *)
(* calls.  A posted Commit may be lost, answered, answered too late or     *)
(* executed after the client gave up.  The run is shorter than the inbox's *)
(* 24 h grace, so nothing is acked as junk (module Inbox has the grace),   *)
(* and than the server's retention.                                        *)
(***************************************************************************)
EXTENDS Integers, Sequences, FiniteSets, FiniteSetsExt

CONSTANTS
    Device,         \* the devices that may be in the group
    Creator,        \* the one that created it
    NoDevice,       \* recipient of a broadcast
    None,           \* no group state, record or request
    MaxCommits,     \* bound: Commits ever staged
    MaxSends,       \* bound: application messages one device encrypts per epoch
    MaxEnvelopes,   \* bound: envelopes ever stored
    MaxUpsets       \* bound: commands that die or return an error

ASSUME GroupClientAssumption ==
    /\ Creator \in Device
    /\ NoDevice \notin Device
    /\ MaxCommits \in Nat /\ MaxSends \in Nat
    /\ MaxEnvelopes \in Nat /\ MaxUpsets \in Nat

VARIABLES
    \* the Delivery Service
    log,        \* the Commits accepted: groups.epoch is its length
    members,    \* group_members
    pending,    \* pending_memberships
    envs,       \* envelopes ever stored
    gone,       \* ids of those deleted again
    acks,       \* envelope_acks: <<envelope id, device>>
    wire,       \* Commit posts not executed yet
    \* the profiles
    grp,        \* grp[d]: the MLS group state
    conv,       \* conv[d]: role in the conversation record
    rec,        \* rec[d]: the gadd- or grem- record
    request,    \* request[d]: the req- record, a Welcome's Commit
    spent,      \* spent[d]: Welcomes whose KeyPackage is used up or retired
    rx,         \* rx[d]: ids of the rx- records
    \* the processes
    cmd,        \* cmd[d]: the command in progress
    made,       \* Commits staged so far
    upsets,     \* commands that did not end well so far
    owed        \* history: owed[n], the members when Commit n was stored

server == <<log, members, pending, envs, gone, acks, wire, owed>>
profile == <<grp, conv, rec, request, spent, rx>>
vars == <<server, profile, cmd, made, upsets>>

\* A Commit: who built it on what, the epoch and the roster it makes.
Genesis == [serial |-> 0, by |-> Creator, parent |-> 0, epoch |-> 0,
            roster |-> {Creator}]
Commit == [serial : 0..MaxCommits, by : Device, parent : 0..MaxCommits,
           epoch : 0..MaxCommits, roster : SUBSET Device]

\* What a profile keeps of the group and of an unfinished add or remove.
GroupState == [tip : Commit, staged : Commit \cup {None}, gen : 0..MaxSends,
               used : SUBSET (Device \X (1..MaxSends))]
Record == [kind : {"gadd", "grem"}, accepted : BOOLEAN, commit : Commit, peer : Device]

ASSUME NoneAssumption ==
    None \notin Commit /\ None \notin GroupState /\ None \notin Record

Idle == [pc |-> "idle"]
Busy(pc, x) == [pc |-> pc, arg |-> x]
Goto(d, pc, x) == cmd' = [cmd EXCEPT ![d] = Busy(pc, x)]
Done(d) == cmd' = [cmd EXCEPT ![d] = Idle]
Upset(d) == upsets < MaxUpsets /\ upsets' = upsets + 1 /\ Done(d)

\* The group at the epoch of Commit c, with fresh ratchets.
At(c) == [tip |-> c, staged |-> None, gen |-> 0, used |-> {}]

Init ==
    /\ log = <<>>
    /\ members = {Creator}
    /\ pending = {}
    /\ envs = {} /\ gone = {} /\ acks = {} /\ wire = {}
    /\ grp = [d \in Device |-> IF d = Creator THEN At(Genesis) ELSE None]
    /\ conv = [d \in Device |-> IF d = Creator THEN "creator" ELSE None]
    /\ rec = [d \in Device |-> None]
    /\ request = [d \in Device |-> None]
    /\ spent = [d \in Device |-> {}]
    /\ rx = [d \in Device |-> {}]
    /\ cmd = [d \in Device |-> Idle]
    /\ made = 0
    /\ upsets = 0
    /\ owed = <<>>

(***************************************************************************)
(* The Delivery Service, at the granularity module Delivery justifies.     *)
(***************************************************************************)
Store(kind, by, to, c, gen) ==
    /\ Cardinality(envs) < MaxEnvelopes
    /\ envs' = envs \cup {[id |-> Cardinality(envs) + 1, kind |-> kind, by |-> by,
                        to |-> to, commit |-> c, gen |-> gen]}

find_pending(d) ==
    {e \in envs : /\ e.id \notin gone
                  /\ \/ e.to = d
                     \/ e.to = NoDevice /\ d \in members /\ <<e.id, d>> \notin acks}

\* A unicast goes with its ack, a broadcast with the last member's.
ack(d, e) ==
    /\ acks' = acks \cup {<<e.id, d>>}
    /\ gone' = IF e.to = d \/ \A m \in members \ {e.by} : <<e.id, m>> \in acks'
               THEN gone \cup {e.id} ELSE gone

group_epoch(d) == IF d \in members THEN Len(log) ELSE -1

Waiting(c) == cmd[c.by] = Busy("posted", c)
Answer(c, pc) == cmd' = IF Waiting(c) THEN [cmd EXCEPT ![c.by] = Busy(pc, c)] ELSE cmd

commit_accepted(c) ==
    /\ c \in wire
    /\ wire' = wire \ {c}
    /\ c.by \in members
    /\ c.epoch = Len(log) + 1
    /\ log' = Append(log, c)
    /\ owed' = Append(owed, members)
    /\ Store("commit", c.by, NoDevice, c, 0)
    /\ Answer(c, "accepted")
    /\ UNCHANGED <<members, pending, gone, acks, profile, made, upsets>>

\* A status issued before the ledger's transaction: the CAS is lost, or the
\* request is refused for its size, rate or session.
commit_refused(c) ==
    /\ c \in wire
    /\ wire' = wire \ {c}
    /\ Answer(c, "rejected")
    /\ UNCHANGED <<log, members, pending, envs, gone, acks, owed, profile, made, upsets>>

commit_unknown_merges(d) ==                  \* mutant: no answer is taken for a yes
    /\ cmd[d].pc = "posted"
    /\ Goto(d, "accepted", cmd[d].arg)
    /\ UNCHANGED <<server, profile, made, upsets>>

commit_unknown_aborts(d) ==                  \* mutant: no answer is taken for a no
    /\ cmd[d].pc = "posted"
    /\ Goto(d, "rejected", cmd[d].arg)
    /\ UNCHANGED <<server, profile, made, upsets>>

\* The client stops waiting; the post is still on the wire, or lost.
commit_unknown(d) ==
    /\ cmd[d].pc \in {"posted", "accepted", "rejected"}
    /\ Upset(d)
    /\ \E lost \in SUBSET (wire \cap {cmd[d].arg}) : wire' = wire \ lost
    /\ UNCHANGED <<log, members, pending, envs, gone, acks, owed, profile, made>>

(***************************************************************************)
(* `group add` and `group remove`.  prepare_add's checks and the epoch's   *)
(* answer are one step: only this command changes the profile.  The record *)
(* is written before the staged state, the staged state before the post.   *)
(***************************************************************************)
NextCommit(d, roster) ==
    [serial |-> made + 1, by |-> d, parent |-> grp[d].tip.serial,
     epoch |-> grp[d].tip.epoch + 1, roster |-> roster]

prepare_add(d) ==
    /\ cmd[d] = Idle
    /\ conv[d] # None
    /\ rec[d] = None
    /\ grp[d] # None
    /\ grp[d].staged = None
    /\ group_epoch(d) = grp[d].tip.epoch

stage(d, kind, peer, roster) ==
    /\ prepare_add(d)
    /\ made < MaxCommits
    /\ made' = made + 1
    /\ LET c == NextCommit(d, roster)
       IN  /\ rec' = [rec EXCEPT ![d] =
                 [kind |-> kind, accepted |-> FALSE, commit |-> c, peer |-> peer]]
           /\ Goto(d, "staged", c)
    /\ UNCHANGED <<server, grp, conv, request, spent, rx, upsets>>

add(d, peer) ==
    /\ grp[d] # None /\ peer \notin grp[d].tip.roster
    /\ stage(d, "gadd", peer, grp[d].tip.roster \cup {peer})

remove(d, peer) ==
    /\ grp[d] # None /\ peer \in grp[d].tip.roster \ {d}
    /\ stage(d, "grem", peer, grp[d].tip.roster \ {peer})

\* local.save, then send_commit.
save_and_post(d) ==
    /\ cmd[d].pc = "staged"
    /\ grp' = [grp EXCEPT ![d].staged = cmd[d].arg]
    /\ wire' = wire \cup {cmd[d].arg}
    /\ Goto(d, "posted", cmd[d].arg)
    /\ UNCHANGED <<log, members, pending, envs, gone, acks, owed,
                   conv, rec, request, spent, rx, made, upsets>>

\* An add's record turns into a debt of its Welcome before the merge is saved.
mark_accepted(d) ==
    /\ cmd[d].pc = "accepted"
    /\ rec' = [rec EXCEPT ![d].accepted = (@ \/ rec[d].kind = "gadd")]
    /\ Goto(d, "merge", cmd[d].arg)
    /\ UNCHANGED <<server, grp, conv, request, spent, rx, made, upsets>>

AfterMergeForgets(d) == "drop"               \* mutant: the record is not needed any more
AfterMerge(d) == IF rec[d].kind = "gadd" THEN "member" ELSE "drop"

confirm(d) ==
    /\ cmd[d].pc = "merge"
    /\ grp' = [grp EXCEPT ![d] = At(cmd[d].arg)]
    /\ Goto(d, AfterMerge(d), cmd[d].arg)
    /\ UNCHANGED <<server, conv, rec, request, spent, rx, made, upsets>>

abort(d) ==
    /\ cmd[d].pc = "rejected"
    /\ grp' = [grp EXCEPT ![d].staged = None]
    /\ Goto(d, "drop", cmd[d].arg)
    /\ UNCHANGED <<server, conv, rec, request, spent, rx, made, upsets>>

drop_record(d) ==
    /\ cmd[d].pc = "drop"
    /\ rec' = [rec EXCEPT ![d] = None]
    /\ Done(d)
    /\ UNCHANGED <<server, grp, conv, request, spent, rx, made, upsets>>

\* deliver_welcome: post_member (idempotent), then send_welcome.
post_member(d) ==
    /\ cmd[d].pc = "member"
    /\ d \in members
    /\ pending' = pending \cup ({rec[d].peer} \ members)
    /\ Goto(d, "welcome", cmd[d].arg)
    /\ UNCHANGED <<log, members, envs, gone, acks, wire, owed, profile, made, upsets>>

send_welcome(d) ==
    /\ cmd[d].pc = "welcome"
    /\ d \in members
    /\ Store("welcome", d, rec[d].peer, rec[d].commit, 0)
    /\ Goto(d, "drop", cmd[d].arg)
    /\ UNCHANGED <<log, members, pending, gone, acks, wire, owed, profile, made, upsets>>

\* `group add --resume`: settle_local_epoch, then deliver_welcome.
MayResumePosted(d) == rec[d] # None          \* mutant: the Commit's fate is not asked for
MayResume(d) == rec[d] # None /\ rec[d].accepted

Behind(d) == grp[d].staged # None /\ grp[d].tip.epoch + 1 = rec[d].commit.epoch
Level(d) == grp[d].staged = None /\ grp[d].tip.epoch = rec[d].commit.epoch

resume(d) ==
    /\ cmd[d] = Idle
    /\ MayResume(d)
    /\ grp[d] # None
    /\ Behind(d) \/ Level(d)
    /\ grp' = IF Behind(d) THEN [grp EXCEPT ![d] = At(grp[d].staged)] ELSE grp
    /\ Goto(d, "member", rec[d].commit)
    /\ UNCHANGED <<server, conv, rec, request, spent, rx, made, upsets>>

(***************************************************************************)
(* `inbox` keeps a group's Welcome as a request; `accept` joins it, acks   *)
(* it and consents; `decline` retires it.                                  *)
(***************************************************************************)
keep_request(d) ==
    /\ cmd[d] = Idle
    /\ request[d] = None
    /\ grp[d] = None
    /\ \E e \in find_pending(d) :
          /\ e.kind = "welcome"
          /\ e.commit.serial \notin spent[d]
          /\ request' = [request EXCEPT ![d] = e]
    /\ UNCHANGED <<server, grp, conv, rec, spent, rx, cmd, made, upsets>>

\* join_one: the record, then the MLS state, which has the KeyPackage used up; its
\* other keys and the invite's marker go unnoticed.  A creator's record is never
\* finished by a Welcome (ensure_resumable).
Joinable(d) ==
    /\ grp[d] = None
    /\ request[d].commit.serial \notin spent[d]
    /\ conv[d] \in {None, "joiner"}

join(d) ==
    /\ cmd[d] = Idle
    /\ request[d] # None
    /\ Joinable(d)
    /\ grp' = [grp EXCEPT ![d] = At(request[d].commit)]
    /\ conv' = [conv EXCEPT ![d] = "joiner"]
    /\ spent' = [spent EXCEPT ![d] = @ \cup {request[d].commit.serial}]
    /\ Goto(d, "joined", request[d])
    /\ UNCHANGED <<server, rec, request, rx, made, upsets>>

\* It dies with the record written: a later accept or decline meets it.
join_cut(d) ==
    /\ cmd[d] = Idle
    /\ request[d] # None
    /\ Joinable(d)
    /\ conv' = [conv EXCEPT ![d] = "joiner"]
    /\ Upset(d)
    /\ UNCHANGED <<server, grp, rec, request, spent, rx, made>>

\* A re-run after a failed consent: already held.
rejoin(d) ==
    /\ cmd[d] = Idle
    /\ request[d] # None
    /\ grp[d] # None
    /\ Goto(d, "joined", request[d])
    /\ UNCHANGED <<server, profile, made, upsets>>

ack_welcome(d) ==
    /\ cmd[d].pc = "joined"
    /\ \/ ack(d, cmd[d].arg)
       \/ UNCHANGED <<acks, gone>>           \* its failure is ignored
    /\ Goto(d, "consent", cmd[d].arg)
    /\ UNCHANGED <<log, members, pending, envs, wire, owed, profile, made, upsets>>

accept_membership(d) ==
    /\ cmd[d].pc = "consent"
    /\ d \in pending \cup members
    /\ members' = members \cup {d}
    /\ pending' = pending \ {d}
    /\ Goto(d, "accepted_request", cmd[d].arg)
    /\ UNCHANGED <<log, envs, gone, acks, wire, owed, profile, made, upsets>>

drop_request(d) ==
    /\ cmd[d].pc = "accepted_request"
    /\ request' = [request EXCEPT ![d] = None]
    /\ Done(d)
    /\ UNCHANGED <<server, grp, conv, rec, spent, rx, made, upsets>>

\* The server's row goes first; what follows is of this profile and its own Welcome
\* alone.  The ack's failure is ignored.
decline(d) ==
    /\ cmd[d] = Idle
    /\ request[d] # None
    /\ grp[d] = None
    /\ pending' = pending \ {d}
    /\ conv' = [conv EXCEPT ![d] = None]
    /\ spent' = [spent EXCEPT ![d] = @ \cup {request[d].commit.serial}]
    /\ request' = [request EXCEPT ![d] = None]
    /\ ack(d, request[d]) \/ UNCHANGED <<acks, gone>>
    /\ UNCHANGED <<log, members, envs, wire, owed, grp, rec, rx, cmd, made, upsets>>

\* It dies, or returns an error, with the request still there: after the server's
\* answer, the record's removal, the keys' or the ack.
decline_cut(d) ==
    /\ cmd[d] = Idle
    /\ request[d] # None
    /\ grp[d] = None
    /\ pending' = pending \ {d}
    /\ \/ UNCHANGED <<conv, spent, acks, gone>>
       \/ /\ conv' = [conv EXCEPT ![d] = None]
          /\ \/ UNCHANGED <<spent, acks, gone>>
             \/ /\ spent' = [spent EXCEPT ![d] = @ \cup {request[d].commit.serial}]
                /\ ack(d, request[d]) \/ UNCHANGED <<acks, gone>>
    /\ Upset(d)
    /\ UNCHANGED <<log, members, envs, wire, owed, grp, rec, request, rx, made>>

(***************************************************************************)
(* `send` to a group: the ratchet is saved before the ciphertext leaves.   *)
(***************************************************************************)
encrypt_unsaved(d) ==                        \* mutant: saved by nobody before the post
    /\ cmd[d] = Idle
    /\ grp[d] # None
    /\ rec[d] = None /\ grp[d].staged = None
    /\ Cardinality(grp[d].tip.roster) >= 2
    /\ group_epoch(d) = grp[d].tip.epoch
    /\ grp[d].gen < MaxSends
    /\ Goto(d, "sending", [commit |-> grp[d].tip, gen |-> grp[d].gen + 1])
    /\ UNCHANGED <<server, profile, made, upsets>>

encrypt(d) ==
    /\ cmd[d] = Idle
    /\ grp[d] # None
    /\ rec[d] = None /\ grp[d].staged = None
    /\ Cardinality(grp[d].tip.roster) >= 2
    /\ group_epoch(d) = grp[d].tip.epoch
    /\ grp[d].gen < MaxSends
    /\ grp' = [grp EXCEPT ![d].gen = @ + 1]
    /\ Goto(d, "sending", [commit |-> grp[d].tip, gen |-> grp[d].gen + 1])
    /\ UNCHANGED <<server, conv, rec, request, spent, rx, made, upsets>>

send_application(d) ==
    /\ cmd[d].pc = "sending"
    /\ d \in members
    /\ Store("app", d, NoDevice, cmd[d].arg.commit, cmd[d].arg.gen)
    /\ Done(d)
    /\ UNCHANGED <<log, members, pending, gone, acks, wire, owed, profile, made, upsets>>

(***************************************************************************)
(* `inbox`.  A run takes the pending envelopes in order.  One it cannot    *)
(* use is left where it is and changes nothing, so a run's next effect is  *)
(* on the first envelope it can use; an envelope held as Ahead becomes     *)
(* that one as soon as its Commit is applied.                              *)
(***************************************************************************)
Echo(d, e) == e.kind # "welcome" /\ e.by = d

UnresolvedNever(d) == FALSE                  \* mutant: own pending Commits are not looked for
Unresolved(d) == rec[d] # None \/ grp[d].staged # None

\* Built by a member of our epoch on the epoch we are in.
Applies(d, e) ==
    /\ e.kind = "commit" /\ e.by # d
    /\ grp[d] # None
    /\ ~Unresolved(d)
    /\ e.commit.epoch = grp[d].tip.epoch + 1
    /\ e.commit.parent = grp[d].tip.serial

Decrypts(d, e) ==
    /\ e.kind = "app" /\ e.by # d
    /\ grp[d] # None
    /\ e.commit = grp[d].tip
    /\ <<e.by, e.gen>> \notin grp[d].used

Usable(d) == {e \in find_pending(d) : Echo(d, e) \/ Applies(d, e) \/ Decrypts(d, e)}
First(d, e) == e \in Usable(d) /\ \A f \in Usable(d) : e.id <= f.id

drop_echo(d) ==
    /\ cmd[d] = Idle
    /\ \E e \in Usable(d) : First(d, e) /\ Echo(d, e) /\ ack(d, e)
    /\ UNCHANGED <<log, members, pending, envs, wire, owed, profile, cmd, made, upsets>>

apply_keeping_state(d) ==                    \* mutant: an evicted device keeps its state
    /\ cmd[d] = Idle
    /\ \E e \in Usable(d) :
          /\ First(d, e) /\ Applies(d, e)
          /\ grp' = [grp EXCEPT ![d] = At(e.commit)]
          /\ Goto(d, "ack", e)
    /\ UNCHANGED <<server, conv, rec, request, spent, rx, made, upsets>>

\* apply_group_commit; a Commit that removes this device deletes the state.
apply(d) ==
    /\ cmd[d] = Idle
    /\ \E e \in Usable(d) :
          /\ First(d, e) /\ Applies(d, e)
          /\ grp' = [grp EXCEPT ![d] =
                IF d \in e.commit.roster THEN At(e.commit) ELSE None]
          /\ Goto(d, "ack", e)
    /\ UNCHANGED <<server, conv, rec, request, spent, rx, made, upsets>>

\* store_received: the rx- record, then the ratchet, then the ack.
put_rx_ratchet_first(d) ==                   \* mutant: the key is spent first
    /\ cmd[d] = Idle
    /\ \E e \in Usable(d) :
          /\ First(d, e) /\ Decrypts(d, e)
          /\ grp' = [grp EXCEPT ![d].used = @ \cup {<<e.by, e.gen>>}]
          /\ Goto(d, "ratchet", e)
    /\ UNCHANGED <<server, conv, rec, request, spent, rx, made, upsets>>

put_rx(d) ==
    /\ cmd[d] = Idle
    /\ \E e \in Usable(d) :
          /\ First(d, e) /\ Decrypts(d, e)
          /\ rx' = [rx EXCEPT ![d] = @ \cup {e.id}]
          /\ Goto(d, "ratchet", e)
    /\ UNCHANGED <<server, grp, conv, rec, request, spent, made, upsets>>

save_ratchet(d) ==
    /\ cmd[d].pc = "ratchet"
    /\ grp' = [grp EXCEPT ![d].used = @ \cup {<<cmd[d].arg.by, cmd[d].arg.gen>>}]
    /\ Goto(d, "ack", cmd[d].arg)
    /\ UNCHANGED <<server, conv, rec, request, spent, rx, made, upsets>>

ack_used(d) ==
    /\ cmd[d].pc = "ack"
    /\ ack(d, cmd[d].arg)
    /\ Done(d)
    /\ UNCHANGED <<log, members, pending, envs, wire, owed, profile, made, upsets>>

\* The process dies, or a call fails and the command returns its error.
stop(d) ==
    /\ cmd[d] # Idle
    /\ cmd[d].pc \notin {"posted", "accepted", "rejected"}
    /\ Upset(d)
    /\ UNCHANGED <<server, profile, made>>

-----------------------------------------------------------------------------
Next ==
    \/ \E c \in wire : commit_accepted(c) \/ commit_refused(c)
    \/ \E d \in Device :
          \/ \E peer \in Device : add(d, peer) \/ remove(d, peer)
          \/ save_and_post(d) \/ commit_unknown(d)
          \/ mark_accepted(d) \/ confirm(d) \/ abort(d) \/ drop_record(d)
          \/ post_member(d) \/ send_welcome(d) \/ resume(d)
          \/ keep_request(d) \/ join(d) \/ join_cut(d) \/ rejoin(d) \/ ack_welcome(d)
          \/ accept_membership(d) \/ drop_request(d) \/ decline(d) \/ decline_cut(d)
          \/ encrypt(d) \/ send_application(d)
          \/ drop_echo(d) \/ apply(d) \/ put_rx(d) \/ save_ratchet(d) \/ ack_used(d)
          \/ stop(d)

Spec == Init /\ [][Next]_vars

-----------------------------------------------------------------------------
\* Type invariant.
TypeOK ==
    /\ log \in Seq(Commit)
    /\ members \subseteq Device /\ pending \subseteq Device \ members
    /\ \A e \in envs : e.by \in Device /\ e.to \in Device \cup {NoDevice} /\ e.commit \in Commit
    /\ gone \subseteq {e.id : e \in envs}
    /\ acks \subseteq {e.id : e \in envs} \X Device
    /\ wire \subseteq Commit
    /\ \A d \in Device :
          /\ grp[d] # None => grp[d] \in GroupState /\ d \in grp[d].tip.roster
          /\ conv[d] \in {None, "creator", "joiner"}
          /\ rec[d] # None => rec[d] \in Record /\ rec[d].commit.by = d
          /\ request[d] # None => request[d] \in envs /\ request[d].to = d
          /\ rx[d] \subseteq {e.id : e \in envs}

\* Every device's epoch is the server's: what a device merged, by confirming its
\* own Commit, by resuming an add, by joining or by applying, is the Commit the
\* ledger accepted for that epoch, whatever was lost, late or interrupted.
NoFork ==
    \A d \in Device : grp[d] # None =>
        \/ grp[d].tip = Genesis
        \/ grp[d].tip.epoch \in 1..Len(log) /\ log[grp[d].tip.epoch] = grp[d].tip

\* An accepted add can always be resumed: the record that owes a Welcome agrees
\* with the group state, so settle_local_epoch never answers ResumeEpoch, after
\* a crash at any point of the add and whatever the inbox did in between.
ResumeNeverRefused ==
    \A d \in Device : MayResume(d) => grp[d] # None /\ (Behind(d) \/ Level(d))

\* A member whose add its adder merged is never forgotten: the Welcome was sent
\* or the record that keeps it is still there.
Before(n) == IF n = 1 THEN Genesis ELSE log[n - 1]
WelcomeNeverLost ==
    \A d \in Device, n \in 1..Len(log) :
        (/\ log[n].by = d /\ grp[d] # None /\ grp[d].tip.epoch >= n
         /\ ~(log[n].roster \subseteq Before(n).roster))
        => \/ \E e \in envs : e.kind = "welcome" /\ e.commit = log[n]
           \/ rec[d] # None /\ rec[d].commit = log[n]

\* A device behind the ledger does not lose its next Commit: it waits in its queue,
\* or is its own and its pending record has kept it.  Not so for a device that was no
\* member when the Commit was stored (JoinerCatchesUp); and what the record of a
\* Commit of unknown outcome is good for is another matter (UnresolvedIsResolvable).
NotStranded ==
    \A d \in Device :
        (grp[d] # None /\ grp[d].tip.epoch < Len(log)) =>
            LET n == grp[d].tip.epoch + 1
            IN  \/ d \notin owed[n]
                \/ \E e \in find_pending(d) : e.kind = "commit" /\ e.commit = log[n]
                \/ log[n].by = d /\ rec[d] # None /\ rec[d].commit = log[n]

\* A spent receive key means the plaintext is on disk: no crash in the middle of
\* an inbox run makes a message unreadable that was not stored.
SpentIsStored ==
    \A d \in Device, e \in envs :
        (/\ e.kind = "app" /\ e.by # d /\ grp[d] # None /\ grp[d].tip = e.commit
         /\ <<e.by, e.gen>> \in grp[d].used)
        => e.id \in rx[d]

\* No two stored messages were encrypted under one key of one epoch.
KeysAreFresh ==
    \A e, f \in envs :
        (/\ e.kind = "app" /\ f.kind = "app" /\ e.by = f.by
         /\ e.commit = f.commit /\ e.gen = f.gen) => e = f

\* Does not hold (README, 6): group.rs, on the gadd- record: its fields "let a later resolver byte-compare
\* the stored epoch + 1 envelope with the Commit".  An unresolved Commit that
\* was accepted is then still in its sender's queue.
UnresolvedIsResolvable ==
    \A d \in Device :
        (/\ cmd[d] = Idle /\ rec[d] # None /\ ~rec[d].accepted
         /\ \E n \in 1..Len(log) : log[n] = rec[d].commit)
        => \E e \in find_pending(d) : e.kind = "commit" /\ e.commit = rec[d].commit

\* Does not hold (README, 6): inbox.rs, on pending requests: traffic stays unacked, "or a late `accept`
\* would join a Welcome epoch the other members have left".
JoinerCatchesUp ==
    \A d \in Device :
        (grp[d] # None /\ d \in members /\ grp[d].tip.epoch < Len(log) /\ rec[d] = None) =>
            \E e \in find_pending(d) :
                e.kind = "commit" /\ e.commit = log[grp[d].tip.epoch + 1]
=============================================================================
