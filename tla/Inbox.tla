-------------------------------- MODULE Inbox --------------------------------
(***************************************************************************)
(* The command-line client's inbox run (receive_at) over one device's      *)
(* queue: the fetch window behind a persistent cursor, the run's caps, the *)
(* head-of-line rule for Commits, envelopes held for a missing Commit, and *)
(* the junk tracker with its grace.                                        *)
(*                                                                         *)
(* The peers are the environment: their messages and Commits appear in the *)
(* queue in the order of their stamps or late, behind one already there.   *)
(* A stored message is one step here; GroupClient has the writes it is     *)
(* made of.  A run may die between two envelopes, and with it what the     *)
(* tracker learnt, or return an error.  A peer's Commit may remove this    *)
(* device: its MLS state goes, the conversation's record and the server's  *)
(* member row stay, so it goes on seeing the group's traffic, until it     *)
(* accepts a Welcome that adds it again.  Of the Welcome phase of a run    *)
(* only that Welcome is here (GroupClient has the rest).                   *)
(***************************************************************************)
EXTENDS Integers, Sequences, SequencesExt

CONSTANTS
    Conv,                   \* the conversations this device holds
    OwnCommits,             \* those in which it makes Commits itself
    Evictable,              \* those from which the peers may remove it
    Stranger,               \* a group it does not know
    MAX_PAGES, PAGE,        \* pages of one fetch, envelopes of a page
    MAX_PER_CONVERSATION,
    MAX_MESSAGES_PER_RUN,
    MAX_STORED_MESSAGES,
    MAX_HOPS,
    MAX_DECRYPT_FAILURES,
    UNKNOWN_GRACE, AHEAD_PIN,  \* in ticks
    MaxEnvelopes,           \* bound: envelopes ever stamped
    MaxUpsets               \* bound: runs that die or fail, acks and writes that fail

ASSUME InboxAssumption ==
    /\ Stranger \notin Conv /\ OwnCommits \subseteq Conv /\ Evictable \subseteq Conv
    /\ {MAX_PAGES, PAGE, MAX_PER_CONVERSATION, MAX_MESSAGES_PER_RUN, MAX_HOPS,
        MAX_DECRYPT_FAILURES} \subseteq Nat \ {0}
    /\ {MAX_STORED_MESSAGES, MaxEnvelopes, MaxUpsets} \subseteq Nat
    /\ AHEAD_PIN \in Nat /\ UNKNOWN_GRACE \in Nat /\ AHEAD_PIN < UNKNOWN_GRACE

VARIABLES
    \* the environment
    stamped,    \* the envelopes this device was ever sent, by id
    queue,      \* ids of those in its queue
    peer,       \* peer[c]: the epoch the peers are in
    own,        \* own[c]: what became of a Commit of our own (bound: one each)
    removals,   \* ids of the Commits that remove this device
    added,      \* added[c]: the epoch a peer added it again in, or 0 (bound: once each)
    \* the profile
    epoch,      \* epoch[c]: the MLS epoch held, or the one it was removed in
    evicted,    \* conversations whose record is kept without MLS state
    request,    \* request[c]: what became of the Welcome that adds it again
    rx,         \* ids of the rx- records kept
    spent,      \* ids decrypted
    tracker,    \* inbox-junk: id -> the time since first_seen, and fails
    cursor,     \* inbox-cursor: the id fetched up to, and the hops
    \* the process
    run,        \* the run in progress
    upsets,
    late,       \* history: ids that became visible behind a later one
    detained,   \* history: envelopes left waiting for our own unresolved Commit
    refused     \* history: Commits refused for want of MLS state, but for those
                \* that came before the epoch the device joined again

peers == <<stamped, peer, own, removals, added, late>>
seat == <<evicted, request, refused>>
disk == <<epoch, rx, spent, tracker, cursor>>
vars == <<peers, queue, seat, disk, run, upsets, detained>>

Idle == [pc |-> "idle"]
Head0 == [at |-> 0, hops |-> 0]

Init ==
    /\ stamped = <<>> /\ queue = {}
    /\ peer = [c \in Conv |-> 0]
    /\ own = [c \in Conv |-> "none"]
    /\ removals = {} /\ added = [c \in Conv |-> 0]
    /\ epoch = [c \in Conv |-> 0]
    /\ evicted = {} /\ request = [c \in Conv |-> "none"]
    /\ rx = {} /\ spent = {}
    /\ tracker = <<>>
    /\ cursor = Head0
    /\ run = Idle
    /\ upsets = 0
    /\ late = {} /\ detained = {} /\ refused = {}

(***************************************************************************)
(* The environment.  A run works on the envelopes it fetched, so what       *)
(* arrives during one may as well arrive after it.                         *)
(***************************************************************************)
\* `id` is the envelope's place by stamp: one of a slow sender, or stamped by a
\* server whose clock is behind, appears before ones that are visible already.
Stamp(id, c, kind, e) ==
    /\ run = Idle
    /\ id \in 1..MaxEnvelopes \ DOMAIN stamped
    /\ id <= Cardinality(DOMAIN stamped) + 2
    /\ stamped' = [i \in DOMAIN stamped \cup {id} |->
                     IF i = id THEN [id |-> id, conv |-> c, kind |-> kind, epoch |-> e]
                     ELSE stamped[i]]
    /\ queue' = queue \cup {id}
    /\ late' = IF \E q \in DOMAIN stamped : q > id THEN late \cup {id} ELSE late

\* Encrypted in the epoch of its sender, which the others may have left since.
peer_sends(c, id) ==
    /\ \E e \in 0..peer[c] : Stamp(id, c, "app", e)
    /\ UNCHANGED <<peer, own, removals, added, seat, disk, run, upsets, detained>>

stranger_sends(id) ==
    /\ Stamp(id, Stranger, "app", 0)
    /\ UNCHANGED <<peer, own, removals, added, seat, disk, run, upsets, detained>>

\* The ledger takes one Commit per epoch.
peer_commits(c, id) ==
    /\ Stamp(id, c, "commit", peer[c] + 1)
    /\ peer' = [peer EXCEPT ![c] = @ + 1]
    /\ UNCHANGED <<own, removals, added, seat, disk, run, upsets, detained>>

\* The epochs in which the peers are without this device.
Away(c, e) ==
    \E r \in removals :
        /\ stamped[r].conv = c /\ stamped[r].epoch <= e
        /\ e < added[c] \/ added[c] < stamped[r].epoch

\* `group remove` of this device, and `group add` of it afterwards.
peer_removes(c, id) ==
    /\ c \in Evictable /\ ~Away(c, peer[c])
    /\ Stamp(id, c, "commit", peer[c] + 1)
    /\ peer' = [peer EXCEPT ![c] = @ + 1]
    /\ removals' = removals \cup {id}
    /\ UNCHANGED <<own, added, seat, disk, run, upsets, detained>>

peer_adds(c, id) ==
    /\ Away(c, peer[c]) /\ added[c] = 0
    /\ Stamp(id, c, "commit", peer[c] + 1)
    /\ peer' = [peer EXCEPT ![c] = @ + 1]
    /\ added' = [added EXCEPT ![c] = peer[c] + 1]
    /\ UNCHANGED <<own, removals, seat, disk, run, upsets, detained>>

\* The Welcome of that add is kept as a request once the old state is gone, and
\* joined by `accept`, or dropped when it has expired.
keep_request(c) ==
    /\ run = Idle /\ c \in evicted
    /\ added[c] # 0 /\ request[c] = "none"
    /\ request' = [request EXCEPT ![c] = "kept"]
    /\ UNCHANGED <<peers, queue, evicted, refused, disk, run, upsets, detained>>

Needless(k, c, e) == stamped[k].conv = c /\ stamped[k].epoch <= e

accept(c) ==
    /\ run = Idle /\ request[c] = "kept"
    /\ request' = [request EXCEPT ![c] = "used"]
    /\ evicted' = evicted \ {c}
    /\ epoch' = [epoch EXCEPT ![c] = added[c]]
    /\ refused' = {k \in refused : ~Needless(k, c, added[c])}
    /\ UNCHANGED <<peers, queue, rx, spent, tracker, cursor, run, upsets, detained>>

prune_expired(c) ==
    /\ run = Idle /\ request[c] = "kept"
    /\ request' = [request EXCEPT ![c] = "used"]
    /\ UNCHANGED <<peers, queue, evicted, refused, disk, run, upsets, detained>>

\* A command of this device dies with its Commit accepted but not merged, or
\* without knowing what became of it, for which there is no resolver.
leave_own(c) ==
    /\ run = Idle /\ c \in OwnCommits \ evicted /\ own[c] = "none"
    /\ \/ /\ epoch[c] = peer[c]
          /\ peer' = [peer EXCEPT ![c] = @ + 1]
          /\ \E s \in {"accepted", "unknown"} : own' = [own EXCEPT ![c] = s]
       \/ /\ own' = [own EXCEPT ![c] = "unknown"]
          /\ UNCHANGED peer
    /\ UNCHANGED <<queue, stamped, removals, added, late, seat, disk, run, upsets, detained>>

resume_own(c) ==
    /\ run = Idle /\ own[c] = "accepted"
    /\ own' = [own EXCEPT ![c] = "resolved"]
    /\ epoch' = [epoch EXCEPT ![c] = @ + 1]
    /\ UNCHANGED <<queue, stamped, peer, removals, added, late, seat, rx, spent, tracker,
                   cursor, run, upsets, detained>>

pcs_unresolved(c) == own[c] \in {"accepted", "unknown"}

\* A run reads the clock once: time passes between runs.  Past UNKNOWN_GRACE
\* nothing depends on it any more.
tick ==
    /\ run = Idle
    /\ tracker' = [id \in DOMAIN tracker |->
                     [tracker[id] EXCEPT !.age = IF @ < UNKNOWN_GRACE THEN @ + 1 ELSE @]]
    /\ UNCHANGED <<peers, queue, seat, epoch, rx, spent, cursor, run, upsets, detained>>

(***************************************************************************)
(* The tracker: a function from ids.                                       *)
(***************************************************************************)
Slot(t, id) == IF id \in DOMAIN t THEN t ELSE [i \in DOMAIN t \cup {id} |->
                  IF i = id THEN [age |-> 0, fails |-> 0] ELSE t[i]]
Failed(t, id) == [Slot(t, id) EXCEPT ![id].fails = IF @ < MAX_DECRYPT_FAILURES THEN @ + 1 ELSE @]
Forget(t, id) == [i \in DOMAIN t \ {id} |-> t[i]]

Expired(t, id) == t[id].age >= UNKNOWN_GRACE
Hopeless(t, id) == t[id].fails >= MAX_DECRYPT_FAILURES /\ Expired(t, id)
Pins(t, id) == t[id].age < AHEAD_PIN

(***************************************************************************)
(* The run.  cursor::load and fetch_from: at most MAX_PAGES pages after    *)
(* the cursor; `more` when the last of them was not empty.                 *)
(***************************************************************************)
Resumed == IF cursor.hops < MAX_HOPS THEN cursor ELSE Head0

\* The server's pages are in the order of the stamps.
Ascending(ids) ==
    CHOOSE s \in [1..Cardinality(ids) -> ids] :
        Range(s) = ids /\ \A i, j \in DOMAIN s : i < j => s[i] < s[j]

fetch ==
    /\ run = Idle
    /\ LET after == Ascending({id \in queue : id > Resumed.at})
           got == SubSeq(after, 1, IF Len(after) < MAX_PAGES * PAGE
                                   THEN Len(after) ELSE MAX_PAGES * PAGE)
       IN  run' = [pc |-> "run", q |-> got,
                   next |-> IF got = <<>> THEN Resumed.at ELSE Last(got),
                   hops |-> Resumed.hops,
                   more |-> Len(got) > (MAX_PAGES - 1) * PAGE,
                   deferred |-> FALSE, pinned |-> FALSE, attempts |-> 0,
                   per |-> [c \in Conv |-> 0], blocked |-> {}, held |-> [c \in Conv |-> <<>>],
                   t |-> tracker]
    /\ UNCHANGED <<peers, queue, seat, disk, upsets, detained>>

\* A fetch from the cursor fails: the next one is from the head.
fetch_fails ==
    /\ run = Idle
    /\ Resumed # Head0
    /\ upsets < MaxUpsets
    /\ upsets' = upsets + 1
    /\ cursor' = Head0
    /\ UNCHANGED <<peers, queue, seat, epoch, rx, spent, tracker, run, detained>>

Env == stamped[run.q[1]]
Turn(kind) == run # Idle /\ run.q # <<>> /\ Env.kind = kind
Full == run.attempts >= MAX_MESSAGES_PER_RUN
Rest == [run EXCEPT !.q = Tail(@)]
Tried == [Rest EXCEPT !.attempts = @ + 1]
Counted == [Tried EXCEPT !.per[Env.conv] = @ + 1]

\* An ack that fails leaves the envelope, and its entry, for the next run.
AckIf(due, r) ==
    \/ /\ due
       /\ queue' = queue \ {Env.id}
       /\ run' = [r EXCEPT !.t = Forget(@, Env.id)]
       /\ UNCHANGED upsets
    \/ /\ upsets' = IF due THEN upsets + 1 ELSE upsets
       /\ upsets' <= MaxUpsets
       /\ run' = r
       /\ UNCHANGED queue

break ==
    /\ run # Idle /\ run.q # <<>>
    /\ Full
    /\ run' = [run EXCEPT !.q = <<>>, !.deferred = TRUE]
    /\ UNCHANGED <<peers, queue, seat, disk, upsets, detained>>

BlockedNever == FALSE                        \* mutant: no head-of-line rule
Blocked == Env.conv \in run.blocked

commit_blocked ==
    /\ Turn("commit") /\ ~Full
    /\ Blocked
    /\ run' = [Tried EXCEPT !.deferred = TRUE]
    /\ UNCHANGED <<peers, queue, seat, disk, upsets, detained>>

Stateless == Env.conv \in evicted

\* Applied: the envelopes held for it come next, also if it removed this device.
commit_applied ==
    /\ Turn("commit") /\ ~Full /\ ~Blocked
    /\ ~pcs_unresolved(Env.conv) /\ ~Stateless
    /\ Env.epoch = epoch[Env.conv] + 1
    /\ epoch' = [epoch EXCEPT ![Env.conv] = @ + 1]
    /\ evicted' = IF Env.id \in removals THEN evicted \cup {Env.conv} ELSE evicted
    /\ AckIf(TRUE, [Tried EXCEPT !.t = Forget(@, Env.id),
                                 !.q = run.held[Env.conv] \o @,
                                 !.held[Env.conv] = <<>>])
    /\ UNCHANGED <<peers, request, refused, rx, spent, tracker, cursor, detained>>

\* Our own Commit is unresolved: held, never acked.
commit_unresolved ==
    /\ Turn("commit") /\ ~Full /\ ~Blocked
    /\ pcs_unresolved(Env.conv)
    /\ run' = Tried
    /\ detained' = detained \cup {Env.id}
    /\ UNCHANGED <<peers, queue, seat, disk, upsets>>

commit_ahead ==
    /\ Turn("commit") /\ ~Full /\ ~Blocked
    /\ ~pcs_unresolved(Env.conv) /\ ~Stateless
    /\ Env.epoch > epoch[Env.conv] + 1
    /\ LET t == Slot(run.t, Env.id)
       IN  AckIf(Expired(t, Env.id), [Tried EXCEPT !.t = t])
    /\ UNCHANGED <<peers, seat, disk, detained>>

\* A past epoch, or no MLS state to apply it to.
commit_refused ==
    /\ Turn("commit") /\ ~Full /\ ~Blocked
    /\ ~pcs_unresolved(Env.conv)
    /\ Stateless \/ Env.epoch <= epoch[Env.conv]
    /\ LET t == Failed(run.t, Env.id)
       IN  AckIf(Hopeless(t, Env.id), [Tried EXCEPT !.t = t])
    /\ refused' = IF Stateless THEN refused \cup {Env.id} ELSE refused
    /\ UNCHANGED <<peers, evicted, request, disk, detained>>

app_unknown ==
    /\ Turn("app") /\ ~Full
    /\ Env.conv = Stranger
    /\ LET t == Slot(run.t, Env.id)
       IN  AckIf(Expired(t, Env.id), [Rest EXCEPT !.t = t])
    /\ UNCHANGED <<peers, seat, disk, detained>>

Mine == Turn("app") /\ ~Full /\ Env.conv \in Conv
Capped == run.per[Env.conv] >= MAX_PER_CONVERSATION

app_capped ==
    /\ Mine /\ Capped
    /\ run' = [Rest EXCEPT !.blocked = @ \cup {Env.conv}, !.deferred = TRUE]
    /\ UNCHANGED <<peers, queue, seat, disk, upsets, detained>>

StoreFull == Cardinality(rx) >= MAX_STORED_MESSAGES
Skips == StoreFull \/ Stateless

app_skipped_acked ==                         \* mutant: what is skipped is taken for done
    /\ Mine /\ ~Capped
    /\ Skips
    /\ AckIf(TRUE, Counted)
    /\ UNCHANGED <<peers, seat, disk, detained>>

app_skipped ==
    /\ Mine /\ ~Capped
    /\ Skips
    /\ run' = [Counted EXCEPT !.blocked = @ \cup {Env.conv}, !.deferred = TRUE]
    /\ UNCHANGED <<peers, queue, seat, disk, upsets, detained>>

app_stored ==
    /\ Mine /\ ~Capped /\ ~Skips
    /\ Env.epoch = epoch[Env.conv] /\ Env.id \notin spent
    /\ rx' = rx \cup {Env.id}
    /\ spent' = spent \cup {Env.id}
    /\ AckIf(TRUE, [Counted EXCEPT !.t = Forget(@, Env.id)])
    /\ UNCHANGED <<peers, seat, epoch, tracker, cursor, detained>>

MayAckAhead(t) == ~pcs_unresolved(Env.conv) /\ Expired(t, Env.id)

app_ahead ==
    /\ Mine /\ ~Capped /\ ~Skips
    /\ Env.epoch > epoch[Env.conv]
    /\ LET t == Slot(run.t, Env.id)
       IN  AckIf(MayAckAhead(t),
                 [Counted EXCEPT !.t = t, !.held[Env.conv] = Append(@, Env.id),
                                 !.pinned = @ \/ Pins(t, Env.id)])
    /\ detained' = IF pcs_unresolved(Env.conv) THEN detained \cup {Env.id} ELSE detained
    /\ UNCHANGED <<peers, seat, disk>>

app_undecryptable ==
    /\ Mine /\ ~Capped /\ ~Skips
    /\ Env.epoch < epoch[Env.conv] \/ Env.id \in spent
    /\ LET t == Failed(run.t, Env.id)
       IN  AckIf(Hopeless(t, Env.id), [Counted EXCEPT !.t = t])
    /\ UNCHANGED <<peers, seat, disk, detained>>

\* Resume behind an exhausted window when nothing was deferred, start at the
\* head again from the end of the queue, keep the cursor otherwise.
SavedStays ==                                \* mutant: the end of the queue keeps it
    IF run.more /\ ~run.deferred /\ ~run.pinned
    THEN [at |-> run.next, hops |-> run.hops + 1]
    ELSE cursor
Saved ==
    IF run.more
    THEN IF run.deferred \/ run.pinned THEN cursor
         ELSE [at |-> run.next, hops |-> run.hops + 1]
    ELSE Head0

\* The tracker's write may fail, and is not asked whether it did.
finish ==
    /\ run # Idle /\ run.q = <<>>
    /\ \/ tracker' = run.t /\ UNCHANGED upsets
       \/ tracker' = tracker /\ upsets < MaxUpsets /\ upsets' = upsets + 1
    /\ cursor' = Saved
    /\ run' = Idle
    /\ UNCHANGED <<peers, queue, seat, epoch, rx, spent, detained>>

\* The run dies; the tracker's and the cursor's records are the old ones.  Or it
\* returns the error of an envelope, or dies between its two last writes, or the
\* second of them fails: then the tracker is saved and the cursor is the old one.
die ==
    /\ run # Idle
    /\ upsets < MaxUpsets
    /\ upsets' = upsets + 1
    /\ run' = Idle
    /\ tracker' = tracker \/ tracker' = run.t
    /\ UNCHANGED <<peers, queue, seat, epoch, rx, spent, cursor, detained>>

\* A message that was shown is removed.
discard(id) ==
    /\ run = Idle
    /\ id \in rx
    /\ rx' = rx \ {id}
    /\ UNCHANGED <<peers, queue, seat, epoch, spent, tracker, cursor, run, upsets, detained>>

-----------------------------------------------------------------------------
Work ==
    \/ fetch \/ break \/ commit_blocked \/ commit_applied \/ commit_unresolved
    \/ commit_ahead \/ commit_refused \/ app_unknown \/ app_capped \/ app_skipped
    \/ app_stored \/ app_ahead \/ app_undecryptable \/ finish

Next ==
    \/ \E id \in 1..MaxEnvelopes :
          \/ \E c \in Conv : \/ peer_sends(c, id) \/ peer_commits(c, id)
                           \/ peer_removes(c, id) \/ peer_adds(c, id)
          \/ stranger_sends(id)
    \/ \E c \in Conv : \/ leave_own(c) \/ resume_own(c)
                     \/ keep_request(c) \/ accept(c) \/ prune_expired(c)
    \/ tick
    \/ Work
    \/ fetch_fails \/ die
    \/ \E id \in rx : discard(id)

Spec == Init /\ [][Next]_vars

\* The user runs the inbox again and again, a run goes on, and between runs
\* time passes.
FairSpec == Spec /\ WF_vars(Work) /\ SF_vars(tick)

-----------------------------------------------------------------------------
App(id) == stamped[id].kind = "app" /\ stamped[id].conv \in Conv
Passed(id) == stamped[id].epoch < epoch[stamped[id].conv]

\* Of an epoch this device was not in.
Absent(id) == Away(stamped[id].conv, stamped[id].epoch)

\* This envelope, or one before it, once waited for our own unresolved Commit.
Detained(id) ==
    \E k \in detained : k <= id /\ stamped[k].conv = stamped[id].conv

\* A Commit after this message ended its epoch, and was applied.
Ended(id) ==
    /\ Passed(id)
    /\ \E k \in DOMAIN stamped :
          /\ k > id /\ stamped[k].kind = "commit"
          /\ stamped[k].conv = stamped[id].conv
          /\ stamped[k].epoch = stamped[id].epoch + 1

\* It builds on Commit k.
Needs(id, k) ==
    /\ k # id /\ stamped[k].kind = "commit" /\ stamped[k].conv = stamped[id].conv
    /\ stamped[k].epoch <= stamped[id].epoch

\* A Commit it builds on has a later stamp, or became visible behind a later one,
\* where a cursor may have passed already.
Disordered(id) == \E k \in DOMAIN stamped : Needs(id, k) /\ (k > id \/ k \in late)

\* A Commit refused while the device was out, or, now that it has joined again, an
\* envelope that builds on one refused.
Orphaned(id) ==
    \/ id \in refused
    \/ /\ request[stamped[id].conv] = "used"
       /\ \E k \in refused : Needs(id, k)

\* A Commit never overtakes a message: one that came before the Commit that
\* ended its epoch is read before that Commit is applied, the one that removes this
\* device included, through caps, a full store, deferrals, held envelopes, cursors,
\* an eviction and runs that died.  (There are no past epochs: it could not be read
\* afterwards.)  Exempt are messages of epochs this device was not in, those that
\* waited for our own Commit (HeldIsReadLater) or build on a Commit refused during
\* an eviction (PendingRequestHeld), and those that could only be read after a
\* Commit that was itself late: timed out at the cursor, they are acked.
NotOvertaken ==
    \A id \in DOMAIN stamped \ late :
        (App(id) /\ Ended(id)) =>
            id \in spent \/ Absent(id) \/ Detained(id) \/ Disordered(id) \/ Orphaned(id)

\* Nothing is acked that could still be used: only a message or a Commit of a past
\* epoch is given up unread, however often the run was capped, deferred, resumed
\* behind the window or killed, and whatever the clock says; and no message while
\* its group's state is gone.  (A lost Commit costs the conversation.)  Exempt are
\* envelopes that waited for our own Commit, those that build on a Commit out of
\* order (acked but held, they die with the run, and kept at a cursor behind which
\* the Commit appeared, they time out), and the Commits refused during an eviction
\* with, after the device has joined again, what builds on them.
GivenUpIsUseless ==
    \A id \in DOMAIN stamped \ queue :
        \/ stamped[id].conv = Stranger \/ Detained(id) \/ Disordered(id) \/ Orphaned(id)
        \/ IF App(id) THEN id \in spent \/ Passed(id)
           ELSE stamped[id].epoch <= epoch[stamped[id].conv]

\* Does not hold (README, 6): inbox.rs on Commits of "pending-request groups: held
\* and never" acked.  While a request waits for `accept`, no Commit made after its
\* Welcome leaves the queue; it does if the evicted conversation's record is there.
PendingRequestHeld ==
    [][\A c \in Conv : request[c] = "kept" =>
         \A k \in queue \ queue' :
            stamped[k].conv = c /\ stamped[k].kind = "commit" => stamped[k].epoch <= added[c]]_vars

\* Does not hold (README, 6): inbox.rs on a held envelope: "keep the cursor so it is
\* seen again.  Past the bound it is revisited at the next head rescan instead".  What
\* waited for our own Commit is then still readable.
HeldIsReadLater ==
    \A id \in DOMAIN stamped \ late :
        (App(id) /\ Ended(id) /\ removals = {}) => id \in spent

\* A message of a conversation whose state is gone: skipped by every run.
Stuck == \E k \in queue : App(k) /\ stamped[k].conv \in evicted

\* Every message and Commit the device was sent is reached: applied, stored, or found
\* unusable and timed by the tracker, however far behind the cursor it became
\* visible.  A full store excuses (it defers the window, and `deferred` counts no
\* hop), so does a message of an evicted conversation for the same reason, and an
\* unresolved Commit of our own (what it holds uses up the cap).
AllAreReached ==
    \A id \in 1..MaxEnvelopes :
        id \in queue ~>
            (\/ id \notin queue \/ id \in DOMAIN tracker \/ StoreFull \/ Stuck
             \/ \E c \in Conv : pcs_unresolved(c))

\* Does not hold (README, 6): one message of an evicted conversation keeps the window
\* where it is, and what lies behind is not reached.
ReachedPastEvicted ==
    \A id \in 1..MaxEnvelopes :
        id \in queue ~> (id \notin queue \/ id \in DOMAIN tracker \/ StoreFull
                         \/ stamped[id].conv \in evicted)
=============================================================================
