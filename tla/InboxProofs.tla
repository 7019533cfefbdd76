----------------------------- MODULE InboxProofs -----------------------------
(***************************************************************************)
(* Proofs about the inbox run: a Commit never overtakes a message, and     *)
(* only what is of no use is given up.                                     *)
(*                                                                         *)
(* The argument.  LedgerOK: every epoch up to the peers' has its Commit,   *)
(* stamped once, or is the one our own unresolved Commit leads to.  So an  *)
(* envelope ahead of the epoch held builds on a Commit not applied yet.    *)
(* BehindOK and HandledOK: an envelope that is still queued behind the     *)
(* cursor, or behind the run's place in its window, is one the epoch held  *)
(* cannot read, or its conversation is blocked for the run.  Hence if all  *)
(* it builds on came in order, the missing Commit was seen before it, and  *)
(* only our own Commit can have kept that one, or an eviction refused it.  *)
(* OrderOK: no Commit of the window comes before an earlier envelope,      *)
(* those held included.  SeatOK: while the device is out it holds the      *)
(* epoch of the Commit that removed it, and a re-add it can still join     *)
(* comes after that; so joining skips only epochs it was not in, and what  *)
(* it refused up to there is past.  The tracker's clock and counts have no *)
(* part in it.                                                             *)
(***************************************************************************)
EXTENDS Inbox, FiniteSetTheorems, WellFoundedInduction, TLAPS

Commit(id) == stamped[id].kind = "commit"
Of(id) == stamped[id].conv

\* The epoch an envelope is read in.
Reads(id) == IF Commit(id) THEN stamped[id].epoch - 1 ELSE stamped[id].epoch

Stamped(id, m) ==
    /\ m = [id |-> id, conv |-> m.conv, kind |-> m.kind, epoch |-> m.epoch]
    /\ m.conv \in Conv \cup {Stranger} /\ m.kind \in {"app", "commit"} /\ m.epoch \in Nat
    /\ m.conv = Stranger => m.kind = "app"
    /\ m.conv \in Conv => m.epoch <= peer[m.conv]
    /\ m.kind = "commit" => m.epoch > 0

PeersOK ==
    /\ DOMAIN stamped \subseteq 1..MaxEnvelopes
    /\ peer \in [Conv -> Nat]
    /\ own \in [Conv -> {"none", "accepted", "unknown", "resolved"}]
    /\ epoch \in [Conv -> Nat]
    /\ \A id \in DOMAIN stamped : Stamped(id, stamped[id])
    /\ queue \subseteq DOMAIN stamped /\ late \subseteq DOMAIN stamped
    /\ detained \subseteq DOMAIN stamped
    /\ rx \subseteq DOMAIN stamped
    /\ spent \subseteq {id \in DOMAIN stamped : App(id)}
    /\ cursor = [at |-> cursor.at, hops |-> cursor.hops]
    /\ cursor.at \in DOMAIN stamped \cup {0}

\* Epochs and stamps.
LedgerOK ==
    /\ \A c \in Conv : epoch[c] <= peer[c]
    /\ \A c \in Conv : \A e \in 1..peer[c] :
          \/ e <= epoch[c]
          \/ \E k \in DOMAIN stamped : Commit(k) /\ Of(k) = c /\ stamped[k].epoch = e
          \/ pcs_unresolved(c) /\ e = epoch[c] + 1
    /\ \A k, l \in DOMAIN stamped :
          Commit(k) /\ Commit(l) /\ Of(k) = Of(l) /\ stamped[k].epoch = stamped[l].epoch => k = l
    /\ \A c \in Conv : own[c] = "accepted" =>
          /\ epoch[c] < peer[c]
          /\ \A k \in DOMAIN stamped :
                Commit(k) /\ Of(k) = c => stamped[k].epoch # epoch[c] + 1
    /\ \A id, k \in DOMAIN stamped : Needs(id, k) /\ k > id => id \in late

\* Where this device stands in its conversations: out with the Commit that removed
\* it, a Commit still to come that will, or a re-add it can join.
SeatOK ==
    /\ removals \subseteq {k \in DOMAIN stamped : Commit(k)}
    /\ refused \subseteq {k \in DOMAIN stamped : Commit(k)}
    /\ evicted \subseteq Conv /\ added \in [Conv -> Nat]
    /\ request \in [Conv -> {"none", "kept", "used"}]
    /\ \A c \in evicted : /\ ~pcs_unresolved(c)
                         /\ \E r \in removals : Of(r) = c /\ stamped[r].epoch = epoch[c]
    /\ \A r \in removals :
          added[Of(r)] = 0 => Of(r) \in evicted \/ epoch[Of(r)] < stamped[r].epoch
    /\ \A c \in Conv : added[c] # 0 /\ request[c] # "used" =>
          /\ added[c] <= peer[c] /\ epoch[c] < added[c]
          /\ c \in evicted \/ \E r \in removals :
                Of(r) = c /\ epoch[c] < stamped[r].epoch /\ stamped[r].epoch < added[c]
    /\ \A c \in Conv : request[c] = "kept" => c \in evicted /\ added[c] # 0
    /\ \A k \in refused : Of(k) \in evicted \/ request[Of(k)] = "used"

Left(id) ==
    \/ Of(id) = Stranger \/ Detained(id) \/ id \in spent \/ id \in refused
    \/ Reads(id) < epoch[Of(id)]
    \/ Reads(id) > epoch[Of(id)] /\ own[Of(id)] # "accepted" /\ Of(id) \notin evicted

BehindOK == \A id \in queue \ late : id <= Resumed.at => Left(id)

Handled(id) == id > Resumed.at /\ id <= run.next /\ id \notin Range(run.q)

Shape(r) ==
    r = [pc |-> "run", q |-> r.q, next |-> r.next, hops |-> r.hops, more |-> r.more,
         deferred |-> r.deferred, pinned |-> r.pinned, attempts |-> r.attempts,
         per |-> r.per, blocked |-> r.blocked, held |-> r.held, t |-> r.t]

RunOK ==
    /\ Shape(run)
    /\ run.q \in Seq(DOMAIN stamped) /\ run.held \in [Conv -> Seq(DOMAIN stamped)]
    /\ run.per \in [Conv -> Nat]
    /\ run.next \in DOMAIN stamped \cup {0}
    /\ run.deferred \in BOOLEAN
    /\ run.blocked \subseteq Conv
    /\ \A c \in run.blocked :
          run.deferred /\ (run.per[c] >= MAX_PER_CONVERSATION \/ StoreFull \/ c \in evicted)

OrderOK ==
    /\ \A i \in DOMAIN run.q : run.q[i] > Resumed.at /\ run.q[i] <= run.next
    /\ \A i, j \in DOMAIN run.q :
          i < j /\ (Commit(run.q[i]) \/ Commit(run.q[j])) => run.q[i] < run.q[j]
    /\ \A c \in Conv : \A x \in Range(run.held[c]) :
          /\ App(x) /\ Of(x) = c /\ x > Resumed.at /\ x <= run.next
          /\ \A i \in DOMAIN run.q : Commit(run.q[i]) => x < run.q[i]
    /\ \A id \in queue : Handled(id) =>
          \A i \in DOMAIN run.q : Commit(run.q[i]) => id < run.q[i]

HandledOK ==
    run.q # <<>> \/ ~run.deferred =>
        \A id \in queue \ late : Handled(id) => Of(id) \in run.blocked \/ Left(id)

IInv ==
    /\ PeersOK /\ LedgerOK /\ SeatOK /\ BehindOK
    /\ run # Idle => RunOK /\ OrderOK /\ HandledOK
    /\ GivenUpIsUseless /\ NotOvertaken

-----------------------------------------------------------------------------
(* The records of a run. *)

\* But for the tracker, run r is as run s.
Like(r, s) ==
    /\ Shape(r)
    /\ r.q = s.q /\ r.next = s.next /\ r.hops = s.hops /\ r.deferred = s.deferred
    /\ r.per = s.per /\ r.blocked = s.blocked /\ r.held = s.held

LEMMA RestFacts ==
    ASSUME Shape(run), run.q # <<>>
    PROVE  /\ Shape(Rest) /\ Rest.q = Tail(run.q)
           /\ Rest.next = run.next /\ Rest.hops = run.hops /\ Rest.deferred = run.deferred
           /\ Rest.per = run.per /\ Rest.blocked = run.blocked /\ Rest.held = run.held
BY DEF Shape, Rest

LEMMA TriedFacts ==
    ASSUME Shape(run), run.q # <<>>
    PROVE  Like(Tried, Rest)
<1>1. PICK r : r = Rest
  OBVIOUS
<1>2. Shape(r)
  BY <1>1, RestFacts
<1> QED BY <1>1, <1>2 DEF Shape, Tried, Like

LEMMA CountedFacts ==
    ASSUME Shape(run), run.q # <<>>, run.per \in [Conv -> Nat], Env.conv \in Conv
    PROVE  /\ Shape(Counted) /\ Counted.q = Rest.q
           /\ Counted.next = run.next /\ Counted.hops = run.hops
           /\ Counted.deferred = run.deferred
           /\ Counted.per = [run.per EXCEPT ![Env.conv] = @ + 1]
           /\ Counted.blocked = run.blocked /\ Counted.held = run.held
<1>1. PICK r : r = Tried
  OBVIOUS
<1>2. Like(r, Rest)
  BY <1>1, TriedFacts
<1>3. r.per = run.per
  BY <1>2, RestFacts DEF Like
<1>4. PICK c : c = Env.conv
  OBVIOUS
<1>5. PICK p : p = [r.per EXCEPT ![c] = @ + 1]
  OBVIOUS
<1>6. Counted = [r EXCEPT !.per = p]
  BY <1>1, <1>4, <1>5, Zenon DEF Counted
<1>7. Shape(r)
  BY <1>2 DEF Like
<1>8. PICK n : n = [r EXCEPT !.per = p]
  OBVIOUS
<1>9. Shape(n) /\ n.per = p
  BY <1>7, <1>8 DEF Shape
<1>10. /\ n.q = r.q /\ n.next = r.next /\ n.hops = r.hops /\ n.deferred = r.deferred
       /\ n.blocked = r.blocked /\ n.held = r.held
  BY <1>7, <1>8 DEF Shape
<1> QED BY <1>2, <1>3, <1>4, <1>5, <1>6, <1>8, <1>9, <1>10, RestFacts DEF Like

LEMMA TrackFacts ==
    ASSUME NEW r, Shape(r), NEW t
    PROVE  Like([r EXCEPT !.t = t], r)
BY DEF Shape, Like

LEMMA AckFacts ==
    ASSUME NEW due, NEW r, Shape(r), AckIf(due, r)
    PROVE  /\ Like(run', r)
           /\ queue' = queue \/ (due /\ queue' = queue \ {Env.id})
BY DEF Shape, AckIf, Like

-----------------------------------------------------------------------------
(* Handling one envelope, x, of the run's window. *)

Useless(id) ==
    \/ Of(id) = Stranger \/ Detained(id) \/ Disordered(id) \/ Orphaned(id)
    \/ IF App(id) THEN id \in spent \/ Passed(id) ELSE stamped[id].epoch <= epoch[Of(id)]

Running == run # Idle /\ RunOK /\ OrderOK /\ HandledOK

Good == PeersOK /\ LedgerOK /\ SeatOK /\ BehindOK /\ Running /\ GivenUpIsUseless /\ NotOvertaken

HandleRec(x) ==
    /\ Shape(run') /\ run'.q = Tail(run.q) /\ run'.next = run.next
    /\ run'.per \in [Conv -> Nat] /\ \A c \in Conv : run'.per[c] >= run.per[c]
    /\ run'.deferred \in BOOLEAN /\ (run.deferred => run'.deferred)
    /\ run.blocked \subseteq run'.blocked /\ run'.blocked \subseteq run.blocked \cup {Of(x)}
    /\ Of(x) \in run'.blocked \ run.blocked =>
          /\ Of(x) \in Conv /\ run'.deferred
          /\ run'.per[Of(x)] >= MAX_PER_CONVERSATION \/ StoreFull \/ Of(x) \in evicted
    /\ \/ run'.held = run.held
       \/ App(x) /\ run'.held = [run.held EXCEPT ![Of(x)] = Append(@, x)]

Handle(x) ==
    /\ run.q # <<>> /\ x = run.q[1]
    /\ UNCHANGED <<peers, epoch, cursor, evicted, request>>
    /\ HandleRec(x)
    /\ refused' = refused \/ (Commit(x) /\ Of(x) \in evicted /\ refused' = refused \cup {x})
    /\ queue' = queue \/ queue' = queue \ {x}
    /\ spent' = spent \/ (App(x) /\ spent' = spent \cup {x})
    /\ rx' = rx \/ rx' = rx \cup {x}
    /\ detained' = detained \/ detained' = detained \cup {x}
    /\ x \in queue' \ late => Of(x) \in run'.blocked \/ Left(x)'
    /\ x \notin queue' => x \notin queue \/ Useless(x)'

LEMMA TailFacts ==
    ASSUME NEW S, NEW s \in Seq(S), s # <<>>
    PROVE  /\ Tail(s) \in Seq(S) /\ DOMAIN Tail(s) = 1..(Len(s) - 1)
           /\ \A i \in 1..(Len(s) - 1) : Tail(s)[i] = s[i + 1]
OBVIOUS

LEMMA AppendFacts ==
    ASSUME NEW S, NEW s \in Seq(S), NEW x \in S
    PROVE  /\ Append(s, x) \in Seq(S)
           /\ \A y \in Range(Append(s, x)) : y \in Range(s) \/ y = x
<1>1. /\ Append(s, x) \in Seq(S) /\ DOMAIN Append(s, x) = 1..(Len(s) + 1)
      /\ DOMAIN s = 1..Len(s) /\ Len(s) \in Nat
      /\ \A i \in 1..(Len(s) + 1) : Append(s, x)[i] = IF i <= Len(s) THEN s[i] ELSE x
  OBVIOUS
<1> QED BY <1>1 DEF Range

LEMMA StampsAreNat ==
    ASSUME PeersOK
    PROVE  DOMAIN stamped \subseteq Nat /\ 0 \notin DOMAIN stamped
<1>1. MaxEnvelopes \in Nat
  BY InboxAssumption DEF InboxAssumption
<1> QED BY <1>1 DEF PeersOK

LEMMA HeadFacts ==
    ASSUME PeersOK, RunOK, run.q # <<>>, NEW x, x = run.q[1]
    PROVE  /\ x \in DOMAIN stamped /\ Env = stamped[x] /\ Env.id = x
           /\ Len(run.q) \in Nat \ {0} /\ DOMAIN run.q = 1..Len(run.q)
           /\ Tail(run.q) \in Seq(DOMAIN stamped)
           /\ DOMAIN Tail(run.q) = 1..(Len(run.q) - 1)
           /\ \A i \in 1..(Len(run.q) - 1) : Tail(run.q)[i] = run.q[i + 1]
<1>1. /\ Len(run.q) \in Nat \ {0} /\ DOMAIN run.q = 1..Len(run.q)
      /\ x \in DOMAIN stamped
  BY DEF RunOK
<1>2. Stamped(x, stamped[x])
  BY <1>1 DEF PeersOK
<1>3. stamped[x].id = x
  BY <1>2 DEF Stamped
<1>4. /\ Tail(run.q) \in Seq(DOMAIN stamped)
      /\ DOMAIN Tail(run.q) = 1..(Len(run.q) - 1)
      /\ \A i \in 1..(Len(run.q) - 1) : Tail(run.q)[i] = run.q[i + 1]
  BY <1>1, TailFacts DEF RunOK
<1> QED BY <1>1, <1>3, <1>4 DEF Env

\* Histories only grow, and the cursor is read once.
LEMMA HandleKeeps ==
    ASSUME Good, NEW x, Handle(x)
    PROVE  /\ x \in DOMAIN stamped /\ stamped' = stamped /\ late' = late /\ own' = own
           /\ epoch' = epoch /\ peer' = peer /\ cursor' = cursor /\ Resumed' = Resumed
           /\ removals' = removals /\ added' = added /\ evicted' = evicted /\ request' = request
           /\ queue' \subseteq queue /\ spent \subseteq spent' /\ detained \subseteq detained'
           /\ refused \subseteq refused'
           /\ \A id \in DOMAIN stamped :
                 /\ Of(id)' = Of(id) /\ Commit(id)' = Commit(id) /\ App(id)' = App(id)
                 /\ Left(id) => Left(id)'
                 /\ Detained(id) => Detained(id)'
                 /\ Disordered(id)' = Disordered(id)
                 /\ Orphaned(id) => Orphaned(id)'
                 /\ Absent(id)' = Absent(id)
<1>1. x \in DOMAIN stamped
  BY HeadFacts DEF Good, Running, Handle, HandleRec
<1>2. /\ stamped' = stamped /\ late' = late /\ own' = own /\ epoch' = epoch /\ peer' = peer
      /\ cursor' = cursor /\ Resumed' = Resumed
      /\ removals' = removals /\ added' = added /\ evicted' = evicted /\ request' = request
  BY DEF Handle, HandleRec, peers, Resumed
<1>3. /\ queue' \subseteq queue /\ spent \subseteq spent' /\ detained \subseteq detained'
      /\ refused \subseteq refused'
  BY DEF Handle, HandleRec
<1>4. \A id \in DOMAIN stamped :
         /\ Of(id)' = Of(id) /\ Commit(id)' = Commit(id) /\ App(id)' = App(id)
         /\ Detained(id) => Detained(id)'
         /\ Reads(id)' = Reads(id)
  BY <1>2, <1>3 DEF Of, Commit, App, Detained, Reads
<1>5. \A id \in DOMAIN stamped : Disordered(id)' = Disordered(id)
  BY <1>2 DEF Disordered, Needs
<1>6. \A id \in DOMAIN stamped : Left(id) => Left(id)'
  BY <1>2, <1>3, <1>4 DEF Left
<1>7. \A id \in DOMAIN stamped : Orphaned(id) => Orphaned(id)'
  BY <1>2, <1>3 DEF Orphaned, Needs
<1>8. \A id \in DOMAIN stamped : Absent(id)' = Absent(id)
  BY <1>2 DEF Absent, Away
<1> QED BY <1>1, <1>2, <1>3, <1>4, <1>5, <1>6, <1>7, <1>8

LEMMA HandlePeers ==
    ASSUME Good, NEW x, Handle(x)
    PROVE  PeersOK' /\ LedgerOK' /\ SeatOK' /\ BehindOK'
<1>1. PeersOK'
  <2>1. \A id \in DOMAIN stamped : Stamped(id, stamped[id])'
    BY HandleKeeps DEF Good, PeersOK, Stamped
  <2>0. /\ x \in DOMAIN stamped
        /\ spent' = spent \/ (App(x) /\ spent' = spent \cup {x})
        /\ rx' \subseteq rx \cup {x} /\ detained' \subseteq detained \cup {x}
    BY HandleKeeps DEF Handle, HandleRec
  <2>2. spent' \subseteq {id \in DOMAIN stamped : App(id)}
    BY <2>0 DEF Good, PeersOK
  <2>3. {id \in DOMAIN stamped : App(id)}' = {id \in DOMAIN stamped : App(id)}
    BY HandleKeeps DEF App
  <2>4. /\ queue' \subseteq DOMAIN stamped /\ detained' \subseteq DOMAIN stamped
        /\ rx' \subseteq DOMAIN stamped
    BY <2>0, HandleKeeps DEF Good, PeersOK
  <2>5. /\ DOMAIN stamped' \subseteq 1..MaxEnvelopes
        /\ peer' \in [Conv -> Nat] /\ epoch' \in [Conv -> Nat]
        /\ own' \in [Conv -> {"none", "accepted", "unknown", "resolved"}]
        /\ late' \subseteq DOMAIN stamped'
        /\ cursor' = [at |-> cursor'.at, hops |-> cursor'.hops]
        /\ cursor'.at \in DOMAIN stamped' \cup {0}
    BY HandleKeeps DEF Good, PeersOK
  <2>6. /\ queue' \subseteq DOMAIN stamped' /\ detained' \subseteq DOMAIN stamped'
        /\ rx' \subseteq DOMAIN stamped'
        /\ spent' \subseteq {id \in DOMAIN stamped : App(id)}'
        /\ \A id \in DOMAIN stamped' : Stamped(id, stamped[id])'
    BY <2>1, <2>2, <2>3, <2>4, HandleKeeps
  <2> QED BY <2>5, <2>6 DEF PeersOK
<1>2. LedgerOK'
  BY HandleKeeps DEF Good, LedgerOK, Commit, Of, pcs_unresolved, Needs
<1>3. BehindOK'
  BY HandleKeeps DEF Good, BehindOK, PeersOK
<1>4. SeatOK'
  <2>1. \A k \in refused' : k \in refused \/ (Commit(k) /\ k \in DOMAIN stamped /\ Of(k) \in evicted)
    BY HandleKeeps DEF Handle
  <2>2. \A c : pcs_unresolved(c)' = pcs_unresolved(c)
    BY HandleKeeps DEF pcs_unresolved
  <2>3. removals \subseteq DOMAIN stamped /\ refused \subseteq DOMAIN stamped
    BY DEF Good, SeatOK
  <2>4. \A k \in refused' : k \in DOMAIN stamped' /\ Commit(k)'
    BY <2>1, <2>3, HandleKeeps DEF Good, SeatOK
  <2>5. \A k \in removals' : k \in DOMAIN stamped' /\ Commit(k)' /\ k \in removals /\ k \in DOMAIN stamped
    BY <2>3, HandleKeeps DEF Good, SeatOK
  <2>6. \A k \in refused' : Of(k)' \in evicted' \/ request'[Of(k)'] = "used"
    BY <2>1, <2>3, HandleKeeps DEF Good, SeatOK
  <2>7. /\ evicted' \subseteq Conv /\ added' \in [Conv -> Nat]
        /\ request' \in [Conv -> {"none", "kept", "used"}]
        /\ \A c \in Conv : request'[c] = "kept" => c \in evicted' /\ added'[c] # 0
    BY HandleKeeps DEF Good, SeatOK
  <2>8. \A c \in evicted' : /\ ~pcs_unresolved(c)'
                            /\ \E r \in removals' : Of(r)' = c /\ stamped'[r].epoch = epoch'[c]
    BY <2>2, <2>3, HandleKeeps DEF Good, SeatOK
  <2>9. \A r \in removals' :
          added'[Of(r)'] = 0 => Of(r)' \in evicted' \/ epoch'[Of(r)'] < stamped'[r].epoch
    BY <2>3, HandleKeeps DEF Good, SeatOK
  <2>10. \A c \in Conv : added'[c] # 0 /\ request'[c] # "used" =>
          /\ added'[c] <= peer'[c] /\ epoch'[c] < added'[c]
          /\ c \in evicted' \/ \E r \in removals' :
                Of(r)' = c /\ epoch'[c] < stamped'[r].epoch /\ stamped'[r].epoch < added'[c]
    BY <2>3, HandleKeeps DEF Good, SeatOK
  <2> QED BY <2>4, <2>5, <2>6, <2>7, <2>8, <2>9, <2>10 DEF SeatOK
<1> QED BY <1>1, <1>2, <1>3, <1>4

LEMMA StoreStaysFull ==
    ASSUME PeersOK', rx \subseteq rx', MaxEnvelopes \in Nat
    PROVE  StoreFull => StoreFull'
<1>1. IsFiniteSet(1..MaxEnvelopes)
  BY FS_Interval
<1>2. rx' \in SUBSET (1..MaxEnvelopes)
  BY DEF PeersOK
<1>3. IsFiniteSet(rx')
  BY <1>1, <1>2, FS_Subset
<1>4. /\ IsFiniteSet(rx) /\ Cardinality(rx) <= Cardinality(rx')
      /\ Cardinality(rx) \in Nat /\ Cardinality(rx') \in Nat
  BY <1>3, FS_Subset, FS_CardinalityType
<1> QED BY <1>4, InboxAssumption DEF StoreFull, InboxAssumption

LEMMA HandleRun ==
    ASSUME Good, NEW x, Handle(x)
    PROVE  RunOK' /\ OrderOK' /\ HandledOK' /\ (run # Idle)'
<1>0. /\ x \in DOMAIN stamped /\ stamped' = stamped /\ Resumed' = Resumed /\ queue' \subseteq queue
      /\ run'.q = Tail(run.q) /\ run'.next = run.next /\ late' = late
  BY HandleKeeps DEF Handle, HandleRec
<1>1. /\ Len(run.q) \in Nat \ {0} /\ DOMAIN run.q = 1..Len(run.q)
      /\ Tail(run.q) \in Seq(DOMAIN stamped)
      /\ DOMAIN Tail(run.q) = 1..(Len(run.q) - 1)
      /\ \A i \in 1..(Len(run.q) - 1) : Tail(run.q)[i] = run.q[i + 1]
      /\ x = run.q[1]
  BY HeadFacts DEF Good, Running, Handle, HandleRec
<1>2. /\ run.held \in [Conv -> Seq(DOMAIN stamped)] /\ run'.held \in [Conv -> Seq(DOMAIN stamped)]
      /\ \A c \in Conv : \A y \in Range(run'.held[c]) :
            y \in Range(run.held[c]) \/ (y = x /\ App(x) /\ Of(x) = c)
  <2>1. run.held \in [Conv -> Seq(DOMAIN stamped)]
    BY DEF Good, Running, RunOK
  <2>2. CASE run'.held = run.held
    BY <2>1, <2>2
  <2>3. CASE App(x) /\ run'.held = [run.held EXCEPT ![Of(x)] = Append(@, x)]
    <3>1. Of(x) \in Conv
      BY <2>3 DEF App, Of
    <3>2. PICK h : h = run.held[Of(x)] /\ h \in Seq(DOMAIN stamped)
      BY <2>1, <3>1
    <3>3. /\ Append(h, x) \in Seq(DOMAIN stamped)
          /\ \A y \in Range(Append(h, x)) : y \in Range(h) \/ y = x
      BY <1>0, <3>2, AppendFacts
    <3> QED BY <2>1, <2>3, <3>1, <3>2, <3>3
  <2> QED BY <2>1, <2>2, <2>3 DEF Handle, HandleRec
<1>3. RunOK'
  <2>1. run.per \in [Conv -> Nat] /\ run.blocked \subseteq Conv /\ run.next \in DOMAIN stamped \cup {0}
    BY DEF Good, Running, RunOK
  <2>2. rx \subseteq rx' /\ MaxEnvelopes \in Nat
    BY InboxAssumption DEF Handle, HandleRec, InboxAssumption
  <2>3. StoreFull => StoreFull'
    BY <2>2, HandlePeers, StoreStaysFull
  <2>4. run'.blocked \subseteq Conv
    BY <2>1 DEF Handle, HandleRec
  <2>5. ASSUME NEW c \in run'.blocked
        PROVE  run'.deferred /\ (run'.per[c] >= MAX_PER_CONVERSATION \/ StoreFull'
                                 \/ c \in evicted')
    <3>1. CASE c \in run.blocked
      <4>1. run.deferred /\ (run.per[c] >= MAX_PER_CONVERSATION \/ StoreFull \/ c \in evicted)
        BY <3>1 DEF Good, Running, RunOK
      <4>2. run'.per[c] \in Nat /\ run.per[c] \in Nat /\ run'.per[c] >= run.per[c]
            /\ run'.deferred
        BY <2>1, <2>4, <2>5, <4>1 DEF Handle, HandleRec
      <4> QED BY <2>3, <4>1, <4>2, HandleKeeps, InboxAssumption DEF InboxAssumption
    <3>2. CASE c \notin run.blocked
      <4>1. c = Of(x) /\ Of(x) \in run'.blocked \ run.blocked
        BY <2>5, <3>2 DEF Handle, HandleRec
      <4> QED BY <2>3, <4>1, HandleKeeps DEF Handle, HandleRec
    <3> QED BY <3>1, <3>2
  <2>6. /\ Shape(run') /\ run'.per \in [Conv -> Nat] /\ run'.deferred \in BOOLEAN
    BY DEF Handle, HandleRec
  <2>7. run'.q \in Seq(DOMAIN stamped') /\ run'.next \in DOMAIN stamped' \cup {0}
        /\ run'.held \in [Conv -> Seq(DOMAIN stamped')]
    BY <1>0, <1>1, <1>2, <2>1
  <2> QED BY <2>4, <2>5, <2>6, <2>7 DEF RunOK, Shape
<1>4. /\ \A i \in DOMAIN run.q : run.q[i] > Resumed.at /\ run.q[i] <= run.next
      /\ \A i, j \in DOMAIN run.q :
            i < j /\ (Commit(run.q[i]) \/ Commit(run.q[j])) => run.q[i] < run.q[j]
      /\ \A c \in Conv : \A y \in Range(run.held[c]) :
            /\ App(y) /\ Of(y) = c /\ y > Resumed.at /\ y <= run.next
            /\ \A i \in DOMAIN run.q : Commit(run.q[i]) => y < run.q[i]
      /\ \A id \in queue : Handled(id) =>
            \A i \in DOMAIN run.q : Commit(run.q[i]) => id < run.q[i]
  BY DEF Good, Running, OrderOK
<1>5. \A i \in DOMAIN run'.q : /\ i \in DOMAIN run.q /\ i + 1 \in DOMAIN run.q /\ i \in Nat
                               /\ run'.q[i] = run.q[i + 1]
  BY <1>0, <1>1
<1>6. \A i \in DOMAIN run'.q : Commit(run'.q[i]) => x < run'.q[i]
  <2> SUFFICES ASSUME NEW i \in DOMAIN run'.q, Commit(run'.q[i]) PROVE x < run'.q[i]
    OBVIOUS
  <2>1. 1 \in DOMAIN run.q /\ i + 1 \in DOMAIN run.q /\ 1 < i + 1 /\ run'.q[i] = run.q[i + 1]
    BY <1>0, <1>1, <1>5
  <2> QED BY <1>1, <1>4, <2>1
<1>7. \A id \in queue : Handled(id)' => id = x \/ Handled(id)
  <2> SUFFICES ASSUME NEW id \in queue, Handled(id)', id # x PROVE Handled(id)
    OBVIOUS
  <2>1. id > Resumed.at /\ id <= run.next /\ \A i \in DOMAIN run'.q : run'.q[i] # id
    BY <1>0 DEF Handled, Range
  <2>2. \A i \in DOMAIN run.q : run.q[i] # id
    <3> SUFFICES ASSUME NEW i \in DOMAIN run.q, i # 1 PROVE run.q[i] # id
      BY <1>1
    <3>1. i - 1 \in DOMAIN run'.q /\ i - 1 + 1 = i
      BY <1>0, <1>1
    <3> QED BY <1>5, <2>1, <3>1
  <2> QED BY <2>1, <2>2 DEF Handled, Range
<1>8. OrderOK'
  <2>1. \A id \in DOMAIN stamped : /\ Of(id)' = Of(id) /\ Commit(id)' = Commit(id)
                                   /\ App(id)' = App(id)
    BY HandleKeeps
  <2>2. \A i \in DOMAIN run'.q : run'.q[i] \in DOMAIN stamped
    <3>1. run.q \in Seq(DOMAIN stamped)
      BY DEF Good, Running, RunOK
    <3>2. \A i \in DOMAIN run.q : run.q[i] \in DOMAIN stamped
      BY <3>1
    <3> QED BY <1>5, <3>2
  <2>3. \A i \in DOMAIN run'.q : run'.q[i] > Resumed.at /\ run'.q[i] <= run'.next
    BY <1>0, <1>4, <1>5
  <2>4. \A i, j \in DOMAIN run'.q :
            i < j /\ (Commit(run'.q[i]) \/ Commit(run'.q[j])) => run'.q[i] < run'.q[j]
    BY <1>4, <1>5
  <2>5. \A c \in Conv : \A y \in Range(run'.held[c]) :
            /\ y \in DOMAIN stamped
            /\ App(y) /\ Of(y) = c /\ y > Resumed.at /\ y <= run'.next
            /\ \A i \in DOMAIN run'.q : Commit(run'.q[i]) => y < run'.q[i]
    <3> SUFFICES ASSUME NEW c \in Conv, NEW y \in Range(run'.held[c])
                 PROVE  /\ y \in DOMAIN stamped
                        /\ App(y) /\ Of(y) = c /\ y > Resumed.at /\ y <= run'.next
                        /\ \A i \in DOMAIN run'.q : Commit(run'.q[i]) => y < run'.q[i]
      OBVIOUS
    <3>1. CASE y = x /\ App(x) /\ Of(x) = c
      BY <1>0, <1>1, <1>4, <1>6, <3>1
    <3>2. CASE y \in Range(run.held[c])
      <4>1. y \in DOMAIN stamped
        BY <1>2, <3>2 DEF Range
      <4> QED BY <1>0, <1>4, <1>5, <3>2, <4>1
    <3> QED BY <1>2, <3>1, <3>2
  <2>6. \A id \in queue' : Handled(id)' =>
            \A i \in DOMAIN run'.q : Commit(run'.q[i]) => id < run'.q[i]
    BY <1>0, <1>4, <1>5, <1>6, <1>7
  <2> QED BY <1>0, <2>1, <2>2, <2>3, <2>4, <2>5, <2>6 DEF OrderOK
<1>9. HandledOK'
  <2> SUFFICES ASSUME NEW id \in queue' \ late, Handled(id)'
               PROVE  Of(id)' \in run'.blocked \/ Left(id)'
    BY <1>0 DEF HandledOK
  <2>1. id \in DOMAIN stamped
    BY <1>0 DEF Good, PeersOK
  <2>2. CASE id = x
    BY <2>1, <2>2, HandleKeeps DEF Handle, HandleRec
  <2>3. CASE id # x
    <3>1. Handled(id)
      BY <1>0, <1>7, <2>3
    <3>2. Of(id) \in run.blocked \/ Left(id)
      <4>1. run.q # <<>>
        BY DEF Handle, HandleRec
      <4> QED BY <1>0, <3>1, <4>1 DEF Good, Running, HandledOK
    <3>3. Of(id)' = Of(id) /\ (Left(id) => Left(id)') /\ run.blocked \subseteq run'.blocked
      BY <2>1, HandleKeeps DEF Handle, HandleRec
    <3> QED BY <3>2, <3>3
  <2> QED BY <2>2, <2>3
<1>10. run' # Idle
  <2>1. Shape(run')
    BY DEF Handle, HandleRec
  <2>2. run'.pc = "run" /\ Idle.pc = "idle"
    BY <2>1 DEF Shape, Idle
  <2> QED BY <2>2
<1> QED BY <1>3, <1>8, <1>9, <1>10 DEF Idle

LEMMA HandleGives ==
    ASSUME Good, NEW x, Handle(x)
    PROVE  GivenUpIsUseless' /\ NotOvertaken'
<1>1. GivenUpIsUseless = \A id \in DOMAIN stamped \ queue : Useless(id)
  BY DEF GivenUpIsUseless, Useless, Of
<1>2. \A id \in DOMAIN stamped : Useless(id) => Useless(id)'
  BY HandleKeeps DEF Useless, Passed, Of
<1>3. \A id \in DOMAIN stamped' \ queue' : Useless(id)'
  <2>1. DOMAIN stamped' = DOMAIN stamped /\ x \in DOMAIN stamped
    BY HandleKeeps
  <2>2. /\ queue' = queue \/ queue' = queue \ {x}
        /\ x \notin queue' => x \notin queue \/ Useless(x)'
    BY DEF Handle
  <2>3. \A id \in DOMAIN stamped \ queue : Useless(id)
    BY <1>1 DEF Good
  <2> QED BY <1>2, <2>1, <2>2, <2>3
<1>4. GivenUpIsUseless'
  BY <1>3 DEF GivenUpIsUseless, Useless, Of
<1>5. NotOvertaken'
  <2>1. \A id \in DOMAIN stamped : Ended(id)' = Ended(id)
    BY HandleKeeps DEF Ended, Passed
  <2> QED BY <2>1, HandleKeeps DEF Good, NotOvertaken
<1> QED BY <1>4, <1>5

LEMMA HandleStep ==
    ASSUME Good, NEW x, Handle(x)
    PROVE  Good'
BY HandlePeers, HandleRun, HandleGives DEF Good, Running

\* An envelope that is ahead builds on a Commit that is missing.  If that one came
\* in order, this run or an earlier one has seen it, and only our own Commit can
\* have kept it.
LEMMA AheadIsExcused ==
    ASSUME Good, run.q # <<>>, NEW x, x = run.q[1], NEW c \in Conv, Of(x) = c,
           ~pcs_unresolved(c), Reads(x) > epoch[c], c \notin run.blocked, c \notin evicted
    PROVE  Detained(x) \/ Disordered(x) \/ Orphaned(x)
<1>1. x \in DOMAIN stamped /\ Stamped(x, stamped[x]) /\ 1 \in DOMAIN run.q
  BY HeadFacts DEF Good, Running, PeersOK
<1>2. /\ epoch[c] \in Nat /\ peer[c] \in Nat /\ stamped[x].epoch \in Nat
      /\ stamped[x].epoch > epoch[c] /\ stamped[x].epoch <= peer[c]
      /\ Commit(x) => stamped[x].epoch > epoch[c] + 1
  BY <1>1 DEF Good, PeersOK, Stamped, Reads, Commit, Of
<1>3. PICK k \in DOMAIN stamped : Commit(k) /\ Of(k) = c /\ stamped[k].epoch = epoch[c] + 1
  <2>1. epoch[c] + 1 \in 1..peer[c] /\ ~(epoch[c] + 1 <= epoch[c])
    BY <1>2
  <2> QED BY <2>1 DEF Good, LedgerOK
<1>4. Needs(x, k)
  BY <1>1, <1>2, <1>3 DEF Needs, Commit, Of
<1>5. SUFFICES ASSUME ~(k > x), k \notin late
               PROVE  Detained(x) \/ Disordered(x) \/ Orphaned(x)
  BY <1>3, <1>4 DEF Disordered
<1>6. k < x /\ k \in Nat /\ x \in Nat
  <2>1. k \in 1..MaxEnvelopes /\ x \in 1..MaxEnvelopes /\ MaxEnvelopes \in Nat
    BY <1>1, <1>3, InboxAssumption DEF Good, PeersOK, InboxAssumption
  <2> QED BY <1>4, <1>5, <2>1 DEF Needs
<1>7. Detained(k) => Detained(x)
  <2> SUFFICES ASSUME Detained(k) PROVE Detained(x)
    OBVIOUS
  <2>1. PICK d \in detained : d <= k /\ stamped[d].conv = stamped[k].conv
    BY DEF Detained
  <2>2. d \in Nat
    BY InboxAssumption DEF Good, PeersOK, InboxAssumption
  <2>3. d <= x /\ stamped[d].conv = stamped[x].conv
    BY <1>3, <1>6, <2>1, <2>2 DEF Of
  <2> QED BY <2>3 DEF Detained
<1>8. k \notin spent /\ Reads(k) = epoch[c] /\ ~App(k) /\ c # Stranger
  <2>1. ~App(k) /\ c # Stranger
    BY <1>3, InboxAssumption DEF App, Commit, InboxAssumption
  <2>2. k \notin spent
    BY <2>1 DEF Good, PeersOK
  <2> QED BY <1>2, <1>3, <2>1, <2>2 DEF Reads
<1>9. Left(k) => Detained(k) \/ k \in refused
  BY <1>2, <1>3, <1>8 DEF Left
<1>14. ASSUME NEW l \in refused, Needs(x, l) PROVE Orphaned(x)
  <2>1. Of(l) = c
    BY <1>14 DEF Needs, Of
  <2>2. request[c] = "used"
    BY <2>1 DEF Good, SeatOK
  <2> QED BY <1>14, <2>2 DEF Orphaned, Of
<1>15. Orphaned(k) => Orphaned(x)
  <2> SUFFICES ASSUME NEW l \in refused, Needs(k, l) PROVE Orphaned(x)
    BY <1>4, <1>14 DEF Orphaned
  <2>1. l \in DOMAIN stamped /\ stamped[l].epoch \in Nat
    BY DEF Good, SeatOK, PeersOK, Stamped
  <2>2. l = x \/ Needs(x, l)
    BY <1>2, <1>3, <1>4, <2>1 DEF Needs, Of, Commit
  <2> QED BY <1>14, <2>2 DEF Orphaned
<1>10. CASE k \notin queue
  <2>1. Detained(k) \/ Disordered(k) \/ Orphaned(k)
    BY <1>2, <1>3, <1>8, <1>10 DEF Good, GivenUpIsUseless, Of
  <2>2. CASE Disordered(k)
    <3>1. PICK l \in DOMAIN stamped : Needs(k, l) /\ (l > k \/ l \in late)
      BY <2>2 DEF Disordered
    <3>2. l \in late
      BY <1>3, <1>5, <3>1 DEF Good, LedgerOK
    <3>3. Needs(x, l)
      <4>1. stamped[l].epoch \in Nat
        BY DEF Good, PeersOK, Stamped
      <4> QED BY <1>2, <1>3, <1>4, <3>1, <4>1 DEF Needs, Of, Commit
    <3> QED BY <3>2, <3>3 DEF Disordered
  <2> QED BY <1>7, <1>15, <2>1, <2>2
<1>11. CASE k \in queue /\ k <= Resumed.at
  BY <1>4, <1>5, <1>7, <1>9, <1>11, <1>14 DEF Good, BehindOK
<1>12. CASE k \in queue /\ k > Resumed.at
  <2>1. x <= run.next /\ \A i \in DOMAIN run.q : 1 < i /\ Commit(run.q[i]) => x < run.q[i]
    BY <1>1 DEF Good, Running, OrderOK
  <2>2. k \notin Range(run.q)
    <3> SUFFICES ASSUME NEW i \in DOMAIN run.q, run.q[i] = k PROVE FALSE
      BY DEF Range
    <3>1. i = 1 \/ 1 < i
      BY HeadFacts DEF Good, Running
    <3> QED BY <1>3, <1>6, <2>1, <3>1
  <2>3. run.next \in Nat
    BY StampsAreNat DEF Good, Running, RunOK
  <2>4. Handled(k)
    BY <1>6, <1>12, <2>1, <2>2, <2>3 DEF Handled
  <2> QED BY <1>3, <1>4, <1>5, <1>7, <1>9, <1>12, <1>14, <2>4 DEF Good, Running, HandledOK
<1>13. Resumed.at \in Nat
  BY InboxAssumption DEF Good, PeersOK, Resumed, Head0, InboxAssumption
<1> QED BY <1>6, <1>10, <1>11, <1>12, <1>13

-----------------------------------------------------------------------------
(* The steps that handle one envelope. *)

LEMMA FrontFacts ==
    ASSUME Good, run.q # <<>>, NEW x, x = run.q[1]
    PROVE  /\ x \in DOMAIN stamped /\ Shape(run) /\ run.per \in [Conv -> Nat]
           /\ run.deferred \in BOOLEAN
           /\ Env.id = x /\ Env.conv = Of(x) /\ Env.epoch = stamped[x].epoch
           /\ Env.kind = stamped[x].kind /\ stamped[x].epoch \in Nat
           /\ Of(x) \in Conv \cup {Stranger}
           /\ Of(x) \in Conv => epoch[Of(x)] \in Nat
           /\ Env.kind = "commit" => Of(x) \in Conv /\ Commit(x) /\ ~App(x)
           /\ Env.kind = "app" => ~Commit(x) /\ App(x) = (Of(x) \in Conv)
<1>1. x \in DOMAIN stamped /\ Env = stamped[x] /\ Env.id = x
  BY HeadFacts DEF Good, Running
<1>2. Stamped(x, stamped[x]) /\ epoch \in [Conv -> Nat]
  BY <1>1 DEF Good, PeersOK
<1>3. Shape(run) /\ run.per \in [Conv -> Nat] /\ run.deferred \in BOOLEAN
  BY DEF Good, Running, RunOK
<1> QED BY <1>1, <1>2, <1>3 DEF Stamped, Of, Commit, App

LEMMA PlainRec ==
    ASSUME Good, run.q # <<>>, NEW x, x = run.q[1], Like(run', Rest)
    PROVE  HandleRec(x) /\ run'.blocked = run.blocked
BY FrontFacts, RestFacts DEF HandleRec, Like

LEMMA CountedRec ==
    ASSUME Good, run.q # <<>>, NEW x, x = run.q[1], Of(x) \in Conv, Like(run', Counted)
    PROVE  HandleRec(x) /\ run'.blocked = run.blocked
<1>1. /\ Shape(run) /\ run.per \in [Conv -> Nat] /\ Env.conv = Of(x) /\ run.deferred \in BOOLEAN
  BY FrontFacts
<1>2. PICK p : p = [run.per EXCEPT ![Of(x)] = @ + 1]
  OBVIOUS
<1>3. p \in [Conv -> Nat] /\ \A c \in Conv : p[c] >= run.per[c]
  BY <1>1, <1>2
<1>4. /\ Counted.q = Tail(run.q) /\ Counted.next = run.next /\ Counted.deferred = run.deferred
      /\ Counted.per = p /\ Counted.blocked = run.blocked /\ Counted.held = run.held
  BY <1>1, <1>2, CountedFacts, RestFacts
<1> QED BY <1>1, <1>3, <1>4 DEF HandleRec, Like

Deferred(r, T) == [r EXCEPT !.deferred = T]
Block(r, B) == [r EXCEPT !.blocked = B, !.deferred = TRUE]

LEMMA DeferFacts ==
    ASSUME NEW r, Shape(r), NEW T
    PROVE  LET n == Deferred(r, T)
           IN  /\ Shape(n) /\ n.q = r.q /\ n.next = r.next /\ n.held = r.held /\ n.per = r.per
               /\ n.blocked = r.blocked /\ n.deferred = T
<1>1. PICK m : m = [r EXCEPT !.deferred = T]
  OBVIOUS
<1>2. /\ Shape(m) /\ m.q = r.q /\ m.next = r.next /\ m.held = r.held /\ m.per = r.per
      /\ m.blocked = r.blocked /\ m.deferred = T
  BY <1>1 DEF Shape
<1>3. m = Deferred(r, T)
  BY <1>1, Zenon DEF Deferred
<1> QED BY <1>2, <1>3, Zenon

LEMMA BlockFacts ==
    ASSUME NEW r, Shape(r), NEW B
    PROVE  LET n == Block(r, B)
           IN  /\ Shape(n) /\ n.q = r.q /\ n.next = r.next /\ n.held = r.held /\ n.per = r.per
               /\ n.blocked = B /\ n.deferred
<1>1. PICK T : T = TRUE
  OBVIOUS
<1>2. PICK m : m = [r EXCEPT !.blocked = B]
  OBVIOUS
<1>3. /\ Shape(m) /\ m.q = r.q /\ m.next = r.next /\ m.held = r.held /\ m.per = r.per
      /\ m.blocked = B
  BY <1>2 DEF Shape
<1>4. PICK n : n = Deferred(m, T)
  OBVIOUS
<1>5. /\ Shape(n) /\ n.q = m.q /\ n.next = m.next /\ n.held = m.held /\ n.per = m.per
      /\ n.blocked = m.blocked /\ n.deferred = T
  BY <1>3, <1>4, DeferFacts, Zenon
<1>6. n = Block(r, B)
  BY <1>1, <1>2, <1>4, Zenon DEF Deferred, Block
<1>7. n.deferred
  BY <1>1, <1>5, Zenon
<1> QED BY <1>3, <1>5, <1>6, <1>7, Zenon

\* The envelope's conversation is blocked, or was.
LEMMA BlockRec ==
    ASSUME Good, run.q # <<>>, NEW x, x = run.q[1], Of(x) \in Conv, NEW r, Shape(r),
           r.q = Tail(run.q), r.next = run.next, r.held = run.held,
           r.per \in [Conv -> Nat], \A c \in Conv : r.per[c] >= run.per[c],
           NEW B, B = run.blocked \/ (B = run.blocked \cup {Of(x)}
                                      /\ (r.per[Of(x)] >= MAX_PER_CONVERSATION \/ StoreFull
                                          \/ Of(x) \in evicted)),
           run' = Block(r, B)
    PROVE  HandleRec(x) /\ run'.blocked = B
<1>1. /\ Shape(run') /\ run'.q = r.q /\ run'.next = r.next /\ run'.held = r.held /\ run'.per = r.per
      /\ run'.blocked = B /\ run'.deferred
  BY BlockFacts, Zenon
<1> QED BY <1>1 DEF HandleRec

LEMMA CommitBlocked ==
    ASSUME Good, commit_blocked
    PROVE  Good'
<1>1. PICK x : x = run.q[1]
  OBVIOUS
<1>2. run.q # <<>> /\ Env.kind = "commit" /\ Env.conv \in run.blocked
  BY DEF commit_blocked, Turn, Blocked
<1>3. Of(x) \in Conv /\ Of(x) \in run.blocked /\ Shape(run) /\ run.per \in [Conv -> Nat]
  BY <1>1, <1>2, FrontFacts
<1>4. PICK r : r = Tried
  OBVIOUS
<1>5. /\ Shape(r) /\ r.q = Tail(run.q) /\ r.next = run.next /\ r.held = run.held
      /\ r.per = run.per /\ r.blocked = run.blocked
  BY <1>2, <1>3, <1>4, TriedFacts, RestFacts DEF Like
<1>6. run' = Block(r, run.blocked)
  <2>1. PICK T : T = TRUE
    OBVIOUS
  <2>2. run' = [r EXCEPT !.deferred = T]
    BY <1>4, <2>1, Zenon DEF commit_blocked
  <2>3. run' = [r EXCEPT !.blocked = r.blocked, !.deferred = T]
    BY <1>5, <2>2 DEF Shape
  <2> QED BY <1>5, <2>1, <2>3, Zenon DEF Block
<1>7. HandleRec(x) /\ run'.blocked = run.blocked
  <2>1. \A c \in Conv : r.per[c] >= run.per[c]
    BY <1>3, <1>5
  <2> QED BY <1>1, <1>2, <1>3, <1>5, <1>6, <2>1, BlockRec, Zenon
<1>8. Handle(x)
  BY <1>1, <1>2, <1>3, <1>7 DEF Handle, commit_blocked, disk, seat
<1> QED BY <1>8, HandleStep

LEMMA CommitUnresolved ==
    ASSUME Good, commit_unresolved
    PROVE  Good'
<1>1. PICK x : x = run.q[1]
  OBVIOUS
<1>2. run.q # <<>>
  BY DEF commit_unresolved, Turn
<1>3. x \in DOMAIN stamped /\ Env.id = x /\ Shape(run)
  BY <1>1, <1>2, FrontFacts
<1>4. Like(run', Rest)
  BY <1>2, <1>3, TriedFacts DEF commit_unresolved
<1>5. HandleRec(x)
  BY <1>1, <1>2, <1>4, PlainRec
<1>6. detained' = detained \cup {x} /\ UNCHANGED <<peers, queue, seat, disk>>
  BY <1>3 DEF commit_unresolved
<1>7. Left(x)'
  <2>1. x \in Nat
    BY <1>3, InboxAssumption DEF Good, PeersOK, InboxAssumption
  <2>2. Detained(x)'
    BY <1>6, <2>1 DEF Detained
  <2> QED BY <2>2 DEF Left
<1>8. Handle(x)
  BY <1>1, <1>2, <1>5, <1>6, <1>7 DEF Handle, disk, seat
<1> QED BY <1>8, HandleStep

LEMMA CommitAhead ==
    ASSUME Good, commit_ahead
    PROVE  Good'
<1>1. PICK x : x = run.q[1]
  OBVIOUS
<1>2. /\ run.q # <<>> /\ Env.kind = "commit" /\ Env.conv \notin run.blocked
      /\ ~pcs_unresolved(Env.conv) /\ Env.epoch > epoch[Env.conv] + 1
      /\ Env.conv \notin evicted
      /\ UNCHANGED <<peers, seat, disk, detained>>
  BY DEF commit_ahead, Turn, Blocked, Stateless
<1>3. /\ x \in DOMAIN stamped /\ Env.id = x /\ Shape(run) /\ Env.conv = Of(x) /\ Of(x) \in Conv
      /\ Commit(x) /\ Env.epoch = stamped[x].epoch /\ stamped[x].epoch \in Nat
      /\ epoch[Of(x)] \in Nat
  BY <1>1, <1>2, FrontFacts
<1>4. Like(run', Rest) /\ (queue' = queue \/ queue' = queue \ {x})
  <2>1. PICK t : AckIf(Expired(t, Env.id), [Tried EXCEPT !.t = t])
    BY DEF commit_ahead
  <2>2. PICK r : r = [Tried EXCEPT !.t = t]
    OBVIOUS
  <2>3. Like(r, Rest)
    <3>1. PICK s : s = Tried
      OBVIOUS
    <3>2. Like(s, Rest)
      BY <1>2, <1>3, <3>1, TriedFacts
    <3> QED BY <2>2, <3>1, <3>2, TrackFacts DEF Like
  <2>4. AckIf(Expired(t, Env.id), r)
    BY <2>1, <2>2
  <2>5. Like(run', r) /\ (queue' = queue \/ queue' = queue \ {x})
    BY <1>3, <2>3, <2>4, AckFacts DEF Like
  <2> QED BY <2>3, <2>5 DEF Like
<1>5. HandleRec(x)
  BY <1>1, <1>2, <1>4, PlainRec
<1>6. Reads(x) > epoch[Of(x)] /\ own[Of(x)] # "accepted" /\ Of(x) \notin evicted
  BY <1>2, <1>3 DEF Reads, pcs_unresolved
<1>7. Left(x)'
  BY <1>2, <1>6 DEF Left, Reads, Commit, Of, peers, disk, seat
<1>8. Useless(x)'
  <2>1. Detained(x) \/ Disordered(x) \/ Orphaned(x)
    BY <1>1, <1>2, <1>3, <1>6, AheadIsExcused
  <2> QED BY <1>2, <2>1 DEF Useless, Detained, Disordered, Orphaned, Needs, peers, seat
<1>9. Handle(x)
  BY <1>1, <1>2, <1>4, <1>5, <1>7, <1>8 DEF Handle, disk, seat
<1> QED BY <1>9, HandleStep

LEMMA CommitRefused ==
    ASSUME Good, commit_refused
    PROVE  Good'
<1>1. PICK x : x = run.q[1]
  OBVIOUS
<1>2. /\ run.q # <<>> /\ Env.kind = "commit"
      /\ Env.conv \in evicted \/ Env.epoch <= epoch[Env.conv]
      /\ refused' = IF Env.conv \in evicted THEN refused \cup {Env.id} ELSE refused
      /\ UNCHANGED <<peers, evicted, request, disk, detained>>
  BY DEF commit_refused, Turn, Stateless
<1>3. /\ x \in DOMAIN stamped /\ Env.id = x /\ Shape(run) /\ Env.conv = Of(x) /\ Of(x) \in Conv
      /\ Commit(x) /\ ~App(x) /\ Env.epoch = stamped[x].epoch /\ stamped[x].epoch \in Nat
      /\ epoch[Of(x)] \in Nat
  BY <1>1, <1>2, FrontFacts
<1>4. Like(run', Rest) /\ (queue' = queue \/ queue' = queue \ {x})
  <2>1. PICK t : AckIf(Hopeless(t, Env.id), [Tried EXCEPT !.t = t])
    BY DEF commit_refused
  <2>2. PICK r : r = [Tried EXCEPT !.t = t]
    OBVIOUS
  <2>3. Like(r, Rest)
    <3>1. PICK s : s = Tried
      OBVIOUS
    <3>2. Like(s, Rest)
      BY <1>2, <1>3, <3>1, TriedFacts
    <3> QED BY <2>2, <3>1, <3>2, TrackFacts DEF Like
  <2>4. AckIf(Hopeless(t, Env.id), r)
    BY <2>1, <2>2
  <2>5. Like(run', r) /\ (queue' = queue \/ queue' = queue \ {x})
    BY <1>3, <2>3, <2>4, AckFacts DEF Like
  <2> QED BY <2>3, <2>5 DEF Like
<1>5. HandleRec(x)
  BY <1>1, <1>2, <1>4, PlainRec
<1>6. CASE Of(x) \in evicted
  <2>1. x \in refused' /\ refused' = refused \cup {x}
    BY <1>2, <1>3, <1>6
  <2>2. Left(x)' /\ Useless(x)'
    BY <2>1 DEF Left, Useless, Orphaned
  <2>3. Handle(x)
    BY <1>1, <1>2, <1>3, <1>4, <1>5, <1>6, <2>1, <2>2 DEF Handle, disk
  <2> QED BY <2>3, HandleStep
<1>7. CASE Of(x) \notin evicted
  <2>1. Reads(x) < epoch[Of(x)] /\ stamped[x].epoch <= epoch[Of(x)] /\ refused' = refused
    BY <1>2, <1>3, <1>7 DEF Reads
  <2>2. Left(x)' /\ Useless(x)'
    BY <1>2, <1>3, <2>1 DEF Left, Useless, Reads, Commit, Of, App, peers, disk
  <2>3. Handle(x)
    BY <1>1, <1>2, <1>3, <1>4, <1>5, <2>1, <2>2 DEF Handle, disk
  <2> QED BY <2>3, HandleStep
<1> QED BY <1>6, <1>7

LEMMA AppUnknown ==
    ASSUME Good, app_unknown
    PROVE  Good'
<1>1. PICK x : x = run.q[1]
  OBVIOUS
<1>2. run.q # <<>> /\ Env.conv = Stranger /\ UNCHANGED <<peers, seat, disk, detained>>
  BY DEF app_unknown, Turn
<1>3. x \in DOMAIN stamped /\ Env.id = x /\ Shape(run) /\ Of(x) = Stranger
  BY <1>1, <1>2, FrontFacts
<1>4. Like(run', Rest) /\ (queue' = queue \/ queue' = queue \ {x})
  <2>1. PICK t : AckIf(Expired(t, Env.id), [Rest EXCEPT !.t = t])
    BY DEF app_unknown
  <2>2. PICK r : r = [Rest EXCEPT !.t = t]
    OBVIOUS
  <2>3. Like(r, Rest)
    <3>1. PICK s : s = Rest
      OBVIOUS
    <3>2. Shape(s)
      BY <1>2, <1>3, <3>1, RestFacts
    <3> QED BY <2>2, <3>1, <3>2, TrackFacts
  <2>4. AckIf(Expired(t, Env.id), r)
    BY <2>1, <2>2
  <2>5. Like(run', r) /\ (queue' = queue \/ queue' = queue \ {x})
    BY <1>3, <2>3, <2>4, AckFacts DEF Like
  <2> QED BY <2>3, <2>5 DEF Like
<1>5. HandleRec(x)
  BY <1>1, <1>2, <1>4, PlainRec
<1>6. Left(x)' /\ Useless(x)'
  BY <1>2, <1>3 DEF Left, Useless, Of, peers
<1>7. Handle(x)
  BY <1>1, <1>2, <1>4, <1>5, <1>6 DEF Handle, disk, seat
<1> QED BY <1>7, HandleStep

LEMMA AppCapped ==
    ASSUME Good, app_capped
    PROVE  Good'
<1>1. PICK x : x = run.q[1]
  OBVIOUS
<1>2. /\ run.q # <<>> /\ Env.conv \in Conv /\ UNCHANGED <<peers, queue, seat, disk, detained>>
      /\ run.per[Env.conv] >= MAX_PER_CONVERSATION
  BY DEF app_capped, Mine, Turn, Capped
<1>3. x \in DOMAIN stamped /\ Env.conv = Of(x) /\ Shape(run) /\ run.per \in [Conv -> Nat]
  BY <1>1, <1>2, FrontFacts
<1>4. PICK r : r = Rest
  OBVIOUS
<1>5. /\ Shape(r) /\ r.q = Tail(run.q) /\ r.next = run.next /\ r.held = run.held
      /\ r.per = run.per /\ r.blocked = run.blocked
  BY <1>2, <1>3, <1>4, RestFacts
<1>6. PICK B : B = run.blocked \cup {Of(x)}
  OBVIOUS
<1>7. run' = Block(r, B)
  BY <1>3, <1>4, <1>5, <1>6, Zenon DEF app_capped, Block
<1>8. HandleRec(x) /\ run'.blocked = B
  <2>1. \A c \in Conv : r.per[c] >= run.per[c]
    BY <1>3, <1>5
  <2>2. B = run.blocked \cup {Of(x)} /\ (r.per[Of(x)] >= MAX_PER_CONVERSATION \/ StoreFull
                                        \/ Of(x) \in evicted)
    BY <1>2, <1>3, <1>5, <1>6
  <2> QED BY <1>1, <1>2, <1>3, <1>5, <1>7, <2>1, <2>2, BlockRec, Zenon
<1>9. Handle(x)
  BY <1>1, <1>2, <1>6, <1>8 DEF Handle, disk, seat
<1> QED BY <1>9, HandleStep

LEMMA AppSkipped ==
    ASSUME Good, app_skipped
    PROVE  Good'
<1>1. PICK x : x = run.q[1]
  OBVIOUS
<1>2. /\ run.q # <<>> /\ Env.conv \in Conv /\ UNCHANGED <<peers, queue, seat, disk, detained>>
      /\ StoreFull \/ Env.conv \in evicted
  BY DEF app_skipped, Mine, Turn, Skips, Stateless
<1>3. x \in DOMAIN stamped /\ Env.conv = Of(x) /\ Shape(run) /\ run.per \in [Conv -> Nat]
  BY <1>1, <1>2, FrontFacts
<1>4. PICK r : r = Counted
  OBVIOUS
<1>5. /\ Shape(r) /\ r.q = Tail(run.q) /\ r.next = run.next /\ r.held = run.held
      /\ r.per = [run.per EXCEPT ![Of(x)] = @ + 1] /\ r.blocked = run.blocked
  BY <1>2, <1>3, <1>4, CountedFacts, RestFacts
<1>6. PICK B : B = run.blocked \cup {Of(x)}
  OBVIOUS
<1>7. run' = Block(r, B)
  BY <1>3, <1>4, <1>5, <1>6, Zenon DEF app_skipped, Block
<1>8. HandleRec(x) /\ run'.blocked = B
  <2>1. PICK p : p = [run.per EXCEPT ![Of(x)] = @ + 1]
    OBVIOUS
  <2>2. p \in [Conv -> Nat] /\ \A c \in Conv : p[c] >= run.per[c]
    BY <1>2, <1>3, <2>1
  <2>3. r.per = p
    BY <1>5, <2>1, Zenon
  <2>4. r.per \in [Conv -> Nat] /\ \A c \in Conv : r.per[c] >= run.per[c]
    BY <2>2, <2>3, Zenon
  <2>5. B = run.blocked \cup {Of(x)} /\ (r.per[Of(x)] >= MAX_PER_CONVERSATION \/ StoreFull
                                        \/ Of(x) \in evicted)
    BY <1>2, <1>3, <1>6, Zenon
  <2>6. /\ Of(x) \in Conv /\ r.q = Tail(run.q) /\ r.next = run.next /\ r.held = run.held
        /\ Shape(r) /\ run.q # <<>>
    BY <1>2, <1>3, <1>5
  <2> QED BY <1>1, <1>7, <2>4, <2>5, <2>6, BlockRec, Zenon
<1>9. Handle(x)
  BY <1>1, <1>2, <1>6, <1>8 DEF Handle, disk, seat
<1> QED BY <1>9, HandleStep

LEMMA AppStored ==
    ASSUME Good, app_stored
    PROVE  Good'
<1>1. PICK x : x = run.q[1]
  OBVIOUS
<1>2. /\ run.q # <<>> /\ Env.kind = "app" /\ Env.conv \in Conv
      /\ UNCHANGED <<peers, seat, epoch, cursor, detained>>
  BY DEF app_stored, Mine, Turn
<1>3. /\ x \in DOMAIN stamped /\ Env.id = x /\ Shape(run) /\ Env.conv = Of(x) /\ App(x)
      /\ run.per \in [Conv -> Nat]
  BY <1>1, <1>2, FrontFacts
<1>4. Like(run', Counted) /\ (queue' = queue \/ queue' = queue \ {x})
  <2>1. PICK t : AckIf(TRUE, [Counted EXCEPT !.t = t])
    BY DEF app_stored
  <2>2. PICK r : r = [Counted EXCEPT !.t = t]
    OBVIOUS
  <2>3. Like(r, Counted)
    <3>1. PICK s : s = Counted
      OBVIOUS
    <3>2. Shape(s)
      BY <1>2, <1>3, <3>1, CountedFacts
    <3> QED BY <2>2, <3>1, <3>2, TrackFacts
  <2>4. AckIf(TRUE, r)
    BY <2>1, <2>2
  <2>5. Like(run', r) /\ (queue' = queue \/ queue' = queue \ {x})
    BY <1>3, <2>3, <2>4, AckFacts DEF Like
  <2> QED BY <2>3, <2>5 DEF Like
<1>5. HandleRec(x)
  BY <1>1, <1>2, <1>3, <1>4, CountedRec
<1>6. rx' = rx \cup {x} /\ spent' = spent \cup {x}
  BY <1>3 DEF app_stored
<1>7. Left(x)' /\ Useless(x)'
  BY <1>2, <1>3, <1>6 DEF Left, Useless, Of, App, peers
<1>8. Handle(x)
  BY <1>1, <1>2, <1>3, <1>4, <1>5, <1>6, <1>7 DEF Handle, seat
<1> QED BY <1>8, HandleStep

LEMMA AppUndecryptable ==
    ASSUME Good, app_undecryptable
    PROVE  Good'
<1>1. PICK x : x = run.q[1]
  OBVIOUS
<1>2. /\ run.q # <<>> /\ Env.kind = "app" /\ Env.conv \in Conv
      /\ Env.epoch < epoch[Env.conv] \/ Env.id \in spent
      /\ UNCHANGED <<peers, seat, disk, detained>>
  BY DEF app_undecryptable, Mine, Turn
<1>3. /\ x \in DOMAIN stamped /\ Env.id = x /\ Shape(run) /\ Env.conv = Of(x) /\ App(x)
      /\ run.per \in [Conv -> Nat] /\ Env.epoch = stamped[x].epoch /\ ~Commit(x)
  BY <1>1, <1>2, FrontFacts
<1>4. Like(run', Counted) /\ (queue' = queue \/ queue' = queue \ {x})
  <2>1. PICK t : AckIf(Hopeless(t, Env.id), [Counted EXCEPT !.t = t])
    BY DEF app_undecryptable
  <2>2. PICK r : r = [Counted EXCEPT !.t = t]
    OBVIOUS
  <2>3. Like(r, Counted)
    <3>1. PICK s : s = Counted
      OBVIOUS
    <3>2. Shape(s)
      BY <1>2, <1>3, <3>1, CountedFacts
    <3> QED BY <2>2, <3>1, <3>2, TrackFacts
  <2>4. AckIf(Hopeless(t, Env.id), r)
    BY <2>1, <2>2
  <2>5. Like(run', r) /\ (queue' = queue \/ queue' = queue \ {x})
    BY <1>3, <2>3, <2>4, AckFacts DEF Like
  <2> QED BY <2>3, <2>5 DEF Like
<1>5. HandleRec(x)
  BY <1>1, <1>2, <1>3, <1>4, CountedRec
<1>6. (x \in spent \/ Passed(x)) /\ (x \in spent \/ Reads(x) < epoch[Of(x)])
  BY <1>2, <1>3 DEF Passed, Reads, Of
<1>7. Left(x)' /\ Useless(x)'
  BY <1>2, <1>3, <1>6 DEF Left, Useless, Of, App, Passed, Reads, Commit, peers, disk
<1>8. Handle(x)
  BY <1>1, <1>2, <1>3, <1>4, <1>5, <1>7 DEF Handle, disk, seat
<1> QED BY <1>8, HandleStep

LEMMA AppAhead ==
    ASSUME Good, app_ahead
    PROVE  Good'
<1>1. PICK x : x = run.q[1]
  OBVIOUS
<1>2. /\ run.q # <<>> /\ Env.kind = "app" /\ Env.conv \in Conv
      /\ ~Capped /\ ~StoreFull /\ Env.conv \notin evicted
      /\ Env.epoch > epoch[Env.conv]
      /\ detained' = IF pcs_unresolved(Env.conv) THEN detained \cup {Env.id} ELSE detained
      /\ UNCHANGED <<peers, seat, disk>>
  BY DEF app_ahead, Mine, Turn, Skips, Stateless
<1>3. /\ x \in DOMAIN stamped /\ Env.id = x /\ Shape(run) /\ Env.conv = Of(x) /\ App(x)
      /\ run.per \in [Conv -> Nat] /\ Env.epoch = stamped[x].epoch /\ ~Commit(x)
      /\ run.deferred \in BOOLEAN
  BY <1>1, <1>2, FrontFacts
<1>4. PICK H : H = [run.held EXCEPT ![Of(x)] = Append(@, x)]
  OBVIOUS
<1>5. PICK r, t, p : /\ r = [Counted EXCEPT !.t = t, !.held = H, !.pinned = p]
                     /\ AckIf(MayAckAhead(t), r)
  <2>1. PICK t : /\ t = Slot(run.t, Env.id)
                 /\ AckIf(MayAckAhead(t),
                          [Counted EXCEPT !.t = t, !.held[Env.conv] = Append(@, Env.id),
                                          !.pinned = @ \/ Pins(t, Env.id)])
    BY DEF app_ahead
  <2>2. [Counted EXCEPT !.t = t, !.held[Env.conv] = Append(@, Env.id),
                        !.pinned = @ \/ Pins(t, Env.id)]
          = [Counted EXCEPT !.t = t, !.held = H, !.pinned = Counted.pinned \/ Pins(t, Env.id)]
    <3>1. PICK s : s = Counted
      OBVIOUS
    <3>2. Shape(s) /\ s.held = run.held
      BY <1>2, <1>3, <3>1, CountedFacts
    <3>3. PICK u : u = (s.pinned \/ Pins(t, Env.id))
      OBVIOUS
    <3>4. [s EXCEPT !.t = t, !.held[Of(x)] = Append(@, x), !.pinned = u]
            = [s EXCEPT !.t = t, !.held = H, !.pinned = u]
      BY <1>4, <3>2 DEF Shape
    <3> QED BY <1>3, <3>1, <3>3, <3>4
  <2> QED BY <2>1, <2>2
<1>6. /\ Shape(r) /\ r.q = Counted.q /\ r.next = Counted.next /\ r.deferred = Counted.deferred
      /\ r.per = Counted.per /\ r.blocked = Counted.blocked /\ r.held = H
  <2>1. PICK s : s = Counted
    OBVIOUS
  <2>2. Shape(s)
    BY <1>2, <1>3, <2>1, CountedFacts
  <2>3. /\ Shape(r) /\ r.q = s.q /\ r.next = s.next /\ r.deferred = s.deferred
        /\ r.per = s.per /\ r.blocked = s.blocked /\ r.held = H
    <3>1. PICK a : a = [s EXCEPT !.t = t]
      OBVIOUS
    <3>2. /\ Shape(a) /\ a.q = s.q /\ a.next = s.next /\ a.deferred = s.deferred
          /\ a.per = s.per /\ a.blocked = s.blocked
      BY <2>2, <3>1 DEF Shape
    <3>3. PICK b : b = [a EXCEPT !.held = H]
      OBVIOUS
    <3>4. /\ Shape(b) /\ b.q = a.q /\ b.next = a.next /\ b.deferred = a.deferred
          /\ b.per = a.per /\ b.blocked = a.blocked /\ b.held = H
      BY <3>2, <3>3 DEF Shape
    <3>5. PICK d : d = [b EXCEPT !.pinned = p]
      OBVIOUS
    <3>6. /\ Shape(d) /\ d.q = b.q /\ d.next = b.next /\ d.deferred = b.deferred
          /\ d.per = b.per /\ d.blocked = b.blocked /\ d.held = b.held
      BY <3>4, <3>5 DEF Shape
    <3>7. r = d
      BY <1>5, <2>1, <3>1, <3>3, <3>5, Zenon
    <3> QED BY <3>2, <3>4, <3>6, <3>7
  <2> QED BY <2>1, <2>3
<1>7. Like(run', r) /\ (queue' = queue \/ (MayAckAhead(t) /\ queue' = queue \ {x}))
  BY <1>3, <1>5, <1>6, AckFacts
<1>8. HandleRec(x) /\ run'.blocked = run.blocked
  <2>1. PICK p2 : p2 = [run.per EXCEPT ![Of(x)] = @ + 1]
    OBVIOUS
  <2>2. p2 \in [Conv -> Nat] /\ \A c \in Conv : p2[c] >= run.per[c]
    BY <1>2, <1>3, <2>1
  <2>3. /\ Counted.q = Tail(run.q) /\ Counted.next = run.next /\ Counted.deferred = run.deferred
        /\ Counted.per = p2 /\ Counted.blocked = run.blocked
    BY <1>2, <1>3, <2>1, CountedFacts, RestFacts
  <2>4. /\ Shape(run') /\ run'.q = Tail(run.q) /\ run'.next = run.next
        /\ run'.deferred = run.deferred /\ run'.per = p2 /\ run'.blocked = run.blocked
        /\ run'.held = H
    BY <1>6, <1>7, <2>3 DEF Like
  <2> QED BY <1>3, <1>4, <2>2, <2>4 DEF HandleRec
<1>9. Reads(x) > epoch[Of(x)]
  BY <1>2, <1>3 DEF Reads
<1>10. CASE pcs_unresolved(Of(x))
  <2>1. detained' = detained \cup {x} /\ queue' = queue
    BY <1>2, <1>3, <1>7, <1>10 DEF MayAckAhead
  <2>2. Detained(x)'
    <3>1. x \in Nat
      BY <1>3, StampsAreNat DEF Good
    <3> QED BY <2>1, <3>1 DEF Detained
  <2>3. Left(x)' /\ Useless(x)'
    BY <2>2 DEF Left, Useless
  <2>4. /\ UNCHANGED <<peers, epoch, cursor, evicted, request>>
        /\ refused' = refused /\ spent' = spent /\ rx' = rx
    BY <1>2 DEF disk, seat
  <2>5. Handle(x)
    BY <1>1, <1>2, <1>8, <2>1, <2>3, <2>4 DEF Handle
  <2> QED BY <2>5, HandleStep
<1>11. CASE ~pcs_unresolved(Of(x))
  <2>1. detained' = detained /\ own[Of(x)] # "accepted"
    BY <1>2, <1>3, <1>11 DEF pcs_unresolved
  <2>2. Left(x)'
    BY <1>2, <1>3, <1>9, <2>1 DEF Left, Reads, Commit, Of, peers, disk, seat
  <2>3. Of(x) \notin run.blocked
    BY <1>2, <1>3 DEF Good, Running, RunOK, Capped
  <2>4. Detained(x) \/ Disordered(x) \/ Orphaned(x)
    BY <1>1, <1>2, <1>3, <1>9, <1>11, <2>3, AheadIsExcused
  <2>5. Useless(x)'
    BY <1>2, <2>1, <2>4 DEF Useless, Detained, Disordered, Orphaned, Needs, peers, seat
  <2>6. Handle(x)
    BY <1>1, <1>2, <1>7, <1>8, <2>1, <2>2, <2>5 DEF Handle, disk, seat
  <2> QED BY <2>6, HandleStep
<1> QED BY <1>10, <1>11

-----------------------------------------------------------------------------
(* A Commit is applied: the epoch moves on, and what was held for it comes next. *)

Applies(x, c) ==
    /\ run.q # <<>> /\ x = run.q[1] /\ x \in DOMAIN stamped /\ c \in Conv
    /\ Of(x) = c /\ Commit(x) /\ ~App(x) /\ ~pcs_unresolved(c) /\ c \notin run.blocked
    /\ stamped[x].epoch = epoch[c] + 1 /\ c \notin evicted
    /\ epoch' = [epoch EXCEPT ![c] = @ + 1]
    /\ evicted' = IF x \in removals THEN evicted \cup {c} ELSE evicted
    /\ UNCHANGED <<stamped, peer, own, removals, added, late, request, refused, rx, spent,
                   tracker, cursor, detained>>
    /\ queue' = queue \/ queue' = queue \ {x}
    /\ Shape(run') /\ run'.q = run.held[c] \o Tail(run.q) /\ run'.next = run.next
    /\ run'.deferred = run.deferred /\ run'.per = run.per /\ run'.blocked = run.blocked
    /\ run'.held = [run.held EXCEPT ![c] = <<>>]

Advance(r, t, q, H) == [r EXCEPT !.t = t, !.q = q, !.held = H]

LEMMA AppliedFacts ==
    ASSUME NEW r, Shape(r), NEW t, NEW q, NEW H
    PROVE  LET n == Advance(r, t, q, H)
           IN  /\ Shape(n) /\ n.q = q /\ n.next = r.next /\ n.held = H /\ n.per = r.per
               /\ n.blocked = r.blocked /\ n.deferred = r.deferred
<1>1. PICK a : a = [r EXCEPT !.t = t]
  OBVIOUS
<1>2. /\ Shape(a) /\ a.next = r.next /\ a.deferred = r.deferred
      /\ a.per = r.per /\ a.blocked = r.blocked
  BY <1>1 DEF Shape
<1>3. PICK b : b = [a EXCEPT !.q = q]
  OBVIOUS
<1>4. /\ Shape(b) /\ b.q = q /\ b.next = a.next /\ b.deferred = a.deferred
      /\ b.per = a.per /\ b.blocked = a.blocked
  BY <1>2, <1>3 DEF Shape
<1>5. PICK d : d = [b EXCEPT !.held = H]
  OBVIOUS
<1>6. /\ Shape(d) /\ d.q = b.q /\ d.next = b.next /\ d.deferred = b.deferred
      /\ d.per = b.per /\ d.blocked = b.blocked /\ d.held = H
  BY <1>4, <1>5 DEF Shape
<1>7. d = Advance(r, t, q, H)
  BY <1>1, <1>3, <1>5, Zenon DEF Advance
<1>8. /\ Shape(d) /\ d.q = q /\ d.next = r.next /\ d.held = H /\ d.per = r.per
      /\ d.blocked = r.blocked /\ d.deferred = r.deferred
  BY <1>2, <1>4, <1>6
<1> QED BY <1>7, <1>8, Zenon

LEMMA CommitApplies ==
    ASSUME Good, commit_applied
    PROVE  \E x, c : Applies(x, c)
<1>1. PICK x, c : x = run.q[1] /\ c = Env.conv
  OBVIOUS
<1>2. /\ run.q # <<>> /\ Env.kind = "commit" /\ Env.conv \notin run.blocked
      /\ ~pcs_unresolved(c) /\ Env.epoch = epoch[c] + 1 /\ c \notin evicted
      /\ epoch' = [epoch EXCEPT ![c] = @ + 1]
      /\ evicted' = IF Env.id \in removals THEN evicted \cup {c} ELSE evicted
      /\ UNCHANGED <<peers, request, refused, rx, spent, tracker, cursor, detained>>
  BY <1>1 DEF commit_applied, Turn, Blocked, Stateless
<1>3. /\ x \in DOMAIN stamped /\ Env.id = x /\ Shape(run) /\ Of(x) = c /\ Commit(x) /\ ~App(x)
      /\ Env.epoch = stamped[x].epoch /\ c \in Conv
  BY <1>1, <1>2, FrontFacts
<1>4. PICK s : s = Tried
  OBVIOUS
<1>5. /\ Shape(s) /\ s.q = Tail(run.q) /\ s.next = run.next /\ s.deferred = run.deferred
      /\ s.per = run.per /\ s.blocked = run.blocked /\ s.held = run.held
  BY <1>2, <1>3, <1>4, TriedFacts, RestFacts DEF Like
<1>6. PICK H, q : H = [run.held EXCEPT ![c] = <<>>] /\ q = run.held[c] \o Tail(run.q)
  OBVIOUS
<1>7. PICK t : t = Forget(s.t, Env.id)
  OBVIOUS
<1>8. PICK r : r = Advance(s, t, q, H)
  OBVIOUS
<1>9. AckIf(TRUE, r)
  <2>1. AckIf(TRUE, [s EXCEPT !.t = Forget(@, Env.id), !.q = run.held[c] \o @, !.held[c] = <<>>])
    BY <1>1, <1>4, Zenon DEF commit_applied
  <2>2. [s EXCEPT !.t = Forget(@, Env.id), !.q = run.held[c] \o @, !.held[c] = <<>>] = r
    BY <1>5, <1>6, <1>7, <1>8 DEF Shape, Advance
  <2> QED BY <2>1, <2>2
<1>10. /\ Shape(r) /\ r.q = q /\ r.next = s.next /\ r.held = H /\ r.per = s.per
       /\ r.blocked = s.blocked /\ r.deferred = s.deferred
  <2>1. Shape(s)
    BY <1>5
  <2> QED BY <1>8, <2>1, AppliedFacts
<1>11. Like(run', r) /\ (queue' = queue \/ queue' = queue \ {x})
  BY <1>3, <1>9, <1>10, AckFacts
<1>12. /\ Shape(run') /\ run'.q = q /\ run'.next = run.next /\ run'.held = H
       /\ run'.per = run.per /\ run'.blocked = run.blocked /\ run'.deferred = run.deferred
  BY <1>5, <1>10, <1>11 DEF Like
<1>13. Applies(x, c)
  BY <1>1, <1>2, <1>3, <1>6, <1>11, <1>12 DEF Applies, peers
<1> QED BY <1>13

\* What was left before the Commit, in order, does not become readable by it.
LEMMA LeftStays ==
    ASSUME Good, NEW x, NEW c, Applies(x, c), NEW id \in DOMAIN stamped, id \notin late,
           id < x, Left(id)
    PROVE  Left(id)'
<1>1. /\ epoch \in [Conv -> Nat] /\ epoch'[c] = epoch[c] + 1 /\ c \in Conv
      /\ \A d \in Conv \ {c} : epoch'[d] = epoch[d]
      /\ Stamped(id, stamped[id])
      /\ evicted' = evicted \/ evicted' = evicted \cup {c}
      /\ UNCHANGED <<stamped, own, spent, detained, refused>>
  BY DEF Good, PeersOK, Applies
<1>2. Of(id)' = Of(id) /\ Detained(id)' = Detained(id) /\ Reads(id)' = Reads(id)
  BY <1>1 DEF Of, Detained, Reads, Commit
<1>3. Reads(id) \in Int /\ Reads(id) <= stamped[id].epoch /\ Of(id) \in Conv \cup {Stranger}
  BY <1>1 DEF Reads, Stamped, Of
<1>4. CASE Of(id) # c
  BY <1>1, <1>2, <1>3, <1>4 DEF Left
<1>5. CASE Of(id) = c
  <2>1. ~(Reads(id) > epoch[c])
    <3> SUFFICES ASSUME Reads(id) > epoch[c] PROVE FALSE
      OBVIOUS
    <3>1. x \in DOMAIN stamped /\ Commit(x) /\ Of(x) = c /\ stamped[x].epoch = epoch[c] + 1
      BY DEF Applies
    <3>2. x # id /\ x > id
      <4>1. x \in Nat /\ id \in Nat
        BY <3>1, InboxAssumption DEF Good, PeersOK, InboxAssumption
      <4> QED BY <4>1
    <3>4. epoch[c] + 1 <= stamped[id].epoch
      BY <1>1, <1>3 DEF Stamped
    <3>3. Needs(id, x)
      BY <1>5, <3>1, <3>2, <3>4 DEF Needs, Commit, Of
    <3> QED BY <3>1, <3>2, <3>3 DEF Good, LedgerOK
  <2> QED BY <1>1, <1>2, <1>3, <1>5, <2>1 DEF Left
<1> QED BY <1>4, <1>5

\* The window after a Commit was applied.
LEMMA AppliedWindow ==
    ASSUME Good, NEW x, NEW c, Applies(x, c)
    PROVE  /\ run'.q \in Seq(DOMAIN stamped)
           /\ \A j \in DOMAIN run'.q :
                 \/ run'.q[j] \in Range(run.held[c])
                 \/ \E i \in DOMAIN run.q : 1 < i /\ run'.q[j] = run.q[i]
           /\ \A i, j \in DOMAIN run'.q :
                 i < j => \/ run'.q[i] \in Range(run.held[c])
                          \/ \E k, l \in DOMAIN run.q :
                                1 < k /\ k < l /\ run'.q[i] = run.q[k] /\ run'.q[j] = run.q[l]
           /\ \A i \in DOMAIN run.q : 1 < i => run.q[i] \in Range(run'.q)
<1>1. PICK h, q : h = run.held[c] /\ q = run.q
  OBVIOUS
<1>2. h \in Seq(DOMAIN stamped) /\ q \in Seq(DOMAIN stamped) /\ q # <<>>
  BY <1>1 DEF Good, Running, RunOK, Applies
<1>0. PICK n, m : n = Len(h) /\ m = Len(q)
  OBVIOUS
<1>3. n = Len(h) /\ m = Len(q) /\ n \in Nat /\ m \in Nat \ {0}
  BY <1>0, <1>2
<1>4. /\ DOMAIN h = 1..n /\ DOMAIN q = 1..m
      /\ Tail(q) \in Seq(DOMAIN stamped) /\ Len(Tail(q)) = m - 1
      /\ \A i \in 1..(m - 1) : Tail(q)[i] = q[i + 1]
  BY <1>2, <1>3
<1>5. PICK w : w = run'.q
  OBVIOUS
<1>6. w = h \o Tail(q)
  BY <1>1, <1>5 DEF Applies
<1>7. /\ w \in Seq(DOMAIN stamped) /\ DOMAIN w = 1..(n + m - 1)
      /\ \A i \in 1..n : w[i] = h[i]
      /\ \A i \in 1..(m - 1) : w[n + i] = q[i + 1]
  BY <1>2, <1>3, <1>4, <1>6
<1>8. \A j \in DOMAIN w :
         \/ w[j] \in Range(h)
         \/ j > n /\ j - n + 1 \in DOMAIN q /\ 1 < j - n + 1 /\ w[j] = q[j - n + 1]
  <2> SUFFICES ASSUME NEW j \in DOMAIN w
               PROVE  \/ w[j] \in Range(h)
                      \/ j > n /\ j - n + 1 \in DOMAIN q /\ 1 < j - n + 1 /\ w[j] = q[j - n + 1]
    OBVIOUS
  <2>1. j \in 1..n \/ (j > n /\ j - n \in 1..(m - 1) /\ n + (j - n) = j)
    BY <1>3, <1>7
  <2>2. CASE j \in 1..n
    BY <1>4, <1>7, <2>2 DEF Range
  <2>3. CASE j > n /\ j - n \in 1..(m - 1) /\ n + (j - n) = j
    <3>1. w[j] = q[(j - n) + 1]
      BY <1>7, <2>3
    <3>2. (j - n) + 1 \in 1..m /\ 1 < (j - n) + 1
      BY <1>3, <2>3
    <3> QED BY <1>4, <2>3, <3>1, <3>2
  <2> QED BY <2>1, <2>2, <2>3
<1>9. \A i, j \in DOMAIN w :
         i < j => \/ w[i] \in Range(h)
                  \/ \E k, l \in DOMAIN q : 1 < k /\ k < l /\ w[i] = q[k] /\ w[j] = q[l]
  <2> SUFFICES ASSUME NEW i \in DOMAIN w, NEW j \in DOMAIN w, i < j, w[i] \notin Range(h)
               PROVE  \E k, l \in DOMAIN q : 1 < k /\ k < l /\ w[i] = q[k] /\ w[j] = q[l]
    OBVIOUS
  <2>0. i > n
    BY <1>8
  <2>1. i \in Nat /\ j \in Nat
    BY <1>3, <1>7
  <2>2. i - n \in 1..(m - 1) /\ n + (i - n) = i /\ j - n \in 1..(m - 1) /\ n + (j - n) = j
    BY <1>3, <1>7, <2>0
  <2>3. w[i] = q[(i - n) + 1] /\ w[j] = q[(j - n) + 1]
    BY <1>7, <2>2
  <2>4. /\ (i - n) + 1 \in DOMAIN q /\ (j - n) + 1 \in DOMAIN q
        /\ 1 < (i - n) + 1 /\ (i - n) + 1 < (j - n) + 1
    BY <1>3, <1>4, <2>1, <2>2
  <2> QED BY <2>3, <2>4
<1>10. \A i \in DOMAIN q : 1 < i => q[i] \in Range(w)
  <2> SUFFICES ASSUME NEW i \in DOMAIN q, 1 < i PROVE \E j \in DOMAIN w : w[j] = q[i]
    BY DEF Range
  <2>1. i - 1 \in 1..(m - 1) /\ (i - 1) + 1 = i /\ n + (i - 1) \in DOMAIN w
    BY <1>3, <1>4, <1>7
  <2> QED BY <1>7, <2>1
<1>11. \A j \in DOMAIN w :
         w[j] \in Range(h) \/ \E i \in DOMAIN q : 1 < i /\ w[j] = q[i]
  BY <1>8
<1>12. w \in Seq(DOMAIN stamped)
  BY <1>7
<1> QED BY <1>1, <1>5, <1>9, <1>10, <1>11, <1>12

LEMMA AppliedPeers ==
    ASSUME Good, NEW x, NEW c, Applies(x, c)
    PROVE  PeersOK' /\ LedgerOK' /\ SeatOK' /\ BehindOK'
<1>1. /\ epoch \in [Conv -> Nat] /\ epoch' \in [Conv -> Nat] /\ epoch'[c] = epoch[c] + 1
      /\ c \in Conv /\ \A d \in Conv \ {c} : epoch'[d] = epoch[d]
      /\ UNCHANGED <<stamped, peer, own, late, rx, spent, tracker, cursor, detained>>
      /\ queue' \subseteq queue /\ Resumed' = Resumed
  BY DEF Good, PeersOK, Applies, Resumed
<1>2. PeersOK'
  <2>1. {id \in DOMAIN stamped : App(id)}' = {id \in DOMAIN stamped : App(id)}
    BY <1>1 DEF App
  <2>2. \A id \in DOMAIN stamped' : Stamped(id, stamped[id])'
    BY <1>1 DEF Good, PeersOK, Stamped
  <2>3. queue' \subseteq DOMAIN stamped' /\ spent' \subseteq {id \in DOMAIN stamped : App(id)}'
    BY <1>1, <2>1 DEF Good, PeersOK
  <2> QED BY <1>1, <2>2, <2>3 DEF Good, PeersOK
<1>3. LedgerOK'
  <2>1. /\ x \in DOMAIN stamped /\ Of(x) = c /\ stamped[x].epoch = epoch[c] + 1
        /\ ~pcs_unresolved(c)
    BY DEF Applies
  <2>2. stamped[x].epoch <= peer[c]
    BY <1>1, <2>1 DEF Good, PeersOK, Stamped, Of
  <2>3. peer \in [Conv -> Nat] /\ own[c] # "accepted"
    BY <2>1 DEF Good, PeersOK, pcs_unresolved
  <2>4. \A d \in Conv : epoch'[d] <= peer'[d]
    BY <1>1, <2>1, <2>2, <2>3 DEF Good, LedgerOK
  <2>5. ASSUME NEW d \in Conv, NEW e \in 1..peer[d]
        PROVE  \/ e <= epoch'[d]
               \/ \E k \in DOMAIN stamped : Commit(k) /\ Of(k) = d /\ stamped[k].epoch = e
               \/ pcs_unresolved(d) /\ e = epoch'[d] + 1
    BY <1>1, <2>1, <2>3, <2>5 DEF Good, LedgerOK
  <2>6. \A d \in Conv : own[d] = "accepted" =>
          /\ epoch'[d] < peer[d]
          /\ \A k \in DOMAIN stamped :
                Commit(k) /\ Of(k) = d => stamped[k].epoch # epoch'[d] + 1
    BY <1>1, <2>3 DEF Good, LedgerOK
  <2>7. /\ \A k, l \in DOMAIN stamped :
            Commit(k) /\ Commit(l) /\ Of(k) = Of(l) /\ stamped[k].epoch = stamped[l].epoch => k = l
        /\ \A id, k \in DOMAIN stamped : Needs(id, k) /\ k > id => id \in late
    BY DEF Good, LedgerOK
  <2>8. /\ \A k \in DOMAIN stamped : Commit(k)' = Commit(k) /\ Of(k)' = Of(k)
        /\ \A d : pcs_unresolved(d)' = pcs_unresolved(d)
        /\ \A id, k \in DOMAIN stamped : Needs(id, k)' = Needs(id, k)
    BY <1>1 DEF Commit, Of, pcs_unresolved, Needs
  <2> QED BY <1>1, <2>4, <2>5, <2>6, <2>7, <2>8 DEF LedgerOK
<1>4. BehindOK'
  <2> SUFFICES ASSUME NEW id \in queue' \ late, id <= Resumed.at PROVE Left(id)'
    BY <1>1 DEF BehindOK
  <2>1. id \in queue /\ id \in DOMAIN stamped /\ Left(id)
    BY <1>1 DEF Good, PeersOK, BehindOK
  <2>2. x > Resumed.at
    <3>1. 1 \in DOMAIN run.q /\ x = run.q[1]
      BY HeadFacts DEF Good, Running, Applies
    <3> QED BY <3>1 DEF Good, Running, OrderOK
  <2>3. x \in Nat /\ id \in Nat /\ Resumed.at \in Nat
    BY <2>1, InboxAssumption DEF Good, PeersOK, Applies, Resumed, Head0, InboxAssumption
  <2>4. id < x
    BY <2>2, <2>3
  <2> QED BY <2>1, <2>4, LeftStays
<1>5. SeatOK'
  <2>1. /\ x \in DOMAIN stamped /\ Commit(x) /\ Of(x) = c /\ stamped[x].epoch = epoch[c] + 1
        /\ ~pcs_unresolved(c) /\ c \notin evicted
        /\ evicted' = IF x \in removals THEN evicted \cup {c} ELSE evicted
        /\ UNCHANGED <<removals, added, request, refused>>
    BY DEF Applies
  <2>2. evicted \subseteq evicted' /\ evicted' \subseteq evicted \cup {c}
    BY <2>1
  <2>3. /\ removals \subseteq DOMAIN stamped /\ refused \subseteq DOMAIN stamped
        /\ \A k \in removals : Commit(k) /\ Of(k) \in Conv /\ stamped[k].epoch \in Nat
        /\ \A k \in refused : Commit(k)
    BY InboxAssumption DEF Good, SeatOK, PeersOK, Stamped, Commit, Of, InboxAssumption
  <2>4. /\ \A k \in DOMAIN stamped : Of(k)' = Of(k) /\ Commit(k)' = Commit(k)
        /\ \A d : pcs_unresolved(d)' = pcs_unresolved(d)
    BY <1>1 DEF Of, Commit, pcs_unresolved
  <2>5. \A r \in removals : Of(r) = c /\ r # x => stamped[r].epoch # epoch[c] + 1
    BY <2>1, <2>3 DEF Good, LedgerOK
  <2>6. /\ removals' \subseteq {k \in DOMAIN stamped : Commit(k)}'
        /\ refused' \subseteq {k \in DOMAIN stamped : Commit(k)}'
    BY <1>1, <2>1, <2>3, <2>4
  <2>7. /\ evicted' \subseteq Conv /\ added' \in [Conv -> Nat]
        /\ request' \in [Conv -> {"none", "kept", "used"}]
        /\ \A d \in Conv : request'[d] = "kept" => d \in evicted' /\ added'[d] # 0
    BY <1>1, <2>1, <2>2 DEF Good, SeatOK
  <2>8. \A k \in refused' : Of(k)' \in evicted' \/ request'[Of(k)'] = "used"
    BY <2>1, <2>2, <2>3, <2>4 DEF Good, SeatOK
  <2>9. ASSUME NEW d \in evicted'
        PROVE  ~pcs_unresolved(d)' /\ \E r \in removals' : Of(r)' = d /\ stamped'[r].epoch = epoch'[d]
    <3>1. CASE d \in evicted
      <4>1. d \in Conv /\ d # c
        BY <2>1, <3>1 DEF Good, SeatOK
      <4>2. ~pcs_unresolved(d) /\ \E r \in removals : Of(r) = d /\ stamped[r].epoch = epoch[d]
        BY <3>1 DEF Good, SeatOK
      <4> QED BY <1>1, <2>1, <2>3, <2>4, <4>1, <4>2
    <3>2. CASE d \notin evicted
      <4>1. d = c /\ x \in removals
        BY <2>1, <2>9, <3>2
      <4> QED BY <1>1, <2>1, <2>4, <4>1
    <3> QED BY <3>1, <3>2
  <2>10. ASSUME NEW r \in removals', added'[Of(r)'] = 0
         PROVE  Of(r)' \in evicted' \/ epoch'[Of(r)'] < stamped'[r].epoch
    <3>1. /\ r \in removals /\ Of(r)' = Of(r) /\ added[Of(r)] = 0
          /\ Of(r) \in evicted \/ epoch[Of(r)] < stamped[r].epoch
      BY <2>1, <2>3, <2>4, <2>10 DEF Good, SeatOK
    <3>2. CASE Of(r) # c
      BY <1>1, <2>2, <2>3, <3>1, <3>2
    <3>3. CASE Of(r) = c /\ r # x
      BY <1>1, <2>1, <2>3, <2>5, <3>1, <3>3
    <3>4. CASE r = x
      BY <2>1, <3>1, <3>4
    <3> QED BY <3>2, <3>3, <3>4
  <2>11. ASSUME NEW d \in Conv, added'[d] # 0, request'[d] # "used"
         PROVE  /\ added'[d] <= peer'[d] /\ epoch'[d] < added'[d]
                /\ d \in evicted' \/ \E r \in removals' :
                      Of(r)' = d /\ epoch'[d] < stamped'[r].epoch /\ stamped'[r].epoch < added'[d]
    <3>1. /\ added[d] <= peer[d] /\ epoch[d] < added[d] /\ added[d] \in Nat
          /\ d \in evicted \/ \E r \in removals :
                Of(r) = d /\ epoch[d] < stamped[r].epoch /\ stamped[r].epoch < added[d]
      BY <2>1, <2>11 DEF Good, SeatOK
    <3>2. CASE d # c
      BY <1>1, <2>1, <2>2, <2>3, <2>4, <3>1, <3>2
    <3>3. CASE d = c
      <4>1. PICK r \in removals :
                Of(r) = c /\ epoch[c] < stamped[r].epoch /\ stamped[r].epoch < added[c]
        BY <2>1, <3>1, <3>3
      <4>2. epoch[c] + 1 < added[c] /\ stamped[r].epoch \in Nat /\ epoch[c] \in Nat
        BY <1>1, <2>3, <3>1, <3>3, <4>1
      <4>3. CASE r = x
        BY <1>1, <2>1, <3>1, <3>3, <4>2, <4>3
      <4>4. CASE r # x
        <5>1. epoch'[c] < stamped[r].epoch
          BY <1>1, <2>5, <4>1, <4>2, <4>4
        <5> QED BY <1>1, <2>1, <2>3, <2>4, <3>1, <3>3, <4>1, <4>2, <5>1
      <4> QED BY <4>3, <4>4
    <3> QED BY <3>2, <3>3
  <2> QED BY <2>6, <2>7, <2>8, <2>9, <2>10, <2>11 DEF SeatOK
<1> QED BY <1>2, <1>3, <1>4, <1>5

LEMMA AppliedRun ==
    ASSUME Good, NEW x, NEW c, Applies(x, c)
    PROVE  RunOK' /\ OrderOK' /\ HandledOK' /\ run' # Idle
<1>1. /\ run.held \in [Conv -> Seq(DOMAIN stamped)] /\ c \in Conv /\ stamped' = stamped
      /\ x \in DOMAIN stamped /\ late' = late /\ Resumed' = Resumed /\ queue' \subseteq queue
      /\ run'.held = [run.held EXCEPT ![c] = <<>>] /\ run'.next = run.next
      /\ run'.per = run.per /\ run'.blocked = run.blocked /\ run'.deferred = run.deferred
      /\ Shape(run') /\ rx' = rx /\ x = run.q[1] /\ Commit(x)
  BY DEF Good, Running, RunOK, Applies, Resumed
<1>2. RunOK'
  <2>1. run'.held \in [Conv -> Seq(DOMAIN stamped)]
    BY <1>1
  <2>2. run'.q \in Seq(DOMAIN stamped)
    BY AppliedWindow
  <2>3. StoreFull' = StoreFull
    BY <1>1 DEF StoreFull
  <2>4. /\ run'.per \in [Conv -> Nat] /\ run'.next \in DOMAIN stamped \cup {0}
        /\ run'.deferred \in BOOLEAN /\ run'.blocked \subseteq Conv
        /\ \A d \in run'.blocked :
              run'.deferred /\ (run'.per[d] >= MAX_PER_CONVERSATION \/ StoreFull' \/ d \in evicted')
    <3>1. evicted \subseteq evicted'
      BY DEF Applies
    <3> QED BY <1>1, <2>3, <3>1 DEF Good, Running, RunOK
  <2>5. Shape(run)'
    BY <1>1 DEF Shape
  <2> QED BY <1>1, <2>1, <2>2, <2>4, <2>5 DEF RunOK
<1>3. /\ \A i \in DOMAIN run.q : run.q[i] > Resumed.at /\ run.q[i] <= run.next
      /\ \A i, j \in DOMAIN run.q :
            i < j /\ (Commit(run.q[i]) \/ Commit(run.q[j])) => run.q[i] < run.q[j]
      /\ \A d \in Conv : \A y \in Range(run.held[d]) :
            /\ App(y) /\ Of(y) = d /\ y > Resumed.at /\ y <= run.next
            /\ \A i \in DOMAIN run.q : Commit(run.q[i]) => y < run.q[i]
      /\ \A id \in queue : Handled(id) =>
            \A i \in DOMAIN run.q : Commit(run.q[i]) => id < run.q[i]
  BY DEF Good, Running, OrderOK
<1>4. \A y \in Range(run.held[c]) : ~Commit(y)
  BY <1>1, <1>3 DEF App, Commit
<1>5. 1 \in DOMAIN run.q /\ \A i \in DOMAIN run.q : i \in Nat /\ (i = 1 \/ 1 < i)
  BY HeadFacts DEF Good, Running, Applies
<1>6. \A id \in queue : Handled(id)' => id = x \/ Handled(id)
  <2> SUFFICES ASSUME NEW id \in queue, Handled(id)', id # x PROVE Handled(id)
    OBVIOUS
  <2>1. id > Resumed.at /\ id <= run.next /\ id \notin Range(run'.q)
    BY <1>1 DEF Handled
  <2>2. \A i \in DOMAIN run.q : run.q[i] # id
    BY <1>1, <1>5, <2>1, AppliedWindow
  <2> QED BY <2>1, <2>2 DEF Handled, Range
<1>7. \A j \in DOMAIN run'.q :
         Commit(run'.q[j]) => \E i \in DOMAIN run.q : 1 < i /\ run'.q[j] = run.q[i]
  BY <1>4, AppliedWindow
<1>8. OrderOK'
  <2>1. \A id \in DOMAIN stamped : /\ Of(id)' = Of(id) /\ Commit(id)' = Commit(id)
                                   /\ App(id)' = App(id)
    BY <1>1 DEF Of, Commit, App
  <2>2. \A i \in DOMAIN run'.q : run'.q[i] \in DOMAIN stamped
    BY AppliedWindow
  <2>3. \A i \in DOMAIN run'.q : run'.q[i] > Resumed.at /\ run'.q[i] <= run'.next
    BY <1>1, <1>3, AppliedWindow
  <2>4. ASSUME NEW i \in DOMAIN run'.q, NEW j \in DOMAIN run'.q, i < j,
               Commit(run'.q[i]) \/ Commit(run'.q[j])
        PROVE  run'.q[i] < run'.q[j]
    <3>1. CASE run'.q[i] \in Range(run.held[c])
      <4>1. Commit(run'.q[j])
        BY <1>4, <2>4, <3>1
      <4> QED BY <1>1, <1>3, <1>7, <3>1, <4>1
    <3>2. CASE \E k, l \in DOMAIN run.q :
                  1 < k /\ k < l /\ run'.q[i] = run.q[k] /\ run'.q[j] = run.q[l]
      BY <1>3, <2>4, <3>2
    <3> QED BY <2>4, <3>1, <3>2, AppliedWindow
  <2>5. \A d \in Conv : \A y \in Range(run'.held[d]) : d # c /\ y \in Range(run.held[d])
    <3> SUFFICES ASSUME NEW d \in Conv, NEW y \in Range(run'.held[d])
                 PROVE  d # c /\ y \in Range(run.held[d])
      OBVIOUS
    <3>1. CASE d = c
      <4>1. run'.held[d] = <<>>
        BY <1>1, <3>1
      <4> QED BY <4>1 DEF Range
    <3>2. CASE d # c
      <4>1. run'.held[d] = run.held[d]
        BY <1>1, <3>2
      <4> QED BY <3>2, <4>1
    <3> QED BY <3>1, <3>2
  <2>6. \A d \in Conv : \A y \in Range(run'.held[d]) :
            /\ y \in DOMAIN stamped
            /\ App(y) /\ Of(y) = d /\ y > Resumed.at /\ y <= run'.next
            /\ \A i \in DOMAIN run'.q : Commit(run'.q[i]) => y < run'.q[i]
    <3> SUFFICES ASSUME NEW d \in Conv, NEW y \in Range(run.held[d])
                 PROVE  /\ y \in DOMAIN stamped
                        /\ App(y) /\ Of(y) = d /\ y > Resumed.at /\ y <= run'.next
                        /\ \A i \in DOMAIN run'.q : Commit(run'.q[i]) => y < run'.q[i]
      BY <2>5
    <3>1. y \in DOMAIN stamped
      BY <1>1 DEF Range
    <3> QED BY <1>1, <1>3, <1>7, <3>1
  <2>7. \A id \in queue' : Handled(id)' =>
            \A i \in DOMAIN run'.q : Commit(run'.q[i]) => id < run'.q[i]
    <3> SUFFICES ASSUME NEW id \in queue', Handled(id)', NEW i \in DOMAIN run'.q, Commit(run'.q[i])
                 PROVE  id < run'.q[i]
      OBVIOUS
    <3>1. PICK j \in DOMAIN run.q : 1 < j /\ run'.q[i] = run.q[j]
      BY <1>7
    <3>2. CASE id = x
      BY <1>1, <1>3, <1>5, <3>1, <3>2
    <3>3. CASE Handled(id)
      BY <1>1, <1>3, <3>1, <3>3
    <3> QED BY <1>1, <1>6, <3>2, <3>3
  <2> QED BY <1>1, <2>1, <2>2, <2>3, <2>4, <2>6, <2>7 DEF OrderOK
<1>9. HandledOK'
  <2> SUFFICES ASSUME NEW id \in queue' \ late, Handled(id)'
               PROVE  Of(id)' \in run'.blocked \/ Left(id)'
    BY <1>1 DEF HandledOK
  <2>1. id \in queue /\ id \in DOMAIN stamped /\ Of(id)' = Of(id)
    BY <1>1 DEF Good, PeersOK, Of
  <2>2. CASE id = x
    <3>1. /\ Reads(x)' = Reads(x) /\ Of(x) = c /\ epoch'[c] = epoch[c] + 1
          /\ Reads(x) = epoch[c] + 1 - 1 /\ epoch[c] \in Nat
      <4>1. /\ Of(x) = c /\ stamped[x].epoch = epoch[c] + 1
            /\ epoch' = [epoch EXCEPT ![c] = @ + 1]
        BY DEF Applies
      <4>2. epoch \in [Conv -> Nat]
        BY DEF Good, PeersOK
      <4> QED BY <1>1, <4>1, <4>2 DEF Reads, Commit
    <3> QED BY <2>1, <2>2, <3>1 DEF Left
  <2>3. CASE id # x
    <3>1. Handled(id)
      BY <1>6, <2>1, <2>3
    <3>2. id < x
      BY <1>1, <1>3, <1>5, <2>1, <3>1
    <3>3. Of(id) \in run.blocked \/ Left(id)
      <4>1. run.q # <<>>
        BY DEF Applies
      <4> QED BY <2>1, <3>1, <4>1 DEF Good, Running, HandledOK
    <3> QED BY <1>1, <2>1, <3>2, <3>3, LeftStays
  <2> QED BY <2>2, <2>3
<1>10. run' # Idle
  <2>1. run'.pc = "run" /\ Idle.pc = "idle"
    BY <1>1 DEF Shape, Idle
  <2> QED BY <2>1
<1> QED BY <1>2, <1>8, <1>9, <1>10

LEMMA AppliedGives ==
    ASSUME Good, NEW x, NEW c, Applies(x, c)
    PROVE  GivenUpIsUseless' /\ NotOvertaken'
<1>1. /\ epoch \in [Conv -> Nat] /\ epoch'[c] = epoch[c] + 1 /\ c \in Conv
      /\ \A d \in Conv \ {c} : epoch'[d] = epoch[d]
      /\ stamped' = stamped /\ late' = late /\ spent' = spent /\ detained' = detained
      /\ UNCHANGED <<removals, added, request, refused>>
      /\ x \in DOMAIN stamped /\ Of(x) = c /\ Commit(x) /\ ~App(x) /\ stamped[x].epoch = epoch[c] + 1
      /\ queue' = queue \/ queue' = queue \ {x}
      /\ \A id \in DOMAIN stamped : Stamped(id, stamped[id])
  BY DEF Good, PeersOK, Applies
<1>2. \A id \in DOMAIN stamped :
         /\ Of(id)' = Of(id) /\ App(id)' = App(id) /\ Detained(id)' = Detained(id)
         /\ Disordered(id)' = Disordered(id) /\ Orphaned(id)' = Orphaned(id)
         /\ Absent(id)' = Absent(id)
  BY <1>1 DEF Of, App, Detained, Disordered, Orphaned, Absent, Away, Needs
<1>3. ASSUME NEW id \in DOMAIN stamped, Useless(id)
      PROVE  Useless(id)'
  <2>1. Of(id) = Stranger \/ (Of(id) \in Conv /\ epoch[Of(id)] \in Nat /\ epoch'[Of(id)] \in Nat
                              /\ epoch[Of(id)] <= epoch'[Of(id)])
    BY <1>1, <1>3 DEF Stamped, Of
  <2>2. stamped[id].epoch \in Nat
    BY <1>1, <1>3 DEF Stamped
  <2> QED BY <1>1, <1>2, <1>3, <2>1, <2>2 DEF Useless, Passed, Of
<1>4. Useless(x)'
  BY <1>1, <1>2 DEF Useless
<1>5. GivenUpIsUseless'
  <2>1. \A id \in DOMAIN stamped \ queue : Useless(id)
    BY DEF Good, GivenUpIsUseless, Useless, Of
  <2>2. \A id \in DOMAIN stamped' \ queue' : Useless(id)'
    BY <1>1, <1>3, <1>4, <2>1
  <2> QED BY <2>2 DEF GivenUpIsUseless, Useless, Of
<1>6. NotOvertaken'
  <2> SUFFICES ASSUME NEW id \in DOMAIN stamped \ late, App(id)', Ended(id)'
               PROVE  (\/ id \in spent \/ Absent(id) \/ Detained(id) \/ Disordered(id)
                       \/ Orphaned(id))'
    BY <1>1 DEF NotOvertaken
  <2>1. id \in DOMAIN stamped /\ App(id) /\ Of(id) \in Conv
    BY <1>2 DEF App, Of
  <2>2. PICK k \in DOMAIN stamped : /\ k > id /\ Commit(k) /\ Of(k) = Of(id)
                                    /\ stamped[k].epoch = stamped[id].epoch + 1
    BY <1>1 DEF Ended, Commit, Of
  <2>3. Passed(id) => Ended(id)
    BY <2>2 DEF Ended, Commit, Of
  <2>4. CASE Passed(id)
    BY <1>1, <1>2, <2>1, <2>3, <2>4 DEF Good, NotOvertaken
  <2>5. CASE ~Passed(id)
    <3>1. stamped[id].epoch < epoch'[Of(id)] /\ ~(stamped[id].epoch < epoch[Of(id)])
      BY <1>1, <2>5 DEF Ended, Passed, Of
    <3>2. Of(id) = c /\ stamped[id].epoch = epoch[c]
      <4>1. stamped[id].epoch \in Nat
        BY <1>1 DEF Stamped
      <4> QED BY <1>1, <2>1, <3>1, <4>1
    <3>3. k = x
      BY <1>1, <2>2, <3>2 DEF Good, LedgerOK
    <3>4. x \in Nat /\ id \in Nat /\ id < x /\ Resumed.at \in Nat /\ run.next \in Nat
      <4>0. DOMAIN stamped \subseteq Nat /\ cursor.at \in DOMAIN stamped \cup {0}
            /\ run.next \in DOMAIN stamped \cup {0}
        BY InboxAssumption DEF Good, PeersOK, Running, RunOK, InboxAssumption
      <4>1. x \in Nat /\ id \in Nat /\ Resumed.at \in Nat /\ run.next \in Nat
        BY <1>1, <4>0 DEF Resumed, Head0
      <4> QED BY <2>2, <3>3, <4>1
    <3>5. Reads(id) = epoch[c] /\ epoch[c] \in Nat /\ c # Stranger
      BY <1>1, <2>1, <3>2, InboxAssumption DEF Reads, Commit, App, InboxAssumption
    <3>6. Left(id) => id \in spent \/ Detained(id)
      <4>1. id \notin refused
        BY <2>1 DEF Good, SeatOK, Commit, App
      <4> QED BY <3>2, <3>5, <4>1 DEF Left
    <3>7. CASE id \notin queue
      <4>1. Useless(id)
        BY <2>1, <3>7 DEF Good, GivenUpIsUseless, Useless, Of
      <4>2. id \in spent \/ Detained(id) \/ Disordered(id) \/ Orphaned(id)
        BY <2>1, <2>5, <3>2, <3>5, <4>1 DEF Useless
      <4> QED BY <1>1, <1>2, <2>1, <4>2
    <3>8. CASE id \in queue /\ id <= Resumed.at
      <4>1. Left(id)
        BY <3>8 DEF Good, BehindOK
      <4> QED BY <1>1, <1>2, <2>1, <3>6, <4>1
    <3>9. CASE id \in queue /\ id > Resumed.at
      <4>0. run.q # <<>> /\ x = run.q[1] /\ c \notin run.blocked
        BY DEF Applies
      <4>1. /\ 1 \in DOMAIN run.q /\ \A i \in DOMAIN run.q : i \in Nat /\ (i = 1 \/ 1 < i)
        BY <4>0, HeadFacts DEF Good, Running
      <4>2. x <= run.next /\ \A i \in DOMAIN run.q : 1 < i => x < run.q[i]
        BY <1>1, <4>0, <4>1 DEF Good, Running, OrderOK
      <4>3. id \notin Range(run.q)
        <5> SUFFICES ASSUME NEW i \in DOMAIN run.q, run.q[i] = id PROVE FALSE
          BY DEF Range
        <5> QED BY <3>4, <4>0, <4>1, <4>2
      <4>4. Handled(id)
        BY <3>4, <3>9, <4>2, <4>3 DEF Handled
      <4>5. Left(id)
        BY <3>2, <3>9, <4>0, <4>4 DEF Good, Running, HandledOK
      <4> QED BY <1>1, <1>2, <2>1, <3>6, <4>5
    <3> QED BY <3>4, <3>7, <3>8, <3>9
  <2> QED BY <2>4, <2>5
<1> QED BY <1>5, <1>6

LEMMA CommitApplied ==
    ASSUME Good, commit_applied
    PROVE  Good'
<1>1. PICK x, c : Applies(x, c)
  BY CommitApplies
<1> QED BY <1>1, AppliedPeers, AppliedRun, AppliedGives DEF Good, Running, Idle

-----------------------------------------------------------------------------
(* The beginning and the end of a run. *)

LEMMA SeatKept ==
    ASSUME SeatOK, UNCHANGED <<peers, seat, epoch>>
    PROVE  SeatOK'
<1>1. UNCHANGED <<stamped, peer, own, removals, added, evicted, request, refused, epoch>>
  BY DEF peers, seat
<1> QED BY <1>1 DEF SeatOK, Of, Commit, pcs_unresolved

\* The run alone changes, and with it at most the tracker and the upsets.
LEMMA ElsewhereKept ==
    ASSUME PeersOK, LedgerOK, SeatOK, BehindOK, GivenUpIsUseless, NotOvertaken,
           UNCHANGED <<peers, queue, seat, epoch, rx, spent, cursor, detained>>
    PROVE  /\ PeersOK' /\ LedgerOK' /\ SeatOK' /\ BehindOK' /\ GivenUpIsUseless' /\ NotOvertaken'
           /\ evicted' = evicted /\ stamped' = stamped /\ queue' = queue /\ late' = late /\ Resumed' = Resumed
           /\ StoreFull' = StoreFull
           /\ \A id : Of(id)' = Of(id) /\ Commit(id)' = Commit(id) /\ App(id)' = App(id)
           /\ \A id : Left(id)' = Left(id)
<1>1. /\ stamped' = stamped /\ peer' = peer /\ own' = own /\ late' = late /\ queue' = queue
      /\ epoch' = epoch /\ rx' = rx /\ spent' = spent /\ cursor' = cursor /\ detained' = detained
      /\ UNCHANGED <<removals, added, evicted, request, refused>>
  BY DEF peers, seat
<1>2. \A id : /\ Of(id)' = Of(id) /\ Commit(id)' = Commit(id) /\ App(id)' = App(id)
              /\ Left(id)' = Left(id) /\ Detained(id)' = Detained(id) /\ Disordered(id)' = Disordered(id)
              /\ Ended(id)' = Ended(id) /\ Passed(id)' = Passed(id)
  BY <1>1 DEF Of, Commit, App, Left, Detained, Disordered, Needs, Ended, Passed, Reads
<1>7. \A id : Orphaned(id)' = Orphaned(id) /\ Absent(id)' = Absent(id)
  BY <1>1 DEF Orphaned, Needs, Absent, Away
<1>8. SeatOK'
  BY SeatKept
<1>3. PeersOK' /\ Resumed' = Resumed /\ StoreFull' = StoreFull
  BY <1>1 DEF PeersOK, Stamped, App, Resumed, StoreFull
<1>4. LedgerOK'
  BY <1>1 DEF LedgerOK, Commit, Of, pcs_unresolved, Needs
<1>5. BehindOK'
  BY <1>1, <1>2, <1>3 DEF BehindOK
<1>6. GivenUpIsUseless' /\ NotOvertaken'
  BY <1>1, <1>2, <1>7 DEF GivenUpIsUseless, NotOvertaken
<1> QED BY <1>1, <1>2, <1>3, <1>4, <1>5, <1>6, <1>8

LEMMA EmptyFacts ==
    ASSUME NEW r, Shape(r), NEW a, a = [r EXCEPT !.q = <<>>]
    PROVE  /\ Shape(a) /\ a.q = <<>> /\ a.next = r.next /\ a.held = r.held
           /\ a.per = r.per /\ a.blocked = r.blocked
BY DEF Shape

LEMMA Break ==
    ASSUME Good, break
    PROVE  Good'
<1>1. /\ UNCHANGED <<peers, queue, seat, epoch, rx, spent, cursor, detained>>
      /\ run' = [run EXCEPT !.q = <<>>, !.deferred = TRUE]
  BY DEF break, disk
<1>2. /\ PeersOK' /\ LedgerOK' /\ SeatOK' /\ BehindOK' /\ GivenUpIsUseless' /\ NotOvertaken'
      /\ stamped' = stamped /\ StoreFull' = StoreFull /\ Resumed' = Resumed /\ evicted' = evicted
      /\ \A id : Of(id)' = Of(id) /\ Commit(id)' = Commit(id) /\ App(id)' = App(id)
  BY <1>1, ElsewhereKept DEF Good
<1>3. /\ Shape(run') /\ run'.q = <<>> /\ run'.next = run.next /\ run'.held = run.held
      /\ run'.per = run.per /\ run'.blocked = run.blocked /\ run'.deferred
  <2>1. PICK a : a = [run EXCEPT !.q = <<>>]
    OBVIOUS
  <2>2. /\ Shape(a) /\ a.q = <<>> /\ a.next = run.next /\ a.held = run.held
        /\ a.per = run.per /\ a.blocked = run.blocked
    <3>1. Shape(run)
      BY DEF Good, Running, RunOK
    <3> QED BY <2>1, <3>1, EmptyFacts
  <2>3. PICK T : T = TRUE
    OBVIOUS
  <2>4. PICK n : n = Deferred(a, T)
    OBVIOUS
  <2>5. /\ Shape(n) /\ n.q = a.q /\ n.next = a.next /\ n.held = a.held /\ n.per = a.per
        /\ n.blocked = a.blocked /\ n.deferred = T
    BY <2>2, <2>4, DeferFacts
  <2>6. n = run' /\ n.deferred
    BY <1>1, <2>1, <2>3, <2>4, <2>5, Zenon DEF Deferred
  <2> QED BY <2>2, <2>5, <2>6
<1>4. RunOK'
  <2>1. Shape(run)' /\ run'.q \in Seq(DOMAIN stamped)
    BY <1>3 DEF Shape
  <2>2. /\ run.held \in [Conv -> Seq(DOMAIN stamped)]
        /\ run.per \in [Conv -> Nat] /\ run.next \in DOMAIN stamped \cup {0}
        /\ run.blocked \subseteq Conv
        /\ \A d \in run.blocked : run.per[d] >= MAX_PER_CONVERSATION \/ StoreFull \/ d \in evicted
    BY DEF Good, Running, RunOK
  <2>3. run'.deferred \in BOOLEAN
    <3>1. run' = Deferred([run EXCEPT !.q = <<>>], TRUE)
      BY <1>1, Zenon DEF Deferred
    <3>2. PICK a : a = [run EXCEPT !.q = <<>>]
      OBVIOUS
    <3>3. Shape(a)
      <4>1. Shape(run)
        BY DEF Good, Running, RunOK
      <4> QED BY <3>2, <4>1, EmptyFacts
    <3>4. run'.deferred = TRUE
      BY <3>1, <3>2, <3>3, DeferFacts, Zenon
    <3> QED BY <3>4
  <2> QED BY <1>2, <1>3, <2>1, <2>2, <2>3 DEF RunOK
<1>5. OrderOK'
  <2>1. DOMAIN run'.q = {}
    BY <1>3
  <2>2. \A c \in Conv : \A x \in Range(run.held[c]) :
            App(x) /\ Of(x) = c /\ x > Resumed.at /\ x <= run.next
    BY DEF Good, Running, OrderOK
  <2> QED BY <1>2, <1>3, <2>1, <2>2 DEF OrderOK
<1>6. HandledOK'
  BY <1>3 DEF HandledOK
<1>7. run' # Idle
  <2>1. run'.pc = "run" /\ Idle.pc = "idle"
    BY <1>3 DEF Shape, Idle
  <2> QED BY <2>1
<1> QED BY <1>2, <1>4, <1>5, <1>6, <1>7 DEF Good, Running, Idle

LEMMA Die ==
    ASSUME Good, die
    PROVE  IInv'
<1>1. UNCHANGED <<peers, queue, seat, epoch, rx, spent, cursor, detained>> /\ run' = Idle
  BY DEF die, disk
<1>2. PeersOK' /\ LedgerOK' /\ SeatOK' /\ BehindOK' /\ GivenUpIsUseless' /\ NotOvertaken'
  BY <1>1, ElsewhereKept DEF Good
<1> QED BY <1>1, <1>2 DEF IInv, Idle

\* The cursor moves behind the window only if nothing of it was deferred.
LEMMA Finish ==
    ASSUME Good, finish
    PROVE  IInv'
<1>1. /\ UNCHANGED <<peers, queue, seat, epoch, rx, spent, detained>> /\ run' = Idle /\ cursor' = Saved
      /\ run.q = <<>>
  BY DEF finish
<1>2. /\ stamped' = stamped /\ peer' = peer /\ own' = own /\ late' = late /\ queue' = queue
      /\ epoch' = epoch /\ rx' = rx /\ spent' = spent /\ detained' = detained
      /\ UNCHANGED <<removals, added, evicted, request, refused>>
  BY <1>1 DEF peers, seat
<1>3. \A id : /\ Left(id)' = Left(id) /\ Detained(id)' = Detained(id) /\ App(id)' = App(id)
              /\ Disordered(id)' = Disordered(id) /\ Ended(id)' = Ended(id) /\ Passed(id)' = Passed(id)
              /\ Orphaned(id)' = Orphaned(id) /\ Absent(id)' = Absent(id)
  BY <1>2 DEF Of, Commit, App, Left, Detained, Disordered, Needs, Ended, Passed, Reads,
              Orphaned, Absent, Away
<1>4. \/ cursor' = cursor
      \/ cursor' = Head0
      \/ ~run.deferred /\ cursor' = [at |-> run.next, hops |-> run.hops + 1]
  BY <1>1 DEF Saved
<1>5. run.next \in DOMAIN stamped \cup {0} /\ cursor.at \in DOMAIN stamped \cup {0}
      /\ cursor = [at |-> cursor.at, hops |-> cursor.hops] /\ DOMAIN stamped \subseteq Nat
  BY InboxAssumption DEF Good, PeersOK, Running, RunOK, InboxAssumption
<1>6. /\ cursor' = [at |-> cursor'.at, hops |-> cursor'.hops]
      /\ cursor'.at \in DOMAIN stamped \cup {0}
  BY <1>4, <1>5 DEF Head0
<1>7. PeersOK'
  <2>1. {id \in DOMAIN stamped : App(id)}' = {id \in DOMAIN stamped : App(id)}
    BY <1>2 DEF App
  <2>2. \A id \in DOMAIN stamped' : Stamped(id, stamped[id])'
    BY <1>2 DEF Good, PeersOK, Stamped
  <2> QED BY <1>2, <1>6, <2>1, <2>2 DEF Good, PeersOK
<1>8. LedgerOK'
  BY <1>2 DEF Good, LedgerOK, Commit, Of, pcs_unresolved, Needs
<1>9. BehindOK'
  <2> SUFFICES ASSUME NEW id \in queue \ late, id <= Resumed'.at PROVE Left(id)
    BY <1>2, <1>3 DEF BehindOK
  <2>0. id \in Nat /\ id > 0
    BY InboxAssumption DEF Good, PeersOK, InboxAssumption
  <2>1. Head0.at = 0
    BY DEF Head0
  <2>2. Resumed'.at = cursor'.at
    BY <2>0, <2>1 DEF Resumed
  <2>3. CASE cursor' = cursor
    <3>1. Resumed' = Resumed
      BY <2>3 DEF Resumed
    <3> QED BY <3>1 DEF Good, BehindOK
  <2>4. CASE cursor' = Head0
    BY <2>0, <2>1, <2>2, <2>4
  <2>5. CASE ~run.deferred /\ cursor' = [at |-> run.next, hops |-> run.hops + 1]
    <3>1. id <= run.next
      BY <2>2, <2>5
    <3>2. CASE id <= Resumed.at
      BY <3>2 DEF Good, BehindOK
    <3>3. CASE id > Resumed.at
      <4>1. Handled(id)
        BY <1>1, <3>1, <3>3 DEF Handled, Range
      <4>2. Of(id) \notin run.blocked
        BY <2>5 DEF Good, Running, RunOK
      <4> QED BY <2>5, <4>1, <4>2 DEF Good, Running, HandledOK
    <3>4. Resumed.at \in Nat
      BY <1>5 DEF Resumed, Head0
    <3> QED BY <2>0, <3>2, <3>3, <3>4
  <2> QED BY <1>4, <2>3, <2>4, <2>5
<1>10. GivenUpIsUseless' /\ NotOvertaken'
  BY <1>2, <1>3 DEF Good, GivenUpIsUseless, NotOvertaken
<1>11. SeatOK'
  BY <1>1, SeatKept DEF Good
<1> QED BY <1>1, <1>7, <1>8, <1>9, <1>10, <1>11 DEF IInv, Idle

-----------------------------------------------------------------------------
(* The window of a run. *)

Sorted(S, s) ==
    /\ s \in [1..Cardinality(S) -> S]
    /\ Range(s) = S /\ \A i, j \in DOMAIN s : i < j => s[i] < s[j]

LEMMA NatLeast ==
    ASSUME NEW S, S \subseteq Nat, S # {}
    PROVE  \E n \in S : \A m \in S : ~(m < n)
<1>1. PICK t \in S : \A u \in S : <<u, t>> \notin OpToRel(<, Nat)
  BY WFMin, NatLessThanWellFounded, Zenon
<1> QED BY <1>1, Zenon DEF OpToRel

\* The least element comes before the others in their order.
LEMMA SortedStep ==
    ASSUME NEW u, u \subseteq Nat, IsFiniteSet(u), NEW m \in u, \A x \in u : ~(x < m),
           NEW t, Sorted(u \ {m}, t)
    PROVE  \E s : Sorted(u, s)
<1>1. PICK n \in Nat : n = Cardinality(u)
  BY FS_CardinalityType
<1>2. Cardinality(u \ {m}) = n - 1 /\ n > 0
  <2>1. Cardinality(u \ {m}) = n - 1 /\ IsFiniteSet(u \ {m})
    BY <1>1, FS_RemoveElement
  <2> QED BY <1>1, <2>1, FS_CardinalityType
<1>3. PICK w : w = u \ {m}
  OBVIOUS
<1>4. /\ t \in [1..(n - 1) -> w] /\ \A i, j \in 1..(n - 1) : i < j => t[i] < t[j]
      /\ \A x \in w : \E i \in 1..(n - 1) : t[i] = x
  BY <1>2, <1>3 DEF Sorted, Range
<1>5. PICK s : s = [i \in 1..n |-> IF i = 1 THEN m ELSE t[i - 1]]
  OBVIOUS
<1>6. \A i \in 1..n : s[i] = (IF i = 1 THEN m ELSE t[i - 1]) /\ (i # 1 => i - 1 \in 1..(n - 1))
  BY <1>5
<1>7. s \in [1..n -> u]
  <2>1. \A i \in 1..n : s[i] \in u
    BY <1>3, <1>4, <1>6
  <2> QED BY <1>5, <2>1
<1>8. ASSUME NEW x \in u PROVE \E i \in 1..n : s[i] = x
  <2>1. CASE x = m
    BY <1>2, <1>6, <2>1
  <2>2. CASE x # m
    <3>1. PICK i \in 1..(n - 1) : t[i] = x
      BY <1>3, <1>4, <2>2
    <3>2. i + 1 \in 1..n /\ s[i + 1] = x
      BY <1>6, <3>1
    <3> QED BY <3>2
  <2> QED BY <2>1, <2>2
<1>9. ASSUME NEW i \in 1..n, NEW j \in 1..n, i < j PROVE s[i] < s[j]
  <2>1. j # 1 /\ s[j] = t[j - 1] /\ j - 1 \in 1..(n - 1)
    BY <1>6, <1>9
  <2>2. CASE i = 1
    <3>1. PICK y : y = t[j - 1]
      OBVIOUS
    <3>2. y \in w
      BY <1>4, <2>1, <3>1
    <3>3. y \in u /\ y # m /\ y \in Nat /\ m \in Nat
      BY <1>3, <3>2
    <3>4. ~(y < m)
      BY <3>3
    <3>5. m < y
      BY <3>3, <3>4
    <3>6. s[i] = m
      BY <1>6, <2>2
    <3> QED BY <2>1, <3>1, <3>5, <3>6
  <2>3. CASE i # 1
    <3>1. s[i] = t[i - 1] /\ i - 1 \in 1..(n - 1) /\ i - 1 < j - 1
      BY <1>6, <1>9, <2>3
    <3> QED BY <1>4, <2>1, <3>1
  <2> QED BY <2>2, <2>3
<1>10. DOMAIN s = 1..n
  BY <1>5
<1>11. Range(s) = u
  BY <1>7, <1>8, <1>10 DEF Range
<1> QED BY <1>1, <1>7, <1>9, <1>10, <1>11 DEF Sorted

\* Every finite set of stamps has its ascending enumeration: else a least one
\* has none.
LEMMA AscendingFacts ==
    ASSUME NEW S, S \subseteq Nat, IsFiniteSet(S)
    PROVE  Sorted(S, Ascending(S))
<1>1. \E s : Sorted(S, s)
  <2> DEFINE Unsorted == {u \in SUBSET S : ~\E s : Sorted(u, s)}
             Sizes == {Cardinality(u) : u \in Unsorted}
  <2> SUFFICES ASSUME Unsorted # {} PROVE FALSE
    OBVIOUS
  <2>1. Sizes \subseteq Nat /\ Sizes # {}
    <3>1. \A u \in SUBSET S : IsFiniteSet(u)
      BY FS_Subset
    <3> QED BY <3>1, FS_CardinalityType
  <2> HIDE DEF Sizes
  <2>2. PICK n \in Sizes : \A k \in Sizes : ~(k < n)
    BY <2>1, NatLeast
  <2>3. PICK u \in Unsorted : Cardinality(u) = n
    BY <2>2 DEF Sizes
  <2>4. IsFiniteSet(u) /\ u \subseteq Nat
    BY <2>3, FS_Subset
  <2>5. u # {}
    <3> SUFFICES ASSUME u = {} PROVE Sorted(u, <<>>)
      BY <2>3
    <3>1. Cardinality(u) = 0
      BY FS_EmptySet
    <3> QED BY <3>1 DEF Sorted, Range
  <2>6. PICK m \in u : \A x \in u : ~(x < m)
    BY <2>4, <2>5, NatLeast
  <2>7. PICK w : w = u \ {m}
    OBVIOUS
  <2>8. Cardinality(w) < n /\ w \in SUBSET S
    <3>1. Cardinality(w) = Cardinality(u) - 1 /\ Cardinality(u) \in Nat
      BY <2>4, <2>7, FS_RemoveElement, FS_CardinalityType
    <3> QED BY <2>3, <2>7, <3>1
  <2>9. w \notin Unsorted
    BY <2>2, <2>8 DEF Sizes
  <2>10. PICK t : Sorted(w, t)
    BY <2>8, <2>9
  <2> QED BY <2>3, <2>4, <2>6, <2>7, <2>10, SortedStep
<1>2. \E s \in [1..Cardinality(S) -> S] :
        Range(s) = S /\ \A i, j \in DOMAIN s : i < j => s[i] < s[j]
  BY <1>1 DEF Sorted
<1> QED BY <1>2, Zenon DEF Sorted, Ascending

Pages(S, m) ==
    SubSeq(Ascending(S), 1, IF Len(Ascending(S)) < m THEN Len(Ascending(S)) ELSE m)

\* The first of the queue's envelopes, up to the last fetched.
Fetched(S, got) ==
    /\ got \in Seq(S)
    /\ \A i, j \in DOMAIN got : i < j => got[i] < got[j]
    /\ got = <<>> => S = {}
    /\ got # <<>> =>
          /\ Last(got) \in S
          /\ \A i \in DOMAIN got : got[i] <= Last(got)
          /\ \A x \in S : x <= Last(got) => x \in Range(got)

LEMMA PagesFacts ==
    ASSUME NEW S, S \subseteq Nat, IsFiniteSet(S), NEW m \in Nat \ {0}
    PROVE  Fetched(S, Pages(S, m))
<1>0. PICK got : got = Pages(S, m)
  OBVIOUS
<1>1. PICK s : s = Ascending(S)
  OBVIOUS
<1>2. PICK n \in Nat : n = Cardinality(S)
  BY FS_CardinalityType
<1>3. /\ s \in [1..n -> S] /\ Range(s) = S
      /\ \A i, j \in 1..n : i < j => s[i] < s[j]
  BY <1>1, <1>2, AscendingFacts DEF Sorted
<1>4. s \in Seq(S) /\ Len(s) = n
  BY <1>3
<1>5. PICK k \in 0..n : k = (IF n < m THEN n ELSE m) /\ got = SubSeq(s, 1, k)
  BY <1>0, <1>1, <1>4 DEF Pages
<1>6. got \in Seq(S) /\ Len(got) = k /\ DOMAIN got = 1..k /\ \A i \in 1..k : got[i] = s[i]
  BY <1>4, <1>5
<1>7. \A i, j \in DOMAIN got : i < j => got[i] < got[j]
  BY <1>3, <1>5, <1>6
<1>8. got = <<>> => S = {}
  <2> SUFFICES ASSUME got = <<>> PROVE S = {}
    OBVIOUS
  <2>1. n = 0
    BY <1>5, <1>6
  <2> QED BY <1>3, <2>1 DEF Range
<1>9. ASSUME got # <<>>
      PROVE  /\ Last(got) \in S
             /\ \A i \in DOMAIN got : got[i] <= Last(got)
             /\ \A x \in S : x <= Last(got) => x \in Range(got)
  <2>1. k > 0 /\ Last(got) = s[k] /\ k \in DOMAIN got
    BY <1>5, <1>6, <1>9 DEF Last
  <2>2. \A i \in 1..n : s[i] \in Nat
    BY <1>3
  <2>3. \A i \in 1..k : s[i] <= s[k]
    <3> TAKE i \in 1..k
    <3>1. i = k \/ s[i] < s[k]
      BY <1>3, <1>5, <2>1
    <3> QED BY <1>5, <2>1, <2>2, <3>1
  <2>4. ASSUME NEW x \in S, x <= s[k] PROVE x \in Range(got)
    <3>1. PICK i \in 1..n : s[i] = x
      BY <1>3 DEF Range
    <3>2. ~(k < i)
      <4> SUFFICES ASSUME k < i PROVE FALSE
        OBVIOUS
      <4>1. k \in 1..n
        BY <1>5, <2>1
      <4>2. s[k] < s[i]
        BY <1>3, <4>1
      <4>3. s[k] \in Nat /\ s[i] \in Nat
        BY <2>2, <4>1
      <4> QED BY <2>4, <3>1, <4>2, <4>3
    <3>3. i \in 1..k
      BY <1>5, <3>2
    <3>4. i \in DOMAIN got /\ got[i] = x
      BY <1>6, <3>1, <3>3
    <3> QED BY <3>4 DEF Range
  <2> QED BY <1>3, <1>5, <1>6, <2>1, <2>3, <2>4
<1> QED BY <1>0, <1>6, <1>7, <1>8, <1>9 DEF Fetched

\* A run begins with an untouched window.
LEMMA Fetch ==
    ASSUME IInv, fetch
    PROVE  Good'
<1> DEFINE S == {id \in queue : id > Resumed.at}
           after == Ascending(S)
           got == SubSeq(after, 1, IF Len(after) < MAX_PAGES * PAGE
                                   THEN Len(after) ELSE MAX_PAGES * PAGE)
<1>1. PICK g : g = got
  OBVIOUS
<1>2. /\ UNCHANGED <<peers, queue, seat, epoch, rx, spent, cursor, detained>>
      /\ run' = [pc |-> "run", q |-> g,
                 next |-> IF g = <<>> THEN Resumed.at ELSE Last(g),
                 hops |-> Resumed.hops,
                 more |-> Len(g) > (MAX_PAGES - 1) * PAGE,
                 deferred |-> FALSE, pinned |-> FALSE, attempts |-> 0,
                 per |-> [c \in Conv |-> 0], blocked |-> {}, held |-> [c \in Conv |-> <<>>],
                 t |-> tracker]
  BY <1>1 DEF fetch, disk
<1>3. DOMAIN stamped \subseteq 1..MaxEnvelopes /\ MaxEnvelopes \in Nat /\ queue \subseteq DOMAIN stamped
  BY InboxAssumption DEF IInv, PeersOK, InboxAssumption
<1>4. S \subseteq Nat /\ S \subseteq DOMAIN stamped /\ IsFiniteSet(S)
  <2>1. S \subseteq 1..MaxEnvelopes /\ S \subseteq DOMAIN stamped /\ S \subseteq Nat
    BY <1>3
  <2>2. IsFiniteSet(1..MaxEnvelopes)
    BY <1>3, FS_Interval
  <2> QED BY <2>1, <2>2, FS_Subset
<1>5. MAX_PAGES * PAGE \in Nat \ {0}
  <2>1. MAX_PAGES \in Nat \ {0} /\ PAGE \in Nat \ {0}
    BY InboxAssumption DEF InboxAssumption
  <2>2. \A a, b \in Nat \ {0} : a * b \in Nat \ {0}
    OBVIOUS
  <2> QED BY <2>1, <2>2
<1>6. /\ g \in Seq(S)
      /\ \A i, j \in DOMAIN g : i < j => g[i] < g[j]
      /\ g = <<>> => S = {}
      /\ g # <<>> =>
            /\ Last(g) \in S
            /\ \A i \in DOMAIN g : g[i] <= Last(g)
            /\ \A x \in S : x <= Last(g) => x \in Range(g)
  <2>1. g = Pages(S, MAX_PAGES * PAGE)
    BY <1>1 DEF Pages
  <2>2. Fetched(S, Pages(S, MAX_PAGES * PAGE))
    <3> HIDE DEF S
    <3> QED BY <1>4, <1>5, PagesFacts
  <2>3. Fetched(S, g)
    BY <2>1, <2>2
  <2> HIDE DEF S
  <2> QED BY <2>3 DEF Fetched
<1>7. PICK x : x = IF g = <<>> THEN Resumed.at ELSE Last(g)
  OBVIOUS
<1>8. PICK v : v = (Len(g) > (MAX_PAGES - 1) * PAGE)
  OBVIOUS
<1>9. PICK f : f = FALSE
  OBVIOUS
<1>10. run' = [pc |-> "run", q |-> g, next |-> x, hops |-> Resumed.hops, more |-> v,
               deferred |-> f, pinned |-> f, attempts |-> 0,
               per |-> [c \in Conv |-> 0], blocked |-> {}, held |-> [c \in Conv |-> <<>>],
               t |-> tracker]
  BY <1>2, <1>7, <1>8, <1>9, Zenon
<1>11. /\ Shape(run') /\ run'.q = g /\ run'.next = x /\ run'.deferred = f
       /\ run'.per = [c \in Conv |-> 0] /\ run'.blocked = {} /\ run'.held = [c \in Conv |-> <<>>]
       /\ run'.pc = "run"
  BY <1>10 DEF Shape
<1>12. /\ PeersOK' /\ LedgerOK' /\ SeatOK' /\ BehindOK' /\ GivenUpIsUseless' /\ NotOvertaken'
       /\ stamped' = stamped /\ queue' = queue /\ late' = late /\ StoreFull' = StoreFull
       /\ Resumed' = Resumed
       /\ \A id : Of(id)' = Of(id) /\ Commit(id)' = Commit(id) /\ App(id)' = App(id)
  BY <1>2, ElsewhereKept DEF IInv
<1>13. Resumed.at \in DOMAIN stamped \cup {0} /\ Resumed.at \in Nat
  BY <1>3 DEF IInv, PeersOK, Resumed, Head0
<1>14. x \in DOMAIN stamped \cup {0}
  BY <1>4, <1>6, <1>7, <1>13
<1>15. RunOK'
  <2>1. g \in Seq(DOMAIN stamped)
    BY <1>4, <1>6
  <2>2. f \in BOOLEAN
    BY <1>9
  <2> QED BY <1>11, <1>12, <1>14, <2>1, <2>2 DEF RunOK
<1>16. \A id \in queue : ~Handled(id)'
  <2> SUFFICES ASSUME NEW id \in queue, id > Resumed.at, id <= x, id \notin Range(g) PROVE FALSE
    BY <1>11, <1>12 DEF Handled
  <2>1. id \in S /\ id \in Nat
    BY <1>3
  <2> HIDE DEF S
  <2>2. g # <<>> /\ x = Last(g)
    BY <1>6, <1>7, <2>1
  <2> QED BY <1>6, <2>1, <2>2
<1>17. OrderOK'
  <2>1. ASSUME NEW i \in DOMAIN g PROVE g[i] > Resumed.at /\ g[i] <= x
    <3>1. g # <<>> /\ g[i] \in S
      BY <1>6, <2>1
    <3>2. g[i] <= Last(g)
      BY <1>6, <2>1, <3>1
    <3>3. x = Last(g)
      BY <1>7, <3>1
    <3> QED BY <3>1, <3>2, <3>3
  <2>2. \A c \in Conv : Range(run'.held[c]) = {}
    BY <1>11 DEF Range
  <2> QED BY <1>6, <1>11, <1>12, <1>16, <2>1, <2>2 DEF OrderOK
<1>18. HandledOK'
  BY <1>12, <1>16 DEF HandledOK
<1>19. run' # Idle
  <2>1. Idle.pc = "idle"
    BY DEF Idle
  <2> QED BY <1>11, <2>1
<1> QED BY <1>12, <1>15, <1>17, <1>18, <1>19 DEF Good, Running, Idle

-----------------------------------------------------------------------------
(* The environment, between runs. *)

\* What an envelope that arrives leaves of the others.
LEMMA StampFacts ==
    ASSUME IInv, NEW id, NEW c, NEW kind, NEW e, Stamp(id, c, kind, e),
           UNCHANGED <<own, seat, disk, run, upsets, detained>>
    PROVE  /\ run = Idle /\ id \in 1..MaxEnvelopes /\ id \notin DOMAIN stamped
           /\ DOMAIN stamped' = DOMAIN stamped \cup {id}
           /\ \A i \in DOMAIN stamped : stamped'[i] = stamped[i]
           /\ stamped'[id] = [id |-> id, conv |-> c, kind |-> kind, epoch |-> e]
           /\ queue' = queue \cup {id}
           /\ late \subseteq late' /\ late' \subseteq late \cup {id}
           /\ (\E q \in DOMAIN stamped : q > id) => id \in late'
           /\ own' = own /\ epoch' = epoch /\ rx' = rx /\ spent' = spent /\ cursor' = cursor
           /\ run' = Idle /\ detained' = detained /\ Resumed' = Resumed
           /\ evicted' = evicted /\ request' = request /\ refused' = refused
BY DEF Stamp, disk, seat, Resumed

LEMMA StampKeeps ==
    ASSUME IInv, NEW id, NEW c, NEW kind, NEW e, Stamp(id, c, kind, e),
           UNCHANGED <<own, seat, disk, run, upsets, detained>>,
           NEW i \in DOMAIN stamped
    PROVE  /\ Of(i)' = Of(i) /\ Commit(i)' = Commit(i) /\ App(i)' = App(i)
           /\ Reads(i)' = Reads(i) /\ Passed(i)' = Passed(i)
           /\ Left(i) => Left(i)'
           /\ Detained(i) => Detained(i)'
           /\ Disordered(i) => Disordered(i)'
           /\ Orphaned(i) => Orphaned(i)'
<1>1. /\ DOMAIN stamped' = DOMAIN stamped \cup {id}
      /\ \A k \in DOMAIN stamped : stamped'[k] = stamped[k]
      /\ late \subseteq late'
      /\ own' = own /\ epoch' = epoch /\ spent' = spent /\ detained' = detained
      /\ evicted' = evicted /\ request' = request /\ refused' = refused
  BY StampFacts
<1>2. detained \subseteq DOMAIN stamped /\ refused \subseteq DOMAIN stamped
  BY DEF IInv, PeersOK, SeatOK
<1>3. /\ Of(i)' = Of(i) /\ Commit(i)' = Commit(i) /\ App(i)' = App(i)
      /\ Reads(i)' = Reads(i) /\ Passed(i)' = Passed(i)
  BY <1>1 DEF Of, Commit, App, Reads, Passed
<1>4. Detained(i) => Detained(i)'
  BY <1>1, <1>2 DEF Detained
<1>5. Disordered(i) => Disordered(i)'
  <2> SUFFICES ASSUME NEW k \in DOMAIN stamped, Needs(i, k), k > i \/ k \in late
               PROVE  Disordered(i)'
    BY DEF Disordered
  <2>1. Needs(i, k)'
    BY <1>1 DEF Needs
  <2> QED BY <1>1, <2>1 DEF Disordered
<1>6. Left(i) => Left(i)'
  BY <1>1, <1>3, <1>4 DEF Left
<1>7. Orphaned(i) => Orphaned(i)'
  BY <1>1, <1>2 DEF Orphaned, Needs
<1> QED BY <1>3, <1>4, <1>5, <1>6, <1>7

\* What an envelope does to this device's place in the group: nothing, or, if it is
\* the next Commit, take it or give it back.
Places(id, c, kind, e) ==
    \/ removals' = removals /\ added' = added
    \/ kind = "commit" /\ removals' = removals \cup {id} /\ added' = added
    \/ /\ kind = "commit" /\ Away(c, peer[c]) /\ added[c] = 0
       /\ removals' = removals /\ added' = [added EXCEPT ![c] = e]

LEMMA ArrivalSeat ==
    ASSUME IInv, NEW id, NEW c \in Conv \cup {Stranger}, NEW kind, NEW e \in Nat,
           Stamp(id, c, kind, e),
           UNCHANGED <<own, seat, disk, run, upsets, detained>>,
           \/ kind = "app" /\ peer' = peer
           \/ /\ kind = "commit" /\ c \in Conv /\ e = peer[c] + 1
              /\ peer' = [peer EXCEPT ![c] = @ + 1],
           Places(id, c, kind, e)
    PROVE  /\ SeatOK'
           /\ \A i \in DOMAIN stamped : App(i) /\ Absent(i) => Absent(i)'
<1>1. /\ DOMAIN stamped' = DOMAIN stamped \cup {id}
      /\ \A i \in DOMAIN stamped : stamped'[i] = stamped[i]
      /\ stamped'[id] = [id |-> id, conv |-> c, kind |-> kind, epoch |-> e]
      /\ own' = own /\ epoch' = epoch
      /\ evicted' = evicted /\ request' = request /\ refused' = refused
  BY StampFacts
<1>2. /\ removals \subseteq DOMAIN stamped /\ refused \subseteq DOMAIN stamped
      /\ \A k \in removals : Commit(k) /\ Of(k) \in Conv /\ stamped[k].epoch \in Nat
      /\ \A k \in refused : Commit(k)
      /\ \A i \in DOMAIN stamped : App(i) => /\ Of(i) \in Conv /\ stamped[i].epoch \in Nat
                                             /\ stamped[i].epoch <= peer[Of(i)]
      /\ added \in [Conv -> Nat] /\ peer \in [Conv -> Nat] /\ epoch \in [Conv -> Nat]
      /\ \A d \in Conv : epoch[d] <= peer[d]
  BY InboxAssumption DEF IInv, SeatOK, PeersOK, LedgerOK, Stamped, Commit, Of, App, InboxAssumption
<1>3. /\ peer' \in [Conv -> Nat] /\ \A d \in Conv : peer[d] <= peer'[d]
      /\ kind = "commit" => c \in Conv /\ e = peer[c] + 1 /\ peer'[c] = e
  BY <1>2
<1>4. /\ added' \in [Conv -> Nat]
      /\ \A d \in Conv : \/ added'[d] = added[d]
                         \/ /\ d = c /\ added[d] = 0 /\ added'[d] = e /\ e = peer[c] + 1
                            /\ peer'[c] = e /\ Away(c, peer[c])
      /\ removals \subseteq removals'
      /\ \A r \in removals' : r \in removals \/ (r = id /\ kind = "commit")
  BY <1>2, <1>3 DEF Places
<1>5. /\ \A i \in DOMAIN stamped : Of(i)' = Of(i) /\ Commit(i)' = Commit(i)
      /\ Of(id)' = c /\ (kind = "commit" => Commit(id)')
      /\ \A d : pcs_unresolved(d)' = pcs_unresolved(d)
      /\ stamped'[id].epoch = e
  BY <1>1 DEF Of, Commit, pcs_unresolved
<1>6. SeatOK'
  <2>1. /\ removals' \subseteq {k \in DOMAIN stamped : Commit(k)}'
        /\ refused' \subseteq {k \in DOMAIN stamped : Commit(k)}'
    BY <1>1, <1>2, <1>4, <1>5
  <2>2. /\ evicted' \subseteq Conv /\ request' \in [Conv -> {"none", "kept", "used"}]
    BY <1>1 DEF IInv, SeatOK
  <2>3. \A d \in Conv : request'[d] = "kept" => d \in evicted' /\ added'[d] # 0
    BY <1>1, <1>4 DEF IInv, SeatOK
  <2>4. \A k \in refused' : Of(k)' \in evicted' \/ request'[Of(k)'] = "used"
    BY <1>1, <1>2, <1>5 DEF IInv, SeatOK
  <2>5. ASSUME NEW d \in evicted'
        PROVE  ~pcs_unresolved(d)' /\ \E r \in removals' : Of(r)' = d /\ stamped'[r].epoch = epoch'[d]
    <3>1. ~pcs_unresolved(d) /\ \E r \in removals : Of(r) = d /\ stamped[r].epoch = epoch[d]
      BY <1>1, <2>5 DEF IInv, SeatOK
    <3> QED BY <1>1, <1>2, <1>4, <1>5, <3>1
  <2>6. ASSUME NEW r \in removals', added'[Of(r)'] = 0
        PROVE  Of(r)' \in evicted' \/ epoch'[Of(r)'] < stamped'[r].epoch
    <3>1. CASE r \in removals
      <4>1. Of(r)' = Of(r) /\ Of(r) \in Conv /\ stamped'[r] = stamped[r]
        BY <1>1, <1>2, <1>5, <3>1
      <4>2. added[Of(r)] = 0
        BY <1>2, <1>4, <2>6, <4>1
      <4> QED BY <1>1, <3>1, <4>1, <4>2 DEF IInv, SeatOK
    <3>2. CASE r = id /\ kind = "commit"
      BY <1>1, <1>2, <1>3, <1>5, <3>2
    <3> QED BY <1>4, <2>6, <3>1, <3>2
  <2>7. ASSUME NEW d \in Conv, added'[d] # 0, request'[d] # "used"
        PROVE  /\ added'[d] <= peer'[d] /\ epoch'[d] < added'[d]
               /\ d \in evicted' \/ \E r \in removals' :
                     Of(r)' = d /\ epoch'[d] < stamped'[r].epoch /\ stamped'[r].epoch < added'[d]
    <3>1. CASE added'[d] = added[d]
      <4>1. /\ added[d] <= peer[d] /\ epoch[d] < added[d]
            /\ d \in evicted \/ \E r \in removals :
                  Of(r) = d /\ epoch[d] < stamped[r].epoch /\ stamped[r].epoch < added[d]
        BY <1>1, <2>7, <3>1 DEF IInv, SeatOK
      <4>2. added[d] <= peer'[d]
        BY <1>2, <1>3, <4>1
      <4> QED BY <1>1, <1>2, <1>4, <1>5, <3>1, <4>1, <4>2
    <3>2. CASE /\ d = c /\ added[d] = 0 /\ added'[d] = e /\ e = peer[c] + 1
               /\ peer'[c] = e /\ Away(c, peer[c])
      <4>1. PICK r \in removals : Of(r) = c /\ stamped[r].epoch <= peer[c]
        BY <3>2 DEF Away, Of
      <4>2. c \in evicted \/ epoch[c] < stamped[r].epoch
        BY <3>2, <4>1 DEF IInv, SeatOK
      <4>3. epoch[c] < e /\ stamped[r].epoch < e
        BY <1>2, <3>2, <4>1
      <4> QED BY <1>1, <1>2, <1>4, <1>5, <3>2, <4>1, <4>2, <4>3
    <3> QED BY <1>4, <2>7, <3>1, <3>2
  <2> QED BY <1>4, <2>1, <2>2, <2>3, <2>4, <2>5, <2>6, <2>7 DEF SeatOK
<1>7. ASSUME NEW i \in DOMAIN stamped, App(i), Absent(i) PROVE Absent(i)'
  <2>1. PICK r \in removals :
            /\ stamped[r].conv = stamped[i].conv /\ stamped[r].epoch <= stamped[i].epoch
            /\ stamped[i].epoch < added[stamped[i].conv] \/ added[stamped[i].conv] < stamped[r].epoch
    BY <1>7 DEF Absent, Away
  <2>2. /\ r \in removals' /\ stamped'[r] = stamped[r] /\ stamped'[i] = stamped[i]
        /\ stamped[i].conv \in Conv
    BY <1>1, <1>2, <1>4, <1>7 DEF App
  <2>3. \/ stamped[i].epoch < added'[stamped[i].conv]
        \/ added'[stamped[i].conv] < stamped[r].epoch
    <3>1. stamped[i].epoch \in Nat /\ stamped[i].epoch <= peer[stamped[i].conv]
      BY <1>2, <1>7 DEF Of
    <3> QED BY <1>2, <1>4, <2>1, <2>2, <3>1
  <2> QED BY <2>1, <2>2, <2>3 DEF Absent, Away
<1> QED BY <1>6, <1>7

LEMMA Arrival ==
    ASSUME IInv, NEW id, NEW c \in Conv \cup {Stranger}, NEW kind, NEW e \in Nat,
           Stamp(id, c, kind, e),
           UNCHANGED <<own, seat, disk, run, upsets, detained>>,
           \/ kind = "app" /\ peer' = peer /\ (c \in Conv => e <= peer[c])
           \/ /\ kind = "commit" /\ c \in Conv /\ e = peer[c] + 1
              /\ peer' = [peer EXCEPT ![c] = @ + 1],
           Places(id, c, kind, e)
    PROVE  IInv'
<1>1. /\ run = Idle /\ id \in 1..MaxEnvelopes /\ id \notin DOMAIN stamped
      /\ DOMAIN stamped' = DOMAIN stamped \cup {id}
      /\ \A i \in DOMAIN stamped : stamped'[i] = stamped[i]
      /\ queue' = queue \cup {id}
      /\ late \subseteq late' /\ late' \subseteq late \cup {id}
      /\ (\E q \in DOMAIN stamped : q > id) => id \in late'
      /\ own' = own /\ epoch' = epoch /\ rx' = rx /\ spent' = spent /\ cursor' = cursor
      /\ run' = Idle /\ detained' = detained /\ Resumed' = Resumed
  BY StampFacts
<1>2. /\ stamped'[id] = [id |-> id, conv |-> c, kind |-> kind, epoch |-> e]
      /\ stamped'[id].conv = c /\ stamped'[id].kind = kind /\ stamped'[id].epoch = e
  <2>1. stamped'[id] = [id |-> id, conv |-> c, kind |-> kind, epoch |-> e]
    BY StampFacts
  <2> QED BY <2>1
<1>3. \A i \in DOMAIN stamped :
         /\ Of(i)' = Of(i) /\ Commit(i)' = Commit(i) /\ App(i)' = App(i)
         /\ Passed(i)' = Passed(i)
         /\ Left(i) => Left(i)'
         /\ Detained(i) => Detained(i)'
         /\ Disordered(i) => Disordered(i)'
         /\ Orphaned(i) => Orphaned(i)'
  BY StampKeeps
<1>4. /\ peer \in [Conv -> Nat] /\ epoch \in [Conv -> Nat]
      /\ \A d \in Conv : epoch[d] <= peer[d]
      /\ Stranger \notin Conv
      /\ DOMAIN stamped \subseteq 1..MaxEnvelopes /\ MaxEnvelopes \in Nat
      /\ \A i \in DOMAIN stamped : Stamped(i, stamped[i])
  BY InboxAssumption DEF IInv, PeersOK, LedgerOK, InboxAssumption
<1>5. /\ peer' \in [Conv -> Nat] /\ \A d \in Conv : peer[d] <= peer'[d]
      /\ kind \in {"app", "commit"} /\ (c \in Conv => e <= peer'[c])
      /\ (kind = "commit" => c \in Conv /\ e > 0)
  BY <1>4
<1>6. \A i \in DOMAIN stamped : /\ i \in Nat /\ stamped[i].epoch \in Nat
                                /\ stamped[i].conv \in Conv \cup {Stranger}
                                /\ stamped[i].kind = "commit" => stamped[i].conv \in Conv
                                /\ stamped[i].conv \in Conv => stamped[i].epoch <= peer[stamped[i].conv]
  BY <1>4 DEF Stamped
<1>7. PeersOK'
  <2>1. \A i \in DOMAIN stamped' : Stamped(i, stamped[i])'
    <3>1. ASSUME NEW i \in DOMAIN stamped PROVE Stamped(i, stamped[i])'
      <4>1. stamped'[i] = stamped[i] /\ Stamped(i, stamped[i])
        BY <1>1, <1>4
      <4>2. stamped[i].conv \in Conv => stamped[i].epoch <= peer'[stamped[i].conv]
        BY <1>4, <1>5, <1>6
      <4> QED BY <4>1, <4>2 DEF Stamped
    <3>2. Stamped(id, stamped[id])'
      <4>1. stamped'[id] = [id |-> id, conv |-> stamped'[id].conv, kind |-> stamped'[id].kind,
                            epoch |-> stamped'[id].epoch]
        BY <1>2
      <4>2. stamped'[id].conv = Stranger => stamped'[id].kind = "app"
        BY <1>2, <1>4, <1>5
      <4> QED BY <1>2, <1>5, <4>1, <4>2 DEF Stamped
    <3> QED BY <1>1, <3>1, <3>2
  <2>2. spent' \subseteq {i \in DOMAIN stamped' : App(i)'}
    BY <1>1, <1>3 DEF IInv, PeersOK
  <2> QED BY <1>1, <1>4, <1>5, <2>1, <2>2 DEF IInv, PeersOK
<1>8. LedgerOK'
  <2>1. \A d \in Conv : epoch'[d] <= peer'[d]
    BY <1>1, <1>4, <1>5
  <2>2. ASSUME NEW d \in Conv, NEW f \in 1..peer'[d]
        PROVE  \/ f <= epoch'[d]
               \/ \E k \in DOMAIN stamped' :
                     Commit(k)' /\ Of(k)' = d /\ stamped'[k].epoch = f
               \/ pcs_unresolved(d)' /\ f = epoch'[d] + 1
    <3>1. CASE f \in 1..peer[d]
      <4>1. \/ f <= epoch[d]
            \/ \E k \in DOMAIN stamped : Commit(k) /\ Of(k) = d /\ stamped[k].epoch = f
            \/ pcs_unresolved(d) /\ f = epoch[d] + 1
        BY <3>1 DEF IInv, LedgerOK
      <4> QED BY <1>1, <1>3, <4>1 DEF pcs_unresolved
    <3>2. CASE f \notin 1..peer[d]
      <4>1. kind = "commit" /\ d = c /\ f = e
        BY <1>4, <2>2, <3>2
      <4> QED BY <1>1, <1>2, <4>1 DEF Commit, Of
    <3> QED BY <3>1, <3>2
  <2>3. ASSUME NEW k \in DOMAIN stamped', NEW l \in DOMAIN stamped',
               Commit(k)', Commit(l)', Of(k)' = Of(l)', stamped'[k].epoch = stamped'[l].epoch
        PROVE  k = l
    <3>1. CASE k \in DOMAIN stamped /\ l \in DOMAIN stamped
      <4>1. Commit(k) /\ Commit(l) /\ Of(k) = Of(l) /\ stamped[k].epoch = stamped[l].epoch
        BY <1>1, <1>3, <2>3, <3>1
      <4> QED BY <3>1, <4>1 DEF IInv, LedgerOK
    <3>2. ASSUME NEW i \in DOMAIN stamped, Commit(i)', Commit(id)', Of(i)' = Of(id)',
                 stamped'[i].epoch = stamped'[id].epoch
          PROVE  FALSE
      <4>1. kind = "commit" /\ stamped[i].conv = c /\ stamped[i].epoch = e
        BY <1>1, <1>2, <3>2 DEF Commit, Of
      <4>2. e = peer[c] + 1 /\ c \in Conv /\ stamped[i].epoch <= peer[c]
        BY <1>6, <4>1
      <4> QED BY <1>4, <4>1, <4>2
    <3>3. k \in DOMAIN stamped \/ k = id
      BY <1>1, <2>3
    <3>4. l \in DOMAIN stamped \/ l = id
      BY <1>1, <2>3
    <3> QED BY <2>3, <3>1, <3>2, <3>3, <3>4
  <2>4. ASSUME NEW d \in Conv, own'[d] = "accepted"
        PROVE  /\ epoch'[d] < peer'[d]
               /\ \A k \in DOMAIN stamped' :
                     Commit(k)' /\ Of(k)' = d => stamped'[k].epoch # epoch'[d] + 1
    <3>1. /\ epoch[d] < peer[d]
          /\ \A k \in DOMAIN stamped :
                Commit(k) /\ Of(k) = d => stamped[k].epoch # epoch[d] + 1
      BY <1>1, <2>4 DEF IInv, LedgerOK
    <3>2. Commit(id)' /\ Of(id)' = d => stamped'[id].epoch # epoch'[d] + 1
      <4> SUFFICES ASSUME kind = "commit", c = d PROVE e # epoch[d] + 1
        BY <1>1, <1>2 DEF Commit, Of
      <4> QED BY <1>4, <3>1
    <3>3. epoch[d] < peer'[d]
      BY <1>4, <1>5, <3>1
    <3> QED BY <1>1, <1>3, <3>1, <3>2, <3>3
  <2>5. ASSUME NEW i \in DOMAIN stamped', NEW k \in DOMAIN stamped', Needs(i, k)', k > i
        PROVE  i \in late'
    <3>1. CASE i \in DOMAIN stamped /\ k \in DOMAIN stamped
      <4>1. Needs(i, k)
        BY <1>1, <2>5, <3>1 DEF Needs
      <4> QED BY <1>1, <2>5, <3>1, <4>1 DEF IInv, LedgerOK
    <3>2. CASE i = id /\ k \in DOMAIN stamped
      BY <1>1, <2>5, <3>2
    <3>3. CASE i \in DOMAIN stamped /\ k = id
      <4>1. kind = "commit" /\ stamped[i].conv = c /\ e <= stamped[i].epoch
        BY <1>1, <1>2, <2>5, <3>3 DEF Needs
      <4>2. e = peer[c] + 1 /\ c \in Conv /\ stamped[i].epoch <= peer[c]
        BY <1>6, <3>3, <4>1
      <4> QED BY <1>4, <1>6, <3>3, <4>1, <4>2
    <3>4. ~(i = id /\ k = id)
      BY <2>5 DEF Needs
    <3> QED BY <1>1, <3>1, <3>2, <3>3, <3>4
  <2> QED BY <2>1, <2>2, <2>3, <2>4, <2>5 DEF LedgerOK
<1>9. BehindOK'
  <2> SUFFICES ASSUME NEW i \in queue' \ late', i <= Resumed.at PROVE Left(i)'
    BY <1>1 DEF BehindOK
  <2>1. CASE i \in queue
    <3>1. i \notin late /\ i \in DOMAIN stamped
      BY <1>1, <2>1 DEF IInv, PeersOK
    <3>2. Left(i)
      BY <2>1, <3>1 DEF IInv, BehindOK
    <3> QED BY <1>3, <3>1, <3>2
  <2>2. CASE i = id
    <3>1. Resumed.at \in DOMAIN stamped \cup {0}
      BY DEF IInv, PeersOK, Resumed, Head0
    <3>2. id \in Nat /\ id > 0 /\ id <= Resumed.at
      BY <1>1, <2>2
    <3>3. Resumed.at \in DOMAIN stamped /\ Resumed.at > id
      BY <1>1, <1>4, <3>1, <3>2
    <3> QED BY <1>1, <2>2, <3>3
  <2> QED BY <1>1, <2>1, <2>2
<1>10. GivenUpIsUseless'
  <2> SUFFICES ASSUME NEW i \in DOMAIN stamped \ queue
               PROVE  \/ stamped'[i].conv = Stranger \/ Detained(i)' \/ Disordered(i)'
                      \/ Orphaned(i)'
                      \/ IF App(i)' THEN i \in spent' \/ Passed(i)'
                         ELSE stamped'[i].epoch <= epoch'[stamped'[i].conv]
    BY <1>1 DEF GivenUpIsUseless
  <2>1. \/ stamped[i].conv = Stranger \/ Detained(i) \/ Disordered(i) \/ Orphaned(i)
        \/ IF App(i) THEN i \in spent \/ Passed(i)
           ELSE stamped[i].epoch <= epoch[stamped[i].conv]
    BY DEF IInv, GivenUpIsUseless
  <2> QED BY <1>1, <1>3, <2>1
<1>12. SeatOK' /\ \A i \in DOMAIN stamped : App(i) /\ Absent(i) => Absent(i)'
  BY ArrivalSeat
<1>11. NotOvertaken'
  <2> SUFFICES ASSUME NEW i \in DOMAIN stamped' \ late', App(i)', Ended(i)'
               PROVE  i \in spent' \/ Absent(i)' \/ Detained(i)' \/ Disordered(i)' \/ Orphaned(i)'
    BY DEF NotOvertaken
  <2>1. PICK k \in DOMAIN stamped' :
            /\ k > i /\ stamped'[k].kind = "commit"
            /\ stamped'[k].conv = stamped'[i].conv
            /\ stamped'[k].epoch = stamped'[i].epoch + 1
    BY DEF Ended
  <2>2. CASE i = id
    <3>1. k \in DOMAIN stamped \/ k = id
      BY <1>1
    <3>2. k \in DOMAIN stamped
      BY <1>1, <2>1, <2>2, <3>1
    <3> QED BY <1>1, <2>1, <2>2, <3>2
  <2>3. CASE i \in DOMAIN stamped
    <3>1. App(i) /\ Passed(i) /\ i \notin late /\ stamped'[i] = stamped[i]
      BY <1>1, <1>3, <2>3 DEF Ended
    <3>2. CASE k \in DOMAIN stamped
      <4>1. Ended(i)
        BY <1>1, <2>1, <3>1, <3>2 DEF Ended
      <4>2. i \in spent \/ Absent(i) \/ Detained(i) \/ Disordered(i) \/ Orphaned(i)
        BY <2>3, <3>1, <4>1 DEF IInv, NotOvertaken
      <4> QED BY <1>1, <1>3, <1>12, <2>3, <3>1, <4>2
    <3>3. CASE k = id
      <4>1. kind = "commit" /\ stamped[i].conv = c /\ e = stamped[i].epoch + 1 /\ c \in Conv
        BY <1>2, <1>5, <2>1, <3>1, <3>3
      <4>2. stamped[i].epoch < epoch[c]
        BY <3>1, <4>1 DEF Passed
      <4> QED BY <1>4, <1>6, <2>3, <4>1, <4>2
    <3> QED BY <1>1, <3>2, <3>3
  <2> QED BY <1>1, <2>2, <2>3
<1> QED BY <1>1, <1>7, <1>8, <1>9, <1>10, <1>11, <1>12 DEF IInv, Idle

LEMMA PeerSends ==
    ASSUME IInv, NEW c \in Conv, NEW id, peer_sends(c, id)
    PROVE  IInv'
<1>1. PICK e \in 0..peer[c] : Stamp(id, c, "app", e)
  BY DEF peer_sends
<1>2. peer[c] \in Nat
  BY DEF IInv, PeersOK
<1>3. e \in Nat /\ e <= peer[c]
  BY <1>1, <1>2
<1>4. UNCHANGED <<own, seat, disk, run, upsets, detained>> /\ peer' = peer
  BY DEF peer_sends
<1>5. Places(id, c, "app", e)
  BY DEF peer_sends, Places
<1> QED BY <1>1, <1>3, <1>4, <1>5, Arrival

LEMMA StrangerSends ==
    ASSUME IInv, NEW id, stranger_sends(id)
    PROVE  IInv'
<1>1. Stamp(id, Stranger, "app", 0)
  BY DEF stranger_sends
<1>2. UNCHANGED <<own, seat, disk, run, upsets, detained>> /\ peer' = peer
  BY DEF stranger_sends
<1>3. Stranger \notin Conv
  BY InboxAssumption DEF InboxAssumption
<1>4. Places(id, Stranger, "app", 0)
  BY DEF stranger_sends, Places
<1> QED BY <1>1, <1>2, <1>3, <1>4, Arrival

\* The next Commit, whether it leaves this device where it is, removes it or adds it.
LEMMA PeerCommits ==
    ASSUME IInv, NEW c \in Conv, NEW id,
           peer_commits(c, id) \/ peer_removes(c, id) \/ peer_adds(c, id)
    PROVE  IInv'
<1>1. Stamp(id, c, "commit", peer[c] + 1) /\ peer' = [peer EXCEPT ![c] = @ + 1]
  BY DEF peer_commits, peer_removes, peer_adds
<1>2. UNCHANGED <<own, seat, disk, run, upsets, detained>>
  BY DEF peer_commits, peer_removes, peer_adds
<1>3. peer[c] + 1 \in Nat
  BY DEF IInv, PeersOK
<1>4. Places(id, c, "commit", peer[c] + 1)
  BY DEF peer_commits, peer_removes, peer_adds, Places
<1> QED BY <1>1, <1>2, <1>3, <1>4, Arrival

\* Our own Commit, if the ledger took it, is the next of its conversation, so
\* nothing stamped is ahead.
LEMMA LeaveOwn ==
    ASSUME IInv, NEW c \in Conv, leave_own(c)
    PROVE  IInv'
<1>1. /\ run = Idle /\ run' = Idle /\ own[c] = "none" /\ c \notin evicted
      /\ queue' = queue /\ stamped' = stamped /\ late' = late /\ epoch' = epoch /\ rx' = rx
      /\ spent' = spent /\ cursor' = cursor /\ detained' = detained /\ Resumed' = Resumed
      /\ UNCHANGED <<removals, added, evicted, request, refused>>
  BY DEF leave_own, disk, seat, Resumed
<1>2. /\ \/ /\ epoch[c] = peer[c] /\ peer' = [peer EXCEPT ![c] = @ + 1]
            /\ \E s \in {"accepted", "unknown"} : own' = [own EXCEPT ![c] = s]
         \/ own' = [own EXCEPT ![c] = "unknown"] /\ peer' = peer
  BY DEF leave_own
<1>3. /\ peer \in [Conv -> Nat] /\ epoch \in [Conv -> Nat]
      /\ own \in [Conv -> {"none", "accepted", "unknown", "resolved"}]
      /\ \A d \in Conv : epoch[d] <= peer[d]
      /\ \A i \in DOMAIN stamped : Stamped(i, stamped[i])
  BY DEF IInv, PeersOK, LedgerOK
<1>4. /\ peer' \in [Conv -> Nat] /\ \A d \in Conv : peer[d] <= peer'[d]
      /\ own' \in [Conv -> {"none", "accepted", "unknown", "resolved"}]
      /\ \A d \in Conv \ {c} : own'[d] = own[d] /\ peer'[d] = peer[d]
      /\ own'[c] \in {"accepted", "unknown"}
      /\ own'[c] = "accepted" => epoch[c] = peer[c] /\ peer'[c] = peer[c] + 1
      /\ peer'[c] = peer[c] \/ (epoch[c] = peer[c] /\ peer'[c] = peer[c] + 1)
  BY <1>1, <1>2, <1>3
<1>5. \A i : /\ Of(i)' = Of(i) /\ Commit(i)' = Commit(i) /\ App(i)' = App(i)
             /\ Detained(i)' = Detained(i) /\ Disordered(i)' = Disordered(i)
             /\ Ended(i)' = Ended(i) /\ Passed(i)' = Passed(i) /\ Reads(i)' = Reads(i)
             /\ Orphaned(i)' = Orphaned(i) /\ Absent(i)' = Absent(i)
  BY <1>1 DEF Of, Commit, App, Detained, Disordered, Needs, Ended, Passed, Reads,
              Orphaned, Absent, Away
<1>6. ASSUME NEW i \in DOMAIN stamped
      PROVE  /\ stamped[i].epoch \in Nat /\ stamped[i].conv \in Conv \cup {Stranger}
             /\ stamped[i].conv \in Conv => stamped[i].epoch <= peer[stamped[i].conv]
  BY <1>3 DEF Stamped
<1>7. PeersOK'
  <2>1. ASSUME NEW i \in DOMAIN stamped PROVE Stamped(i, stamped[i])'
    <3>1. stamped[i].conv \in Conv => stamped[i].epoch <= peer'[stamped[i].conv]
      BY <1>3, <1>4, <1>6
    <3> QED BY <1>1, <1>3, <3>1 DEF Stamped
  <2>2. {i \in DOMAIN stamped : App(i)}' = {i \in DOMAIN stamped : App(i)}
    BY <1>1 DEF App
  <2> QED BY <1>1, <1>4, <2>1, <2>2 DEF IInv, PeersOK
<1>8. LedgerOK'
  <2>1. \A d \in Conv : epoch[d] <= peer'[d]
    BY <1>3, <1>4
  <2>2. ASSUME NEW d \in Conv, NEW e \in 1..peer'[d]
        PROVE  \/ e <= epoch[d]
               \/ \E k \in DOMAIN stamped : Commit(k) /\ Of(k) = d /\ stamped[k].epoch = e
               \/ pcs_unresolved(d)' /\ e = epoch[d] + 1
    <3>1. CASE e \in 1..peer[d]
      <4>1. \/ e <= epoch[d]
            \/ \E k \in DOMAIN stamped : Commit(k) /\ Of(k) = d /\ stamped[k].epoch = e
            \/ pcs_unresolved(d) /\ e = epoch[d] + 1
        BY <3>1 DEF IInv, LedgerOK
      <4>2. pcs_unresolved(d) => pcs_unresolved(d)'
        BY <1>4 DEF pcs_unresolved
      <4> QED BY <4>1, <4>2
    <3>2. CASE e \notin 1..peer[d]
      <4>1. d = c /\ e = peer[c] + 1 /\ epoch[c] = peer[c]
        BY <1>3, <1>4, <2>2, <3>2
      <4> QED BY <1>4, <4>1 DEF pcs_unresolved
    <3> QED BY <3>1, <3>2
  <2>3. ASSUME NEW d \in Conv, own'[d] = "accepted"
        PROVE  /\ epoch[d] < peer'[d]
               /\ \A k \in DOMAIN stamped :
                     Commit(k) /\ Of(k) = d => stamped[k].epoch # epoch[d] + 1
    <3>1. CASE d # c
      <4>1. own[d] = "accepted" /\ peer'[d] = peer[d]
        BY <1>4, <2>3, <3>1
      <4> QED BY <4>1 DEF IInv, LedgerOK
    <3>2. CASE d = c
      <4>1. epoch[c] = peer[c] /\ peer'[c] = peer[c] + 1 /\ peer[c] \in Nat
        BY <1>3, <1>4, <2>3, <3>2
      <4> QED BY <1>6, <3>2, <4>1 DEF Of
    <3> QED BY <3>1, <3>2
  <2>4. /\ \A k, l \in DOMAIN stamped :
             Commit(k) /\ Commit(l) /\ Of(k) = Of(l) /\ stamped[k].epoch = stamped[l].epoch => k = l
        /\ \A i, k \in DOMAIN stamped : Needs(i, k) /\ k > i => i \in late
    BY DEF IInv, LedgerOK
  <2>5. \A i, k : Needs(i, k)' = Needs(i, k)
    BY <1>1 DEF Needs
  <2> QED BY <1>1, <1>5, <2>1, <2>2, <2>3, <2>4, <2>5 DEF LedgerOK
<1>9. BehindOK'
  <2> SUFFICES ASSUME NEW i \in queue \ late, i <= Resumed.at PROVE Left(i)'
    BY <1>1 DEF BehindOK
  <2>1. Left(i) /\ i \in DOMAIN stamped
    BY DEF IInv, BehindOK, PeersOK
  <2>2. CASE /\ Reads(i) > epoch[Of(i)] /\ own[Of(i)] # "accepted" /\ Of(i) # Stranger
             /\ Of(i) \notin evicted
    <3>1. Of(i) \in Conv /\ stamped[i].epoch <= peer[Of(i)] /\ stamped[i].epoch \in Nat
      BY <1>6, <2>1, <2>2 DEF Of
    <3>2. peer[Of(i)] \in Nat /\ epoch[Of(i)] \in Nat
      BY <1>3, <3>1
    <3>3. epoch[Of(i)] < peer[Of(i)]
      BY <2>2, <3>1, <3>2 DEF Reads
    <3>4. own'[Of(i)] # "accepted"
      BY <1>4, <2>2, <3>1, <3>2, <3>3
    <3> QED BY <1>1, <1>5, <2>2, <3>4 DEF Left
  <2> QED BY <1>1, <1>5, <2>1, <2>2 DEF Left
<1>10. GivenUpIsUseless' /\ NotOvertaken'
  BY <1>1, <1>5 DEF IInv, GivenUpIsUseless, NotOvertaken
<1>11. SeatOK'
  <2>1. \A d \in evicted : ~pcs_unresolved(d)'
    <3> SUFFICES ASSUME NEW d \in evicted PROVE ~pcs_unresolved(d)'
      OBVIOUS
    <3>1. d \in Conv \ {c} /\ ~pcs_unresolved(d)
      BY <1>1 DEF IInv, SeatOK
    <3> QED BY <1>4, <3>1 DEF pcs_unresolved
  <2>2. \A d \in Conv : added[d] \in Nat /\ (added[d] <= peer[d] => added[d] <= peer'[d])
    BY <1>3, <1>4 DEF IInv, SeatOK
  <2>3. \A k : Commit(k)' = Commit(k) /\ Of(k)' = Of(k)
    BY <1>5
  <2> QED BY <1>1, <2>1, <2>2, <2>3 DEF IInv, SeatOK
<1> QED BY <1>1, <1>7, <1>8, <1>9, <1>10, <1>11 DEF IInv, Idle

\* It was accepted, so there is no other Commit into the epoch it leads to, and
\* no message that one would have ended.
LEMMA ResumeOwn ==
    ASSUME IInv, NEW c \in Conv, resume_own(c)
    PROVE  IInv'
<1>1. /\ run = Idle /\ run' = Idle /\ own[c] = "accepted" /\ own' = [own EXCEPT ![c] = "resolved"]
      /\ epoch' = [epoch EXCEPT ![c] = @ + 1]
      /\ queue' = queue /\ stamped' = stamped /\ late' = late /\ peer' = peer /\ rx' = rx
      /\ spent' = spent /\ cursor' = cursor /\ detained' = detained /\ Resumed' = Resumed
      /\ UNCHANGED <<removals, added, evicted, request, refused>>
  BY DEF resume_own, seat, Resumed
<1>2. /\ peer \in [Conv -> Nat] /\ epoch \in [Conv -> Nat]
      /\ own \in [Conv -> {"none", "accepted", "unknown", "resolved"}]
      /\ \A d \in Conv : epoch[d] <= peer[d]
      /\ \A i \in DOMAIN stamped : Stamped(i, stamped[i])
      /\ epoch[c] < peer[c]
      /\ \A k \in DOMAIN stamped : Commit(k) /\ Of(k) = c => stamped[k].epoch # epoch[c] + 1
  BY <1>1 DEF IInv, PeersOK, LedgerOK
<1>3. /\ epoch' \in [Conv -> Nat] /\ \A d \in Conv : epoch[d] <= epoch'[d]
      /\ own' \in [Conv -> {"none", "accepted", "unknown", "resolved"}]
      /\ \A d \in Conv \ {c} : own'[d] = own[d] /\ epoch'[d] = epoch[d]
      /\ own'[c] = "resolved" /\ epoch'[c] = epoch[c] + 1
  BY <1>1, <1>2
<1>4. \A i : /\ Of(i)' = Of(i) /\ Commit(i)' = Commit(i) /\ App(i)' = App(i)
             /\ Detained(i)' = Detained(i) /\ Disordered(i)' = Disordered(i) /\ Reads(i)' = Reads(i)
             /\ Orphaned(i)' = Orphaned(i) /\ Absent(i)' = Absent(i)
  BY <1>1 DEF Of, Commit, App, Detained, Disordered, Needs, Reads, Orphaned, Absent, Away
<1>5. ASSUME NEW i \in DOMAIN stamped
      PROVE  /\ stamped[i].epoch \in Nat /\ stamped[i].conv \in Conv \cup {Stranger}
             /\ stamped[i].kind = "commit" => stamped[i].epoch > 0
             /\ Reads(i) \in Nat
  BY <1>2 DEF Stamped, Reads, Commit
<1>6. PeersOK'
  <2>1. \A i \in DOMAIN stamped : Stamped(i, stamped[i])'
    BY <1>1, <1>2 DEF Stamped
  <2>2. {i \in DOMAIN stamped : App(i)}' = {i \in DOMAIN stamped : App(i)}
    BY <1>1 DEF App
  <2> QED BY <1>1, <1>3, <2>1, <2>2 DEF IInv, PeersOK
<1>7. LedgerOK'
  <2>1. \A d \in Conv : epoch'[d] <= peer[d]
    BY <1>2, <1>3
  <2>2. ASSUME NEW d \in Conv, NEW e \in 1..peer[d]
        PROVE  \/ e <= epoch'[d]
               \/ \E k \in DOMAIN stamped : Commit(k) /\ Of(k) = d /\ stamped[k].epoch = e
               \/ pcs_unresolved(d)' /\ e = epoch'[d] + 1
    <3>1. \/ e <= epoch[d]
          \/ \E k \in DOMAIN stamped : Commit(k) /\ Of(k) = d /\ stamped[k].epoch = e
          \/ pcs_unresolved(d) /\ e = epoch[d] + 1
      BY DEF IInv, LedgerOK
    <3>2. CASE d = c
      BY <1>2, <1>3, <3>1, <3>2
    <3>3. CASE d # c
      BY <1>3, <3>1, <3>3 DEF pcs_unresolved
    <3> QED BY <3>2, <3>3
  <2>3. ASSUME NEW d \in Conv, own'[d] = "accepted"
        PROVE  /\ epoch'[d] < peer[d]
               /\ \A k \in DOMAIN stamped :
                     Commit(k) /\ Of(k) = d => stamped[k].epoch # epoch'[d] + 1
    <3>1. d # c /\ own[d] = "accepted" /\ epoch'[d] = epoch[d]
      BY <1>3, <2>3
    <3> QED BY <3>1 DEF IInv, LedgerOK
  <2>4. /\ \A k, l \in DOMAIN stamped :
             Commit(k) /\ Commit(l) /\ Of(k) = Of(l) /\ stamped[k].epoch = stamped[l].epoch => k = l
        /\ \A i, k \in DOMAIN stamped : Needs(i, k) /\ k > i => i \in late
    BY DEF IInv, LedgerOK
  <2>5. \A i, k : Needs(i, k)' = Needs(i, k)
    BY <1>1 DEF Needs
  <2> QED BY <1>1, <1>4, <2>1, <2>2, <2>3, <2>4, <2>5 DEF LedgerOK
<1>8. BehindOK'
  <2> SUFFICES ASSUME NEW i \in queue \ late, i <= Resumed.at PROVE Left(i)'
    BY <1>1 DEF BehindOK
  <2>1. Left(i) /\ i \in DOMAIN stamped
    BY DEF IInv, BehindOK, PeersOK
  <2>2. Of(i) \in Conv \cup {Stranger} /\ Reads(i) \in Nat
    BY <1>5, <2>1 DEF Of
  <2>3. CASE Of(i) = Stranger \/ Detained(i) \/ i \in spent \/ i \in refused
    BY <1>1, <1>4, <2>3 DEF Left
  <2>4. CASE Of(i) \in Conv /\ Reads(i) < epoch[Of(i)]
    <3>1. Reads(i) < epoch'[Of(i)]
      BY <1>2, <1>3, <2>2, <2>4
    <3> QED BY <1>4, <3>1 DEF Left
  <2>5. CASE /\ Of(i) \in Conv /\ Reads(i) > epoch[Of(i)] /\ own[Of(i)] # "accepted"
             /\ Of(i) \notin evicted
    <3>1. Of(i) # c
      BY <1>1, <2>5
    <3>2. epoch'[Of(i)] = epoch[Of(i)] /\ own'[Of(i)] = own[Of(i)]
      BY <1>3, <2>5, <3>1
    <3> QED BY <1>1, <1>4, <2>5, <3>2 DEF Left
  <2> QED BY <2>1, <2>2, <2>3, <2>4, <2>5 DEF Left
<1>9. GivenUpIsUseless'
  <2> SUFFICES ASSUME NEW i \in DOMAIN stamped \ queue, stamped[i].conv # Stranger,
                      ~Detained(i), ~Disordered(i), ~Orphaned(i)
               PROVE  IF App(i)' THEN i \in spent' \/ Passed(i)'
                      ELSE stamped'[i].epoch <= epoch'[stamped'[i].conv]
    BY <1>1, <1>4 DEF GivenUpIsUseless
  <2>1. IF App(i) THEN i \in spent \/ Passed(i) ELSE stamped[i].epoch <= epoch[stamped[i].conv]
    BY DEF IInv, GivenUpIsUseless
  <2>2. stamped[i].conv \in Conv /\ stamped[i].epoch \in Nat
    BY <1>5
  <2>3. PICK d \in Conv : d = stamped[i].conv
    BY <2>2
  <2>4. epoch[d] \in Nat /\ epoch'[d] \in Nat /\ epoch[d] <= epoch'[d]
    BY <1>2, <1>3
  <2> QED BY <1>1, <1>4, <2>1, <2>2, <2>3, <2>4 DEF Passed
<1>10. NotOvertaken'
  <2> SUFFICES ASSUME NEW i \in DOMAIN stamped \ late, App(i), Ended(i)'
               PROVE  i \in spent \/ Absent(i) \/ Detained(i) \/ Disordered(i) \/ Orphaned(i)
    BY <1>1, <1>4 DEF NotOvertaken
  <2>1. PICK k \in DOMAIN stamped :
            /\ k > i /\ stamped[k].kind = "commit"
            /\ stamped[k].conv = stamped[i].conv
            /\ stamped[k].epoch = stamped[i].epoch + 1
    BY <1>1 DEF Ended
  <2>2. PICK d \in Conv : d = stamped[i].conv
    BY DEF App
  <2>3. stamped[i].epoch < epoch'[d]
    BY <1>1, <2>2 DEF Ended, Passed
  <2>4. stamped[i].epoch < epoch[d]
    <3>1. CASE d = c
      <4>1. stamped[k].epoch # epoch[c] + 1
        BY <1>2, <2>1, <2>2, <3>1 DEF Commit, Of
      <4>2. stamped[i].epoch \in Nat /\ epoch[c] \in Nat /\ stamped[i].epoch < epoch[c] + 1
        BY <1>2, <1>3, <1>5, <2>3, <3>1
      <4>3. stamped[i].epoch # epoch[c]
        BY <2>1, <4>1
      <4> QED BY <3>1, <4>2, <4>3
    <3>2. CASE d # c
      BY <1>3, <2>3, <3>2
    <3> QED BY <3>1, <3>2
  <2>5. Ended(i)
    BY <2>1, <2>2, <2>4 DEF Ended, Passed
  <2> QED BY <2>5 DEF IInv, NotOvertaken
<1>11. SeatOK'
  <2>1. c \notin evicted
    BY <1>1 DEF IInv, SeatOK, pcs_unresolved
  <2>2. /\ \A d \in evicted : d \in Conv \ {c}
        /\ \A d \in Conv \ {c} : pcs_unresolved(d)' = pcs_unresolved(d)
    BY <1>3, <2>1 DEF IInv, SeatOK, pcs_unresolved
  <2>3. \A d \in evicted : epoch'[d] = epoch[d] /\ ~pcs_unresolved(d)'
    BY <1>3, <2>2 DEF IInv, SeatOK
  <2>4. \A r \in removals : Commit(r) /\ Of(r) \in Conv /\ stamped[r].epoch \in Nat /\ r \in DOMAIN stamped
    BY <1>2, InboxAssumption DEF IInv, SeatOK, Stamped, Commit, Of, InboxAssumption
  <2>5. \A r \in removals : epoch[Of(r)] < stamped[r].epoch => epoch'[Of(r)] < stamped[r].epoch
    <3> SUFFICES ASSUME NEW r \in removals, epoch[Of(r)] < stamped[r].epoch
                 PROVE  epoch'[Of(r)] < stamped[r].epoch
      OBVIOUS
    <3>1. CASE Of(r) = c
      <4>1. stamped[r].epoch # epoch[c] + 1
        BY <1>2, <2>4, <3>1
      <4> QED BY <1>2, <1>3, <2>4, <3>1, <4>1
    <3>2. CASE Of(r) # c
      BY <1>3, <2>4, <3>2
    <3> QED BY <3>1, <3>2
  <2>6. ASSUME NEW d \in Conv, added[d] # 0, request[d] # "used"
        PROVE  /\ added[d] <= peer[d] /\ epoch'[d] < added[d]
               /\ d \in evicted \/ \E r \in removals :
                     Of(r) = d /\ epoch'[d] < stamped[r].epoch /\ stamped[r].epoch < added[d]
    <3>1. /\ added[d] <= peer[d] /\ epoch[d] < added[d] /\ added[d] \in Nat
          /\ d \in evicted \/ \E r \in removals :
                Of(r) = d /\ epoch[d] < stamped[r].epoch /\ stamped[r].epoch < added[d]
      BY <2>6 DEF IInv, SeatOK
    <3>2. CASE d \in evicted
      BY <2>3, <3>1, <3>2
    <3>3. CASE d \notin evicted
      <4>1. PICK r \in removals :
                Of(r) = d /\ epoch[d] < stamped[r].epoch /\ stamped[r].epoch < added[d]
        BY <3>1, <3>3
      <4>2. epoch'[d] < stamped[r].epoch
        BY <2>5, <4>1
      <4>3. epoch'[d] < added[d]
        BY <1>3, <2>4, <3>1, <4>1, <4>2
      <4> QED BY <3>1, <4>1, <4>2, <4>3
    <3> QED BY <3>2, <3>3
  <2>7. /\ \A k : Commit(k)' = Commit(k) /\ Of(k)' = Of(k)
        /\ \A r \in removals :
              added[Of(r)] = 0 => Of(r) \in evicted \/ epoch'[Of(r)] < stamped[r].epoch
    BY <1>4, <2>5 DEF IInv, SeatOK
  <2> QED BY <1>1, <2>3, <2>6, <2>7 DEF IInv, SeatOK
<1> QED BY <1>1, <1>6, <1>7, <1>8, <1>9, <1>10, <1>11 DEF IInv, Idle

\* Without a run, what changes of a request or the cursor's fall back to the head
\* disturbs nothing: a request waits only where the device is out.
LEMMA KeepRequest ==
    ASSUME IInv, NEW c \in Conv, keep_request(c) \/ prune_expired(c)
    PROVE  IInv'
<1>1. /\ run' = Idle /\ request' \in [Conv -> {"none", "kept", "used"}]
      /\ \A d \in Conv \ {c} : request'[d] = request[d]
      /\ c \in evicted /\ added[c] # 0 /\ request[c] # "used"
      /\ request'[c] \in {"kept", "used"}
      /\ UNCHANGED <<stamped, peer, own, removals, added, late, queue, evicted, refused, epoch, rx,
                     spent, cursor, detained>>
      /\ Resumed' = Resumed
  BY DEF keep_request, prune_expired, IInv, SeatOK, peers, disk, Resumed
<1>2. \A i : /\ App(i)' = App(i) /\ Left(i)' = Left(i) /\ Absent(i)' = Absent(i)
             /\ Detained(i)' = Detained(i) /\ Disordered(i)' = Disordered(i)
             /\ Ended(i)' = Ended(i) /\ Passed(i)' = Passed(i)
             /\ Of(i)' = Of(i) /\ Commit(i)' = Commit(i)
  BY <1>1 DEF Of, Commit, App, Left, Detained, Disordered, Needs, Ended, Passed, Reads, Absent, Away
<1>3. \A i \in DOMAIN stamped : Orphaned(i) => Orphaned(i)'
  <2> SUFFICES ASSUME NEW i \in DOMAIN stamped, NEW k \in refused,
                      request[stamped[i].conv] = "used", Needs(i, k)
               PROVE  Orphaned(i)'
    BY <1>1 DEF Orphaned
  <2>1. stamped[i].conv \in Conv
    <3>1. k \in DOMAIN stamped /\ Commit(k) /\ stamped[k].conv = stamped[i].conv
      BY DEF IInv, SeatOK, Needs
    <3> QED BY <3>1, InboxAssumption DEF IInv, PeersOK, Stamped, Commit, InboxAssumption
  <2>2. request'[stamped[i].conv] = "used"
    BY <1>1, <2>1
  <2>3. Needs(i, k)'
    BY <1>1 DEF Needs
  <2> QED BY <1>1, <2>2, <2>3 DEF Orphaned
<1>4. PeersOK'
  BY <1>1 DEF IInv, PeersOK, Stamped, App
<1>5. LedgerOK'
  BY <1>1 DEF IInv, LedgerOK, Commit, Of, pcs_unresolved, Needs
<1>6. BehindOK'
  BY <1>1, <1>2 DEF IInv, BehindOK
<1>7. GivenUpIsUseless' /\ NotOvertaken'
  BY <1>1, <1>2, <1>3 DEF IInv, GivenUpIsUseless, NotOvertaken
<1>8. SeatOK'
  <2>1. \A d \in Conv : request'[d] # "used" => request[d] # "used"
    BY <1>1
  <2>2. \A d \in Conv : request[d] = "used" => request'[d] = "used"
    BY <1>1
  <2>3. \A d \in Conv : request'[d] = "kept" => d \in evicted /\ added[d] # 0
    BY <1>1 DEF IInv, SeatOK
  <2>4. \A k \in refused : Of(k) \in Conv
    BY InboxAssumption DEF IInv, SeatOK, PeersOK, Stamped, Commit, Of, InboxAssumption
  <2>5. \A k \in refused : Of(k) \in evicted \/ request'[Of(k)] = "used"
    BY <2>2, <2>4 DEF IInv, SeatOK
  <2>6. \A d : pcs_unresolved(d)' = pcs_unresolved(d)
    BY <1>1 DEF pcs_unresolved
  <2> QED BY <1>1, <1>2, <2>1, <2>3, <2>5, <2>6 DEF IInv, SeatOK
<1> QED BY <1>1, <1>4, <1>5, <1>6, <1>7, <1>8 DEF IInv, Idle

\* The device joins in the epoch of its re-add.  What it refused up to there is past,
\* and the messages between its removal and that epoch were never for it.
LEMMA Accept ==
    ASSUME IInv, NEW c \in Conv, accept(c)
    PROVE  IInv'
<1>1. /\ run' = Idle /\ request[c] = "kept"
      /\ request' = [request EXCEPT ![c] = "used"] /\ evicted' = evicted \ {c}
      /\ epoch' = [epoch EXCEPT ![c] = added[c]]
      /\ \A k : k \in refused' <=> k \in refused /\ ~Needless(k, c, added[c])
      /\ UNCHANGED <<stamped, peer, own, removals, added, late, queue, rx, spent, cursor, detained>>
      /\ Resumed' = Resumed
  BY DEF accept, peers, Resumed
<1>2. /\ epoch \in [Conv -> Nat] /\ added \in [Conv -> Nat] /\ peer \in [Conv -> Nat]
      /\ request \in [Conv -> {"none", "kept", "used"}] /\ evicted \subseteq Conv
      /\ c \in evicted /\ added[c] # 0 /\ ~pcs_unresolved(c)
      /\ added[c] <= peer[c] /\ epoch[c] < added[c]
      /\ \A i \in DOMAIN stamped : Stamped(i, stamped[i])
      /\ \A d \in Conv : epoch[d] <= peer[d]
  BY <1>1 DEF IInv, PeersOK, SeatOK, LedgerOK
<1>3. /\ epoch' \in [Conv -> Nat] /\ epoch'[c] = added[c]
      /\ \A d \in Conv \ {c} : epoch'[d] = epoch[d] /\ request'[d] = request[d]
      /\ \A d \in Conv : epoch[d] <= epoch'[d] /\ epoch'[d] <= peer[d]
      /\ request'[c] = "used" /\ request' \in [Conv -> {"none", "kept", "used"}]
  BY <1>1, <1>2
<1>4. \A i : /\ Of(i)' = Of(i) /\ Commit(i)' = Commit(i) /\ App(i)' = App(i)
             /\ Detained(i)' = Detained(i) /\ Disordered(i)' = Disordered(i)
             /\ Reads(i)' = Reads(i) /\ Absent(i)' = Absent(i)
             /\ pcs_unresolved(i)' = pcs_unresolved(i)
  BY <1>1 DEF Of, Commit, App, Detained, Disordered, Needs, Reads, Absent, Away, pcs_unresolved
<1>5. \A i \in DOMAIN stamped :
         /\ stamped[i].epoch \in Nat /\ Of(i) \in Conv \cup {Stranger}
         /\ Commit(i) => Of(i) \in Conv /\ stamped[i].epoch > 0
         /\ Reads(i) \in Nat
  BY <1>2, InboxAssumption DEF Stamped, Reads, Commit, Of, InboxAssumption
<1>6. \A k \in refused : k \in DOMAIN stamped /\ Commit(k)
  BY DEF IInv, SeatOK
<1>7. PeersOK'
  <2>1. \A i \in DOMAIN stamped : Stamped(i, stamped[i])'
    BY <1>1, <1>2 DEF Stamped
  <2>2. {i \in DOMAIN stamped : App(i)}' = {i \in DOMAIN stamped : App(i)}
    BY <1>1 DEF App
  <2> QED BY <1>1, <1>3, <2>1, <2>2 DEF IInv, PeersOK
<1>8. LedgerOK'
  <2>1. ASSUME NEW d \in Conv, NEW e \in 1..peer[d]
        PROVE  \/ e <= epoch'[d]
               \/ \E k \in DOMAIN stamped : Commit(k) /\ Of(k) = d /\ stamped[k].epoch = e
               \/ pcs_unresolved(d) /\ e = epoch'[d] + 1
    <3>1. \/ e <= epoch[d]
          \/ \E k \in DOMAIN stamped : Commit(k) /\ Of(k) = d /\ stamped[k].epoch = e
          \/ pcs_unresolved(d) /\ e = epoch[d] + 1
      BY DEF IInv, LedgerOK
    <3>2. e \in Nat /\ epoch[d] \in Nat /\ epoch'[d] \in Nat /\ epoch[d] <= epoch'[d]
      BY <1>2, <1>3
    <3>3. CASE d = c
      BY <1>2, <3>1, <3>2, <3>3
    <3>4. CASE d # c
      BY <1>3, <3>1, <3>4
    <3> QED BY <3>3, <3>4
  <2>2. \A d \in Conv : own[d] = "accepted" =>
          /\ epoch'[d] < peer[d]
          /\ \A k \in DOMAIN stamped :
                Commit(k) /\ Of(k) = d => stamped[k].epoch # epoch'[d] + 1
    BY <1>2, <1>3 DEF IInv, LedgerOK, pcs_unresolved
  <2>3. /\ \A k, l \in DOMAIN stamped :
             Commit(k) /\ Commit(l) /\ Of(k) = Of(l) /\ stamped[k].epoch = stamped[l].epoch => k = l
        /\ \A i, k \in DOMAIN stamped : Needs(i, k) /\ k > i => i \in late
    BY DEF IInv, LedgerOK
  <2>4. \A i, k : Needs(i, k)' = Needs(i, k)
    BY <1>1 DEF Needs
  <2> QED BY <1>1, <1>3, <1>4, <2>1, <2>2, <2>3, <2>4 DEF LedgerOK
<1>9. SeatOK'
  <2>1. ASSUME NEW d \in evicted'
        PROVE  ~pcs_unresolved(d) /\ \E r \in removals : Of(r) = d /\ stamped[r].epoch = epoch'[d]
    <3>1. d \in evicted /\ d \in Conv \ {c}
      BY <1>1, <1>2, <2>1
    <3>2. ~pcs_unresolved(d) /\ \E r \in removals : Of(r) = d /\ stamped[r].epoch = epoch[d]
      BY <3>1 DEF IInv, SeatOK
    <3> QED BY <1>3, <3>1, <3>2
  <2>2. ASSUME NEW r \in removals, added[Of(r)] = 0
        PROVE  Of(r) \in evicted' \/ epoch'[Of(r)] < stamped[r].epoch
    <3>1. Of(r) \in Conv \ {c}
      BY <1>2, <1>5, <2>2 DEF IInv, SeatOK
    <3>2. Of(r) \in evicted \/ epoch[Of(r)] < stamped[r].epoch
      BY <2>2 DEF IInv, SeatOK
    <3> QED BY <1>1, <1>3, <3>1, <3>2
  <2>3. ASSUME NEW d \in Conv, added[d] # 0, request'[d] # "used"
        PROVE  /\ added[d] <= peer[d] /\ epoch'[d] < added[d]
               /\ d \in evicted' \/ \E r \in removals :
                     Of(r) = d /\ epoch'[d] < stamped[r].epoch /\ stamped[r].epoch < added[d]
    <3>1. d \in Conv \ {c} /\ request[d] # "used" /\ epoch'[d] = epoch[d]
      BY <1>3, <2>3
    <3>2. /\ added[d] <= peer[d] /\ epoch[d] < added[d]
          /\ d \in evicted \/ \E r \in removals :
                Of(r) = d /\ epoch[d] < stamped[r].epoch /\ stamped[r].epoch < added[d]
      BY <2>3, <3>1 DEF IInv, SeatOK
    <3> QED BY <1>1, <3>1, <3>2
  <2>4. \A d \in Conv : request'[d] = "kept" => d \in evicted' /\ added[d] # 0
    BY <1>1, <1>3 DEF IInv, SeatOK
  <2>5. ASSUME NEW k \in refused'
        PROVE  Of(k) \in evicted' \/ request'[Of(k)] = "used"
    <3>1. k \in refused /\ Of(k) \in Conv /\ (Of(k) \in evicted \/ request[Of(k)] = "used")
      BY <1>1, <1>5, <1>6, <2>5 DEF IInv, SeatOK
    <3> QED BY <1>1, <1>3, <3>1
  <2>6. removals \subseteq {k \in DOMAIN stamped : Commit(k)}
        /\ refused' \subseteq {k \in DOMAIN stamped : Commit(k)}
    BY <1>1, <1>6 DEF IInv, SeatOK
  <2>7. {k \in DOMAIN stamped : Commit(k)}' = {k \in DOMAIN stamped : Commit(k)}
    BY <1>1 DEF Commit
  <2>8. evicted' \subseteq Conv
    BY <1>1, <1>2
  <2> QED BY <1>1, <1>2, <1>3, <1>4, <2>1, <2>2, <2>3, <2>4, <2>5, <2>6, <2>7, <2>8 DEF SeatOK
<1>10. \A k \in refused : k \notin refused' => Of(k) = c /\ stamped[k].epoch <= added[c]
  BY <1>1 DEF Needless, Of
<1>11. BehindOK'
  <2> SUFFICES ASSUME NEW i \in queue \ late, i <= Resumed.at PROVE Left(i)'
    BY <1>1 DEF BehindOK
  <2>1. Left(i) /\ i \in DOMAIN stamped
    BY DEF IInv, BehindOK, PeersOK
  <2>2. CASE Of(i) = Stranger \/ Detained(i) \/ i \in spent
    BY <1>1, <1>4, <2>2 DEF Left
  <2>3. CASE i \in refused
    <3>1. CASE i \in refused'
      BY <3>1 DEF Left
    <3>2. CASE i \notin refused'
      <4>1. Of(i) = c /\ stamped[i].epoch <= added[c] /\ Commit(i) /\ stamped[i].epoch \in Nat
        BY <1>5, <1>6, <1>10, <2>1, <2>3, <3>2
      <4>2. Reads(i) < epoch'[Of(i)]
        BY <1>2, <1>3, <4>1 DEF Reads
      <4> QED BY <1>4, <4>2 DEF Left
    <3> QED BY <3>1, <3>2
  <2>4. CASE Of(i) \in Conv /\ Reads(i) < epoch[Of(i)]
    <3>1. Reads(i) < epoch'[Of(i)]
      BY <1>2, <1>3, <1>5, <2>1, <2>4
    <3> QED BY <1>4, <3>1 DEF Left
  <2>5. CASE /\ Of(i) \in Conv /\ Reads(i) > epoch[Of(i)] /\ own[Of(i)] # "accepted"
             /\ Of(i) \notin evicted
    <3>1. epoch'[Of(i)] = epoch[Of(i)] /\ Of(i) \notin evicted'
      BY <1>1, <1>2, <1>3, <2>5
    <3> QED BY <1>1, <1>4, <2>5, <3>1 DEF Left
  <2> QED BY <1>5, <2>1, <2>2, <2>3, <2>4, <2>5 DEF Left
<1>12. \A i \in DOMAIN stamped :
          request[stamped[i].conv] = "used" /\ (\E k \in refused : Needs(i, k)) => Orphaned(i)'
  <2> SUFFICES ASSUME NEW i \in DOMAIN stamped, request[stamped[i].conv] = "used",
                      NEW k \in refused, Needs(i, k)
               PROVE  Orphaned(i)'
    OBVIOUS
  <2>1. Of(k) = stamped[i].conv /\ Of(k) \in Conv /\ Of(k) # c
    BY <1>1, <1>5, <1>6 DEF Needs, Of
  <2>2. k \in refused' /\ request'[stamped'[i].conv] = "used"
    BY <1>1, <1>3, <1>10, <2>1
  <2>3. Needs(i, k)'
    BY <1>1 DEF Needs
  <2> QED BY <2>2, <2>3 DEF Orphaned
<1>13. GivenUpIsUseless'
  <2> SUFFICES ASSUME NEW i \in DOMAIN stamped \ queue, stamped[i].conv # Stranger,
                      ~Detained(i), ~Disordered(i), ~Orphaned(i)'
               PROVE  IF App(i)' THEN i \in spent' \/ Passed(i)'
                      ELSE stamped'[i].epoch <= epoch'[stamped'[i].conv]
    BY <1>1, <1>4 DEF GivenUpIsUseless
  <2>1. stamped[i].conv \in Conv /\ stamped[i].epoch \in Nat
    BY <1>5 DEF Of
  <2>2. PICK d \in Conv : d = stamped[i].conv
    BY <2>1
  <2>3. epoch[d] \in Nat /\ epoch'[d] \in Nat /\ epoch[d] <= epoch'[d]
    BY <1>2, <1>3
  <2>4. CASE i \in refused
    <3>1. i \notin refused'
      BY DEF Orphaned
    <3>2. Of(i) = c /\ stamped[i].epoch <= added[c] /\ ~App(i)
      BY <1>6, <1>10, <2>4, <3>1 DEF Commit, App
    <3> QED BY <1>1, <1>3, <1>4, <3>2 DEF Of
  <2>5. CASE i \notin refused
    <3>1. ~Orphaned(i)
      BY <1>12, <2>5 DEF Orphaned
    <3>2. IF App(i) THEN i \in spent \/ Passed(i) ELSE stamped[i].epoch <= epoch[stamped[i].conv]
      BY <3>1 DEF IInv, GivenUpIsUseless
    <3> QED BY <1>1, <1>4, <2>1, <2>2, <2>3, <3>2 DEF Passed
  <2> QED BY <2>4, <2>5
<1>14. NotOvertaken'
  <2> SUFFICES ASSUME NEW i \in DOMAIN stamped \ late, App(i), Ended(i)'
               PROVE  i \in spent \/ Absent(i) \/ Detained(i) \/ Disordered(i) \/ Orphaned(i)'
    BY <1>1, <1>4 DEF NotOvertaken
  <2>1. PICK d \in Conv : d = stamped[i].conv
    BY DEF App
  <2>2. stamped[i].epoch < epoch'[d] /\ stamped[i].epoch \in Nat
    BY <1>1, <1>5, <2>1 DEF Ended, Passed
  <2>3. CASE Passed(i)
    <3>1. Ended(i)
      BY <1>1, <2>3 DEF Ended
    <3>2. i \in spent \/ Absent(i) \/ Detained(i) \/ Disordered(i) \/ Orphaned(i)
      BY <3>1 DEF IInv, NotOvertaken
    <3>3. i \notin refused
      BY <1>6 DEF Commit, App
    <3> QED BY <1>12, <3>2, <3>3 DEF Orphaned
  <2>4. CASE ~Passed(i)
    <3>1. ~(stamped[i].epoch < epoch[d])
      BY <2>1, <2>4 DEF Passed
    <3>2. d = c /\ epoch[c] <= stamped[i].epoch /\ stamped[i].epoch < added[c]
      BY <1>2, <1>3, <2>2, <3>1
    <3>3. PICK r \in removals : Of(r) = c /\ stamped[r].epoch = epoch[c]
      BY <1>2 DEF IInv, SeatOK
    <3>4. Absent(i)
      BY <2>1, <3>2, <3>3 DEF Absent, Away, Of
    <3> QED BY <3>4
  <2> QED BY <2>3, <2>4
<1> QED BY <1>1, <1>7, <1>8, <1>9, <1>11, <1>13, <1>14 DEF IInv, Idle

LEMMA FetchFails ==
    ASSUME IInv, fetch_fails
    PROVE  IInv'
<1>1. /\ UNCHANGED <<stamped, peer, own, removals, added, late, queue, evicted, request, refused,
                     epoch, rx, spent, detained>>
      /\ UNCHANGED <<peers, seat, epoch>> /\ run' = Idle /\ cursor' = Head0
  BY DEF fetch_fails, peers, seat
<1>2. \A i : /\ App(i)' = App(i) /\ Absent(i)' = Absent(i)
             /\ Detained(i)' = Detained(i) /\ Disordered(i)' = Disordered(i)
             /\ Ended(i)' = Ended(i) /\ Passed(i)' = Passed(i) /\ Orphaned(i)' = Orphaned(i)
  BY <1>1 DEF App, Detained, Disordered, Needs, Ended, Passed, Absent, Away, Orphaned
<1>3. cursor' = [at |-> cursor'.at, hops |-> cursor'.hops] /\ cursor'.at = 0 /\ Resumed'.at = 0
  BY <1>1 DEF Head0, Resumed
<1>4. PeersOK'
  BY <1>1, <1>3 DEF IInv, PeersOK, Stamped, App
<1>5. LedgerOK'
  BY <1>1 DEF IInv, LedgerOK, Commit, Of, pcs_unresolved, Needs
<1>6. BehindOK'
  <2>1. \A i \in queue : i \in Nat /\ i # 0
    BY StampsAreNat DEF IInv, PeersOK
  <2>2. \A i \in queue' : ~(i <= Resumed'.at)
    BY <1>1, <1>3, <2>1
  <2> QED BY <2>2 DEF BehindOK
<1>7. GivenUpIsUseless' /\ NotOvertaken'
  BY <1>1, <1>2 DEF IInv, GivenUpIsUseless, NotOvertaken
<1>8. SeatOK'
  BY <1>1, SeatKept DEF IInv
<1> QED BY <1>1, <1>4, <1>5, <1>6, <1>7, <1>8 DEF IInv, Idle

LEMMA Tick ==
    ASSUME IInv, tick
    PROVE  IInv'
<1>1. UNCHANGED <<peers, queue, seat, epoch, rx, spent, cursor, detained>> /\ run' = Idle
  BY DEF tick
<1>2. PeersOK' /\ LedgerOK' /\ SeatOK' /\ BehindOK' /\ GivenUpIsUseless' /\ NotOvertaken'
  BY <1>1, ElsewhereKept DEF IInv
<1> QED BY <1>1, <1>2 DEF IInv, Idle

LEMMA Discard ==
    ASSUME IInv, NEW id, discard(id)
    PROVE  IInv'
<1>1. /\ stamped' = stamped /\ peer' = peer /\ own' = own /\ late' = late /\ queue' = queue
      /\ epoch' = epoch /\ spent' = spent /\ cursor' = cursor /\ detained' = detained
      /\ rx' \subseteq rx /\ run' = Idle
      /\ UNCHANGED <<removals, added, evicted, request, refused>>
      /\ UNCHANGED <<peers, seat, epoch>>
  BY DEF discard, peers, seat
<1>2. \A i : /\ App(i)' = App(i)
             /\ Left(i)' = Left(i) /\ Detained(i)' = Detained(i) /\ Disordered(i)' = Disordered(i)
             /\ Ended(i)' = Ended(i) /\ Passed(i)' = Passed(i)
             /\ Orphaned(i)' = Orphaned(i) /\ Absent(i)' = Absent(i)
  BY <1>1 DEF Of, Commit, App, Left, Detained, Disordered, Needs, Ended, Passed, Reads,
              Orphaned, Absent, Away
<1>3. PeersOK' /\ Resumed' = Resumed
  BY <1>1 DEF IInv, PeersOK, Stamped, App, Resumed
<1>4. LedgerOK'
  BY <1>1 DEF IInv, LedgerOK, Commit, Of, pcs_unresolved, Needs
<1>5. BehindOK'
  BY <1>1, <1>2, <1>3 DEF IInv, BehindOK
<1>6. GivenUpIsUseless' /\ NotOvertaken'
  BY <1>1, <1>2 DEF IInv, GivenUpIsUseless, NotOvertaken
<1>7. SeatOK'
  BY <1>1, SeatKept DEF IInv
<1> QED BY <1>1, <1>3, <1>4, <1>5, <1>6, <1>7 DEF IInv, Idle

-----------------------------------------------------------------------------
(* The theorems. *)

LEMMA InitIInv == Init => IInv
<1> SUFFICES ASSUME Init PROVE IInv
  OBVIOUS
<1>1. /\ DOMAIN stamped = {} /\ queue = {} /\ rx = {} /\ spent = {} /\ late = {} /\ detained = {}
      /\ peer = [c \in Conv |-> 0] /\ epoch = [c \in Conv |-> 0] /\ own = [c \in Conv |-> "none"]
      /\ cursor = Head0 /\ run = Idle
      /\ removals = {} /\ evicted = {} /\ refused = {} /\ added = [c \in Conv |-> 0]
      /\ request = [c \in Conv |-> "none"]
  BY DEF Init
<1>2. PeersOK
  BY <1>1 DEF PeersOK, Head0
<1>3. LedgerOK
  BY <1>1 DEF LedgerOK
<1>4. SeatOK
  BY <1>1 DEF SeatOK
<1> QED BY <1>1, <1>2, <1>3, <1>4 DEF IInv, BehindOK, GivenUpIsUseless, NotOvertaken

LEMMA GoodIInv ==
    /\ Good => IInv
    /\ IInv /\ run # Idle => Good
BY DEF Good, IInv, Running

LEMMA StutterIInv ==
    ASSUME IInv, UNCHANGED vars
    PROVE  IInv'
<1>1. /\ UNCHANGED <<peers, queue, seat, epoch, rx, spent, cursor, detained>> /\ run' = run
  BY DEF vars, disk
<1>2. /\ PeersOK' /\ LedgerOK' /\ SeatOK' /\ BehindOK' /\ GivenUpIsUseless' /\ NotOvertaken'
      /\ stamped' = stamped /\ queue' = queue /\ late' = late /\ Resumed' = Resumed
      /\ StoreFull' = StoreFull /\ evicted' = evicted
      /\ \A id : Of(id)' = Of(id) /\ Commit(id)' = Commit(id) /\ App(id)' = App(id)
      /\ \A id : Left(id)' = Left(id)
  BY <1>1, ElsewhereKept DEF IInv
<1>3. ASSUME run # Idle PROVE RunOK' /\ OrderOK' /\ HandledOK'
  <2>1. \A id : Handled(id)' = Handled(id)
    BY <1>1, <1>2 DEF Handled
  <2>2. RunOK'
    BY <1>1, <1>2, <1>3 DEF IInv, RunOK, Shape
  <2>3. OrderOK'
    BY <1>1, <1>2, <1>3, <2>1 DEF IInv, OrderOK
  <2>4. HandledOK'
    BY <1>1, <1>2, <1>3, <2>1 DEF IInv, HandledOK
  <2> QED BY <2>2, <2>3, <2>4
<1> QED BY <1>1, <1>2, <1>3 DEF IInv, Idle

LEMMA WorkIInv ==
    ASSUME IInv, Work
    PROVE  IInv'
<1>1. CASE fetch
  BY <1>1, Fetch DEF Good, IInv, Running
<1>2. CASE ~fetch
  <2>1. run # Idle
    BY <1>2 DEF Work, break, commit_blocked, commit_applied, commit_unresolved, commit_ahead,
         commit_refused, app_unknown, app_capped, app_skipped, app_stored, app_ahead,
         app_undecryptable, finish, Mine, Turn
  <2>2. Good
    BY <2>1, GoodIInv
  <2>3. Good' \/ IInv'
    BY <1>2, <2>2, Break, CommitBlocked, CommitApplied, CommitUnresolved, CommitAhead,
       CommitRefused, AppUnknown, AppCapped, AppSkipped, AppStored, AppAhead,
       AppUndecryptable, Finish DEF Work
  <2> QED BY <2>3 DEF Good, IInv, Running
<1> QED BY <1>1, <1>2

LEMMA NextIInv == IInv /\ [Next]_vars => IInv'
<1> SUFFICES ASSUME IInv, [Next]_vars PROVE IInv'
  OBVIOUS
<1>1. CASE \E id \in 1..MaxEnvelopes :
              \/ \E c \in Conv : \/ peer_sends(c, id) \/ peer_commits(c, id)
                               \/ peer_removes(c, id) \/ peer_adds(c, id)
              \/ stranger_sends(id)
  BY <1>1, PeerSends, PeerCommits, StrangerSends
<1>2. CASE \E c \in Conv : \/ leave_own(c) \/ resume_own(c)
                           \/ keep_request(c) \/ accept(c) \/ prune_expired(c)
  BY <1>2, LeaveOwn, ResumeOwn, KeepRequest, Accept
<1>3. CASE tick
  BY <1>3, Tick
<1>4. CASE Work
  BY <1>4, WorkIInv
<1>5. CASE die
  <2>1. Good
    BY <1>5, GoodIInv DEF die
  <2> QED BY <1>5, <2>1, Die
<1>6. CASE (\E id \in rx : discard(id)) \/ fetch_fails
  BY <1>6, Discard, FetchFails
<1>7. CASE UNCHANGED vars
  BY <1>7, StutterIInv
<1> QED BY <1>1, <1>2, <1>3, <1>4, <1>5, <1>6, <1>7 DEF Next

\* A Commit never overtakes a message that came before it: whatever the caps, the
\* size of a page, the store's bound and the grace, and however many
\* conversations share the run and runs die, what the Commit's epoch change makes
\* unreadable was read, waited for a Commit of our own, was out of order or builds on
\* a Commit refused during an eviction.  So also when the Commit removes the device,
\* and when joining again moves the epoch, past messages that were not for it.
THEOREM NoneOvertaken == Spec => []NotOvertaken
<1>1. IInv => NotOvertaken
  BY DEF IInv
<1> QED BY <1>1, InitIInv, NextIInv, PTL DEF Spec

\* Only what is of no use is acked unread: the grace and the failure count of the
\* junk tracker never cost an envelope in order that an epoch yet to come, or the
\* present one, could read (the proof uses neither), but for the Commits refused
\* during an eviction and what builds on them once the device has joined again.
THEOREM OnlyUselessGivenUp == Spec => []GivenUpIsUseless
<1>1. IInv => GivenUpIsUseless
  BY DEF IInv
<1> QED BY <1>1, InitIInv, NextIInv, PTL DEF Spec

=============================================================================
