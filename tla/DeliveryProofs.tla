--------------------------- MODULE DeliveryProofs ---------------------------
(***************************************************************************)
(* What holds of Delivery, and of the pollers over it, for every set of    *)
(* devices, every number of requests in flight and of envelopes, and every *)
(* page size; and of RegionForward, which brings another region's Commits  *)
(* to the ledger, for every number of tasks, calls, retries and failures.  *)
(***************************************************************************)
EXTENDS Poller, RegionForward, FiniteSetTheorems, WellFoundedInduction, TLAPS

-----------------------------------------------------------------------------
\* A worker is free exactly when its frame says so.
LEMMA FreeOrFrame ==
    ASSUME TypeOK, NEW w \in Worker
    PROVE  /\ req[w] = Free \/ req[w] \in Frame
           /\ req[w] = Free <=> req[w].pc = "free"
           /\ req[w].pc # "free" => req[w] \in Frame
  BY DEF TypeOK, Free, Frame

\* The frame a request starts with is a frame.
LEMMA StartType ==
    ASSUME TypeOK, NEW w \in Worker, NEW d \in Device, NEW e \in Envelope,
           NEW x \in Nat, NEW pc \in {"save", "cas", "snapshot", "delete"},
           Start(w, pc, d, e, x)
    PROVE  /\ req' \in [Worker -> {Free} \cup Frame]
           /\ req'[w] \in Frame
           /\ req'[w].pc = pc /\ req'[w].dev = d /\ req'[w].env = e
           /\ req'[w].expected = x
           /\ \A v \in Worker \ {w} : req'[v] = req[v]
  <1> DEFINE f == [pc |-> pc, dev |-> d, env |-> e, expected |-> x, need |-> {}]
  <1>1. f \in Frame /\ f.pc = pc /\ f.dev = d /\ f.env = e /\ f.expected = x
    BY DEF Frame
  <1>2. req' = [req EXCEPT ![w] = f]
    BY DEF Start
  <1> HIDE DEF f
  <1> QED BY <1>1, <1>2 DEF TypeOK

\* A fresh envelope is an envelope.
LEMMA NewEnvelopeType ==
    ASSUME NEW id \in 1..MaxEnvelopes, NEW d \in Device,
           NEW to \in Device \cup {NoDevice}, NEW k \in Kind
    PROVE  /\ NewEnvelope(id, d, to, k) \in Envelope
           /\ NewEnvelope(id, d, to, k).id = id
           /\ NewEnvelope(id, d, to, k).kind = k
           /\ NewEnvelope(id, d, to, k).recipient = to
  BY DeliveryAssumption DEF NewEnvelope, Envelope

\* A stamp keeps the types, and what was in order.
LEMMA StampType ==
    ASSUME TypeOK, NEW id \in 1..MaxEnvelopes, Stamp(id)
    PROVE  /\ stamped' = stamped \cup {id} /\ id \notin stamped
           /\ stamped' \subseteq Nat /\ skewed \subseteq skewed'
           /\ skewed' \subseteq Nat \X Nat
           /\ \A j \in stamped : j < id \/ <<id, j>> \in skewed'
  BY DeliveryAssumption DEF TypeOK, Stamp

\* Finishing frees the worker and touches no other.
LEMMA FinishType ==
    ASSUME TypeOK, NEW w \in Worker, Finish(w)
    PROVE  /\ req' \in [Worker -> {Free} \cup Frame]
           /\ req'[w] = Free /\ req'[w].pc = "free"
           /\ \A v \in Worker \ {w} : req'[v] = req[v]
  BY DEF TypeOK, Finish, Free

\* Moving a frame on keeps everything but its pc.
LEMMA MoveType ==
    ASSUME TypeOK, NEW w \in Worker, req[w].pc # "free",
           NEW pc \in {"insert", "sweep", "commit"},
           req' = [req EXCEPT ![w].pc = pc]
    PROVE  /\ req' \in [Worker -> {Free} \cup Frame]
           /\ req'[w] \in Frame
           /\ req'[w].pc = pc /\ req'[w].dev = req[w].dev /\ req'[w].env = req[w].env
           /\ req'[w].expected = req[w].expected /\ req'[w].need = req[w].need
           /\ \A v \in Worker \ {w} : req'[v] = req[v]
  <1>1. req[w] \in Frame
    BY FreeOrFrame
  <1>2. [req[w] EXCEPT !.pc = pc] \in Frame
    BY <1>1 DEF Frame
  <1> QED BY <1>1, <1>2 DEF TypeOK, Frame

\* Recipients are devices.
LEMMA RecipientsType ==
    ASSUME TypeOK, NEW e \in Envelope
    PROVE  Recipients(e) \subseteq Device
  BY DEF TypeOK, Recipients, Envelope

-----------------------------------------------------------------------------
\* Every step keeps every variable's type.
LEMMA TypeStep == TypeOK /\ [Next]_vars => TypeOK'
<1> SUFFICES ASSUME TypeOK, [Next]_vars PROVE TypeOK'
  OBVIOUS
<1>a. epoch \in Nat /\ epoch + 1 \in Nat
  BY DEF TypeOK
<1>1. ASSUME NEW w \in Worker, NEW d \in Device, send_message(w, d) PROVE TypeOK'
  <2>0. PICK id \in 1..MaxEnvelopes :
           Stamp(id) /\ Start(w, "save", d, NewEnvelope(id, d, NoDevice, "application"), 0)
    BY <1>1 DEF send_message
  <2>1. NewEnvelope(id, d, NoDevice, "application") \in Envelope
    BY NewEnvelopeType DEF Kind
  <2>2. req' \in [Worker -> {Free} \cup Frame]
    BY <2>0, <2>1, StartType
  <2> QED BY <1>1, <1>a, <2>0, <2>2, StampType DEF send_message, TypeOK
<1>2. ASSUME NEW w \in Worker, NEW d \in Device, NEW target \in Device,
             send_welcome(w, d, target)
      PROVE  TypeOK'
  <2>0. PICK id \in 1..MaxEnvelopes :
           Stamp(id) /\ Start(w, "save", d, NewEnvelope(id, d, target, "welcome"), 0)
    BY <1>2 DEF send_welcome
  <2>1. NewEnvelope(id, d, target, "welcome") \in Envelope
    BY NewEnvelopeType DEF Kind
  <2>2. req' \in [Worker -> {Free} \cup Frame]
    BY <2>0, <2>1, StartType
  <2> QED BY <1>2, <1>a, <2>0, <2>2, StampType DEF send_welcome, TypeOK
<1>3. ASSUME NEW w \in Worker, NEW d \in Device, NEW expected \in 0..epoch,
             send_commit(w, d, expected)
      PROVE  TypeOK'
  <2>0. PICK id \in 1..MaxEnvelopes :
           Stamp(id) /\ Start(w, "cas", d, NewEnvelope(id, d, NoDevice, "commit"), expected)
    BY <1>3 DEF send_commit
  <2>1. NewEnvelope(id, d, NoDevice, "commit") \in Envelope
    BY NewEnvelopeType DEF Kind
  <2>2. req' \in [Worker -> {Free} \cup Frame]
    BY <1>a, <2>0, <2>1, StartType
  <2> QED BY <1>3, <1>a, <2>0, <2>2, StampType DEF send_commit, TypeOK
<1>4. ASSUME NEW w \in Worker, NEW d \in Device, NEW e \in envs, ack_envelope(w, d, e)
      PROVE  TypeOK'
  <2>1. e \in Envelope
    BY DEF TypeOK
  <2>2. req' \in [Worker -> {Free} \cup Frame]
    BY <1>4, <2>1, StartType DEF ack_envelope
  <2> QED BY <1>4, <2>2 DEF ack_envelope, TypeOK, historyVars
<1>5. ASSUME NEW w \in Worker, save(w) PROVE TypeOK'
  <2>1. req[w] \in Frame
    BY <1>5, FreeOrFrame DEF save
  <2>2. req[w].env \in Envelope /\ req[w].env.id \in Nat
    BY <2>1 DEF Frame, Envelope
  <2>3. req' \in [Worker -> {Free} \cup Frame]
    BY <1>5, FinishType DEF save
  <2>4. {req[w].env.id} \X Recipients(req[w].env) \subseteq Nat \X Device
    BY <2>2, RecipientsType
  <2> QED BY <1>5, <2>2, <2>3, <2>4 DEF save, TypeOK
<1>6. ASSUME NEW w \in Worker, cas_won(w) PROVE TypeOK'
  <2>1. req' \in [Worker -> {Free} \cup Frame]
    BY <1>6, MoveType DEF cas_won
  <2> QED BY <1>6, <2>1 DEF cas_won, TypeOK, historyVars
<1>7. ASSUME NEW w \in Worker, cas_lost(w) PROVE TypeOK'
  BY <1>7, FinishType DEF cas_lost, TypeOK, historyVars
<1>8. ASSUME NEW w \in Worker, insert_commit(w) PROVE TypeOK'
  <2> DEFINE e == [req[w].env EXCEPT !.epoch = epoch + 1]
  <2>1. req[w] \in Frame
    BY <1>8, FreeOrFrame DEF insert_commit
  <2>2. e \in Envelope /\ e.id \in Nat /\ req[w].expected \in Nat /\ req[w].env.id \in Nat
    BY <2>1, <1>a DEF Frame, Envelope
  <2>3. req' \in [Worker -> {Free} \cup Frame]
    BY <1>8, FinishType DEF insert_commit
  <2>4. {e.id} \X Recipients(e) \subseteq Nat \X Device
    BY <2>2, RecipientsType
  <2>5. /\ envs' = envs \cup {e} /\ owed' = owed \cup ({e.id} \X Recipients(e))
        /\ log' = Append(log, [id |-> req[w].env.id, expected |-> req[w].expected])
    BY <1>8 DEF insert_commit
  <2> HIDE DEF e
  <2>6. log' \in Seq([id : Nat, expected : Nat])
    BY <2>2, <2>5 DEF TypeOK
  <2> QED BY <1>8, <1>a, <2>2, <2>3, <2>4, <2>5, <2>6 DEF insert_commit, TypeOK
<1>9. ASSUME NEW w \in Worker, list_members(w) PROVE TypeOK'
  <2>1. req[w] \in Frame
    BY <1>9, FreeOrFrame DEF list_members
  <2>2. Required(w) \in SUBSET Device
    BY DEF Required, TypeOK
  <2>3. [req[w] EXCEPT !.pc = "ack", !.need = Required(w)] \in Frame
    BY <2>1, <2>2 DEF Frame
  <2>4. req' \in [Worker -> {Free} \cup Frame]
    BY <1>9, <2>3 DEF list_members, TypeOK
  <2> QED BY <1>9, <2>4 DEF list_members, TypeOK, historyVars
<1>10. ASSUME NEW w \in Worker, ack_insert(w) PROVE TypeOK'
  <2>1. req' \in [Worker -> {Free} \cup Frame]
    BY <1>10, MoveType DEF ack_insert
  <2> QED BY <1>10, <2>1 DEF ack_insert, TypeOK, historyVars
<1>11. ASSUME NEW w \in Worker, ack_last(w) PROVE TypeOK'
  BY <1>11, FinishType DEF ack_last, TypeOK
<1>12. ASSUME NEW w \in Worker, ack_not_last(w) PROVE TypeOK'
  <2>1. req' \in [Worker -> {Free} \cup Frame]
    BY <1>12, MoveType DEF ack_not_last
  <2> QED BY <1>12, <2>1 DEF ack_not_last, TypeOK, historyVars
<1>13. ASSUME NEW w \in Worker, ack_commit(w) PROVE TypeOK'
  <2>1. req[w] \in Frame
    BY <1>13, FreeOrFrame DEF ack_commit
  <2>2. <<req[w].env.id, req[w].dev>> \in Nat \X Device
    BY <2>1 DEF Frame, Envelope
  <2> QED BY <1>13, <2>2, FinishType DEF ack_commit, TypeOK
<1>14. ASSUME NEW w \in Worker, delete(w) PROVE TypeOK'
  BY <1>14, FinishType DEF delete, TypeOK
<1>15. ASSUME NEW w \in Worker, request_fails(w) PROVE TypeOK'
  BY <1>15, FinishType DEF request_fails, TypeOK, historyVars
<1>16. ASSUME NEW d \in Device, accept_pending(d) PROVE TypeOK'
  BY <1>16 DEF accept_pending, TypeOK, historyVars
<1>17. ASSUME NEW d \in Device, remove_member(d) PROVE TypeOK'
  BY <1>17 DEF remove_member, TypeOK
<1>18. ASSUME NEW S \in SUBSET envs, delete_expired(S) PROVE TypeOK'
  BY <1>18 DEF delete_expired, TypeOK
<1>19. CASE UNCHANGED vars
  BY <1>19 DEF vars, TypeOK
<1> QED
  BY <1>1, <1>2, <1>3, <1>4, <1>5, <1>6, <1>7, <1>8, <1>9, <1>10, <1>11, <1>12,
     <1>13, <1>14, <1>15, <1>16, <1>17, <1>18, <1>19 DEF Next

\* Every variable keeps its type, for all values of the constants.
THEOREM TypeCorrect == Spec => []TypeOK
<1>1. Init => TypeOK
  BY DEF Init, TypeOK
<1> QED BY <1>1, TypeStep, PTL DEF Spec

-----------------------------------------------------------------------------
(***************************************************************************)
(* The strengthening, in three parts: identifiers, the ledger, deliveries. *)
(***************************************************************************)
LedgerInv == EpochConsumedIffStored /\ LedgerFrames /\ LogShape
OwedInv == OwedIsStored /\ OwedShape

\* What TypeOK says of the parts the arguments below take apart.
LEMMA FieldTypes ==
    ASSUME TypeOK
    PROVE  /\ epoch \in Nat /\ Len(log) \in Nat
           /\ \A e \in envs : e \in Envelope /\ e.id \in Nat /\ e.epoch \in Nat
           /\ \A w \in Worker : req[w].pc # "free" =>
                 /\ req[w].env \in Envelope /\ req[w].env.id \in Nat
                 /\ req[w].expected \in Nat /\ req[w].dev \in Device
                 /\ req[w].need \subseteq Device
  <1>1. /\ epoch \in Nat /\ Len(log) \in Nat
        /\ \A e \in envs : e \in Envelope /\ e.id \in Nat /\ e.epoch \in Nat
    BY DEF TypeOK, Envelope
  <1>2. \A w \in Worker : req[w].pc # "free" =>
                 /\ req[w].env \in Envelope /\ req[w].env.id \in Nat
                 /\ req[w].expected \in Nat /\ req[w].dev \in Device
                 /\ req[w].need \subseteq Device
    BY FreeOrFrame DEF Frame, Envelope
  <1> QED BY <1>1, <1>2

\* A step that leaves the ledger alone, stores no Commit and brings no request
\* into the ledger.
LEMMA LedgerQuiet ==
    ASSUME TypeOK, TypeOK', LedgerInv, UNCHANGED <<epoch, log>>,
           stamped \subseteq stamped', skewed \subseteq skewed',
           \A e \in envs' : e.kind = "commit" => e \in envs,
           \A v \in Worker : req'[v].pc \in {"cas", "insert"} => req'[v] = req[v]
    PROVE  LedgerInv'
  <1>1. EpochConsumedIffStored'
    BY DEF LedgerInv, EpochConsumedIffStored
  <1>2. LedgerFrames'
    BY DEF LedgerInv, LedgerFrames, Follows
  <1>3. LogShape'
    BY DEF LedgerInv, LogShape, Follows
  <1> QED BY <1>1, <1>2, <1>3 DEF LedgerInv

\* Every step keeps the ledger's part of the strengthening.
LEMMA LedgerStep ==
    ASSUME TypeOK, TypeOK', IdsAreFresh, LedgerInv, Next
    PROVE  LedgerInv'
<1>a. /\ epoch \in Nat /\ Len(log) \in Nat
      /\ \A w \in Worker : req[w] = Free => req[w].pc = "free"
  BY FieldTypes, FreeOrFrame
<1>1. ASSUME NEW w \in Worker, NEW d \in Device, send_message(w, d) PROVE LedgerInv'
  <2>0. PICK id \in 1..MaxEnvelopes :
           Stamp(id) /\ Start(w, "save", d, NewEnvelope(id, d, NoDevice, "application"), 0)
    BY <1>1 DEF send_message
  <2>1. NewEnvelope(id, d, NoDevice, "application") \in Envelope
    BY NewEnvelopeType DEF Kind
  <2>2. req'[w].pc = "save" /\ \A v \in Worker \ {w} : req'[v] = req[v]
    BY <2>0, <2>1, StartType
  <2> QED BY <1>1, <2>0, <2>2, StampType, LedgerQuiet DEF send_message
<1>2. ASSUME NEW w \in Worker, NEW d \in Device, NEW target \in Device,
             send_welcome(w, d, target)
      PROVE  LedgerInv'
  <2>0. PICK id \in 1..MaxEnvelopes :
           Stamp(id) /\ Start(w, "save", d, NewEnvelope(id, d, target, "welcome"), 0)
    BY <1>2 DEF send_welcome
  <2>1. NewEnvelope(id, d, target, "welcome") \in Envelope
    BY NewEnvelopeType DEF Kind
  <2>2. req'[w].pc = "save" /\ \A v \in Worker \ {w} : req'[v] = req[v]
    BY <2>0, <2>1, StartType
  <2> QED BY <1>2, <2>0, <2>2, StampType, LedgerQuiet DEF send_welcome
<1>3. ASSUME NEW w \in Worker, NEW d \in Device, NEW expected \in 0..epoch,
             send_commit(w, d, expected)
      PROVE  LedgerInv'
  <2>0. PICK id \in 1..MaxEnvelopes :
           Stamp(id) /\ Start(w, "cas", d, NewEnvelope(id, d, NoDevice, "commit"), expected)
    BY <1>3 DEF send_commit
  <2>1. NewEnvelope(id, d, NoDevice, "commit") \in Envelope
    BY NewEnvelopeType DEF Kind
  <2>2. /\ req'[w].pc = "cas" /\ req'[w].expected = expected
        /\ req'[w].env = NewEnvelope(id, d, NoDevice, "commit")
        /\ \A v \in Worker \ {w} : req'[v] = req[v]
    BY <1>a, <2>0, <2>1, StartType
  <2>3. req'[w].env.id = id
    BY <2>2, NewEnvelopeType DEF Kind
  <2>4. /\ UNCHANGED <<epoch, log, envs>> /\ stamped \subseteq stamped'
        /\ skewed \subseteq skewed' /\ \A j \in stamped : j < id \/ <<id, j>> \in skewed'
    BY <1>3, <2>0, StampType DEF send_commit
  <2>5. EpochConsumedIffStored'
    BY <2>4 DEF LedgerInv, EpochConsumedIffStored
  <2>6. LedgerFrames'
    <3>1. \A i \in 1..Len(log) : log[i].id < id \/ <<id, log[i].id>> \in skewed'
      BY <2>4 DEF LedgerInv, LogShape
    <3>2. expected <= epoch /\ \A i \in 1..expected : i \in 1..Len(log)
      BY <1>a DEF LedgerInv, EpochConsumedIffStored
    <3> QED BY <2>2, <2>3, <2>4, <3>1, <3>2 DEF LedgerInv, LedgerFrames, Follows
  <2>7. LogShape'
    BY <2>4 DEF LedgerInv, LogShape, Follows
  <2> QED BY <2>5, <2>6, <2>7 DEF LedgerInv
<1>4. ASSUME NEW w \in Worker, NEW d \in Device, NEW e \in envs, ack_envelope(w, d, e)
      PROVE  LedgerInv'
  <2>1. e \in Envelope
    BY DEF TypeOK
  <2>2. req'[w].pc \in {"snapshot", "delete"} /\ \A v \in Worker \ {w} : req'[v] = req[v]
    BY <1>4, <2>1, StartType DEF ack_envelope
  <2> QED BY <1>4, <2>2, LedgerQuiet DEF ack_envelope, historyVars
<1>5. ASSUME NEW w \in Worker, save(w) PROVE LedgerInv'
  <2>1. req'[w].pc = "free" /\ \A v \in Worker \ {w} : req'[v] = req[v]
    BY <1>5, FinishType DEF save
  <2>2. req[w].env.kind # "commit"
    BY <1>5 DEF save, IdsAreFresh, Unsaved
  <2> QED BY <1>5, <2>1, <2>2, LedgerQuiet DEF save
<1>6. ASSUME NEW w \in Worker, cas_won(w) PROVE LedgerInv'
  <2>1. /\ req'[w].pc = "insert" /\ req'[w].expected = req[w].expected
        /\ req'[w].env = req[w].env
        /\ \A v \in Worker \ {w} : req'[v] = req[v]
    BY <1>6, MoveType DEF cas_won
  <2>2. /\ UNCHANGED <<epoch, log, envs, stamped, skewed>>
        /\ req[w].pc = "cas" /\ req[w].expected = epoch
        /\ \A v \in Worker : req[v].pc # "insert"
    BY <1>6 DEF cas_won, historyVars, CasMatches, GroupRowFree
  <2>3. LedgerFrames'
    BY <2>1, <2>2 DEF LedgerInv, LedgerFrames, Follows
  <2> QED BY <2>2, <2>3 DEF LedgerInv, EpochConsumedIffStored, LogShape, Follows
<1>7. ASSUME NEW w \in Worker, cas_lost(w) PROVE LedgerInv'
  <2>1. req'[w].pc = "free" /\ \A v \in Worker \ {w} : req'[v] = req[v]
    BY <1>7, FinishType DEF cas_lost
  <2> QED BY <1>7, <2>1, LedgerQuiet DEF cas_lost, historyVars
<1>8. ASSUME NEW w \in Worker, insert_commit(w) PROVE LedgerInv'
  <2> DEFINE e == [req[w].env EXCEPT !.epoch = epoch + 1]
             r == [id |-> req[w].env.id, expected |-> req[w].expected]
  <2>1. req[w] \in Frame /\ req[w].pc = "insert"
    BY <1>8, FreeOrFrame DEF insert_commit
  <2>2. e.id = req[w].env.id /\ e.epoch = epoch + 1 /\ req[w].env.id \in Nat
    BY <2>1, <1>a DEF Frame, Envelope
  <2>3. r.id = req[w].env.id /\ r.expected = req[w].expected
    OBVIOUS
  <2>4. /\ envs' = envs \cup {e} /\ log' = Append(log, r)
        /\ epoch' = epoch + 1 /\ UNCHANGED <<stamped, skewed>>
    BY <1>8 DEF insert_commit
  <2> HIDE DEF e, r
  <2>5. /\ Len(log') = Len(log) + 1 /\ log'[Len(log) + 1] = r
        /\ \A i \in 1..Len(log) : log'[i] = log[i]
    BY <2>4 DEF TypeOK
  <2>6. epoch = Len(log) /\ req[w].expected = epoch
    BY <2>1 DEF LedgerInv, EpochConsumedIffStored, LedgerFrames
  <2>7. req'[w].pc = "free" /\ \A v \in Worker \ {w} : req'[v] = req[v]
    BY <1>8, FinishType DEF insert_commit
  <2>8. EpochConsumedIffStored'
    <3>1. epoch' = Len(log')
      BY <2>4, <2>5, <2>6
    <3>2. \A i \in 1..Len(log') : log'[i].expected = i - 1
      <4> TAKE i \in 1..Len(log')
      <4>1. CASE i = Len(log) + 1
        BY <4>1, <2>3, <2>5, <2>6, <1>a
      <4>2. CASE i # Len(log) + 1
        <5>1. i \in 1..Len(log)
          BY <4>2, <2>5, <1>a
        <5> QED BY <5>1, <2>5 DEF LedgerInv, EpochConsumedIffStored
      <4> QED BY <4>1, <4>2
    <3> QED BY <3>1, <3>2 DEF EpochConsumedIffStored
  <2>9. LedgerFrames'
    <3> SUFFICES ASSUME NEW v \in Worker, req'[v].pc \in {"cas", "insert"}
                 PROVE  /\ req'[v].pc = "cas"
                        /\ req'[v].expected <= epoch'
                        /\ \A i \in 1..req'[v].expected : Follows(log[i].id, req[v].env.id)'
      BY DEF LedgerFrames
    <3>1. v # w /\ req'[v] = req[v]
      BY <2>7
    <3>2. req[v].pc = "cas"
      BY <2>1, <3>1 DEF LedgerInv, LedgerFrames
    <3>3. /\ req[v].expected <= epoch /\ req[v].expected \in Nat
          /\ \A i \in 1..req[v].expected : Follows(log[i].id, req[v].env.id)
      BY <3>2, FieldTypes DEF LedgerInv, LedgerFrames
    <3>4. \A i \in 1..req[v].expected : i \in 1..Len(log)
      BY <3>3, <2>6, <1>a
    <3> QED BY <3>1, <3>2, <3>3, <3>4, <2>4, <2>5, <1>a DEF Follows
  <2>10. LogShape'
    <3>1. req[w].env.id \in stamped
      <4>1. req[w] # Free
        BY <2>1, FreeOrFrame
      <4> QED BY <4>1 DEF IdsAreFresh
    <3>2. \A i \in 1..Len(log') : i \in 1..Len(log) \/ i = Len(log) + 1
      BY <2>5, <1>a
    <3>3. \A i \in 1..Len(log) : Follows(log[i].id, req[w].env.id)
      BY <2>1, <2>6 DEF LedgerInv, LedgerFrames
    <3>4. \A i \in 1..Len(log') : log'[i].id \in stamped'
      BY <3>1, <3>2, <2>3, <2>4, <2>5 DEF LedgerInv, LogShape
    <3>5. \A i, j \in 1..Len(log') : i < j => Follows(log[i].id, log[j].id)'
      <4> SUFFICES ASSUME NEW i \in 1..Len(log'), NEW j \in 1..Len(log'), i < j
                   PROVE  Follows(log[i].id, log[j].id)'
        OBVIOUS
      <4>1. i \in 1..Len(log)
        BY <2>5, <1>a
      <4>2. CASE j \in 1..Len(log)
        BY <4>1, <4>2, <2>4, <2>5 DEF LedgerInv, LogShape, Follows
      <4>3. CASE j = Len(log) + 1
        BY <4>1, <4>3, <3>3, <2>3, <2>4, <2>5 DEF Follows
      <4> QED BY <3>2, <4>2, <4>3
    <3>6. \A f \in envs' : f.kind = "commit" =>
             f.epoch \in 1..Len(log') /\ f.id = log'[f.epoch].id
      <4> SUFFICES ASSUME NEW f \in envs', f.kind = "commit"
                   PROVE  f.epoch \in 1..Len(log') /\ f.id = log'[f.epoch].id
        OBVIOUS
      <4>1. CASE f = e
        BY <4>1, <2>2, <2>3, <2>5, <2>6, <1>a
      <4>2. CASE f \in envs
        BY <4>2, <2>5, <1>a DEF LedgerInv, LogShape
      <4> QED BY <4>1, <4>2, <2>4
    <3> QED BY <3>4, <3>5, <3>6 DEF LogShape
  <2> QED BY <2>8, <2>9, <2>10 DEF LedgerInv
<1>9. ASSUME NEW w \in Worker, list_members(w) PROVE LedgerInv'
  <2>1. req[w] \in Frame
    BY <1>9, FreeOrFrame DEF list_members
  <2>2. req'[w].pc = "ack" /\ \A v \in Worker \ {w} : req'[v] = req[v]
    BY <1>9, <2>1 DEF list_members, TypeOK, Frame
  <2> QED BY <1>9, <2>2, LedgerQuiet DEF list_members, historyVars
<1>10. ASSUME NEW w \in Worker, ack_insert(w) PROVE LedgerInv'
  <2>1. req'[w].pc = "sweep" /\ \A v \in Worker \ {w} : req'[v] = req[v]
    BY <1>10, MoveType DEF ack_insert
  <2> QED BY <1>10, <2>1, LedgerQuiet DEF ack_insert, historyVars
<1>11. ASSUME NEW w \in Worker, ack_last(w) PROVE LedgerInv'
  <2>1. req'[w].pc = "free" /\ \A v \in Worker \ {w} : req'[v] = req[v]
    BY <1>11, FinishType DEF ack_last
  <2> QED BY <1>11, <2>1, LedgerQuiet DEF ack_last
<1>12. ASSUME NEW w \in Worker, ack_not_last(w) PROVE LedgerInv'
  <2>1. req'[w].pc = "commit" /\ \A v \in Worker \ {w} : req'[v] = req[v]
    BY <1>12, MoveType DEF ack_not_last
  <2> QED BY <1>12, <2>1, LedgerQuiet DEF ack_not_last, historyVars
<1>13. ASSUME NEW w \in Worker, ack_commit(w) PROVE LedgerInv'
  <2>1. req'[w].pc = "free" /\ \A v \in Worker \ {w} : req'[v] = req[v]
    BY <1>13, FinishType DEF ack_commit
  <2> QED BY <1>13, <2>1, LedgerQuiet DEF ack_commit
<1>14. ASSUME NEW w \in Worker, delete(w) PROVE LedgerInv'
  <2>1. req'[w].pc = "free" /\ \A v \in Worker \ {w} : req'[v] = req[v]
    BY <1>14, FinishType DEF delete
  <2> QED BY <1>14, <2>1, LedgerQuiet DEF delete
<1>15. ASSUME NEW w \in Worker, request_fails(w) PROVE LedgerInv'
  <2>1. req'[w].pc = "free" /\ \A v \in Worker \ {w} : req'[v] = req[v]
    BY <1>15, FinishType DEF request_fails
  <2> QED BY <1>15, <2>1, LedgerQuiet DEF request_fails, historyVars
<1>16. ASSUME NEW d \in Device, accept_pending(d) PROVE LedgerInv'
  BY <1>16, LedgerQuiet DEF accept_pending, historyVars
<1>17. ASSUME NEW d \in Device, remove_member(d) PROVE LedgerInv'
  BY <1>17, LedgerQuiet DEF remove_member
<1>18. ASSUME NEW S \in SUBSET envs, delete_expired(S) PROVE LedgerInv'
  BY <1>18, LedgerQuiet DEF delete_expired
<1> QED
  BY <1>1, <1>2, <1>3, <1>4, <1>5, <1>6, <1>7, <1>8, <1>9, <1>10, <1>11, <1>12,
     <1>13, <1>14, <1>15, <1>16, <1>17, <1>18 DEF Next

-----------------------------------------------------------------------------
\* A step that stamps nothing and stores nothing new, and whose frames keep
\* their envelopes: freshness survives.
LEMMA FreshQuiet ==
    ASSUME TypeOK, TypeOK', IdsAreFresh, stamped' = stamped, envs' \subseteq envs,
           \A a \in acks' : a \in acks \/ Stored(a[1]),
           \A v \in Worker : \/ req'[v] = Free
                             \/ req'[v] = req[v]
                             \/ /\ req[v].pc # "free" /\ req'[v].env = req[v].env
                                /\ req'[v].pc \in Unsaved => req[v].pc = "cas" /\ req'[v].pc = "insert"
    PROVE  IdsAreFresh'
  <1>1. \A v \in Worker : req'[v] # Free => req[v] # Free /\ req'[v].env = req[v].env
    BY FreeOrFrame
  <1>2. \A v \in Worker : req'[v].pc \in Unsaved =>
           req[v].pc \in Unsaved /\ (req'[v].pc = "save" <=> req[v].pc = "save")
                /\ req'[v].env = req[v].env
    BY FreeOrFrame DEF Unsaved, Free
  <1>3. /\ stamped' \subseteq 1..MaxEnvelopes
        /\ \A e \in envs' : e.id \in stamped'
        /\ \A e, f \in envs' : e.id = f.id => e = f
        /\ \A a \in acks' : a[1] \in stamped'
        /\ \A w \in Worker : req'[w] # Free => req'[w].env.id \in stamped'
    BY <1>1 DEF IdsAreFresh, Stored
  <1>4. ASSUME NEW w \in Worker, req'[w].pc \in Unsaved
        PROVE  /\ req'[w].env.kind = "commit" <=> req'[w].pc # "save"
               /\ \A e \in envs' : e.id # req'[w].env.id
               /\ \A a \in acks' : a[1] # req'[w].env.id
               /\ \A v \in Worker \ {w} : req'[v] # Free => req'[v].env.id # req'[w].env.id
    BY <1>1, <1>2, <1>4 DEF IdsAreFresh, Stored
  <1> QED BY <1>3, <1>4 DEF IdsAreFresh

\* A request that stamps a new envelope: nobody else has its id.
LEMMA FreshStart ==
    ASSUME TypeOK, IdsAreFresh, NEW id \in 1..MaxEnvelopes, id \notin stamped,
           stamped' = stamped \cup {id}, UNCHANGED <<envs, acks>>,
           NEW w \in Worker, req'[w].pc \in {"save", "cas"},
           req'[w].env.id = id,
           req'[w].env.kind = "commit" <=> req'[w].pc = "cas",
           \A v \in Worker \ {w} : req'[v] = req[v]
    PROVE  IdsAreFresh'
  <1>1. \A e \in envs : e.id \in stamped
    BY DEF IdsAreFresh
  <1>2. \A v \in Worker : req[v] # Free => req[v].env.id \in stamped
    BY DEF IdsAreFresh
  <1>3. \A a \in acks : a[1] \in stamped
    BY DEF IdsAreFresh
  <1>4. \A v \in Worker \ {w} : req[v].pc \in Unsaved => req[v] # Free
    BY DEF Unsaved, Free
  <1>5. /\ stamped' \subseteq 1..MaxEnvelopes
        /\ \A e \in envs' : e.id \in stamped'
        /\ \A e, f \in envs' : e.id = f.id => e = f
        /\ \A a \in acks' : a[1] \in stamped'
        /\ \A v \in Worker : req'[v] # Free => req'[v].env.id \in stamped'
    BY <1>1, <1>2, <1>3 DEF IdsAreFresh
  <1>6. ASSUME NEW v \in Worker, req'[v].pc \in Unsaved
        PROVE  /\ req'[v].env.kind = "commit" <=> req'[v].pc # "save"
               /\ \A e \in envs' : e.id # req'[v].env.id
               /\ \A a \in acks' : a[1] # req'[v].env.id
               /\ \A u \in Worker \ {v} : req'[u] # Free => req'[u].env.id # req'[v].env.id
    <2>1. CASE v = w
      BY <1>1, <1>2, <1>3, <2>1
    <2>2. CASE v # w
      <3>1. req[v].env.id \in stamped
        BY <1>2, <1>4, <1>6, <2>2
      <3> QED BY <1>6, <2>2, <3>1 DEF IdsAreFresh
    <2> QED BY <2>1, <2>2
  <1> QED BY <1>5, <1>6 DEF IdsAreFresh

\* A request that stores its envelope: its id was in nobody else's hands.
LEMMA FreshSave ==
    ASSUME TypeOK, TypeOK', IdsAreFresh, NEW w \in Worker, req[w].pc \in Unsaved,
           NEW e, e.id = req[w].env.id, envs' = envs \cup {e},
           UNCHANGED <<stamped, acks>>, Finish(w)
    PROVE  IdsAreFresh'
  <1>1. req'[w] = Free /\ req'[w].pc = "free" /\ \A v \in Worker \ {w} : req'[v] = req[v]
    BY FinishType
  <1>2. req[w] # Free
    BY DEF Unsaved, Free
  <1>3. \A f \in envs : f.id # e.id
    BY DEF IdsAreFresh
  <1>4. /\ stamped' \subseteq 1..MaxEnvelopes
        /\ \A f \in envs' : f.id \in stamped'
        /\ \A f, g \in envs' : f.id = g.id => f = g
        /\ \A a \in acks' : a[1] \in stamped'
        /\ \A v \in Worker : req'[v] # Free => req'[v].env.id \in stamped'
    BY <1>1, <1>2, <1>3 DEF IdsAreFresh
  <1>5. ASSUME NEW v \in Worker, req'[v].pc \in Unsaved
        PROVE  /\ req'[v].env.kind = "commit" <=> req'[v].pc # "save"
               /\ \A f \in envs' : f.id # req'[v].env.id
               /\ \A a \in acks' : a[1] # req'[v].env.id
               /\ \A u \in Worker \ {v} : req'[u] # Free => req'[u].env.id # req'[v].env.id
    <2>1. v # w /\ req'[v] = req[v]
      BY <1>1, <1>5 DEF Unsaved
    <2> QED BY <1>1, <1>2, <1>5, <2>1 DEF IdsAreFresh
  <1> QED BY <1>4, <1>5 DEF IdsAreFresh

\* Every step keeps ids fresh.
LEMMA FreshStep ==
    ASSUME TypeOK, TypeOK', IdsAreFresh, Next
    PROVE  IdsAreFresh'
<1>1. ASSUME NEW w \in Worker, NEW d \in Device, send_message(w, d) PROVE IdsAreFresh'
  <2>0. PICK id \in 1..MaxEnvelopes :
           Stamp(id) /\ Start(w, "save", d, NewEnvelope(id, d, NoDevice, "application"), 0)
    BY <1>1 DEF send_message
  <2>1. NewEnvelope(id, d, NoDevice, "application") \in Envelope
    BY NewEnvelopeType DEF Kind
  <2>2. /\ req'[w].pc = "save" /\ req'[w].env = NewEnvelope(id, d, NoDevice, "application")
        /\ \A v \in Worker \ {w} : req'[v] = req[v]
    BY <2>0, <2>1, StartType
  <2>3. req'[w].env.id = id /\ req'[w].env.kind = "application"
    BY <2>2, NewEnvelopeType DEF Kind
  <2> QED BY <1>1, <2>0, <2>2, <2>3, StampType, FreshStart DEF send_message
<1>2. ASSUME NEW w \in Worker, NEW d \in Device, NEW target \in Device,
             send_welcome(w, d, target)
      PROVE  IdsAreFresh'
  <2>0. PICK id \in 1..MaxEnvelopes :
           Stamp(id) /\ Start(w, "save", d, NewEnvelope(id, d, target, "welcome"), 0)
    BY <1>2 DEF send_welcome
  <2>1. NewEnvelope(id, d, target, "welcome") \in Envelope
    BY NewEnvelopeType DEF Kind
  <2>2. /\ req'[w].pc = "save" /\ req'[w].env = NewEnvelope(id, d, target, "welcome")
        /\ \A v \in Worker \ {w} : req'[v] = req[v]
    BY <2>0, <2>1, StartType
  <2>3. req'[w].env.id = id /\ req'[w].env.kind = "welcome"
    BY <2>2, NewEnvelopeType DEF Kind
  <2> QED BY <1>2, <2>0, <2>2, <2>3, StampType, FreshStart DEF send_welcome
<1>3. ASSUME NEW w \in Worker, NEW d \in Device, NEW expected \in 0..epoch,
             send_commit(w, d, expected)
      PROVE  IdsAreFresh'
  <2>0. PICK id \in 1..MaxEnvelopes :
           Stamp(id) /\ Start(w, "cas", d, NewEnvelope(id, d, NoDevice, "commit"), expected)
    BY <1>3 DEF send_commit
  <2>1. NewEnvelope(id, d, NoDevice, "commit") \in Envelope /\ expected \in Nat
    BY NewEnvelopeType DEF Kind, TypeOK
  <2>2. /\ req'[w].pc = "cas" /\ req'[w].env = NewEnvelope(id, d, NoDevice, "commit")
        /\ \A v \in Worker \ {w} : req'[v] = req[v]
    BY <2>0, <2>1, StartType
  <2>3. req'[w].env.id = id /\ req'[w].env.kind = "commit"
    BY <2>2, NewEnvelopeType DEF Kind
  <2> QED BY <1>3, <2>0, <2>2, <2>3, StampType, FreshStart DEF send_commit
<1>4. ASSUME NEW w \in Worker, NEW d \in Device, NEW e \in envs, ack_envelope(w, d, e)
      PROVE  IdsAreFresh'
  <2>1. e \in Envelope
    BY DEF TypeOK
  <2>2. /\ req'[w].pc \in {"snapshot", "delete"} /\ req'[w].env = e
        /\ \A v \in Worker \ {w} : req'[v] = req[v]
    BY <1>4, <2>1, StartType DEF ack_envelope
  <2>3. UNCHANGED <<envs, acks, stamped>>
    BY <1>4 DEF ack_envelope
  <2> QED BY <2>2, <2>3 DEF IdsAreFresh, Unsaved, Free
<1>5. ASSUME NEW w \in Worker, save(w) PROVE IdsAreFresh'
  BY <1>5, FreshSave DEF save, Unsaved
<1>6. ASSUME NEW w \in Worker, cas_won(w) PROVE IdsAreFresh'
  <2>1. /\ req[w].pc = "cas" /\ req'[w].pc = "insert" /\ req'[w].env = req[w].env
        /\ \A v \in Worker \ {w} : req'[v] = req[v]
    BY <1>6, MoveType DEF cas_won
  <2> QED BY <1>6, <2>1, FreshQuiet DEF cas_won
<1>7. ASSUME NEW w \in Worker, cas_lost(w) PROVE IdsAreFresh'
  <2>1. req'[w] = Free /\ \A v \in Worker \ {w} : req'[v] = req[v]
    BY <1>7, FinishType DEF cas_lost
  <2> QED BY <1>7, <2>1, FreshQuiet DEF cas_lost
<1>8. ASSUME NEW w \in Worker, insert_commit(w) PROVE IdsAreFresh'
  <2> DEFINE e == [req[w].env EXCEPT !.epoch = epoch + 1]
  <2>1. req[w] \in Frame
    BY <1>8, FreeOrFrame DEF insert_commit
  <2>2. e.id = req[w].env.id
    BY <2>1 DEF Frame, Envelope
  <2>3. envs' = envs \cup {e}
    BY <1>8 DEF insert_commit
  <2> HIDE DEF e
  <2> QED BY <1>8, <2>2, <2>3, FreshSave DEF insert_commit, Unsaved
<1>9. ASSUME NEW w \in Worker, list_members(w) PROVE IdsAreFresh'
  <2>1. req[w] \in Frame /\ req[w].pc = "snapshot"
    BY <1>9, FreeOrFrame DEF list_members
  <2>2. /\ req'[w].pc = "ack" /\ req'[w].env = req[w].env
        /\ \A v \in Worker \ {w} : req'[v] = req[v]
    BY <1>9, <2>1 DEF list_members, TypeOK, Frame
  <2> QED BY <1>9, <2>1, <2>2, FreshQuiet DEF list_members, Unsaved
<1>10. ASSUME NEW w \in Worker, ack_insert(w) PROVE IdsAreFresh'
  <2>1. /\ req[w].pc = "ack" /\ req'[w].pc = "sweep" /\ req'[w].env = req[w].env
        /\ \A v \in Worker \ {w} : req'[v] = req[v]
    BY <1>10, MoveType DEF ack_insert
  <2> QED BY <1>10, <2>1, FreshQuiet DEF ack_insert, Unsaved
<1>11. ASSUME NEW w \in Worker, ack_last(w) PROVE IdsAreFresh'
  <2>1. req'[w] = Free /\ \A v \in Worker \ {w} : req'[v] = req[v]
    BY <1>11, FinishType DEF ack_last
  <2> QED BY <1>11, <2>1, FreshQuiet DEF ack_last
<1>12. ASSUME NEW w \in Worker, ack_not_last(w) PROVE IdsAreFresh'
  <2>1. /\ req[w].pc = "sweep" /\ req'[w].pc = "commit" /\ req'[w].env = req[w].env
        /\ \A v \in Worker \ {w} : req'[v] = req[v]
    BY <1>12, MoveType DEF ack_not_last
  <2> QED BY <1>12, <2>1, FreshQuiet DEF ack_not_last, Unsaved
<1>13. ASSUME NEW w \in Worker, ack_commit(w) PROVE IdsAreFresh'
  <2>1. req'[w] = Free /\ \A v \in Worker \ {w} : req'[v] = req[v]
    BY <1>13, FinishType DEF ack_commit
  <2>2. \A a \in acks' : a \in acks \/ Stored(a[1])
    BY <1>13 DEF ack_commit
  <2> QED BY <1>13, <2>1, <2>2, FreshQuiet DEF ack_commit
<1>14. ASSUME NEW w \in Worker, delete(w) PROVE IdsAreFresh'
  <2>1. req'[w] = Free /\ \A v \in Worker \ {w} : req'[v] = req[v]
    BY <1>14, FinishType DEF delete
  <2> QED BY <1>14, <2>1, FreshQuiet DEF delete
<1>15. ASSUME NEW w \in Worker, request_fails(w) PROVE IdsAreFresh'
  <2>1. req'[w] = Free /\ \A v \in Worker \ {w} : req'[v] = req[v]
    BY <1>15, FinishType DEF request_fails
  <2> QED BY <1>15, <2>1, FreshQuiet DEF request_fails
<1>16. ASSUME NEW d \in Device, accept_pending(d) PROVE IdsAreFresh'
  BY <1>16, FreshQuiet DEF accept_pending
<1>17. ASSUME NEW d \in Device, remove_member(d) PROVE IdsAreFresh'
  BY <1>17, FreshQuiet DEF remove_member
<1>18. ASSUME NEW S \in SUBSET envs, delete_expired(S) PROVE IdsAreFresh'
  BY <1>18, FreshQuiet DEF delete_expired
<1> QED
  BY <1>1, <1>2, <1>3, <1>4, <1>5, <1>6, <1>7, <1>8, <1>9, <1>10, <1>11, <1>12,
     <1>13, <1>14, <1>15, <1>16, <1>17, <1>18 DEF Next

-----------------------------------------------------------------------------
\* A step of one request that writes no table.
LEMMA OwedQuiet ==
    ASSUME TypeOK, OwedInv, UNCHANGED <<members, envs, acks, owed>>,
           \A v \in Worker :
              \/ req'[v].pc \in {"free", "save", "cas", "insert"}
              \/ req'[v] = req[v]
              \/ /\ req[v].pc \in {"ack", "sweep"} /\ req'[v].pc \in {"sweep", "commit"}
                 /\ req'[v].env = req[v].env /\ req'[v].need = req[v].need
    PROVE  OwedInv'
  BY DEF OwedInv, OwedIsStored, OwedShape, Acking

\* A request that ends after taking rows away: what it is no longer owed, or what
\* is still stored, covers every delivery left.
LEMMA OwedShrink ==
    ASSUME TypeOK, OwedInv, UNCHANGED members, envs' \subseteq envs,
           owed' \subseteq owed, acks' \cap owed' = {},
           \A p \in owed' : \E e \in envs' : e.id = p[1],
           \A v \in Worker : req'[v].pc = "free" \/ req'[v] = req[v]
    PROVE  OwedInv'
  <1>1. OwedIsStored'
    BY DEF OwedIsStored
  <1>2. OwedShape'
    BY DEF OwedInv, OwedShape, Acking
  <1> QED BY <1>1, <1>2 DEF OwedInv

\* A request that stores its envelope, and owes it to the recipients of the day.
LEMMA OwedSave ==
    ASSUME TypeOK, IdsAreFresh, OwedInv, NEW w \in Worker, req[w].pc \in Unsaved,
           NEW e \in Envelope, e.id = req[w].env.id, envs' = envs \cup {e},
           owed' = owed \cup ({e.id} \X Recipients(e)),
           UNCHANGED <<acks, members>>, Finish(w)
    PROVE  OwedInv'
  <1>1. req'[w].pc = "free" /\ \A v \in Worker \ {w} : req'[v] = req[v]
    BY FinishType
  <1>2. /\ \A f \in envs : f.id # e.id
        /\ \A a \in acks : a[1] # e.id
        /\ \A v \in Worker \ {w} : req[v] # Free => req[v].env.id # e.id
    BY DEF IdsAreFresh
  <1>3. \A p \in owed' : p \in owed \/ (p[1] = e.id /\ p[2] \in Recipients(e)
                                        /\ p = <<e.id, p[2]>>)
    OBVIOUS
  <1>4. \A p \in owed : \E f \in envs : f.id = p[1]
    BY DEF OwedInv, OwedIsStored
  <1>5. OwedIsStored'
    BY <1>3, <1>4 DEF OwedIsStored
  <1>6. \A p \in owed', f \in envs' : f.id = p[1] =>
           IF f.recipient = NoDevice THEN p[2] \in members' \ {f.sender}
                                     ELSE p[2] = f.recipient
    <2> SUFFICES ASSUME NEW p \in owed', NEW f \in envs', f.id = p[1]
                 PROVE  IF f.recipient = NoDevice THEN p[2] \in members \ {f.sender}
                                                  ELSE p[2] = f.recipient
      OBVIOUS
    <2>1. CASE p \in owed
      <3>1. f \in envs
        BY <1>2, <1>4, <2>1
      <3> QED BY <2>1, <3>1 DEF OwedInv, OwedShape
    <2>2. CASE p[1] = e.id /\ p[2] \in Recipients(e)
      <3>1. f = e
        BY <1>2, <2>2
      <3> QED BY <2>2, <3>1 DEF Recipients
    <2> QED BY <1>3, <2>1, <2>2
  <1>7. acks' \cap owed' = {}
    BY <1>2, <1>3 DEF OwedInv, OwedShape
  <1>8. \A v \in Worker : req'[v].pc \in Acking \cup {"delete"} =>
           v # w /\ req'[v] = req[v] /\ req[v] # Free /\ req[v].env.id # e.id
    BY <1>1, <1>2 DEF Acking, Free
  <1>9. \A v \in Worker, f \in envs' :
           (req'[v].pc \in Acking \cup {"delete"} /\ f.id = req'[v].env.id) => f = req'[v].env
    BY <1>8 DEF OwedInv, OwedShape
  <1>10. /\ \A v \in Worker : req'[v].pc \in Acking => req'[v].env.recipient = NoDevice
         /\ \A v \in Worker : req'[v].pc = "delete" => req'[v].env.recipient = req'[v].dev
    BY <1>8 DEF OwedInv, OwedShape
  <1>11. \A v \in Worker, d \in Device :
           (req'[v].pc \in {"ack", "sweep", "commit"} /\ <<req'[v].env.id, d>> \in owed')
           => d \in req'[v].need
    <2> SUFFICES ASSUME NEW v \in Worker, NEW d \in Device,
                        req'[v].pc \in {"ack", "sweep", "commit"},
                        <<req'[v].env.id, d>> \in owed'
                 PROVE  d \in req'[v].need
      OBVIOUS
    <2>1. req'[v] = req[v] /\ req[v].env.id # e.id
      BY <1>8 DEF Acking
    <2>2. <<req[v].env.id, d>> \in owed
      BY <1>3, <2>1
    <2> QED BY <2>1, <2>2 DEF OwedInv, OwedShape
  <1> QED BY <1>5, <1>6, <1>7, <1>9, <1>10, <1>11 DEF OwedInv, OwedShape

\* Every step keeps what is owed stored, and the facts that argument needs.
LEMMA OwedStep ==
    ASSUME TypeOK, TypeOK', IdsAreFresh, OwedInv, Next
    PROVE  OwedInv'
<1>a. \A p \in owed : p = <<p[1], p[2]>> /\ p[2] \in Device
  BY DEF TypeOK
<1>b. \A v \in Worker : req[v] = Free => req[v].pc = "free"
  BY FreeOrFrame
<1>1. ASSUME NEW w \in Worker, NEW d \in Device, send_message(w, d) PROVE OwedInv'
  <2>0. PICK id \in 1..MaxEnvelopes :
           Stamp(id) /\ Start(w, "save", d, NewEnvelope(id, d, NoDevice, "application"), 0)
    BY <1>1 DEF send_message
  <2>1. NewEnvelope(id, d, NoDevice, "application") \in Envelope
    BY NewEnvelopeType DEF Kind
  <2>2. req'[w].pc = "save" /\ \A v \in Worker \ {w} : req'[v] = req[v]
    BY <2>0, <2>1, StartType
  <2> QED BY <1>1, <2>2, OwedQuiet DEF send_message
<1>2. ASSUME NEW w \in Worker, NEW d \in Device, NEW target \in Device,
             send_welcome(w, d, target)
      PROVE  OwedInv'
  <2>0. PICK id \in 1..MaxEnvelopes :
           Stamp(id) /\ Start(w, "save", d, NewEnvelope(id, d, target, "welcome"), 0)
    BY <1>2 DEF send_welcome
  <2>1. NewEnvelope(id, d, target, "welcome") \in Envelope
    BY NewEnvelopeType DEF Kind
  <2>2. req'[w].pc = "save" /\ \A v \in Worker \ {w} : req'[v] = req[v]
    BY <2>0, <2>1, StartType
  <2> QED BY <1>2, <2>2, OwedQuiet DEF send_welcome
<1>3. ASSUME NEW w \in Worker, NEW d \in Device, NEW expected \in 0..epoch,
             send_commit(w, d, expected)
      PROVE  OwedInv'
  <2>0. PICK id \in 1..MaxEnvelopes :
           Stamp(id) /\ Start(w, "cas", d, NewEnvelope(id, d, NoDevice, "commit"), expected)
    BY <1>3 DEF send_commit
  <2>1. NewEnvelope(id, d, NoDevice, "commit") \in Envelope /\ expected \in Nat
    BY NewEnvelopeType DEF Kind, TypeOK
  <2>2. req'[w].pc = "cas" /\ \A v \in Worker \ {w} : req'[v] = req[v]
    BY <2>0, <2>1, StartType
  <2> QED BY <1>3, <2>2, OwedQuiet DEF send_commit
<1>4. ASSUME NEW w \in Worker, NEW d \in Device, NEW e \in envs, ack_envelope(w, d, e)
      PROVE  OwedInv'
  <2>1. e \in Envelope
    BY DEF TypeOK
  <2>2. /\ \A v \in Worker \ {w} : req'[v] = req[v]
        /\ req'[w].env = e
        /\ \/ req'[w].pc = "snapshot" /\ e.recipient = NoDevice
           \/ req'[w].pc = "delete" /\ e.recipient = d /\ req'[w].dev = d
    BY <1>4, <2>1, StartType DEF ack_envelope
  <2>3. UNCHANGED <<members, envs, acks, owed>>
    BY <1>4 DEF ack_envelope, historyVars
  <2>4. \A f \in envs : f.id = e.id => f = e
    BY DEF IdsAreFresh
  <2> QED BY <2>2, <2>3, <2>4 DEF OwedInv, OwedIsStored, OwedShape, Acking
<1>5. ASSUME NEW w \in Worker, save(w) PROVE OwedInv'
  <2>1. req[w].env \in Envelope
    BY <1>5, FieldTypes DEF save
  <2> QED BY <1>5, <2>1, OwedSave DEF save, Unsaved
<1>6. ASSUME NEW w \in Worker, cas_won(w) PROVE OwedInv'
  <2>1. req'[w].pc = "insert" /\ \A v \in Worker \ {w} : req'[v] = req[v]
    BY <1>6, MoveType DEF cas_won
  <2> QED BY <1>6, <2>1, OwedQuiet DEF cas_won, historyVars
<1>7. ASSUME NEW w \in Worker, cas_lost(w) PROVE OwedInv'
  <2>1. req'[w].pc = "free" /\ \A v \in Worker \ {w} : req'[v] = req[v]
    BY <1>7, FinishType DEF cas_lost
  <2> QED BY <1>7, <2>1, OwedQuiet DEF cas_lost, historyVars
<1>8. ASSUME NEW w \in Worker, insert_commit(w) PROVE OwedInv'
  <2> DEFINE e == [req[w].env EXCEPT !.epoch = epoch + 1]
  <2>1. req[w] \in Frame
    BY <1>8, FreeOrFrame DEF insert_commit
  <2>a. epoch + 1 \in Nat
    BY FieldTypes
  <2>2. e.id = req[w].env.id /\ e \in Envelope
    BY <2>1, <2>a DEF Frame, Envelope
  <2>3. envs' = envs \cup {e} /\ owed' = owed \cup ({e.id} \X Recipients(e))
    BY <1>8 DEF insert_commit
  <2> HIDE DEF e
  <2> QED BY <1>8, <2>2, <2>3, OwedSave DEF insert_commit, Unsaved
<1>9. ASSUME NEW w \in Worker, list_members(w) PROVE OwedInv'
  <2>1. req[w] \in Frame /\ req[w].pc = "snapshot"
    BY <1>9, FreeOrFrame DEF list_members
  <2>2. /\ req'[w].pc = "ack" /\ req'[w].env = req[w].env /\ req'[w].need = Required(w)
        /\ \A v \in Worker \ {w} : req'[v] = req[v]
    BY <1>9, <2>1 DEF list_members, TypeOK, Frame
  <2>3. UNCHANGED <<members, envs, acks, owed>>
    BY <1>9 DEF list_members, historyVars
  <2>4. req[w].env.recipient = NoDevice
    BY <2>1 DEF OwedInv, OwedShape, Acking
  <2>5. \A d \in Device : <<req[w].env.id, d>> \in owed => d \in Required(w)
    <3> SUFFICES ASSUME NEW d \in Device, <<req[w].env.id, d>> \in owed
                 PROVE  d \in Required(w)
      OBVIOUS
    <3>1. PICK e \in envs : e.id = req[w].env.id
      BY DEF OwedInv, OwedIsStored
    <3>2. e = req[w].env
      BY <2>1, <3>1 DEF OwedInv, OwedShape, Acking
    <3>3. d \in members \ {e.sender}
      BY <2>4, <3>1, <3>2 DEF OwedInv, OwedShape
    <3> QED BY <3>2, <3>3 DEF Required
  <2> QED BY <2>1, <2>2, <2>3, <2>5 DEF OwedInv, OwedIsStored, OwedShape, Acking
<1>10. ASSUME NEW w \in Worker, ack_insert(w) PROVE OwedInv'
  <2>1. /\ req[w].pc = "ack" /\ req'[w].pc = "sweep" /\ req'[w].env = req[w].env
        /\ req'[w].need = req[w].need /\ \A v \in Worker \ {w} : req'[v] = req[v]
    BY <1>10, MoveType DEF ack_insert
  <2> QED BY <1>10, <2>1, OwedQuiet DEF ack_insert, historyVars
<1>11. ASSUME NEW w \in Worker, ack_last(w) PROVE OwedInv'
  <2>1. req'[w].pc = "free" /\ \A v \in Worker \ {w} : req'[v] = req[v]
    BY <1>11, FinishType DEF ack_last
  <2>2. /\ envs' = {e \in envs : e.id # req[w].env.id} /\ members' = members
        /\ owed' = owed \ {<<req[w].env.id, req[w].dev>>}
        /\ acks' \subseteq acks /\ req[w].pc = "sweep" /\ AllAcked(w)
    BY <1>11 DEF ack_last
  <2>3. \A d \in Device : <<req[w].env.id, d>> \in owed => d = req[w].dev
    BY <2>2 DEF OwedInv, OwedShape, AllAcked
  <2>4. \A p \in owed' : p[1] # req[w].env.id
    BY <1>a, <2>2, <2>3
  <2>5. \A p \in owed' : \E e \in envs' : e.id = p[1]
    BY <2>2, <2>4 DEF OwedInv, OwedIsStored
  <2>6. acks' \cap owed' = {}
    BY <2>2 DEF OwedInv, OwedShape
  <2> QED BY <2>1, <2>2, <2>5, <2>6, OwedShrink
<1>12. ASSUME NEW w \in Worker, ack_not_last(w) PROVE OwedInv'
  <2>1. /\ req[w].pc = "sweep" /\ req'[w].pc = "commit" /\ req'[w].env = req[w].env
        /\ req'[w].need = req[w].need /\ \A v \in Worker \ {w} : req'[v] = req[v]
    BY <1>12, MoveType DEF ack_not_last
  <2> QED BY <1>12, <2>1, OwedQuiet DEF ack_not_last, historyVars
<1>13. ASSUME NEW w \in Worker, ack_commit(w) PROVE OwedInv'
  <2>1. req'[w].pc = "free" /\ \A v \in Worker \ {w} : req'[v] = req[v]
    BY <1>13, FinishType DEF ack_commit
  <2>2. /\ UNCHANGED <<envs, members>>
        /\ owed' = owed \ {<<req[w].env.id, req[w].dev>>}
        /\ acks' \subseteq acks \cup {<<req[w].env.id, req[w].dev>>}
    BY <1>13 DEF ack_commit
  <2>3. acks' \cap owed' = {}
    BY <2>2 DEF OwedInv, OwedShape
  <2>4. \A p \in owed' : \E e \in envs' : e.id = p[1]
    BY <2>2 DEF OwedInv, OwedIsStored
  <2> QED BY <2>1, <2>2, <2>3, <2>4, OwedShrink
<1>14. ASSUME NEW w \in Worker, delete(w) PROVE OwedInv'
  <2>1. req'[w].pc = "free" /\ \A v \in Worker \ {w} : req'[v] = req[v]
    BY <1>14, FinishType DEF delete
  <2>2. /\ envs' = {e \in envs : e.id # req[w].env.id} /\ UNCHANGED <<members, acks>>
        /\ owed' = owed \ {<<req[w].env.id, req[w].dev>>} /\ req[w].pc = "delete"
    BY <1>14 DEF delete
  <2>3. req[w].dev \in Device /\ req[w].env.recipient = req[w].dev
    BY <2>2, FieldTypes DEF OwedInv, OwedShape
  <2>4. \A p \in owed' : p[1] # req[w].env.id
    <3> SUFFICES ASSUME NEW p \in owed, p[1] = req[w].env.id
                 PROVE  p = <<req[w].env.id, req[w].dev>>
      BY <2>2
    <3>1. PICK e \in envs : e.id = p[1]
      BY DEF OwedInv, OwedIsStored
    <3>2. e = req[w].env
      BY <2>2, <3>1 DEF OwedInv, OwedShape
    <3>3. p[2] = req[w].dev
      BY <2>3, <3>1, <3>2, DeliveryAssumption DEF OwedInv, OwedShape
    <3> QED BY <1>a, <3>3
  <2>5. \A p \in owed' : \E e \in envs' : e.id = p[1]
    BY <2>2, <2>4 DEF OwedInv, OwedIsStored
  <2>6. acks' \cap owed' = {}
    BY <2>2 DEF OwedInv, OwedShape
  <2> QED BY <2>1, <2>2, <2>5, <2>6, OwedShrink
<1>15. ASSUME NEW w \in Worker, request_fails(w) PROVE OwedInv'
  <2>1. req'[w].pc = "free" /\ \A v \in Worker \ {w} : req'[v] = req[v]
    BY <1>15, FinishType DEF request_fails
  <2> QED BY <1>15, <2>1, OwedQuiet DEF request_fails, historyVars
<1>16. ASSUME NEW d \in Device, accept_pending(d) PROVE OwedInv'
  <2>1. UNCHANGED <<envs, acks, req, owed>> /\ members \subseteq members'
    BY <1>16 DEF accept_pending, historyVars
  <2> QED BY <2>1 DEF OwedInv, OwedIsStored, OwedShape
<1>17. ASSUME NEW d \in Device, remove_member(d) PROVE OwedInv'
  <2>1. /\ UNCHANGED <<envs, acks, req>> /\ members' = members \ {d}
        /\ owed' \subseteq owed
        /\ \A p \in owed' : p[2] # d \/ \E e \in envs : e.id = p[1] /\ e.recipient = d
    BY <1>17 DEF remove_member
  <2>2. OwedIsStored'
    BY <2>1 DEF OwedInv, OwedIsStored
  <2>3. \A p \in owed', e \in envs' : e.id = p[1] =>
           IF e.recipient = NoDevice THEN p[2] \in members' \ {e.sender}
                                     ELSE p[2] = e.recipient
    <3> SUFFICES ASSUME NEW p \in owed', NEW e \in envs, e.id = p[1]
                 PROVE  IF e.recipient = NoDevice THEN p[2] \in members' \ {e.sender}
                                                  ELSE p[2] = e.recipient
      BY <2>1
    <3>1. e.recipient = NoDevice => p[2] # d
      BY <2>1, DeliveryAssumption DEF IdsAreFresh
    <3> QED BY <2>1, <3>1 DEF OwedInv, OwedShape
  <2> QED BY <2>1, <2>2, <2>3 DEF OwedInv, OwedShape
<1>18. ASSUME NEW S \in SUBSET envs, delete_expired(S) PROVE OwedInv'
  <2>1. /\ envs' = envs \ S /\ UNCHANGED <<members, req>>
        /\ owed' \subseteq owed /\ acks' \subseteq acks
        /\ \A p \in owed' : \A e \in S : p[1] # e.id
    BY <1>18 DEF delete_expired
  <2>2. \A p \in owed' : \E e \in envs' : e.id = p[1]
    BY <2>1 DEF OwedInv, OwedIsStored
  <2>3. acks' \cap owed' = {}
    BY <2>1 DEF OwedInv, OwedShape
  <2> QED BY <2>1, <2>2, <2>3, OwedShrink
<1> QED
  BY <1>1, <1>2, <1>3, <1>4, <1>5, <1>6, <1>7, <1>8, <1>9, <1>10, <1>11, <1>12,
     <1>13, <1>14, <1>15, <1>16, <1>17, <1>18 DEF Next

-----------------------------------------------------------------------------
\* The strengthening is an invariant.
THEOREM Invariance == Spec => []IInv
<1>1. Init => IInv
  <2> SUFFICES ASSUME Init PROVE IInv
    OBVIOUS
  <2>1. /\ TypeOK /\ epoch = 0 /\ envs = {} /\ acks = {} /\ stamped = {} /\ log = <<>>
        /\ owed = {} /\ \A w \in Worker : req[w] = Free /\ req[w].pc = "free"
    BY DEF Init, TypeOK, Free
  <2>2. Len(log) = 0
    BY <2>1
  <2>3. IdsAreFresh
    BY <2>1, DeliveryAssumption DEF IdsAreFresh, Unsaved
  <2>4. EpochConsumedIffStored /\ LedgerFrames /\ LogShape
    BY <2>1, <2>2 DEF EpochConsumedIffStored, LedgerFrames, LogShape
  <2>5. OwedIsStored /\ OwedShape
    BY <2>1 DEF OwedIsStored, OwedShape, Acking
  <2> QED BY <2>1, <2>3, <2>4, <2>5 DEF IInv
<1>2. IInv /\ [Next]_vars => IInv'
  <2> SUFFICES ASSUME IInv, [Next]_vars PROVE IInv'
    OBVIOUS
  <2>1. TypeOK /\ IdsAreFresh /\ LedgerInv /\ OwedInv
    BY DEF IInv, LedgerInv, OwedInv
  <2>2. TypeOK'
    BY <2>1, TypeStep
  <2>3. CASE Next
    <3>1. IdsAreFresh' /\ LedgerInv' /\ OwedInv'
      BY <2>1, <2>2, <2>3, FreshStep, LedgerStep, OwedStep
    <3> QED BY <2>2, <3>1 DEF IInv, LedgerInv, OwedInv
  <2>4. CASE UNCHANGED vars
    BY <2>4 DEF vars, IInv, TypeOK, IdsAreFresh, EpochConsumedIffStored, LedgerFrames,
                LogShape, Follows, OwedIsStored, OwedShape
  <2> QED BY <2>3, <2>4
<1> QED BY <1>1, <1>2, PTL DEF Spec

\* No ack of one device takes an envelope another is still owed, for any number
\* of devices, requests and envelopes: ack_envelope's required-ack set, read
\* before its transaction, always covers the devices the envelope is due to.
THEOREM NoDeliveryIsLost == Spec => []OwedIsStored
<1>1. IInv => OwedIsStored
  BY DEF IInv
<1> QED BY <1>1, Invariance, PTL

\* An epoch is consumed exactly with the Commit that was built on it.
THEOREM EpochsAreCommits == Spec => []EpochConsumedIffStored
<1>1. IInv => EpochConsumedIffStored
  BY DEF IInv
<1> QED BY <1>1, Invariance, PTL

\* Stored Commits are delivered in epoch order but for clocks that disagree.
THEOREM CommitsAreOrdered == Spec => []CommitsInEpochOrder
<1>1. IInv => CommitsInEpochOrder
  <2> SUFFICES ASSUME IInv, NEW a \in envs, NEW b \in envs,
                      a.kind = "commit", b.kind = "commit", a.epoch <= b.epoch
               PROVE  a.id <= b.id \/ <<b.id, a.id>> \in skewed
    BY DEF CommitsInEpochOrder
  <2>1. /\ a.epoch \in 1..Len(log) /\ a.id = log[a.epoch].id
        /\ b.epoch \in 1..Len(log) /\ b.id = log[b.epoch].id
    BY DEF IInv, LogShape
  <2>2. a.id \in Nat /\ b.id \in Nat /\ Len(log) \in Nat
    BY FieldTypes DEF IInv
  <2>3. CASE a.epoch = b.epoch
    BY <2>1, <2>2, <2>3
  <2>4. CASE a.epoch < b.epoch
    BY <2>1, <2>2, <2>4 DEF IInv, LogShape, Follows
  <2> QED BY <2>1, <2>2, <2>3, <2>4
<1> QED BY <1>1, Invariance, PTL

\* The Commits of a set of envelopes, as CommitLog sees them.
CommitsOf(S) == {[id |-> e.id, epoch |-> e.epoch] : e \in {f \in S : f.kind = "commit"}}

\* The two-phase ledger, with its races, lost CASes and rollbacks, implements the
\* abstract CommitLog: an epoch and the Commit that won it come in one step, and
\* whatever else happens only takes Commits away.
THEOREM LedgerImplementsLog == Spec => LedgerRefines
<1>1. Init => Ledger!Init
  BY DEF Init, Ledger!Init
<1>2. IInv /\ [Next]_vars => [Ledger!Next]_<<epoch, CommitsOf(envs)>>
  <2> SUFFICES ASSUME IInv, [Next]_vars PROVE [Ledger!Next]_<<epoch, CommitsOf(envs)>>
    OBVIOUS
  <2>1. ASSUME NEW w \in Worker, insert_commit(w) PROVE Ledger!Next
    <3>1. req[w].pc = "insert" /\ req[w] # Free /\ req[w] \in Frame /\ epoch \in Nat
      BY <2>1, FieldTypes, FreeOrFrame DEF insert_commit, Free, IInv
    <3>2. /\ req[w].env.id \in 1..MaxEnvelopes /\ req[w].env.kind = "commit"
          /\ \A e \in envs : e.id # req[w].env.id
      BY <3>1 DEF IInv, IdsAreFresh, Unsaved
    <3>3. PICK e : e = [req[w].env EXCEPT !.epoch = epoch + 1]
      OBVIOUS
    <3>4. e.id = req[w].env.id /\ e.epoch = epoch + 1 /\ e.kind = "commit"
      BY <3>1, <3>2, <3>3 DEF Frame, Envelope
    <3>5. envs' = envs \cup {e} /\ epoch' = epoch + 1
      BY <2>1, <3>3 DEF insert_commit
    <3>6. CommitsOf(envs)' = CommitsOf(envs) \cup {[id |-> req[w].env.id, epoch |-> epoch + 1]}
      BY <3>4, <3>5 DEF CommitsOf
    <3>7. \A c \in CommitsOf(envs) : c.id # req[w].env.id
      BY <3>2 DEF CommitsOf
    <3>8. PICK i \in 1..MaxEnvelopes : i = req[w].env.id
      BY <3>2
    <3>9. Ledger!Accept(i)
      BY <3>5, <3>6, <3>7, <3>8 DEF Ledger!Accept, CommitsOf
    <3> QED BY <3>9 DEF Ledger!Next
  <2>2. ASSUME epoch' = epoch, \A e \in envs' : e.kind = "commit" => e \in envs
        PROVE  [Ledger!Next]_<<epoch, CommitsOf(envs)>>
    <3>1. PICK gone : gone = CommitsOf(envs) \ CommitsOf(envs')
      OBVIOUS
    <3>2. CommitsOf(envs') \subseteq CommitsOf(envs)
      BY <2>2 DEF CommitsOf
    <3>3. gone \in SUBSET CommitsOf(envs) /\ CommitsOf(envs') = CommitsOf(envs) \ gone
      BY <3>1, <3>2
    <3>4. Ledger!Retire(gone)
      BY <2>2, <3>3 DEF Ledger!Retire, CommitsOf
    <3> QED BY <3>3, <3>4 DEF Ledger!Next, CommitsOf
  <2>3. ASSUME NEW w \in Worker, save(w) PROVE [Ledger!Next]_<<epoch, CommitsOf(envs)>>
    <3>1. req[w].env.kind # "commit"
      BY <2>3 DEF save, IInv, IdsAreFresh, Unsaved
    <3> QED BY <2>2, <2>3, <3>1 DEF save
  <2>4. Next => \/ epoch' = epoch /\ envs' \subseteq envs
                \/ \E w \in Worker : insert_commit(w) \/ save(w)
    BY DEF Next, send_message, send_welcome, send_commit, ack_envelope, cas_won,
           cas_lost, list_members, ack_insert, ack_last, ack_not_last, ack_commit, delete,
           request_fails, accept_pending, remove_member, delete_expired, historyVars
  <2>5. CASE UNCHANGED vars
    BY <2>2, <2>5 DEF vars
  <2>6. CASE Next
    BY <2>1, <2>2, <2>3, <2>4, <2>6
  <2> QED BY <2>5, <2>6
<1> QED BY <1>1, <1>2, Invariance, PTL DEF Spec, LedgerRefines, Ledger!Spec, CommitsOf

-----------------------------------------------------------------------------
(***************************************************************************)
(* The pollers.  A page has a last row, and holds every row up to it.      *)
(***************************************************************************)
LEMMA MaxExists ==
    ASSUME NEW S, S # {}, NEW b \in Nat, S \subseteq 0..b
    PROVE  Max(S) \in S /\ \A y \in S : y <= Max(S)
<1> DEFINE R == OpToRel(<, Nat)
           T == {m \in Nat : \A y \in S : y <= m}
<1>1. T \subseteq Nat /\ T # {}
  BY DEF T
<1>2. PICK x \in T : \A y \in T : ~(<<y, x>> \in R)
  <2>1. IsWellFoundedOn(R, Nat)
    BY NatLessThanWellFounded
  <2> HIDE DEF R, T
  <2> QED BY <1>1, <2>1, WFMin
<1>3. \A y \in T : ~(y < x)
  BY <1>1, <1>2 DEF OpToRel
<1>4. x \in S
  <2> SUFFICES ASSUME x \notin S PROVE FALSE
    OBVIOUS
  <2>1. PICK y \in S : TRUE
    OBVIOUS
  <2>2. x # 0 /\ x - 1 \in T
    BY <2>1
  <2> QED BY <1>3, <2>2
<1>5. x \in S /\ \A y \in S : x >= y
  BY <1>4
<1>6. Max(S) \in S /\ \A y \in S : Max(S) >= y
  <2> HIDE DEF T
  <2> QED BY <1>5 DEF Max
<1> QED BY <1>6

LEMMA EnvelopesAreFinite == ASSUME IInv PROVE IsFiniteSet(envs)
<1>1. \A e \in envs : e.id \in 1..MaxEnvelopes
  BY DEF IInv, IdsAreFresh
<1>2. IsFiniteSet(1..MaxEnvelopes)
  BY DeliveryAssumption, FS_Interval
<1>3. [e \in envs |-> e.id] \in Injection(envs, 1..MaxEnvelopes)
  BY <1>1 DEF Injection, IsInjective, IInv, IdsAreFresh
<1> QED BY <1>2, <1>3, FS_Injection

PollInv ==
    /\ IInv
    /\ cursor \in [Device -> Nat]
    /\ GapsAreLateSaves

LEMMA PollStep ==
    ASSUME PollInv, NEW d \in Device, poll(d)
    PROVE  PollInv'
<1>0. UNCHANGED <<members, epoch, envs, acks, stamped, req, log, owed, skewed, late>>
  BY DEF poll, vars
<1>1. IInv'
  BY <1>0 DEF PollInv, IInv, TypeOK, IdsAreFresh, EpochConsumedIffStored, LedgerFrames,
              LogShape, Follows, OwedIsStored, OwedShape
<1>2. PICK page \in find_pending(d) :
          /\ cursor' = [cursor EXCEPT ![d] = Max({e.id : e \in page})]
          /\ seen' = seen \cup {<<e.id, d>> : e \in page}
  BY DEF poll
<1>3. PICK after : after = {e \in Pending(d) : e.id > cursor[d]}
  OBVIOUS
<1>4. PICK n \in Nat : page = {e \in after : Cardinality({f \in after : f.id <= e.id}) <= n}
  BY <1>3, PollerAssumption DEF find_pending
<1>5. page # {}
  BY DEF find_pending
<1>6. after \subseteq envs /\ IsFiniteSet(after) /\ MaxEnvelopes \in Nat /\ \A e \in envs : e.id \in 1..MaxEnvelopes
  <2>1. after \subseteq envs
    BY <1>3 DEF Pending
  <2>2. IsFiniteSet(after)
    BY <2>1, EnvelopesAreFinite, FS_Subset DEF PollInv
  <2> QED BY <2>1, <2>2, DeliveryAssumption DEF PollInv, IInv, IdsAreFresh
<1>7. PICK m : m = Max({e.id : e \in page})
  OBVIOUS
<1>8. PICK g \in page : g.id = m
  <2>1. {e.id : e \in page} # {} /\ {e.id : e \in page} \subseteq 0..MaxEnvelopes
    <3>1. page \subseteq envs
      BY <1>4, <1>6
    <3>2. \A e \in page : e.id \in 0..MaxEnvelopes
      BY <1>6, <3>1
    <3> QED BY <1>5, <3>2
  <2>2. m \in {e.id : e \in page}
    BY <1>6, <1>7, <2>1, MaxExists
  <2> QED BY <2>2
<1>9. ASSUME NEW e \in after, e.id <= m PROVE e \in page
  <2>1. PICK E : E = {f \in after : f.id <= e.id}
    OBVIOUS
  <2>2. PICK G : G = {f \in after : f.id <= g.id}
    OBVIOUS
  <2>3. E \subseteq G /\ G \subseteq after
    BY <1>4, <1>6, <1>8, <1>9, <2>1, <2>2
  <2>4. IsFiniteSet(G) /\ IsFiniteSet(E) /\ Cardinality(E) <= Cardinality(G)
    BY <1>6, <2>3, FS_Subset
  <2>5. Cardinality(G) <= n /\ Cardinality(E) \in Nat /\ Cardinality(G) \in Nat
    BY <1>4, <1>8, <2>2, <2>4, FS_CardinalityType
  <2> QED BY <1>4, <2>1, <2>4, <2>5
<1>10. m \in Nat /\ cursor' = [cursor EXCEPT ![d] = m]
  BY <1>2, <1>4, <1>6, <1>7, <1>8
<1>11. ASSUME NEW p \in owed, p[1] <= cursor'[p[2]] PROVE p \in seen' \cup late
  <2>1. PICK e \in envs : e.id = p[1]
    BY DEF PollInv, IInv, OwedIsStored
  <2>2. p = <<e.id, p[2]>> /\ p[2] \in Device
    BY <2>1 DEF PollInv, IInv, TypeOK
  <2>3. CASE p[1] <= cursor[p[2]]
    BY <1>2, <2>3 DEF PollInv, GapsAreLateSaves
  <2>4. CASE ~(p[1] <= cursor[p[2]])
    <3>1. p[2] = d /\ e.id <= m
      BY <1>10, <1>11, <2>1, <2>2, <2>4 DEF PollInv
    <3>2. p \notin acks
      BY DEF PollInv, IInv, OwedShape
    <3>3. e \in Pending(d)
      BY <2>1, <2>2, <3>1, <3>2 DEF PollInv, IInv, OwedShape, Pending
    <3>4. e.id > cursor[d]
      BY <1>6, <2>1, <2>4, <3>1 DEF PollInv
    <3>5. e \in page
      BY <1>3, <1>9, <3>1, <3>3, <3>4
    <3> QED BY <1>2, <2>2, <3>1, <3>5
  <2> QED BY <2>3, <2>4
<1>12. cursor' \in [Device -> Nat]
  BY <1>10 DEF PollInv
<1>13. GapsAreLateSaves'
  BY <1>0, <1>11 DEF GapsAreLateSaves
<1> QED BY <1>1, <1>12, <1>13 DEF PollInv

\* Pages, whatever their size and wherever the byte budget cuts them, leave no gap:
\* what a device is owed behind its cursor it was given, or it was stored there late.
THEOREM PagesLeaveNoGap == PollSpec => []GapsAreLateSaves
<1>1. PollSpec => []IInv
  <2>1. PollInit => Init
    BY DEF PollInit
  <2>2. [PollNext]_pollVars => [Next]_vars
    BY DEF PollNext, pollVars, ServerStep, poll, reset_cursor
  <2>3. PollSpec => Spec
    BY <2>1, <2>2, PTL DEF PollSpec, Spec
  <2> QED BY <2>3, Invariance, PTL
<1>2. PollInit /\ IInv => PollInv
  BY DEF PollInit, Init, PollInv, GapsAreLateSaves
<1>3. PollInv /\ IInv' /\ [PollNext]_pollVars => PollInv'
  <2> SUFFICES ASSUME PollInv, IInv', [PollNext]_pollVars PROVE PollInv'
    OBVIOUS
  <2>1. CASE UNCHANGED pollVars
    BY <2>1 DEF pollVars, vars, PollInv, GapsAreLateSaves
  <2>2. CASE ServerStep
    BY <2>2 DEF ServerStep, PollInv, GapsAreLateSaves
  <2>3. ASSUME NEW d \in Reader, poll(d) PROVE PollInv'
    BY <2>3, PollStep, PollerAssumption
  <2>4. ASSUME NEW d \in Reader, reset_cursor(d) PROVE PollInv'
    <3>1. /\ d \in Device /\ cursor' = [cursor EXCEPT ![d] = 0]
          /\ UNCHANGED <<owed, seen, late>>
      BY <2>4, PollerAssumption DEF reset_cursor, vars
    <3>2. ASSUME NEW p \in owed PROVE p[2] \in Device /\ p[1] \in Nat \ {0}
      <4>1. PICK e \in envs : e.id = p[1]
        BY DEF PollInv, IInv, OwedIsStored
      <4>2. e.id \in 1..MaxEnvelopes /\ p[2] \in Device
        BY DEF PollInv, IInv, TypeOK, IdsAreFresh
      <4> QED BY <4>1, <4>2
    <3>3. cursor' \in [Device -> Nat] /\ \A x \in Device : cursor'[x] = cursor[x] \/ cursor'[x] = 0
      BY <3>1 DEF PollInv
    <3>4. GapsAreLateSaves'
      BY <3>1, <3>2, <3>3 DEF PollInv, GapsAreLateSaves
    <3> QED BY <3>3, <3>4 DEF PollInv
  <2> QED BY <2>1, <2>2, <2>3, <2>4 DEF PollNext
<1>4. PollInv => GapsAreLateSaves
  BY DEF PollInv
<1> QED BY <1>1, <1>2, <1>3, <1>4, PTL DEF PollSpec
-----------------------------------------------------------------------------
(* Commits forwarded from another region. *)

USE DEF Unset, Reply, Outcome

\* The with_retry frame of a task, as ForwardTypeOK types it.
CallFrame == [pc : {"idle", "calling"}, nth : 0..MaxCalls, try : 0..RETRY_MAX,
          expected : Nat, reply : Reply, out : Outcome]

\* Ending a call keeps the frames' type.
LEMMA ReturnTyped ==
    ASSUME call \in [Task -> CallFrame], NEW t \in Task, NEW o \in Outcome
    PROVE  Return(t, o) \in [Task -> CallFrame]
<1> DEFINE f == [call[t] EXCEPT !.pc = "idle", !.out = o]
<1>1. call[t] \in CallFrame
  OBVIOUS
<1>2. f \in CallFrame
  BY <1>1 DEF CallFrame
<1>3. Return(t, o) = [call EXCEPT ![t] = f]
  BY DEF Return
<1> HIDE DEF f
<1> QED BY <1>2, <1>3

\* Every variable keeps its type, for all values of the constants.
THEOREM ForwardTypeCorrect == ForwardSpec => []ForwardTypeOK
<1>1. ForwardInit => ForwardTypeOK
  BY ForwardAssumption DEF ForwardInit, ForwardTypeOK
<1>2. ForwardTypeOK /\ [ForwardNext]_forwardVars => ForwardTypeOK'
  <2> SUFFICES ASSUME ForwardTypeOK, [ForwardNext]_forwardVars PROVE ForwardTypeOK'
    OBVIOUS
  <2> USE ForwardAssumption DEF ForwardTypeOK
  <2>1. ASSUME NEW t \in Task, NEW e \in 0..homeEpoch, StartCall(t, e) PROVE ForwardTypeOK'
    BY <2>1 DEF StartCall, Request
  <2>2. ASSUME NEW t \in Task, RejectCall(t) PROVE ForwardTypeOK'
    BY <2>2 DEF RejectCall
  <2>3. ASSUME NEW t \in Task, ReceiveAccepted(t) PROVE ForwardTypeOK'
    <3>1. failures' = 0 /\ openUntil' = -1 /\ UNCHANGED <<wire, homeEpoch, commits>>
      BY <2>3 DEF ReceiveAccepted, RecordSuccess
    <3>2. call' = Return(t, "ok") /\ call \in [Task -> CallFrame]
      BY <2>3 DEF ReceiveAccepted, CallFrame
    <3>3. call' \in [Task -> CallFrame]
      BY <3>2, ReturnTyped
    <3> QED BY <3>1, <3>3 DEF CallFrame
  <2>4. ASSUME NEW t \in Task, ReceiveRejected(t) PROVE ForwardTypeOK'
    <3>1. call' = Return(t, "status") /\ call \in [Task -> CallFrame]
      BY <2>4 DEF ReceiveRejected, CallFrame
    <3>2. call' \in [Task -> CallFrame]
      BY <3>1, ReturnTyped
    <3> QED BY <2>4, <3>2 DEF ReceiveRejected, CallFrame
  <2>5. ASSUME NEW t \in Task, AttemptFails(t) PROVE ForwardTypeOK'
    <3>1. CASE RetriesLeft(t)
      <4>1. Request(t, call[t].nth, call[t].try + 1, call[t].expected)
              \in [task : Task, nth : 0..MaxCalls, try : 0..RETRY_MAX, expected : Nat]
        BY <3>1 DEF Request, RetriesLeft
      <4> QED BY <2>5, <3>1, <4>1 DEF AttemptFails, Request
    <3>2. CASE ~RetriesLeft(t)
      <4>1. call' = Return(t, "status") /\ call \in [Task -> CallFrame]
        BY <2>5, <3>2 DEF AttemptFails, CallFrame
      <4>2. call' \in [Task -> CallFrame]
        BY <4>1, ReturnTyped
      <4> QED BY <2>5, <3>2, <4>2 DEF AttemptFails, RecordFailure, CallFrame
    <3> QED BY <3>1, <3>2
  <2>6. ASSUME NEW m \in wire, ServeCommit(m) PROVE ForwardTypeOK'
    BY <2>6 DEF ServeCommit, ReplyTo, EpochMatches
  <2>7. ASSUME NEW m \in wire, RefuseCommit(m) PROVE ForwardTypeOK'
    BY <2>7 DEF RefuseCommit, ReplyTo
  <2>8. ASSUME NEW m \in wire, LoseRequest(m) PROVE ForwardTypeOK'
    BY <2>8 DEF LoseRequest, ReplyTo
  <2>9. CASE Tick
    BY <2>9 DEF Tick
  <2>10. CASE UNCHANGED forwardVars
    BY <2>10 DEF forwardVars
  <2> QED BY <2>1, <2>2, <2>3, <2>4, <2>5, <2>6, <2>7, <2>8, <2>9, <2>10 DEF ForwardNext
<1> QED BY <1>1, <1>2, PTL DEF ForwardSpec

-----------------------------------------------------------------------------
\* The strengthening that makes "at most once" inductive: all attempts of a
\* call, and the frame that makes them, carry one expected_epoch; a stored
\* Commit of a call sits at the successor of that epoch, which the group has
\* reached.
CallsAreUniform ==
    /\ \A m \in wire : m.nth <= call[m.task].nth
    /\ \A m \in wire : m.nth = call[m.task].nth => m.expected = call[m.task].expected
    /\ \A m, k \in wire : (m.task = k.task /\ m.nth = k.nth) => m.expected = k.expected
    /\ \A c \in commits : c.epoch <= homeEpoch /\ c.nth <= call[c.task].nth
    /\ \A c \in commits : c.nth = call[c.task].nth => c.epoch = call[c.task].expected + 1
    /\ \A c \in commits, m \in wire :
          (c.task = m.task /\ c.nth = m.nth) => c.epoch = m.expected + 1

OnceInv == ForwardTypeOK /\ CallsAreUniform /\ AppliedAtMostOnce

\* A step that leaves the attempts and the stored Commits alone, and no call
\* number or expected epoch, preserves the strengthening.
LEMMA QuietStep ==
    ASSUME OnceInv, ForwardTypeOK',
           wire' \subseteq wire, commits' = commits, homeEpoch' = homeEpoch,
           \A t \in Task : call'[t].nth = call[t].nth
                        /\ call'[t].expected = call[t].expected
    PROVE  OnceInv'
  BY DEF OnceInv, ForwardTypeOK, CallsAreUniform, AppliedAtMostOnce

\* A reply changes neither the number nor the expected epoch of any call.
LEMMA ReplyKeeps ==
    ASSUME ForwardTypeOK, NEW m \in wire, NEW r \in Reply, NEW t \in Task
    PROVE  /\ ReplyTo(m, r)[t].nth = call[t].nth
           /\ ReplyTo(m, r)[t].expected = call[t].expected
  BY DEF ReplyTo, ForwardTypeOK

\* The strengthening holds in every reachable state.
LEMMA OnceInvariant == ForwardSpec => []OnceInv
<1>1. ForwardInit => OnceInv
  BY ForwardAssumption DEF ForwardInit, OnceInv, ForwardTypeOK, CallsAreUniform, AppliedAtMostOnce
<1>2. OnceInv /\ ForwardTypeOK' /\ [ForwardNext]_forwardVars => OnceInv'
  <2> SUFFICES ASSUME OnceInv, ForwardTypeOK', [ForwardNext]_forwardVars PROVE OnceInv'
    OBVIOUS
  <2>0. ForwardTypeOK
    BY DEF OnceInv
  <2>1. ASSUME NEW t \in Task, NEW e \in 0..homeEpoch, StartCall(t, e) PROVE OnceInv'
    <3> DEFINE n == call[t].nth + 1
               q == Request(t, n, 0, e)
    <3>1. /\ wire' = wire \cup {q} /\ commits' = commits /\ homeEpoch' = homeEpoch
          /\ q = [task |-> t, nth |-> n, try |-> 0, expected |-> e]
      BY <2>1 DEF StartCall, Request
    <3>2. call'[t].nth = n /\ call'[t].expected = e
      BY <2>0, <2>1 DEF StartCall, ForwardTypeOK
    <3>3. \A u \in Task \ {t} : call'[u] = call[u]
      BY <2>0, <2>1 DEF StartCall, ForwardTypeOK
    <3> HIDE DEF q
    <3>4. q.task = t /\ q.nth = n /\ q.expected = e
      BY <3>1
    <3>5. \A m \in wire : m.task \in Task /\ m.nth \in Nat
      BY <2>0 DEF ForwardTypeOK
    <3>6. \A c \in commits : c.task \in Task /\ c.nth \in Nat
      BY <2>0 DEF ForwardTypeOK
    <3>7. call[t].nth \in Nat
      BY <2>0 DEF ForwardTypeOK
    <3> QED
      BY <3>1, <3>2, <3>3, <3>4, <3>5, <3>6, <3>7 DEF OnceInv, CallsAreUniform, AppliedAtMostOnce
  <2>2. ASSUME NEW t \in Task, RejectCall(t) PROVE OnceInv'
    <3>1. UNCHANGED <<wire, commits, homeEpoch>>
      BY <2>2 DEF RejectCall
    <3>2. call'[t].nth = call[t].nth + 1 /\ \A u \in Task \ {t} : call'[u] = call[u]
      BY <2>0, <2>2 DEF RejectCall, ForwardTypeOK
    <3>3. \A m \in wire : m.task \in Task /\ m.nth \in Nat
      BY <2>0 DEF ForwardTypeOK
    <3>4. \A c \in commits : c.task \in Task /\ c.nth \in Nat
      BY <2>0 DEF ForwardTypeOK
    <3>5. call[t].nth \in Nat
      BY <2>0 DEF ForwardTypeOK
    <3> QED
      BY <3>1, <3>2, <3>3, <3>4, <3>5 DEF OnceInv, CallsAreUniform, AppliedAtMostOnce
  <2>3. ASSUME NEW t \in Task, ReceiveAccepted(t) PROVE OnceInv'
    <3>1. \A u \in Task : call'[u].nth = call[u].nth /\ call'[u].expected = call[u].expected
      BY <2>0, <2>3 DEF ReceiveAccepted, Return, ForwardTypeOK
    <3> QED BY <2>3, <3>1, QuietStep DEF ReceiveAccepted
  <2>4. ASSUME NEW t \in Task, ReceiveRejected(t) PROVE OnceInv'
    <3>1. \A u \in Task : call'[u].nth = call[u].nth /\ call'[u].expected = call[u].expected
      BY <2>0, <2>4 DEF ReceiveRejected, Return, ForwardTypeOK
    <3> QED BY <2>4, <3>1, QuietStep DEF ReceiveRejected
  <2>5. ASSUME NEW t \in Task, AttemptFails(t) PROVE OnceInv'
    <3>1. \A u \in Task : call'[u].nth = call[u].nth /\ call'[u].expected = call[u].expected
      BY <2>0, <2>5 DEF AttemptFails, Return, ForwardTypeOK
    <3>2. CASE RetriesLeft(t)
      <4> DEFINE q == Request(t, call[t].nth, call[t].try + 1, call[t].expected)
      <4>1. wire' = wire \cup {q} /\ commits' = commits /\ homeEpoch' = homeEpoch
        BY <2>5, <3>2 DEF AttemptFails
      <4>2. q.task = t /\ q.nth = call[t].nth /\ q.expected = call[t].expected
        BY DEF Request
      <4> HIDE DEF q
      <4>3. \A m \in wire : m.task \in Task
        BY <2>0 DEF ForwardTypeOK
      <4>4. \A c \in commits : c.task \in Task
        BY <2>0 DEF ForwardTypeOK
      <4>5. call[t].nth \in Nat
        BY <2>0 DEF ForwardTypeOK
      <4> QED
        BY <3>1, <4>1, <4>2, <4>3, <4>4, <4>5 DEF OnceInv, CallsAreUniform, AppliedAtMostOnce
    <3>3. CASE ~RetriesLeft(t)
      BY <2>5, <3>1, <3>3, QuietStep DEF AttemptFails
    <3> QED BY <3>2, <3>3
  <2>6. ASSUME NEW m \in wire, ServeCommit(m) PROVE OnceInv'
    <3>1. \A u \in Task : call'[u].nth = call[u].nth /\ call'[u].expected = call[u].expected
      BY <2>0, <2>6, ReplyKeeps DEF ServeCommit
    <3>2. CASE EpochMatches(m)
      <4> DEFINE c == [epoch |-> homeEpoch + 1, task |-> m.task, nth |-> m.nth]
      <4>1. /\ wire' = wire \ {m} /\ commits' = commits \cup {c} /\ homeEpoch' = homeEpoch + 1
            /\ m.expected = homeEpoch
        BY <2>6, <3>2 DEF ServeCommit, EpochMatches
      <4>2. c.epoch = homeEpoch + 1 /\ c.task = m.task /\ c.nth = m.nth
        OBVIOUS
      <4> HIDE DEF c
      <4>3. \A k \in wire : k.task \in Task /\ k.nth \in Nat /\ k.expected \in Nat
        BY <2>0 DEF ForwardTypeOK
      <4>4. homeEpoch \in Nat /\ \A d \in commits : d.task \in Task /\ d.epoch \in Nat
        BY <2>0 DEF ForwardTypeOK
      <4>5. \A d \in commits : ~(d.task = m.task /\ d.nth = m.nth)
        BY <4>1, <4>4 DEF OnceInv, CallsAreUniform
      <4>6. AppliedAtMostOnce'
        BY <4>1, <4>2, <4>5 DEF OnceInv, AppliedAtMostOnce
      <4>7. CallsAreUniform'
        BY <3>1, <4>1, <4>2, <4>3, <4>4 DEF OnceInv, CallsAreUniform
      <4> QED BY <4>6, <4>7 DEF OnceInv
    <3>3. CASE ~EpochMatches(m)
      BY <2>6, <3>1, <3>3, QuietStep DEF ServeCommit
    <3> QED BY <3>2, <3>3
  <2>7. ASSUME NEW m \in wire, RefuseCommit(m) PROVE OnceInv'
    <3>1. \A u \in Task : call'[u].nth = call[u].nth /\ call'[u].expected = call[u].expected
      BY <2>0, <2>7, ReplyKeeps DEF RefuseCommit
    <3> QED BY <2>7, <3>1, QuietStep DEF RefuseCommit
  <2>8. ASSUME NEW m \in wire, LoseRequest(m) PROVE OnceInv'
    <3>1. \A u \in Task : call'[u].nth = call[u].nth /\ call'[u].expected = call[u].expected
      BY <2>0, <2>8, ReplyKeeps DEF LoseRequest
    <3> QED BY <2>8, <3>1, QuietStep DEF LoseRequest
  <2>9. CASE Tick
    BY <2>9, QuietStep DEF Tick
  <2>10. CASE UNCHANGED forwardVars
    BY <2>10, QuietStep DEF forwardVars
  <2> QED BY <2>1, <2>2, <2>3, <2>4, <2>5, <2>6, <2>7, <2>8, <2>9, <2>10 DEF ForwardNext
<1> QED BY <1>1, <1>2, ForwardTypeCorrect, PTL DEF ForwardSpec

\* No forwarded Commit is applied twice, whatever the transport does to the
\* attempts: forward_commit's retries are safe because the CAS precondition is
\* the sender's own expected_epoch.
THEOREM AtMostOnce == ForwardSpec => []AppliedAtMostOnce
<1>1. OnceInv => AppliedAtMostOnce
  BY DEF OnceInv
<1> QED BY <1>1, OnceInvariant, PTL

-----------------------------------------------------------------------------
\* The Commit of task t's current call, as the home region stores it.
OwnCommit(t) == [epoch |-> call[t].expected + 1, task |-> t, nth |-> call[t].nth]

\* What makes OkMeansStored inductive: the acceptance a task has been told of, and
\* not only the one it has returned, is that of its own stored Commit.
AcceptedIsStored ==
    \A t \in Task : (call[t].reply = "accepted" \/ call[t].out = "ok") => OwnCommit(t) \in commits

\* Where no acceptance is new and no call is renumbered, stored Commits stay stored.
LEMMA NoNewAcceptance ==
    ASSUME AcceptedIsStored, commits \subseteq commits',
           \A t \in Task :
              \/ /\ call'[t].nth = call[t].nth /\ call'[t].expected = call[t].expected
                 /\ (call'[t].reply = "accepted" \/ call'[t].out = "ok")
                    => (call[t].reply = "accepted" \/ call[t].out = "ok")
              \/ call'[t].reply # "accepted" /\ call'[t].out # "ok"
    PROVE  AcceptedIsStored'
  BY DEF AcceptedIsStored, OwnCommit

\* A reply other than "accepted" brings no acceptance.
LEMMA OtherReply ==
    ASSUME ForwardTypeOK, NEW m \in wire, NEW r \in {"rejected", "failed"}, NEW t \in Task
    PROVE  /\ ReplyTo(m, r)[t].nth = call[t].nth
           /\ ReplyTo(m, r)[t].expected = call[t].expected
           /\ ReplyTo(m, r)[t].out = call[t].out
           /\ ReplyTo(m, r)[t].reply = "accepted" => call[t].reply = "accepted"
  BY DEF ReplyTo, ForwardTypeOK

\* A call that returned Ok has its own Commit stored, at the successor of the epoch
\* it was built against: no attempt's reply is taken for another call's, and a
\* duplicate that loses the CAS is never reported as accepted.
THEOREM OkIsStored == ForwardSpec => []OkMeansStored
<1>1. ForwardInit => AcceptedIsStored
  BY DEF ForwardInit, AcceptedIsStored
<1>2. OnceInv /\ AcceptedIsStored /\ [ForwardNext]_forwardVars => AcceptedIsStored'
  <2> SUFFICES ASSUME OnceInv, AcceptedIsStored, [ForwardNext]_forwardVars PROVE AcceptedIsStored'
    OBVIOUS
  <2>0. ForwardTypeOK
    BY DEF OnceInv
  <2>1. ASSUME NEW t \in Task, NEW e \in 0..homeEpoch, StartCall(t, e) PROVE AcceptedIsStored'
    BY <2>0, <2>1, NoNewAcceptance DEF StartCall, ForwardTypeOK
  <2>2. ASSUME NEW t \in Task, RejectCall(t) PROVE AcceptedIsStored'
    BY <2>0, <2>2, NoNewAcceptance DEF RejectCall, ForwardTypeOK
  <2>3. ASSUME NEW t \in Task, ReceiveAccepted(t) PROVE AcceptedIsStored'
    BY <2>0, <2>3, NoNewAcceptance DEF ReceiveAccepted, Return, ForwardTypeOK
  <2>4. ASSUME NEW t \in Task, ReceiveRejected(t) PROVE AcceptedIsStored'
    BY <2>0, <2>4, NoNewAcceptance DEF ReceiveRejected, Return, ForwardTypeOK
  <2>5. ASSUME NEW t \in Task, AttemptFails(t) PROVE AcceptedIsStored'
    BY <2>0, <2>5, NoNewAcceptance DEF AttemptFails, Return, ForwardTypeOK
  <2>6. ASSUME NEW m \in wire, ServeCommit(m) PROVE AcceptedIsStored'
    <3>1. CASE EpochMatches(m)
      <4>1. m.task \in Task /\ m.expected = homeEpoch
        BY <2>0, <3>1 DEF ForwardTypeOK, EpochMatches
      <4>2. /\ commits' = commits \cup {[epoch |-> homeEpoch + 1, task |-> m.task, nth |-> m.nth]}
            /\ call' = ReplyTo(m, "accepted")
        BY <2>6, <3>1 DEF ServeCommit
      <4>3. \A t \in Task : call'[t].nth = call[t].nth /\ call'[t].expected = call[t].expected
                            /\ call'[t].out = call[t].out
        BY <2>0, <4>2 DEF ReplyTo, ForwardTypeOK
      <4>4. \A t \in Task : \/ call'[t].reply = call[t].reply
                            \/ t = m.task /\ m.nth = call[t].nth
        BY <2>0, <4>2 DEF ReplyTo, ForwardTypeOK
      <4>5. m.nth = call[m.task].nth => m.expected = call[m.task].expected
        BY DEF OnceInv, CallsAreUniform
      <4> QED BY <4>1, <4>2, <4>3, <4>4, <4>5 DEF AcceptedIsStored, OwnCommit
    <3>2. CASE ~EpochMatches(m)
      BY <2>0, <2>6, <3>2, OtherReply, NoNewAcceptance DEF ServeCommit
    <3> QED BY <3>1, <3>2
  <2>7. ASSUME NEW m \in wire, RefuseCommit(m) PROVE AcceptedIsStored'
    BY <2>0, <2>7, OtherReply, NoNewAcceptance DEF RefuseCommit
  <2>8. ASSUME NEW m \in wire, LoseRequest(m) PROVE AcceptedIsStored'
    BY <2>0, <2>8, OtherReply, NoNewAcceptance DEF LoseRequest
  <2>9. CASE Tick
    BY <2>9, NoNewAcceptance DEF Tick
  <2>10. CASE UNCHANGED forwardVars
    BY <2>10, NoNewAcceptance DEF forwardVars
  <2> QED BY <2>1, <2>2, <2>3, <2>4, <2>5, <2>6, <2>7, <2>8, <2>9, <2>10 DEF ForwardNext
<1>3. AcceptedIsStored => OkMeansStored
  BY DEF AcceptedIsStored, OwnCommit, OkMeansStored
<1> QED BY <1>1, <1>2, <1>3, OnceInvariant, PTL DEF ForwardSpec

-----------------------------------------------------------------------------
\* The breaker opens on evidence: while is_open answers true, at least `threshold`
\* calls have failed and none has succeeded since.
THEOREM OpensOnEvidence == ForwardSpec => []OpenOnlyAfterThreshold
<1>1. ForwardInit => OpenOnlyAfterThreshold
  BY DEF ForwardInit, OpenOnlyAfterThreshold, IsOpen
<1>2. ForwardTypeOK /\ OpenOnlyAfterThreshold /\ [ForwardNext]_forwardVars => OpenOnlyAfterThreshold'
  <2> SUFFICES ASSUME ForwardTypeOK, OpenOnlyAfterThreshold, [ForwardNext]_forwardVars
               PROVE  OpenOnlyAfterThreshold'
    OBVIOUS
  <2>0. /\ failures \in 0..CIRCUIT_THRESHOLD /\ openUntil \in {-1} \cup Nat
        /\ CIRCUIT_THRESHOLD \in Nat
    BY ForwardAssumption DEF ForwardTypeOK
  <2>1. ASSUME UNCHANGED <<failures, openUntil>> PROVE OpenOnlyAfterThreshold'
    BY <2>1 DEF OpenOnlyAfterThreshold, IsOpen
  <2>2. ASSUME RecordSuccess PROVE OpenOnlyAfterThreshold'
    BY <2>2 DEF RecordSuccess, OpenOnlyAfterThreshold, IsOpen
  <2>3. ASSUME RecordFailure PROVE OpenOnlyAfterThreshold'
    BY <2>0, <2>3 DEF RecordFailure, OpenOnlyAfterThreshold, IsOpen
  <2>4. ASSUME Tick PROVE OpenOnlyAfterThreshold'
    BY <2>0, <2>4 DEF Tick, OpenOnlyAfterThreshold, IsOpen
  <2>5. ASSUME NEW t \in Task, AttemptFails(t) PROVE OpenOnlyAfterThreshold'
    BY <2>1, <2>3, <2>5 DEF AttemptFails
  <2>6. ASSUME NEW t \in Task, ReceiveAccepted(t) PROVE OpenOnlyAfterThreshold'
    BY <2>2, <2>6 DEF ReceiveAccepted
  <2> QED BY <2>1, <2>4, <2>5, <2>6
         DEF ForwardNext, forwardVars, StartCall, RejectCall, ReceiveRejected, ServeCommit, RefuseCommit,
             LoseRequest
<1> QED BY <1>1, <1>2, ForwardTypeCorrect, PTL DEF ForwardSpec
=============================================================================
