------------------------------ MODULE MediaProofs ------------------------------
(***************************************************************************)
(* What holds of Media for every set of devices, blobs, requests and       *)
(* replicas: an object without a row is a late PUT's or a cascade's, a     *)
(* collection takes no object that a member may still be waiting for, and  *)
(* a device's uploads of a day exceed the quota by at most one blob for    *)
(* each other request in flight.                                           *)
(*                                                                         *)
(* IInv, about the tables and the collections, is inductive by itself;     *)
(* QuotaInv adds up what was uploaded today and what has passed the quota  *)
(* check and is not saved yet.                                             *)
(***************************************************************************)
EXTENDS Media, WellFoundedInduction, FiniteSetTheorems, TLAPS

\* The candidate a collection is at.
Head(f) == Min(DOMAIN f.batch)

\* The members a message still needs are all among S.
Within(m, S) == m.shared => members \ {m.uploader} \subseteq S

\* A page's candidate is past the retention; its row is as the page returned it, or gone.
Old(c, m) == age[c] = 2 /\ (row[c] # None => row[c] = m)

\* A deletion that has passed the object: what is there came after it.
Passed(b) == b \in object => b \in stray

At == {"members", "acks", "object", "row"}

GcShape(f) ==
    f = [pc |-> f.pc, batch |-> f.batch, after |-> f.after, full |-> f.full,
         required |-> f.required, joined |-> f.joined]
GcOK(f) ==
    /\ GcShape(f)
    /\ f.pc \in At =>
          /\ DOMAIN f.batch # {} /\ DOMAIN f.batch \subseteq Blob
          /\ \A c \in DOMAIN f.batch : Old(c, f.batch[c])
    /\ f.pc = "acks" => Within(f.batch[Head(f)], f.required \cup f.joined)
    /\ f.pc = "object" /\ row[Head(f)] # None =>
          Within(f.batch[Head(f)], acks[Head(f)] \cup f.joined)
    /\ f.pc = "row" => Passed(Head(f))

ReqOK(f) ==
    /\ f.pc \in {"presign", "object", "row"} =>
          f = [pc |-> f.pc, blob |-> f.blob] /\ f.blob \in Blob
    /\ f.pc \in {"quota", "save"} =>
          /\ f = [pc |-> f.pc, dev |-> f.dev, size |-> f.size, shared |-> f.shared]
          /\ f.dev \in Device /\ f.shared \in BOOLEAN
    /\ f.pc = "row" => Passed(f.blob)

TablesOK ==
    /\ row = [b \in Blob |-> row[b]]
    /\ age \in [Blob -> 0..2]
    /\ acks = [b \in Blob |-> acks[b]]
    /\ object \subseteq Blob
    /\ req = [q \in Request |-> req[q]]
    /\ gc = [r \in Replica |-> gc[r]]

IInv ==
    /\ TablesOK
    /\ \A q \in Request : ReqOK(req[q])
    /\ \A r \in Replica : GcOK(gc[r])
    /\ OrphansAreLate

-----------------------------------------------------------------------------
\* A set of naturals has a least element.
LEMMA NatMin ==
    ASSUME NEW S, S \subseteq Nat, S # {}
    PROVE  Min(S) \in S
<1>1. PICK t \in S : \A u \in S : <<u, t>> \notin OpToRel(<, Nat)
  BY WFMin, NatLessThanWellFounded, Zenon
<1>2. \A u \in S : ~(u < t)
  BY <1>1, Zenon DEF OpToRel
<1>3. \E x \in S : \A y \in S : x =< y
  BY <1>2
<1> QED BY <1>3 DEF Min

LEMMA HeadInPage ==
    ASSUME NEW f, DOMAIN f.batch # {}, DOMAIN f.batch \subseteq Blob
    PROVE  Head(f) \in DOMAIN f.batch /\ Head(f) \in Blob
<1>1. DOMAIN f.batch \subseteq Nat
  BY MediaAssumption
<1> QED BY <1>1, NatMin DEF Head

\* What a step may do to the tables without disturbing a request or a collection.
Gentle ==
    /\ \A c \in Blob : age[c] = 2 =>
          age'[c] = 2 /\ (row'[c] = row[c] \/ row'[c] = None)
    /\ members' \subseteq members
    /\ \A c \in Blob : row'[c] # None => acks[c] \cap members' \subseteq acks'[c]
    /\ \A c \in Blob : Deleting(c) /\ Passed(c) => Passed(c)'

LEMMA GcStays ==
    ASSUME TablesOK, Gentle, NEW r \in Replica, GcOK(gc[r]), NEW f, f = gc[r]
    PROVE  GcOK(f)'
<1>1. GcShape(f)
  BY DEF GcOK
<1>2. ASSUME f.pc \in At
      PROVE  /\ DOMAIN f.batch # {} /\ DOMAIN f.batch \subseteq Blob
             /\ \A c \in DOMAIN f.batch : Old(c, f.batch[c])
             /\ \A c \in DOMAIN f.batch : Old(c, f.batch[c])'
             /\ Head(f) \in DOMAIN f.batch /\ Head(f) \in Blob
  <2>1. /\ DOMAIN f.batch # {} /\ DOMAIN f.batch \subseteq Blob
        /\ \A c \in DOMAIN f.batch : Old(c, f.batch[c])
    BY <1>2 DEF GcOK
  <2>2. ASSUME NEW c \in DOMAIN f.batch PROVE Old(c, f.batch[c])'
    BY <2>1 DEF Old, Gentle
  <2> QED BY <2>1, <2>2, HeadInPage
<1>3. f.pc = "acks" => Within(f.batch[Head(f)], f.required \cup f.joined)'
  BY DEF GcOK, Within, Gentle
<1>4. ASSUME f.pc = "object", row'[Head(f)] # None
      PROVE  Within(f.batch[Head(f)], acks[Head(f)] \cup f.joined)'
  <2>1. Head(f) \in Blob /\ row[Head(f)] # None
    BY <1>2, <1>4 DEF At, Gentle, Old
  <2>2. Within(f.batch[Head(f)], acks[Head(f)] \cup f.joined)
    BY <1>4, <2>1 DEF GcOK
  <2>3. members' \subseteq members /\ acks[Head(f)] \cap members' \subseteq acks'[Head(f)]
    BY <1>4, <2>1 DEF Gentle
  <2> QED BY <2>2, <2>3 DEF Within
<1>5. ASSUME f.pc = "row" PROVE Passed(Head(f))'
  <2>1. Head(f) \in Blob /\ Deleting(Head(f)) /\ Passed(Head(f))
    BY <1>2, <1>5 DEF At, Deleting, First, Head, GcOK
  <2> QED BY <2>1 DEF Gentle
<1> QED BY <1>1, <1>2, <1>3, <1>4, <1>5 DEF GcOK

LEMMA ReqStays ==
    ASSUME TablesOK, Gentle, NEW q \in Request, ReqOK(req[q]), NEW f, f = req[q]
    PROVE  ReqOK(f)'
<1>1. ASSUME f.pc = "row" PROVE Passed(f.blob)'
  <2>1. f.blob \in Blob /\ Deleting(f.blob) /\ Passed(f.blob)
    BY <1>1 DEF ReqOK, Deleting
  <2> QED BY <2>1 DEF Gentle
<1> QED BY <1>1 DEF ReqOK

\* A step of one request, of one collection, of neither.
LEMMA ReqFrame ==
    ASSUME IInv, Gentle, TablesOK', OrphansAreLate', UNCHANGED gc,
           NEW q \in Request, NEW g, req' = [req EXCEPT ![q] = g], ReqOK(g)'
    PROVE  IInv'
<1>1. ASSUME NEW x \in Request PROVE ReqOK(req[x])'
  <2>1. CASE x = q
    <3>1. req'[x] = g
      BY <2>1 DEF IInv, TablesOK
    <3> QED BY <3>1 DEF ReqOK
  <2>2. CASE x # q
    <3>1. PICK f : f = req[x]
      OBVIOUS
    <3>2. req'[x] = f
      BY <2>2, <3>1 DEF IInv, TablesOK
    <3>3. ReqOK(f)'
      BY <3>1, ReqStays DEF IInv
    <3> QED BY <3>2, <3>3 DEF ReqOK
  <2> QED BY <2>1, <2>2
<1>2. ASSUME NEW r \in Replica PROVE GcOK(gc[r])'
  <2>1. PICK f : f = gc[r]
    OBVIOUS
  <2>2. GcOK(f)' /\ gc'[r] = f
    BY <2>1, GcStays DEF IInv
  <2> QED BY <2>2 DEF GcOK, GcShape, Head
<1> QED BY <1>1, <1>2 DEF IInv

LEMMA GcFrame ==
    ASSUME IInv, Gentle, TablesOK', OrphansAreLate', UNCHANGED req,
           NEW r \in Replica, NEW g, gc' = [gc EXCEPT ![r] = g], GcOK(g)'
    PROVE  IInv'
<1>1. ASSUME NEW q \in Request PROVE ReqOK(req[q])'
  <2>1. PICK f : f = req[q]
    OBVIOUS
  <2>2. ReqOK(f)' /\ req'[q] = f
    BY <2>1, ReqStays DEF IInv
  <2> QED BY <2>2 DEF ReqOK
<1>2. ASSUME NEW x \in Replica PROVE GcOK(gc[x])'
  <2>1. CASE x = r
    <3>1. gc'[x] = g
      BY <2>1 DEF IInv, TablesOK
    <3> QED BY <3>1 DEF GcOK, GcShape, Head
  <2>2. CASE x # r
    <3>1. PICK f : f = gc[x]
      OBVIOUS
    <3>2. gc'[x] = f
      BY <2>2, <3>1 DEF IInv, TablesOK
    <3>3. GcOK(f)'
      BY <3>1, GcStays DEF IInv
    <3> QED BY <3>2, <3>3 DEF GcOK, GcShape, Head
  <2> QED BY <2>1, <2>2
<1> QED BY <1>1, <1>2 DEF IInv

LEMMA WorldStep ==
    ASSUME IInv, Gentle, TablesOK', OrphansAreLate', UNCHANGED <<req, gc>>
    PROVE  IInv'
<1>1. ASSUME NEW q \in Request PROVE ReqOK(req[q])'
  <2>1. PICK f : f = req[q]
    OBVIOUS
  <2>2. ReqOK(f)' /\ req'[q] = f
    BY <2>1, ReqStays DEF IInv
  <2> QED BY <2>2 DEF ReqOK
<1>2. ASSUME NEW r \in Replica PROVE GcOK(gc[r])'
  <2>1. PICK f : f = gc[r]
    OBVIOUS
  <2>2. GcOK(f)' /\ gc'[r] = f
    BY <2>1, GcStays DEF IInv
  <2> QED BY <2>2 DEF GcOK, GcShape, Head
<1> QED BY <1>1, <1>2 DEF IInv

\* Nothing but requests and collections moves.
Still == UNCHANGED <<members, row, age, acks, object, stray>>

LEMMA StillIsGentle ==
    ASSUME IInv, Still
    PROVE  Gentle /\ OrphansAreLate'
  BY DEF IInv, Still, Gentle, Passed, OrphansAreLate

\* The frames the collection's steps make.
LEMMA PcIs ==
    ASSUME NEW f, GcShape(f), NEW pc
    PROVE  [f EXCEPT !.pc = pc]
             = [pc |-> pc, batch |-> f.batch, after |-> f.after, full |-> f.full,
                required |-> f.required, joined |-> f.joined]
<1>1. PICK b, a, u, q, j : f = [pc |-> f.pc, batch |-> b, after |-> a, full |-> u,
                                required |-> q, joined |-> j]
  BY DEF GcShape
<1> QED BY <1>1

Read(f, pc, required) == [f EXCEPT !.pc = pc, !.required = required]

LEMMA ReadIs ==
    ASSUME NEW f, GcShape(f), NEW pc, NEW required
    PROVE  Read(f, pc, required)
             = [pc |-> pc, batch |-> f.batch, after |-> f.after, full |-> f.full,
                required |-> required, joined |-> f.joined]
<1> DEFINE a == [f EXCEPT !.pc = pc]
<1>1. a = [pc |-> pc, batch |-> f.batch, after |-> f.after, full |-> f.full,
           required |-> f.required, joined |-> f.joined]
  BY PcIs
<1> HIDE DEF a
<1>2. [a EXCEPT !.required = required]
        = [pc |-> pc, batch |-> f.batch, after |-> f.after, full |-> f.full,
           required |-> required, joined |-> f.joined]
  BY <1>1
<1> QED BY <1>2 DEF a, Read

LEMMA JoinedIs ==
    ASSUME NEW f, GcShape(f), NEW joined
    PROVE  [f EXCEPT !.joined = joined]
             = [pc |-> f.pc, batch |-> f.batch, after |-> f.after, full |-> f.full,
                required |-> f.required, joined |-> joined]
<1>1. PICK p, b, a, u, q : f = [pc |-> p, batch |-> b, after |-> a, full |-> u,
                                required |-> q, joined |-> f.joined]
  BY DEF GcShape
<1> QED BY <1>1

\* What a collection goes on with.
Resumed(f, B) ==
    [f EXCEPT !.pc = "members", !.batch = B, !.required = {}, !.joined = {}]

LEMMA ResumedIs ==
    ASSUME NEW f, GcShape(f), NEW B
    PROVE  Resumed(f, B) = [pc |-> "members", batch |-> B, after |-> f.after, full |-> f.full,
                            required |-> {}, joined |-> {}]
<1> DEFINE a == [f EXCEPT !.pc = "members"]
           b == [a EXCEPT !.batch = B]
           c == [b EXCEPT !.required = {}]
<1>1. a = [pc |-> "members", batch |-> f.batch, after |-> f.after, full |-> f.full,
           required |-> f.required, joined |-> f.joined]
  BY PcIs
<1> HIDE DEF a
<1>2. b = [pc |-> "members", batch |-> B, after |-> f.after, full |-> f.full,
           required |-> f.required, joined |-> f.joined]
  BY <1>1
<1> HIDE DEF b
<1>3. c = [pc |-> "members", batch |-> B, after |-> f.after, full |-> f.full,
           required |-> {}, joined |-> f.joined]
  BY <1>2
<1> HIDE DEF c
<1>4. [c EXCEPT !.joined = {}]
        = [pc |-> "members", batch |-> B, after |-> f.after, full |-> f.full,
           required |-> {}, joined |-> {}]
  BY <1>3
<1> QED BY <1>4 DEF a, b, c, Resumed

LEMMA DoneOK ==
    ASSUME IInv, Gentle, NEW r \in Replica, gc[r].pc \in At, NEW g, g = Done(r)
    PROVE  GcOK(g)'
<1> DEFINE rest == DOMAIN gc[r].batch \ {First(r)}
           B == [b \in rest |-> gc[r].batch[b]]
<1>0. /\ GcShape(gc[r]) /\ DOMAIN gc[r].batch \subseteq Blob
      /\ \A c \in DOMAIN gc[r].batch : Old(c, gc[r].batch[c])
  BY DEF IInv, GcOK
<1>1. CASE rest # {}
  <2>1. g = Resumed(gc[r], B)
    BY <1>1 DEF Done, Resumed
  <2>2. PICK m : m = B
    OBVIOUS
  <2>3. /\ DOMAIN m = rest /\ rest \subseteq Blob
        /\ \A c \in rest : m[c] = gc[r].batch[c] /\ Old(c, m[c])
    BY <1>0, <2>2
  <2>4. g = [pc |-> "members", batch |-> m, after |-> gc[r].after, full |-> gc[r].full,
             required |-> {}, joined |-> {}]
    BY <1>0, <2>1, <2>2, ResumedIs
  <2>5. GcShape(g) /\ g.pc = "members" /\ g.batch = m
    BY <2>4 DEF GcShape
  <2> HIDE DEF rest, B
  <2>6. \A c \in DOMAIN m : Old(c, m[c])'
    BY <2>3 DEF Old, Gentle
  <2> QED BY <1>1, <2>3, <2>5, <2>6 DEF GcOK
<1>2. CASE rest = {}
  <2>1. GcShape(g) /\ g.pc \in {"list", "release"}
    <3>1. \/ g = [Idle EXCEPT !.pc = "list", !.after = gc[r].after]
          \/ g = [Idle EXCEPT !.pc = "release"]
      BY <1>2 DEF Done
    <3> QED BY <3>1 DEF Idle, GcShape
  <2> QED BY <2>1 DEF GcOK, At
<1> QED BY <1>1, <1>2

-----------------------------------------------------------------------------
LEMMA RequestSteps ==
    ASSUME IInv, NEW q \in Request,
           \/ \E d \in Sender, n \in Size, s \in BOOLEAN : request_upload(q, d, n, s)
           \/ quota(q)
           \/ \E b \in Blob : save(q, b)
           \/ presigned_upload_url(q)
           \/ \E d \in Device, b \in Blob : confirm_download(q, d, b) \/ delete(q, d, b)
           \/ record_ack(q) \/ delete_object(q) \/ delete_row(q) \/ request_fails(q)
    PROVE  IInv'
<1>0. TablesOK /\ OrphansAreLate /\ ReqOK(req[q])
  BY DEF IInv
\* A step that only moves the request.
<1>a. ASSUME Still, UNCHANGED gc, NEW g, req' = [req EXCEPT ![q] = g], ReqOK(g)'
      PROVE  IInv'
  <2>1. Gentle /\ OrphansAreLate'
    BY <1>a, StillIsGentle
  <2>2. TablesOK'
    BY <1>0, <1>a DEF TablesOK, Still
  <2> QED BY <1>a, <2>1, <2>2, ReqFrame
<1>f. ReqOK(Free)'
  BY DEF ReqOK, Free
<1>1. ASSUME NEW d \in Sender, NEW n \in Size, NEW s \in BOOLEAN, request_upload(q, d, n, s)
      PROVE  IInv'
  <2>1. PICK g : g = [pc |-> "quota", dev |-> d, size |-> n, shared |-> s]
    OBVIOUS
  <2>2. ReqOK(g)'
    BY <2>1, MediaAssumption DEF ReqOK
  <2> QED BY <1>1, <1>a, <2>1, <2>2 DEF request_upload, Still, tables, bucket
<1>2. ASSUME quota(q) PROVE IInv'
  <2>1. req[q].pc = "quota" /\ Still /\ UNCHANGED gc
    BY <1>2 DEF quota, Still, tables, bucket
  <2>2. PICK over \in BOOLEAN :
           req' = [req EXCEPT ![q] = IF over THEN Free ELSE [req[q] EXCEPT !.pc = "save"]]
    BY <1>2 DEF quota
  <2>3. PICK g : g = IF over THEN Free ELSE [req[q] EXCEPT !.pc = "save"]
    OBVIOUS
  <2>4. ReqOK(g)'
    <3>1. CASE over
      BY <1>f, <2>3, <3>1
    <3>2. CASE ~over
      <4>1. PICK d, n, s : /\ req[q] = [pc |-> "quota", dev |-> d, size |-> n, shared |-> s]
                           /\ d \in Device /\ s \in BOOLEAN
        BY <1>0, <2>1 DEF ReqOK
      <4>2. g = [pc |-> "save", dev |-> d, size |-> n, shared |-> s]
        BY <2>3, <3>2, <4>1
      <4> QED BY <4>1, <4>2 DEF ReqOK
    <3> QED BY <3>1, <3>2
  <2> QED BY <1>a, <2>1, <2>2, <2>3, <2>4
<1>3. ASSUME NEW b \in Blob, save(q, b) PROVE IInv'
  <2>1. req[q].pc = "save" /\ age[b] = 0 /\ UNCHANGED <<members, age, acks, object, gc, stray>>
    BY <1>3 DEF save, bucket
  <2>2. CASE req[q].dev \notin devices
    BY <1>3, <1>a, <1>f, <2>1, <2>2 DEF save, Still
  <2>3. CASE req[q].dev \in devices
    <3> DEFINE m == [uploader |-> req[q].dev, shared |-> req[q].shared]
    <3>1. PICK g : g = [pc |-> "presign", blob |-> b]
      OBVIOUS
    <3>2. row' = [row EXCEPT ![b] = m] /\ req' = [req EXCEPT ![q] = g]
      BY <1>3, <2>3, <3>1 DEF save
    <3>3. m # None
      BY <1>0, <2>1, NoneAssumption DEF ReqOK, MediaBlob
    <3> HIDE DEF m
    <3>4. TablesOK'
      BY <1>0, <2>1, <3>2 DEF TablesOK
    <3>5. row'[b] = m /\ \A c \in Blob : c # b => row'[c] = row[c]
      BY <1>0, <3>2 DEF TablesOK
    <3>6. OrphansAreLate'
      BY <1>0, <2>1, <3>3, <3>5 DEF OrphansAreLate, TablesOK
    <3>7. Gentle
      BY <2>1, <3>5 DEF Gentle, Passed
    <3>8. ReqOK(g)'
      BY <3>1 DEF ReqOK
    <3> QED BY <2>1, <3>2, <3>4, <3>6, <3>7, <3>8, ReqFrame
  <2> QED BY <2>2, <2>3
<1>4. ASSUME presigned_upload_url(q) PROVE IInv'
  BY <1>4, <1>a, <1>f DEF presigned_upload_url, Still, tables
<1>5. ASSUME NEW d \in Device, NEW b \in Blob, confirm_download(q, d, b) PROVE IInv'
  <2>1. PICK g : g = [pc |-> "ack", dev |-> d, blob |-> b]
    OBVIOUS
  <2>2. ReqOK(g)'
    BY <2>1 DEF ReqOK
  <2> QED BY <1>5, <1>a, <2>1, <2>2 DEF confirm_download, Still, tables, bucket
<1>6. ASSUME NEW d \in Device, NEW b \in Blob, delete(q, d, b) PROVE IInv'
  <2>1. PICK g : g = [pc |-> "object", blob |-> b]
    OBVIOUS
  <2>2. ReqOK(g)'
    BY <2>1 DEF ReqOK
  <2> QED BY <1>6, <1>a, <2>1, <2>2 DEF delete, Still, tables, bucket
<1>7. ASSUME record_ack(q) PROVE IInv'
  <2>1. /\ UNCHANGED <<members, row, age, object, gc, stray>>
        /\ req' = [req EXCEPT ![q] = Free]
        /\ \/ acks' = acks
           \/ acks' = [acks EXCEPT ![req[q].blob] = @ \cup {req[q].dev}]
    BY <1>7 DEF record_ack, bucket
  <2>2. acks' = [b \in Blob |-> acks'[b]] /\ \A b \in Blob : acks[b] \subseteq acks'[b]
    BY <1>0, <2>1 DEF TablesOK
  <2>3. TablesOK'
    BY <1>0, <2>1, <2>2 DEF TablesOK
  <2>4. Gentle
    BY <2>1, <2>2 DEF Gentle, Passed
  <2>5. OrphansAreLate'
    BY <1>0, <2>1 DEF OrphansAreLate
  <2> QED BY <1>f, <2>1, <2>3, <2>4, <2>5, ReqFrame
<1>8. ASSUME delete_object(q) PROVE IInv'
  <2>1. PICK b \in Blob : req[q] = [pc |-> "object", blob |-> b]
    BY <1>0, <1>8 DEF ReqOK, delete_object
  <2>2. PICK g : g = [pc |-> "row", blob |-> b]
    OBVIOUS
  <2>3. req' = [req EXCEPT ![q] = g]
    <3>1. [req[q] EXCEPT !.pc = "row"] = g
      BY <2>1, <2>2
    <3>2. req' = [req EXCEPT ![q] = [req[q] EXCEPT !.pc = "row"]]
      BY <1>8 DEF delete_object
    <3> QED BY <3>1, <3>2
  <2>4. PICK gone \in {{}, {b}} :
           /\ gone = {} <=> row[b] = None
           /\ object' = object \ gone /\ stray' = stray \ gone
    <3>1. req[q].blob = b
      BY <2>1
    <3>2. LET x == IF row[b] = None THEN {} ELSE {b}
          IN  object' = object \ x /\ stray' = stray \ x
      BY <1>8, <3>1 DEF delete_object, DropObject
    <3> QED BY <3>2
  <2>5. UNCHANGED <<members, row, age, acks, gc>>
    BY <1>8 DEF delete_object, tables
  <2>6. TablesOK'
    BY <1>0, <2>3, <2>4, <2>5 DEF TablesOK
  <2>7. OrphansAreLate' /\ Gentle
    BY <1>0, <2>4, <2>5 DEF OrphansAreLate, Gentle, Passed
  <2>8. Passed(b)'
    BY <1>0, <2>4 DEF Passed, OrphansAreLate
  <2>9. ReqOK(g)'
    BY <2>2, <2>8 DEF ReqOK
  <2> QED BY <2>3, <2>5, <2>6, <2>7, <2>9, ReqFrame
<1>9. ASSUME delete_row(q) PROVE IInv'
  <2>1. PICK b \in Blob : req[q].blob = b /\ Passed(b)
    BY <1>0, <1>9 DEF ReqOK, delete_row
  <2>2. /\ row' = [row EXCEPT ![b] = None] /\ acks' = [acks EXCEPT ![b] = {}]
        /\ req' = [req EXCEPT ![q] = Free]
        /\ UNCHANGED <<members, age, object, gc, stray>>
    BY <1>9, <2>1 DEF delete_row, DropRow, bucket
  <2>3. /\ row'[b] = None
        /\ \A c \in Blob : c # b => row'[c] = row[c] /\ acks'[c] = acks[c]
    BY <1>0, <2>2 DEF TablesOK
  <2>4. TablesOK'
    BY <1>0, <2>2 DEF TablesOK
  <2>5. OrphansAreLate'
    BY <1>0, <2>1, <2>2, <2>3 DEF OrphansAreLate, Passed, TablesOK
  <2>6. Gentle
    BY <2>2, <2>3 DEF Gentle, Passed
  <2> QED BY <1>f, <2>2, <2>4, <2>5, <2>6, ReqFrame
<1>10. ASSUME request_fails(q) PROVE IInv'
  BY <1>10, <1>a, <1>f DEF request_fails, Still, tables, bucket
<1> QED BY <1>1, <1>2, <1>3, <1>4, <1>5, <1>6, <1>7, <1>8, <1>9, <1>10

LEMMA CollectionSteps ==
    ASSUME IInv, NEW r \in Replica,
           Collect(r) \/ gc_fails(r) \/ replica_dies(r) \/ session_dies(r)
    PROVE  IInv'
<1>0. TablesOK /\ OrphansAreLate /\ GcOK(gc[r]) /\ GcShape(gc[r])
  BY DEF IInv, GcOK
\* A step that only moves the collection.
<1>a. ASSUME Still, UNCHANGED req, NEW g, gc' = [gc EXCEPT ![r] = g], GcOK(g)'
      PROVE  IInv'
  <2>1. Gentle /\ OrphansAreLate'
    BY <1>a, StillIsGentle
  <2>2. TablesOK'
    BY <1>0, <1>a DEF TablesOK, Still
  <2> QED BY <1>a, <2>1, <2>2, GcFrame
<1>i. ASSUME NEW g, g \in {Idle, [Idle EXCEPT !.pc = "list"], [Idle EXCEPT !.pc = "release"]}
      PROVE  GcOK(g)'
  <2>1. GcShape(g) /\ g.pc \in {"idle", "list", "release"}
    BY <1>i DEF Idle, GcShape
  <2> QED BY <2>1 DEF GcOK, At
<1>h. ASSUME gc[r].pc \in At
      PROVE  /\ DOMAIN gc[r].batch # {} /\ DOMAIN gc[r].batch \subseteq Blob
             /\ \A c \in DOMAIN gc[r].batch : Old(c, gc[r].batch[c])
             /\ First(r) \in DOMAIN gc[r].batch /\ First(r) \in Blob
  BY <1>0, <1>h, HeadInPage DEF GcOK, First, Head
<1>1. CASE try_lock(r)
  <2>1. PICK g : g = [Idle EXCEPT !.pc = "list"]
    OBVIOUS
  <2>2. Still /\ UNCHANGED req /\ gc' = [gc EXCEPT ![r] = g]
    BY <1>1, <2>1 DEF try_lock, Goto, Still, tables, bucket
  <2>3. GcOK(g)'
    BY <1>i, <2>1
  <2> QED BY <1>a, <2>2, <2>3
<1>2. CASE list_gc_candidates(r)
  <2>1. Still /\ UNCHANGED req
    BY <1>2 DEF list_gc_candidates, Still, tables, bucket
  <2>2. PICK page, after : page = Page(gc[r].after) /\ gc' = [gc EXCEPT ![r] = FromPage(page, after)]
    BY <1>2 DEF list_gc_candidates, Goto
  <2>3. PICK g : g = FromPage(page, after)
    OBVIOUS
  <2>4. PICK m : m = [b \in page |-> row[b]]
    OBVIOUS
  <2>5. GcShape(g) /\ g.batch = m /\ g.pc = IF page = {} THEN "release" ELSE "members"
    <3>1. PICK pc, full : /\ g = [Idle EXCEPT !.pc = pc, !.batch = m, !.after = after, !.full = full]
                          /\ pc = IF page = {} THEN "release" ELSE "members"
      BY <2>3, <2>4 DEF FromPage
    <3>2. g = [pc |-> pc, batch |-> m, after |-> after, full |-> full,
               required |-> {}, joined |-> {}]
      BY <3>1 DEF Idle
    <3> QED BY <3>1, <3>2 DEF GcShape
  <2>6. page \subseteq Blob /\ \A c \in page : age[c] = 2
    BY <2>2 DEF Page, Expired
  <2>7. DOMAIN m = page /\ \A c \in page : Old(c, m[c])'
    BY <2>1, <2>4, <2>6 DEF Old, Still
  <2>8. GcOK(g)'
    BY <2>5, <2>6, <2>7 DEF GcOK, At
  <2> QED BY <1>a, <2>1, <2>2, <2>3, <2>8
<1>3. CASE read_members(r)
  <2>1. gc[r].pc = "members" /\ Still /\ UNCHANGED req
    BY <1>3 DEF read_members, Still, tables, bucket
  <2>h. /\ DOMAIN gc[r].batch # {} /\ DOMAIN gc[r].batch \subseteq Blob
        /\ \A c \in DOMAIN gc[r].batch : Old(c, gc[r].batch[c])
    BY <1>h, <2>1 DEF At
  <2>2. PICK b, required : b = First(r) /\ required = required_ackers(gc[r].batch[b])
    OBVIOUS
  <2>3. PICK pc : pc = IF required = {} THEN "object" ELSE "acks"
    OBVIOUS
  <2>4. PICK g : g = Read(gc[r], pc, required)
    OBVIOUS
  <2>5. gc' = [gc EXCEPT ![r] = g]
    BY <1>3, <2>2, <2>3, <2>4 DEF read_members, Goto, Read
  <2>6. PICK m : m = gc[r].batch
    OBVIOUS
  <2>7. /\ GcShape(g) /\ g.pc = pc /\ g.batch = m /\ g.required = required
    <3>1. g = [pc |-> pc, batch |-> gc[r].batch, after |-> gc[r].after, full |-> gc[r].full,
               required |-> required, joined |-> gc[r].joined]
      BY <1>0, <2>4, ReadIs
    <3> QED BY <2>6, <3>1 DEF GcShape
  <2>8. Head(g) = b
    BY <2>2, <2>6, <2>7 DEF Head, First
  <2>9. (m[b].shared => members \ {m[b].uploader} \subseteq required) /\ members' = members
    BY <2>1, <2>2, <2>6 DEF required_ackers, Still
  <2>10. \A S : Within(m[b], required \cup S)' /\ (required = {} => Within(m[b], S)')
    BY <2>9 DEF Within
  <2>11. \A c \in DOMAIN m : Old(c, m[c])'
    BY <2>1, <2>h, <2>6 DEF Old, Still
  <2>12. g.pc = "acks" => Within(g.batch[Head(g)], g.required \cup g.joined)'
    BY <2>7, <2>8, <2>10
  <2>13. g.pc = "object" => Within(g.batch[Head(g)], acks[Head(g)] \cup g.joined)'
    BY <2>3, <2>7, <2>8, <2>10
  <2>14. GcOK(g)'
    BY <2>3, <2>h, <2>6, <2>7, <2>11, <2>12, <2>13 DEF GcOK
  <2> QED BY <1>a, <2>1, <2>5, <2>14
<1>4. CASE read_acks(r)
  <2>1. gc[r].pc = "acks" /\ Still /\ UNCHANGED req
    BY <1>4 DEF read_acks, Still, tables, bucket
  <2>h. /\ DOMAIN gc[r].batch # {} /\ DOMAIN gc[r].batch \subseteq Blob
        /\ \A c \in DOMAIN gc[r].batch : Old(c, gc[r].batch[c])
    BY <1>h, <2>1 DEF At
  <2>2. CASE all_acked(r)
    <3>1. PICK g : g = [gc[r] EXCEPT !.pc = "object"]
      OBVIOUS
    <3>2. gc' = [gc EXCEPT ![r] = g]
      BY <1>4, <2>2, <3>1 DEF read_acks, Goto
    <3>3. PICK m, b : m = gc[r].batch /\ b = First(r)
      OBVIOUS
    <3>4. GcShape(g) /\ g.pc = "object" /\ g.batch = m /\ g.joined = gc[r].joined
      <4>1. g = [pc |-> "object", batch |-> gc[r].batch, after |-> gc[r].after,
                 full |-> gc[r].full, required |-> gc[r].required, joined |-> gc[r].joined]
        BY <1>0, <3>1, PcIs
      <4> QED BY <3>3, <4>1 DEF GcShape
    <3>5. Head(g) = b
      BY <3>3, <3>4 DEF Head, First
    <3>6. Within(m[b], gc[r].required \cup gc[r].joined)
      BY <1>0, <2>1, <3>3 DEF GcOK, Head, First
    <3>7. gc[r].required \subseteq acks[b] /\ members' = members /\ acks' = acks
      BY <2>1, <2>2, <3>3 DEF all_acked, Still
    <3>8. Within(g.batch[Head(g)], acks[Head(g)] \cup g.joined)'
      BY <3>4, <3>5, <3>6, <3>7 DEF Within
    <3>9. \A c \in DOMAIN m : Old(c, m[c])'
      BY <2>1, <2>h, <3>3 DEF Old, Still
    <3>10. GcOK(g)'
      BY <2>h, <3>3, <3>4, <3>8, <3>9 DEF GcOK
    <3> QED BY <1>a, <2>1, <3>2, <3>10
  <2>3. CASE ~all_acked(r)
    <3>1. PICK g : g = Done(r)
      OBVIOUS
    <3>2. gc' = [gc EXCEPT ![r] = g]
      BY <1>4, <2>3, <3>1 DEF read_acks, Goto
    <3>3. GcOK(g)'
      BY <2>1, <3>1, StillIsGentle, DoneOK DEF At
    <3> QED BY <1>a, <2>1, <3>2, <3>3
  <2> QED BY <2>2, <2>3
<1>5. CASE collect_object(r)
  <2>1. gc[r].pc = "object" /\ UNCHANGED <<members, row, age, acks, req>>
    BY <1>5 DEF collect_object, tables
  <2>h. /\ DOMAIN gc[r].batch # {} /\ DOMAIN gc[r].batch \subseteq Blob
        /\ \A c \in DOMAIN gc[r].batch : Old(c, gc[r].batch[c])
        /\ First(r) \in Blob
    BY <1>h, <2>1 DEF At
  <2>2. PICK m : m = gc[r].batch
    OBVIOUS
  <2>b. PICK b \in Blob : m = gc[r].batch /\ b = First(r)
    BY <2>h, <2>2
  <2>3. PICK gone \in {{}, {b}} :
           /\ gone = {} <=> row[b] = None
           /\ object' = object \ gone /\ stray' = stray \ gone
    <3>1. LET x == IF row[b] = None THEN {} ELSE {b}
          IN  object' = object \ x /\ stray' = stray \ x
      BY <1>5, <2>b DEF collect_object, DropObject
    <3> QED BY <3>1
  <2>4. PICK g : g = [gc[r] EXCEPT !.pc = "row"]
    OBVIOUS
  <2>5. gc' = [gc EXCEPT ![r] = g]
    BY <1>5, <2>4 DEF collect_object, Goto
  <2>6. GcShape(g) /\ g.pc = "row" /\ g.batch = m
    <3>1. g = [pc |-> "row", batch |-> gc[r].batch, after |-> gc[r].after,
               full |-> gc[r].full, required |-> gc[r].required, joined |-> gc[r].joined]
      BY <1>0, <2>4, PcIs
    <3> QED BY <2>b, <3>1 DEF GcShape
  <2>7. Head(g) = b
    BY <2>b, <2>6 DEF Head, First
  <2>8. Passed(b)'
    BY <1>0, <2>3 DEF Passed, OrphansAreLate
  <2>9. \A c \in DOMAIN m : Old(c, m[c])'
    BY <2>1, <2>h, <2>b DEF Old
  <2>10. GcOK(g)'
    BY <2>h, <2>b, <2>6, <2>7, <2>8, <2>9 DEF GcOK, Passed
  <2>11. TablesOK'
    BY <1>0, <2>1, <2>3, <2>5 DEF TablesOK
  <2>12. OrphansAreLate' /\ Gentle
    BY <1>0, <2>1, <2>3 DEF OrphansAreLate, Gentle, Passed
  <2> QED BY <2>1, <2>5, <2>10, <2>11, <2>12, GcFrame
<1>6. CASE collect_row(r)
  <2>1. gc[r].pc = "row" /\ UNCHANGED <<members, age, object, req, stray>>
    BY <1>6 DEF collect_row, bucket
  <2>2. PICK b \in Blob : b = First(r) /\ Passed(b)
    BY <1>0, <1>h, <2>1 DEF At, GcOK, Head, First
  <2>3. row' = [row EXCEPT ![b] = None] /\ acks' = [acks EXCEPT ![b] = {}]
    BY <1>6, <2>2 DEF collect_row, DropRow
  <2>4. /\ row'[b] = None
        /\ \A c \in Blob : c # b => row'[c] = row[c] /\ acks'[c] = acks[c]
    BY <1>0, <2>3 DEF TablesOK
  <2>5. PICK g : g = Done(r)
    OBVIOUS
  <2>6. gc' = [gc EXCEPT ![r] = g]
    BY <1>6, <2>5 DEF collect_row, Goto
  <2>7. TablesOK'
    BY <1>0, <2>1, <2>3, <2>6 DEF TablesOK
  <2>8. OrphansAreLate'
    BY <1>0, <2>1, <2>2, <2>4 DEF OrphansAreLate, Passed, TablesOK
  <2>9. Gentle
    BY <2>1, <2>4 DEF Gentle, Passed
  <2>10. GcOK(g)'
    BY <2>1, <2>5, <2>9, DoneOK DEF At
  <2> QED BY <2>1, <2>6, <2>7, <2>8, <2>9, <2>10, GcFrame
<1>7. CASE release(r) \/ gc_fails(r) \/ replica_dies(r)
  <2>1. Still /\ UNCHANGED req
    BY <1>7 DEF release, gc_fails, replica_dies, Still, tables, bucket
  <2>2. PICK g \in {Idle, [Idle EXCEPT !.pc = "release"]} : gc' = [gc EXCEPT ![r] = g]
    BY <1>7 DEF release, gc_fails, replica_dies, Goto
  <2>3. GcOK(g)'
    BY <1>i, <2>2
  <2> QED BY <1>a, <2>1, <2>2, <2>3
<1>8. CASE session_dies(r)
  <2>1. Still /\ UNCHANGED <<req, gc>>
    BY <1>8 DEF session_dies, Still, tables, bucket
  <2>2. TablesOK'
    BY <1>0, <2>1 DEF TablesOK, Still
  <2> QED BY <2>1, <2>2, StillIsGentle, WorldStep
<1> QED BY <1>1, <1>2, <1>3, <1>4, <1>5, <1>6, <1>7, <1>8 DEF Collect

\* A member joins: every collection that has read the members knows.
LEMMA JoinStep ==
    ASSUME IInv, NEW d \in Device, join(d)
    PROVE  IInv'
<1>0. TablesOK /\ OrphansAreLate
  BY DEF IInv
<1>1. /\ UNCHANGED <<row, age, acks, object, req, stray>>
      /\ members' = members \cup {d}
      /\ gc' = [r \in Replica |-> [gc[r] EXCEPT !.joined =
                                      IF gc[r].pc \in {"acks", "object", "row"}
                                      THEN @ \cup {d} ELSE @]]
  BY DEF join, bucket
<1>2. TablesOK' /\ OrphansAreLate'
  BY <1>0, <1>1 DEF TablesOK, OrphansAreLate
<1>3. ASSUME NEW q \in Request PROVE ReqOK(req[q])'
  BY <1>1 DEF IInv, ReqOK, Passed
<1>4. ASSUME NEW r \in Replica PROVE GcOK(gc[r])'
  <2>0. GcOK(gc[r]) /\ GcShape(gc[r])
    BY DEF IInv, GcOK
  <2>1. PICK f : f = gc[r]
    OBVIOUS
  <2>2. PICK j : j = IF f.pc \in {"acks", "object", "row"} THEN f.joined \cup {d} ELSE f.joined
    OBVIOUS
  <2>3. PICK g : g = [f EXCEPT !.joined = j]
    OBVIOUS
  <2>4. gc'[r] = g
    <3>1. gc'[r] = [gc[r] EXCEPT !.joined =
                       IF gc[r].pc \in {"acks", "object", "row"} THEN @ \cup {d} ELSE @]
      BY <1>1
    <3> QED BY <2>1, <2>2, <2>3, <3>1
  <2>5. /\ GcShape(g) /\ g.pc = f.pc /\ g.batch = f.batch /\ g.required = f.required
        /\ g.joined = j
    <3>1. g = [pc |-> f.pc, batch |-> f.batch, after |-> f.after, full |-> f.full,
               required |-> f.required, joined |-> j]
      BY <2>0, <2>1, <2>3, JoinedIs
    <3> QED BY <3>1 DEF GcShape
  <2>6. Head(g) = Head(f)
    BY <2>5 DEF Head
  <2>7. ASSUME NEW m, NEW S, Within(m, S \cup f.joined) PROVE Within(m, S \cup (f.joined \cup {d}))'
    BY <1>1, <2>7 DEF Within
  <2>8. g.pc = "acks" => Within(g.batch[Head(g)], g.required \cup g.joined)'
    <3> SUFFICES ASSUME g.pc = "acks" PROVE Within(g.batch[Head(g)], g.required \cup g.joined)'
      OBVIOUS
    <3>1. Within(f.batch[Head(f)], f.required \cup f.joined) /\ j = f.joined \cup {d}
      BY <2>0, <2>1, <2>2, <2>5 DEF GcOK
    <3> QED BY <2>5, <2>6, <2>7, <3>1
  <2>9. ASSUME g.pc = "object", row'[Head(g)] # None
        PROVE  Within(g.batch[Head(g)], acks[Head(g)] \cup g.joined)'
    <3>1. PICK S : S = acks[Head(f)]
      OBVIOUS
    <3>2. Within(f.batch[Head(f)], S \cup f.joined) /\ j = f.joined \cup {d}
      BY <1>1, <2>0, <2>1, <2>2, <2>5, <2>6, <2>9, <3>1 DEF GcOK
    <3>3. Within(f.batch[Head(f)], S \cup (f.joined \cup {d}))'
      BY <2>7, <3>2
    <3>4. acks'[Head(g)] = S
      BY <1>1, <2>6, <3>1
    <3> QED BY <2>5, <2>6, <3>2, <3>3, <3>4
  <2>10. g.pc = "row" => Passed(Head(g))'
    BY <1>1, <2>0, <2>1, <2>5, <2>6 DEF GcOK, Passed
  <2>11. g.pc \in At =>
            /\ DOMAIN g.batch # {} /\ DOMAIN g.batch \subseteq Blob
            /\ \A c \in DOMAIN g.batch : Old(c, g.batch[c])'
    BY <1>1, <2>0, <2>1, <2>5 DEF GcOK, Old
  <2>12. GcOK(g)'
    BY <2>5, <2>8, <2>9, <2>10, <2>11 DEF GcOK
  <2> QED BY <2>4, <2>12 DEF GcOK, GcShape, Head
<1> QED BY <1>2, <1>3, <1>4 DEF IInv

LEMMA OtherSteps ==
    ASSUME IInv,
           \/ \E b \in Blob : put(b) \/ pass_time(b)
           \/ \E d \in Device : leave(d) \/ delete_device(d)
           \/ trim_upload_ledger \/ UNCHANGED vars
    PROVE  IInv'
<1>0. TablesOK /\ OrphansAreLate
  BY DEF IInv
<1>1. ASSUME NEW b \in Blob, put(b) PROVE IInv'
  <2>1. /\ UNCHANGED <<members, row, age, acks, req, gc>>
        /\ object' = object \cup {b}
        /\ stray' = IF Deleting(b) THEN stray \cup {b} ELSE stray
    BY <1>1 DEF put, tables
  <2>2. row[b] = None => Deleting(b)
    BY DEF Deleting
  <2>3. TablesOK'
    BY <1>0, <2>1 DEF TablesOK
  <2>4. OrphansAreLate'
    BY <1>0, <2>1, <2>2 DEF OrphansAreLate
  <2>5. Gentle
    BY <2>1 DEF Gentle, Passed
  <2> QED BY <2>1, <2>3, <2>4, <2>5, WorldStep
<1>2. ASSUME NEW b \in Blob, pass_time(b) PROVE IInv'
  <2>1. /\ UNCHANGED <<members, row, acks, object, stray, req, gc>> /\ age[b] < 2
        /\ age' = [age EXCEPT ![b] = @ + 1]
    BY <1>2 DEF pass_time
  <2>2. age' \in [Blob -> 0..2] /\ \A c \in Blob : age[c] = 2 => age'[c] = 2
    BY <1>0, <2>1 DEF TablesOK
  <2>3. TablesOK' /\ OrphansAreLate'
    BY <1>0, <2>1, <2>2 DEF TablesOK, OrphansAreLate
  <2>4. Gentle
    BY <2>1, <2>2 DEF Gentle, Passed
  <2> QED BY <2>1, <2>3, <2>4, WorldStep
<1>3. ASSUME NEW d \in Device, leave(d) PROVE IInv'
  <2>1. UNCHANGED <<row, age, acks, object, stray, req, gc>> /\ members' \subseteq members
    BY <1>3 DEF leave, bucket
  <2>2. TablesOK' /\ OrphansAreLate'
    BY <1>0, <2>1 DEF TablesOK, OrphansAreLate
  <2>3. Gentle
    BY <2>1 DEF Gentle, Passed
  <2> QED BY <2>1, <2>2, <2>3, WorldStep
<1>4. ASSUME NEW d \in Device, delete_device(d) PROVE IInv'
  <2>1. PICK own \in SUBSET Blob :
           /\ row' = [b \in Blob |-> IF b \in own THEN None ELSE row[b]]
           /\ acks' = [b \in Blob |-> IF b \in own THEN {} ELSE acks[b] \ {d}]
           /\ stray' = stray \cup (own \cap object)
    BY <1>4 DEF delete_device
  <2>2. UNCHANGED <<age, object, req, gc>> /\ members' = members \ {d}
    BY <1>4 DEF delete_device, bucket
  <2>3. TablesOK'
    BY <1>0, <2>1, <2>2 DEF TablesOK
  <2>4. OrphansAreLate'
    BY <1>0, <2>1, <2>2 DEF TablesOK, OrphansAreLate
  <2>5. Gentle
    BY <2>1, <2>2 DEF Gentle, Passed
  <2> QED BY <2>2, <2>3, <2>4, <2>5, WorldStep
<1>5. ASSUME trim_upload_ledger \/ UNCHANGED vars PROVE IInv'
  <2>1. Still /\ UNCHANGED <<req, gc>>
    BY <1>5 DEF trim_upload_ledger, vars, tables, bucket, Still
  <2>2. TablesOK'
    BY <1>0, <2>1 DEF TablesOK, Still
  <2> QED BY <2>1, <2>2, StillIsGentle, WorldStep
<1> QED BY <1>1, <1>2, <1>3, <1>4, <1>5

LEMMA IInvHolds == Spec => []IInv
<1>1. Init => IInv
  <2> SUFFICES ASSUME Init PROVE IInv
    OBVIOUS
  <2>1. TablesOK /\ OrphansAreLate
    BY DEF Init, TablesOK, OrphansAreLate
  <2>2. ASSUME NEW q \in Request PROVE ReqOK(req[q])
    BY DEF Init, ReqOK, Free
  <2>3. ASSUME NEW r \in Replica PROVE GcOK(gc[r])
    <3>1. GcShape(gc[r]) /\ gc[r].pc = "idle"
      BY DEF Init, Idle, GcShape
    <3> QED BY <3>1 DEF GcOK, At
  <2> QED BY <2>1, <2>2, <2>3 DEF IInv
<1>2. IInv /\ [Next]_vars => IInv'
  BY RequestSteps, CollectionSteps, JoinStep, OtherSteps DEF Next
<1> QED BY <1>1, <1>2, PTL DEF Spec

\* An object without a row is one whose PUT landed after a delete had passed it, or whose
\* uploader's device was deleted: no failure between delete's two steps, no interleaving of
\* deletes, collections and uploads leaves another.
THEOREM NoOtherOrphans == Spec => []OrphansAreLate
<1>1. IInv => OrphansAreLate
  BY DEF IInv
<1> QED BY <1>1, IInvHolds, PTL

\* A blob's object goes while its row is there only because its uploader asked, or because
\* it is past the retention and acked by every member but those who joined after the
\* collection read the members: whatever else other collections, requests and members do
\* between the collection's reads and its deletion.
THEOREM CollectedIsAcked == Spec => UnackedIsKept
<1> DEFINE Allowed(b) ==
       \/ \E q \in Request : req[q].pc = "object" /\ req[q].blob = b
       \/ /\ age[b] = 2
          /\ \E r \in Replica :
                 /\ gc[r].pc = "object" /\ First(r) = b
                 /\ row[b].shared =>
                        members \ {row[b].uploader} \subseteq acks[b] \cup gc[r].joined
<1>1. IInv /\ [Next]_vars => [\A b \in object \ object' : Allowed(b)]_vars
  <2> SUFFICES ASSUME IInv, Next, NEW b \in object \ object' PROVE Allowed(b)
    OBVIOUS
  <2>1. ASSUME NEW q \in Request, delete_object(q) PROVE Allowed(b)
    BY <2>1 DEF delete_object, DropObject
  <2>2. ASSUME NEW r \in Replica, collect_object(r) PROVE Allowed(b)
    <3>1. gc[r].pc = "object" /\ b = First(r) /\ row[b] # None
      BY <2>2 DEF collect_object, DropObject
    <3>2. /\ DOMAIN gc[r].batch # {} /\ DOMAIN gc[r].batch \subseteq Blob
          /\ \A c \in DOMAIN gc[r].batch : Old(c, gc[r].batch[c])
          /\ Within(gc[r].batch[b], acks[b] \cup gc[r].joined)
      BY <3>1 DEF IInv, GcOK, At, Head, First
    <3>3. b \in DOMAIN gc[r].batch
      BY <3>1, <3>2, HeadInPage DEF Head, First
    <3>4. age[b] = 2 /\ row[b] = gc[r].batch[b]
      BY <3>1, <3>2, <3>3 DEF Old
    <3>5. row[b].shared => members \ {row[b].uploader} \subseteq acks[b] \cup gc[r].joined
      BY <3>2, <3>4 DEF Within
    <3> QED BY <3>1, <3>4, <3>5
  <2>3. CASE object \subseteq object'
    BY <2>3
  <2>4. \/ \E q \in Request : delete_object(q)
        \/ \E r \in Replica : collect_object(r)
        \/ object \subseteq object'
    BY DEF Next, Collect, request_upload, quota, save, presigned_upload_url, confirm_download,
           delete, record_ack, delete_row, request_fails, try_lock, list_gc_candidates,
           read_members, read_acks, collect_row, release, gc_fails, replica_dies, session_dies,
           put, pass_time, join, leave, delete_device, trim_upload_ledger, bucket
  <2> QED BY <2>1, <2>2, <2>3, <2>4
<1> QED BY <1>1, IInvHolds, PTL DEF Spec, UnackedIsKept

-----------------------------------------------------------------------------
(* What MapThenSumSet computes.  L holds a size for each element; induction is *)
(* by the least counterexample, on the number of elements.                    *)

Sum(L, T) == MapThenSumSet(LAMBDA b : L[b].size, T)

Pick(s) == CHOOSE x \in s : TRUE
Sums(L, T, g) ==
    g = [s \in SUBSET T |-> IF s = {} THEN 0 ELSE L[Pick(s)].size + g[s \ {Pick(s)}]]
Summed(L, T) == CHOOSE g : Sums(L, T, g)

LEMMA NatLeast ==
    ASSUME NEW S, S \subseteq Nat, S # {}
    PROVE  \E n \in S : \A m \in S : ~(m < n)
<1>1. PICK t \in S : \A u \in S : <<u, t>> \notin OpToRel(<, Nat)
  BY WFMin, NatLessThanWellFounded, Zenon
<1> QED BY <1>1, Zenon DEF OpToRel

LEMMA SumIs == \A L, T : Sum(L, T) = Summed(L, T)[T]
BY DEF Sum, MapThenSumSet, MapThenFoldSet, Summed, Sums, Pick

LEMMA PickFacts ==
    ASSUME NEW s, s # {}, IsFiniteSet(s)
    PROVE  /\ Pick(s) \in s /\ IsFiniteSet(s \ {Pick(s)})
           /\ Cardinality(s \ {Pick(s)}) < Cardinality(s)
<1>1. Pick(s) \in s
  BY DEF Pick
<1>2. PICK x \in s : x = Pick(s)
  BY <1>1
<1>3. /\ IsFiniteSet(s \ {x}) /\ Cardinality(s \ {x}) = Cardinality(s) - 1
      /\ Cardinality(s) \in Nat
  BY FS_RemoveElement, FS_CardinalityType
<1> QED BY <1>2, <1>3

LEMMA SumsFacts ==
    ASSUME NEW L, NEW T, NEW g, Sums(L, T, g), NEW s \in SUBSET T
    PROVE  /\ s = {} => g[s] = 0
           /\ s # {} => g[s] = L[Pick(s)].size + g[s \ {Pick(s)}]
BY DEF Sums

LEMMA SumsUnique ==
    ASSUME NEW L, NEW T, NEW g, NEW U, NEW k, Sums(L, T, g), Sums(L, U, k),
           NEW s, s \subseteq T, s \subseteq U, IsFiniteSet(s)
    PROVE  g[s] = k[s]
<1> DEFINE Bad == {n \in Nat : \E u \in SUBSET s : Cardinality(u) = n /\ g[u] # k[u]}
<1>1. SUFFICES Bad = {}
  BY FS_CardinalityType
<1>2. SUFFICES ASSUME Bad # {} PROVE FALSE
  OBVIOUS
<1>3. PICK n \in Bad : \A m \in Bad : ~(m < n)
  BY <1>2, NatLeast
<1>4. PICK u \in SUBSET s : Cardinality(u) = n /\ g[u] # k[u]
  BY <1>3
<1>5. IsFiniteSet(u)
  BY FS_Subset
<1>6. u # {}
  <2>1. PICK e : e = {}
    OBVIOUS
  <2>2. e \in SUBSET T /\ e \in SUBSET U
    BY <2>1
  <2>3. g[e] = 0 /\ k[e] = 0
    BY <2>1, <2>2, SumsFacts
  <2> QED BY <1>4, <2>1, <2>3, Zenon
<1>7. PICK w : w = u \ {Pick(u)}
  OBVIOUS
<1>8. w \in SUBSET s /\ Cardinality(w) < n /\ Cardinality(w) \in Nat
  BY <1>4, <1>5, <1>6, <1>7, PickFacts, FS_CardinalityType
<1>10. g[w] = k[w]
  BY <1>3, <1>8
<1>9. g[u] = L[Pick(u)].size + g[w] /\ k[u] = L[Pick(u)].size + k[w]
  BY <1>6, <1>7, SumsFacts
<1> QED BY <1>4, <1>9, <1>10

LEMMA SumsExist ==
    ASSUME NEW L, NEW T, IsFiniteSet(T)
    PROVE  Sums(L, T, Summed(L, T))
<1> DEFINE Good(s) == \E g : Sums(L, s, g)
           Bad == {n \in Nat : \E u \in SUBSET T : Cardinality(u) = n /\ ~Good(u)}
<1>1. SUFFICES Bad = {}
  <2>1. Good(T)
    BY <1>1, FS_CardinalityType
  <2> QED BY <2>1 DEF Summed
<1>2. SUFFICES ASSUME Bad # {} PROVE FALSE
  OBVIOUS
<1>3. PICK n \in Bad : \A m \in Bad : ~(m < n)
  BY <1>2, NatLeast
<1>4. PICK u \in SUBSET T : Cardinality(u) = n /\ ~Good(u)
  BY <1>3
<1>5. IsFiniteSet(u)
  BY FS_Subset
<1>6. ASSUME NEW s \in SUBSET u, s # u PROVE Sums(L, s, Summed(L, s)) /\ IsFiniteSet(s)
  <2>1. Cardinality(s) < n /\ Cardinality(s) \in Nat /\ IsFiniteSet(s)
    BY <1>4, <1>5, <1>6, FS_Subset, FS_CardinalityType
  <2>2. Good(s)
    BY <1>3, <2>1
  <2> QED BY <2>1, <2>2 DEF Summed
<1> DEFINE val(s) == Summed(L, s)[s]
           g == [s \in SUBSET u |-> IF s = {} THEN 0 ELSE L[Pick(s)].size + val(s \ {Pick(s)})]
<1>7. ASSUME NEW s \in SUBSET u, s # {}
      PROVE  s \ {Pick(s)} \in SUBSET u /\ s \ {Pick(s)} # u /\ Pick(s) \in s
  BY <1>7 DEF Pick
<1>8. ASSUME NEW s \in SUBSET u, s # u PROVE g[s] = val(s)
  <2>1. Sums(L, s, Summed(L, s)) /\ IsFiniteSet(s)
    BY <1>6, <1>8
  <2>2. CASE s = {}
    BY <2>1, <2>2, SumsFacts
  <2>3. CASE s # {}
    <3>1. PICK w : w = s \ {Pick(s)}
      OBVIOUS
    <3>2. w \in SUBSET u /\ w # u /\ w \in SUBSET s /\ IsFiniteSet(w)
      BY <1>7, <2>1, <2>3, <3>1, FS_Subset
    <3>3. Summed(L, s)[w] = Summed(L, w)[w]
      BY <1>6, <2>1, <3>2, SumsUnique
    <3>4. Summed(L, s)[s] = L[Pick(s)].size + Summed(L, s)[w]
      BY <2>1, <2>3, <3>1, SumsFacts
    <3> QED BY <2>3, <3>1, <3>3, <3>4
  <2> QED BY <2>2, <2>3
<1>9. Sums(L, u, g)
  <2>1. \A s \in SUBSET u : s # {} => g[s \ {Pick(s)}] = val(s \ {Pick(s)})
    BY <1>7, <1>8
  <2> HIDE DEF val
  <2>2. g = [s \in SUBSET u |-> IF s = {} THEN 0 ELSE L[Pick(s)].size + g[s \ {Pick(s)}]]
    BY <2>1
  <2> QED BY <2>2 DEF Sums
<1> HIDE DEF g
<1> QED BY <1>4, <1>9

LEMMA SumEmpty == \A L : Sum(L, {}) = 0
BY SumIs, SumsExist, SumsFacts, FS_EmptySet

\* The sum taken in the order of Pick.
LEMMA SumPick ==
    ASSUME NEW L, NEW T, IsFiniteSet(T), T # {}
    PROVE  Sum(L, T) = L[Pick(T)].size + Sum(L, T \ {Pick(T)})
<1>1. PICK w : w = T \ {Pick(T)}
  OBVIOUS
<1>2. w \subseteq T /\ IsFiniteSet(w)
  BY <1>1, PickFacts
<1>3. Sums(L, T, Summed(L, T)) /\ Sums(L, w, Summed(L, w))
  BY <1>2, SumsExist
<1>4. Summed(L, T)[w] = Summed(L, w)[w]
  BY <1>2, <1>3, SumsUnique
<1>5. Summed(L, T)[T] = L[Pick(T)].size + Summed(L, T)[w]
  BY <1>1, <1>3, SumsFacts
<1> QED BY <1>1, <1>4, <1>5, SumIs

Sized(L, T) == IsFiniteSet(T) /\ \A x \in T : L[x].size \in Nat

\* In any order.
LEMMA SumRemove ==
    ASSUME NEW L, NEW T, Sized(L, T)
    PROVE  /\ Sum(L, T) \in Nat
           /\ \A x \in T : /\ Sum(L, T) = L[x].size + Sum(L, T \ {x})
                          /\ Sum(L, T \ {x}) \in Nat
<1> DEFINE Good(s) == /\ Sum(L, s) \in Nat
                      /\ \A x \in s : /\ Sum(L, s) = L[x].size + Sum(L, s \ {x})
                                     /\ Sum(L, s \ {x}) \in Nat
           Bad == {n \in Nat : \E u \in SUBSET T : Cardinality(u) = n /\ ~Good(u)}
<1>1. SUFFICES Bad = {}
  <2>1. Good(T)
    BY <1>1, FS_CardinalityType DEF Sized
  <2> QED BY <2>1
<1>2. SUFFICES ASSUME Bad # {} PROVE FALSE
  OBVIOUS
<1>3. PICK n \in Bad : \A m \in Bad : ~(m < n)
  BY <1>2, NatLeast
<1>4. PICK u \in SUBSET T : Cardinality(u) = n /\ ~Good(u)
  BY <1>3
<1>5. IsFiniteSet(u)
  BY FS_Subset DEF Sized
<1>6. ASSUME NEW s \in SUBSET u, s # u PROVE Good(s) /\ IsFiniteSet(s)
  <2>1. Cardinality(s) < n /\ Cardinality(s) \in Nat /\ IsFiniteSet(s)
    BY <1>4, <1>5, <1>6, FS_Subset, FS_CardinalityType
  <2> QED BY <1>3, <2>1
<1>7. u # {}
  BY <1>4, SumEmpty
<1>8. PICK y \in u : y = Pick(u)
  BY <1>5, <1>7, PickFacts
<1>9. L[y].size \in Nat /\ \A x \in u : L[x].size \in Nat
  BY DEF Sized
<1>10. Sum(L, u) = L[y].size + Sum(L, u \ {y}) /\ Sum(L, u \ {y}) \in Nat
  <2>1. Good(u \ {y})
    BY <1>6
  <2> QED BY <1>5, <1>7, <1>8, <2>1, SumPick
<1>11. ASSUME NEW x \in u, x # y
       PROVE  Sum(L, u) = L[x].size + Sum(L, u \ {x}) /\ Sum(L, u \ {x}) \in Nat
  <2>1. PICK w : w = (u \ {y}) \ {x}
    OBVIOUS
  <2>2. w = (u \ {x}) \ {y} /\ x \in u \ {y} /\ y \in u \ {x}
    BY <1>11, <2>1
  <2>3. Good(u \ {y}) /\ Good(u \ {x})
    BY <1>6
  <2>4. /\ Sum(L, u \ {y}) = L[x].size + Sum(L, w) /\ Sum(L, w) \in Nat
        /\ Sum(L, u \ {x}) = L[y].size + Sum(L, w) /\ Sum(L, u \ {x}) \in Nat
    BY <2>1, <2>2, <2>3
  <2> QED BY <1>9, <1>10, <2>4
<1>12. Good(u)
  <2>1. Sum(L, u) \in Nat
    BY <1>9, <1>10
  <2>2. \A x \in u : Sum(L, u) = L[x].size + Sum(L, u \ {x}) /\ Sum(L, u \ {x}) \in Nat
    BY <1>10, <1>11, Zenon
  <2> QED BY <2>1, <2>2
<1> QED BY <1>4, <1>12

LEMMA SumAdd ==
    ASSUME NEW L, NEW T, Sized(L, T), NEW x, x \notin T, L[x].size \in Nat
    PROVE  /\ Sum(L, T \cup {x}) = L[x].size + Sum(L, T) /\ Sum(L, T) \in Nat
           /\ Sized(L, T \cup {x})
<1>1. Sized(L, T \cup {x})
  BY FS_AddElement DEF Sized
<1>2. (T \cup {x}) \ {x} = T
  OBVIOUS
<1> QED BY <1>1, <1>2, SumRemove

\* A step that leaves the sizes of what it keeps alone sums to no more.
LEMMA SumShrinks ==
    ASSUME NEW L, NEW M, NEW T, Sized(L, T), NEW U \in SUBSET T,
           \A x \in U : M[x].size = L[x].size
    PROVE  Sum(M, U) <= Sum(L, T) /\ Sized(M, U) /\ Sum(M, U) \in Nat
<1> DEFINE Good(s) == Sum(M, s \cap U) <= Sum(L, s)
           Bad == {n \in Nat : \E u \in SUBSET T : Cardinality(u) = n /\ ~Good(u)}
<1>1. IsFiniteSet(T) /\ IsFiniteSet(U) /\ Sized(M, U) /\ Sum(M, U) \in Nat
  <2>1. IsFiniteSet(T) /\ IsFiniteSet(U)
    BY FS_Subset DEF Sized
  <2>2. Sized(M, U)
    BY <2>1 DEF Sized
  <2> QED BY <2>1, <2>2, SumRemove
<1>2. ASSUME Bad # {} PROVE FALSE
  <2>1. PICK n \in Bad : \A m \in Bad : ~(m < n)
    BY <1>2, NatLeast
  <2>2. PICK u \in SUBSET T : Cardinality(u) = n /\ ~Good(u)
    BY <2>1
  <2>3. IsFiniteSet(u) /\ IsFiniteSet(u \cap U)
    BY <1>1, FS_Subset
  <2>4. u # {}
    <3>1. Sum(M, {}) = 0 /\ Sum(L, {}) = 0 /\ {} \cap U = {}
      BY SumEmpty
    <3> QED BY <2>2, <3>1
  <2>5. PICK x \in u : TRUE
    BY <2>4
  <2>6. PICK w \in SUBSET T : w = u \ {x}
    OBVIOUS
  <2>7. Cardinality(w) < n /\ Cardinality(w) \in Nat /\ IsFiniteSet(w)
    <3>1. IsFiniteSet(u \ {x}) /\ Cardinality(u \ {x}) = n - 1 /\ n \in Nat
      BY <2>2, <2>3, <2>5, FS_RemoveElement, FS_CardinalityType
    <3>2. Cardinality(w) = n - 1 /\ IsFiniteSet(w)
      BY <2>6, <3>1, Zenon
    <3> QED BY <3>1, <3>2, FS_CardinalityType
  <2>8. Good(w)
    BY <2>1, <2>7
  <2>9. Sized(L, u) /\ Sized(M, u \cap U)
    BY <1>1, <2>3 DEF Sized
  <2>10. Sum(L, u) = L[x].size + Sum(L, w) /\ Sum(L, w) \in Nat /\ L[x].size \in Nat
    BY <2>6, <2>9, SumRemove DEF Sized
  <2>11. CASE x \in U
    <3>1. x \in u \cap U /\ w \cap U = (u \cap U) \ {x}
      BY <2>6, <2>11
    <3>2. Sum(M, u \cap U) = M[x].size + Sum(M, w \cap U) /\ Sum(M, w \cap U) \in Nat
      BY <2>9, <3>1, SumRemove
    <3> QED BY <2>2, <2>8, <2>10, <2>11, <3>2
  <2>12. CASE x \notin U
    <3>1. w \cap U = u \cap U
      BY <2>6, <2>12
    <3>2. Sum(M, u \cap U) \in Nat
      BY <2>9, SumRemove
    <3>3. Sum(M, w \cap U) = Sum(M, u \cap U)
      BY <3>1, Zenon
    <3> QED BY <2>2, <2>8, <2>10, <3>2, <3>3
  <2> QED BY <2>11, <2>12
<1>3. Good(T)
  BY <1>1, <1>2, FS_CardinalityType
<1>4. T \cap U = U
  OBVIOUS
<1> QED BY <1>1, <1>3, <1>4

LEMMA SumSame ==
    ASSUME NEW L, NEW M, NEW T, Sized(L, T), \A x \in T : M[x].size = L[x].size
    PROVE  Sum(M, T) = Sum(L, T) /\ Sum(L, T) \in Nat
<1>1. Sum(M, T) <= Sum(L, T) /\ Sum(M, T) \in Nat /\ Sized(M, T)
  BY SumShrinks
<1>2. Sum(L, T) <= Sum(M, T) /\ Sum(L, T) \in Nat
  BY <1>1, SumShrinks
<1> QED BY <1>1, <1>2

LEMMA SumBound ==
    ASSUME NEW L, NEW T, Sized(L, T), NEW m \in Nat, \A x \in T : L[x].size <= m
    PROVE  Sum(L, T) <= Cardinality(T) * m /\ Cardinality(T) \in Nat
<1> DEFINE Bad == {n \in Nat : \E u \in SUBSET T : Cardinality(u) = n /\ ~(Sum(L, u) <= n * m)}
<1>1. IsFiniteSet(T)
  BY DEF Sized
<1>2. ASSUME Bad # {} PROVE FALSE
  <2>1. PICK n \in Bad : \A i \in Bad : ~(i < n)
    BY <1>2, NatLeast
  <2>2. PICK u \in SUBSET T : Cardinality(u) = n /\ ~(Sum(L, u) <= n * m)
    BY <2>1
  <2>3. IsFiniteSet(u)
    BY <1>1, FS_Subset
  <2>4. u # {}
    <3>1. SUFFICES ASSUME u = {} PROVE FALSE
      OBVIOUS
    <3>2. Sum(L, u) = 0 /\ n = 0
      BY <2>2, <3>1, SumEmpty, FS_EmptySet, Zenon
    <3> QED BY <2>2, <3>2
  <2>5. PICK x \in u : TRUE
    BY <2>4
  <2>6. PICK w \in SUBSET T : w = u \ {x}
    OBVIOUS
  <2>7. Cardinality(w) = n - 1 /\ Cardinality(w) \in Nat /\ IsFiniteSet(w)
    <3>1. IsFiniteSet(u \ {x}) /\ Cardinality(u \ {x}) = n - 1
      BY <2>2, <2>3, <2>5, FS_RemoveElement, FS_CardinalityType
    <3>2. Cardinality(w) = n - 1 /\ IsFiniteSet(w)
      BY <2>6, <3>1, Zenon
    <3> QED BY <3>2, FS_CardinalityType
  <2>8. Sum(L, w) <= (n - 1) * m
    BY <2>1, <2>7
  <2>9. Sized(L, u)
    BY <2>3 DEF Sized
  <2>10. /\ Sum(L, u) = L[x].size + Sum(L, w) /\ Sum(L, w) \in Nat
         /\ L[x].size \in Nat /\ L[x].size <= m
    <3>1. Sum(L, u) = L[x].size + Sum(L, u \ {x}) /\ Sum(L, u \ {x}) \in Nat
      BY <2>9, SumRemove
    <3>2. L[x].size \in Nat /\ L[x].size <= m
      BY DEF Sized
    <3> QED BY <2>6, <3>1, <3>2, Zenon
  <2>11. (n - 1) * m = n * m - m /\ n * m \in Int
    BY <2>1
  <2> QED BY <2>2, <2>8, <2>10, <2>11
<1> QED BY <1>1, <1>2, FS_CardinalityType

-----------------------------------------------------------------------------
(* The quota.  What a device has uploaded today and what its requests past the *)
(* quota check are about to add.                                               *)

Pending(d) == {q \in Request : req[q].pc = "save" /\ req[q].dev = d}
Allowance == QUOTA + (Cardinality(Request) - 1) * Max(Size)

SizesOK ==
    /\ ledger = [b \in Blob |-> ledger[b]]
    /\ \A b \in Blob : ledger[b] # None => ledger[b].size \in Size
    /\ \A q \in Request : req[q].pc \in {"quota", "save"} => req[q].size \in Size

QuotaInv ==
    /\ SizesOK
    /\ \A d \in Device :
           Sum(ledger, UploadedToday(d)) + Sum(req, Pending(d)) <= Allowance

LEMMA FiniteBound ==
    ASSUME NEW S, IsFiniteSet(S), S \subseteq Nat
    PROVE  \E m \in Nat : \A n \in S : n <= m
<1> DEFINE Good(s) == \E m \in Nat : \A n \in s : n <= m
           Bad == {i \in Nat : \E u \in SUBSET S : Cardinality(u) = i /\ ~Good(u)}
<1>1. ASSUME Bad # {} PROVE FALSE
  <2>1. PICK i \in Bad : \A j \in Bad : ~(j < i)
    BY <1>1, NatLeast
  <2>2. PICK u \in SUBSET S : Cardinality(u) = i /\ ~Good(u)
    BY <2>1
  <2>3. PICK x \in u : TRUE
    BY <2>2
  <2>4. IsFiniteSet(u)
    BY FS_Subset
  <2>5. IsFiniteSet(u \ {x}) /\ Cardinality(u \ {x}) = i - 1 /\ Cardinality(u \ {x}) \in Nat
    BY <2>2, <2>3, <2>4, FS_RemoveElement, FS_CardinalityType
  <2>6. Good(u \ {x})
    BY <2>1, <2>5
  <2>7. PICK m \in Nat : \A n \in u \ {x} : n <= m
    BY <2>6
  <2>8. PICK k \in Nat : m <= k /\ x <= k
    <3>1. x \in Nat
      BY <2>3
    <3> QED BY <3>1, <2>7
  <2>9. \A n \in u : n <= k
    BY <2>7, <2>8
  <2> QED BY <2>2, <2>9
<1> QED BY <1>1, FS_CardinalityType

LEMMA SizeFacts ==
    /\ Max(Size) \in Nat /\ \A n \in Size : n \in Nat /\ n <= Max(Size)
    /\ Cardinality(Request) \in Nat /\ Cardinality(Request) >= 1
    /\ Allowance \in Nat /\ QUOTA \in Nat
<1>1. PICK k \in Size : \A n \in Size : k >= n
  <2>1. Size \subseteq Nat /\ Size # {} /\ IsFiniteSet(Size)
    BY MediaAssumption
  <2> DEFINE Above == {m \in Nat : \A n \in Size : n <= m}
  <2>2. PICK s \in Size : TRUE
    BY <2>1
  <2>3. Above # {}
    BY <2>1, FiniteBound
  <2>4. PICK m \in Above : \A i \in Above : ~(i < m)
    BY <2>3, NatLeast
  <2>5. CASE m \in Size
    BY <2>1, <2>4, <2>5
  <2>6. CASE m \notin Size
    <3>1. m # 0 /\ \A n \in Size : n <= m - 1
      BY <2>1, <2>2, <2>4, <2>6
    <3>2. m - 1 \in Above /\ m - 1 < m
      BY <2>4, <3>1
    <3> QED BY <2>4, <3>2
  <2> QED BY <2>5, <2>6
<1>2. Max(Size) \in Size /\ \A n \in Size : Max(Size) >= n
  BY <1>1 DEF Max
<1>3. Max(Size) \in Nat /\ \A n \in Size : n \in Nat /\ n <= Max(Size)
  BY <1>2, MediaAssumption
<1>4. Cardinality(Request) \in Nat /\ Cardinality(Request) >= 1
  BY MediaAssumption, FS_CardinalityType, FS_EmptySet
<1>5. PICK c \in Nat : c = Cardinality(Request) - 1
  BY <1>4
<1>6. c * Max(Size) \in Nat
  BY <1>3, <1>5
<1> QED BY <1>3, <1>4, <1>5, <1>6, MediaAssumption DEF Allowance

LEMMA TodayFacts ==
    ASSUME SizesOK, NEW d
    PROVE  /\ Sized(ledger, UploadedToday(d)) /\ Sized(req, Pending(d))
           /\ UploadedToday(d) \subseteq Blob /\ Pending(d) \subseteq Request
           /\ Sum(ledger, UploadedToday(d)) \in Nat /\ Sum(req, Pending(d)) \in Nat
           /\ \A q \in Pending(d) : req[q].size <= Max(Size)
<1>1. UploadedToday(d) \subseteq Blob /\ Pending(d) \subseteq Request
  BY DEF UploadedToday, Pending
<1>2. IsFiniteSet(UploadedToday(d)) /\ IsFiniteSet(Pending(d))
  BY <1>1, MediaAssumption, FS_Subset
<1>3. Sized(ledger, UploadedToday(d)) /\ Sized(req, Pending(d))
  BY <1>2, SizeFacts DEF Sized, UploadedToday, Pending, SizesOK
<1>4. \A q \in Pending(d) : req[q].size <= Max(Size)
  BY SizeFacts DEF Pending, SizesOK
<1> QED BY <1>1, <1>3, <1>4, SumRemove

\* Nothing is added.
LEMMA QuotaShrinks ==
    ASSUME QuotaInv, SizesOK',
           \A b \in Blob : age'[b] = 0 /\ ledger'[b] # None => age[b] = 0 /\ ledger'[b] = ledger[b],
           \A q \in Request : req'[q].pc = "save" => req'[q] = req[q]
    PROVE  QuotaInv'
<1> SUFFICES ASSUME NEW d \in Device
             PROVE  Sum(ledger', UploadedToday(d)') + Sum(req', Pending(d)') <= Allowance
  BY DEF QuotaInv, Allowance
<1>1. PICK T : T = UploadedToday(d)'
  OBVIOUS
<1>2. PICK P : P = Pending(d)'
  OBVIOUS
<1>3. T \in SUBSET UploadedToday(d) /\ \A b \in T : ledger'[b].size = ledger[b].size
  BY <1>1 DEF UploadedToday
<1>4. P \in SUBSET Pending(d) /\ \A q \in P : req'[q].size = req[q].size
  BY <1>2 DEF Pending
<1>5. /\ Sized(ledger, UploadedToday(d)) /\ Sized(req, Pending(d))
      /\ Sum(ledger, UploadedToday(d)) \in Nat /\ Sum(req, Pending(d)) \in Nat
  BY TodayFacts DEF QuotaInv
<1>6. Sum(ledger', T) <= Sum(ledger, UploadedToday(d)) /\ Sum(ledger', T) \in Nat
  BY <1>3, <1>5, SumShrinks
<1>7. Sum(req', P) <= Sum(req, Pending(d)) /\ Sum(req', P) \in Nat
  BY <1>4, <1>5, SumShrinks
<1>8. Sum(ledger', T) + Sum(req', P) <= Allowance
  BY <1>5, <1>6, <1>7, SizeFacts DEF QuotaInv
<1> QED BY <1>1, <1>2, <1>8, Zenon

\* A request passes the check: it fits the quota by itself, and each of the others adds
\* at most one blob.
LEMMA QuotaPasses ==
    ASSUME IInv, QuotaInv, NEW q \in Request, quota(q)
    PROVE  QuotaInv'
<1>1. /\ req[q].pc = "quota" /\ UNCHANGED <<ledger, age>>
      /\ req = [x \in Request |-> req[x]] /\ ReqOK(req[q])
  BY DEF quota, tables, IInv, TablesOK
<1>2. PICK d, n, s : /\ req[q] = [pc |-> "quota", dev |-> d, size |-> n, shared |-> s]
                     /\ d \in Device /\ n \in Size
  BY <1>1 DEF ReqOK, QuotaInv, SizesOK
<1>3. CASE req' = [req EXCEPT ![q] = Free]
  <2>1. SizesOK'
    BY <1>1, <1>3 DEF QuotaInv, SizesOK, Free
  <2> QED BY <1>1, <1>3, <2>1, QuotaShrinks DEF Free
<1>4. CASE req' = [req EXCEPT ![q] = [req[q] EXCEPT !.pc = "save"]]
          /\ ~(sum_bytes_uploaded_since(d) + n > QUOTA)
  <2>1. PICK g : g = [pc |-> "save", dev |-> d, size |-> n, shared |-> s]
    OBVIOUS
  <2>2. req'[q] = g /\ \A x \in Request \ {q} : req'[x] = req[x]
    BY <1>1, <1>2, <1>4, <2>1
  <2>3. SizesOK'
    BY <1>1, <1>2, <2>1, <2>2 DEF QuotaInv, SizesOK
  <2> SUFFICES ASSUME NEW e \in Device
               PROVE  Sum(ledger', UploadedToday(e)') + Sum(req', Pending(e)') <= Allowance
    BY <2>3 DEF QuotaInv, Allowance
  <2>4. UploadedToday(e)' = UploadedToday(e) /\ ledger' = ledger
    BY <1>1 DEF UploadedToday
  <2>5. /\ Sized(req, Pending(e)) /\ Sum(ledger, UploadedToday(e)) \in Nat
        /\ Sum(req, Pending(e)) \in Nat /\ \A x \in Pending(e) : req[x].size <= Max(Size)
        /\ Pending(e) \subseteq Request
    BY TodayFacts DEF QuotaInv
  <2>6. q \notin Pending(e) /\ \A x \in Pending(e) : req'[x] = req[x]
    BY <1>2, <2>2 DEF Pending
  <2>7. /\ Sum(req', Pending(e)) = Sum(req, Pending(e)) /\ Sized(req', Pending(e))
    BY <2>5, <2>6, SumSame, SumShrinks
  <2>8. CASE e # d
    <3>1. Pending(e)' = Pending(e)
      BY <1>2, <2>1, <2>2, <2>8 DEF Pending
    <3>2. /\ Sum(ledger', UploadedToday(e)') = Sum(ledger, UploadedToday(e))
          /\ Sum(req', Pending(e)') = Sum(req, Pending(e))
      BY <2>4, <2>7, <3>1, Zenon
    <3> QED BY <3>2 DEF QuotaInv
  <2>9. CASE e = d
    <3>1. Pending(e)' = Pending(e) \cup {q}
      BY <2>1, <2>2, <2>9 DEF Pending
    <3>2. req'[q].size = n /\ n \in Nat /\ n <= Max(Size)
      BY <1>2, <2>1, <2>2, SizeFacts
    <3>3. Sum(req', Pending(e) \cup {q}) = n + Sum(req, Pending(e))
      BY <2>6, <2>7, <3>2, SumAdd
    <3>4. PICK k \in Nat : k = Cardinality(Pending(e)) /\ k <= Cardinality(Request) - 1
      <4>1. Pending(e) \in SUBSET (Request \ {q}) /\ IsFiniteSet(Request)
        BY <2>5, <2>6, MediaAssumption
      <4>2. Cardinality(Request \ {q}) = Cardinality(Request) - 1 /\ IsFiniteSet(Request \ {q})
        BY <4>1, FS_RemoveElement
      <4>3. Cardinality(Pending(e)) <= Cardinality(Request \ {q}) /\ IsFiniteSet(Pending(e))
        BY <4>1, <4>2, FS_Subset
      <4> QED BY <4>2, <4>3, FS_CardinalityType
    <3>5. Sum(req, Pending(e)) <= k * Max(Size)
      BY <2>5, <3>4, SizeFacts, SumBound
    <3>6. k * Max(Size) <= (Cardinality(Request) - 1) * Max(Size)
      <4>1. PICK c \in Nat, m \in Nat : c = Cardinality(Request) - 1 /\ m = Max(Size) /\ k <= c
        BY <3>4, SizeFacts
      <4>2. k * m <= c * m
        BY <4>1
      <4> QED BY <4>1, <4>2
    <3>7. Sum(ledger, UploadedToday(e)) + n <= QUOTA
      <4>1. sum_bytes_uploaded_since(d) = Sum(ledger, UploadedToday(d))
        BY DEF sum_bytes_uploaded_since, Bytes, Sum
      <4> QED BY <1>4, <2>5, <2>9, <3>2, <4>1, SizeFacts
    <3>8. PICK l \in Nat, p \in Nat, c \in Nat :
             /\ l = Sum(ledger, UploadedToday(e)) /\ p = Sum(req, Pending(e))
             /\ c = (Cardinality(Request) - 1) * Max(Size)
      <4>1. PICK i \in Nat, m \in Nat : i = Cardinality(Request) - 1 /\ m = Max(Size)
        BY SizeFacts
      <4>2. i * m \in Nat
        BY <4>1
      <4> QED BY <2>5, <4>1, <4>2
    <3>9. p <= c
      <4>1. PICK z \in Nat : z = k * Max(Size)
        BY SizeFacts
      <4> QED BY <3>5, <3>6, <3>8, <4>1
    <3>10. l + (n + p) <= QUOTA + c
      BY <3>2, <3>7, <3>8, <3>9, SizeFacts
    <3>11. Sum(ledger', UploadedToday(e)') = l /\ Sum(req', Pending(e)') = n + p
      BY <2>4, <3>1, <3>3, <3>8, Zenon
    <3> QED BY <3>8, <3>10, <3>11 DEF Allowance
  <2> QED BY <2>8, <2>9
<1>5. req[q].dev = d /\ req[q].size = n
  BY <1>2
<1>6. CASE sum_bytes_uploaded_since(d) + n > QUOTA
  BY <1>3, <1>5, <1>6, Zenon DEF quota
<1>7. CASE ~(sum_bytes_uploaded_since(d) + n > QUOTA)
  BY <1>4, <1>5, <1>7, Zenon DEF quota
<1> QED BY <1>6, <1>7

\* What the request was about to add is now in the ledger.
LEMMA QuotaSaves ==
    ASSUME IInv, QuotaInv, NEW q \in Request, NEW b \in Blob, save(q, b)
    PROVE  QuotaInv'
<1>1. /\ req[q].pc = "save" /\ ledger[b] = None /\ age[b] = 0 /\ UNCHANGED age
      /\ req = [x \in Request |-> req[x]] /\ ReqOK(req[q]) /\ SizesOK
  BY DEF save, IInv, TablesOK, QuotaInv
<1>2. PICK d, n, s : /\ req[q] = [pc |-> "save", dev |-> d, size |-> n, shared |-> s]
                     /\ d \in Device /\ n \in Size
  BY <1>1 DEF ReqOK, QuotaInv, SizesOK
<1>3. CASE req[q].dev \notin devices
  <2>1. req' = [req EXCEPT ![q] = Free] /\ UNCHANGED ledger
    BY <1>3 DEF save
  <2>2. SizesOK'
    BY <1>1, <2>1 DEF SizesOK, Free
  <2> QED BY <1>1, <2>1, <2>2, QuotaShrinks DEF Free
<1>4. CASE req[q].dev \in devices
  <2>1. PICK g : g = [dev |-> d, size |-> n]
    OBVIOUS
  <2>2. PICK f : f = [pc |-> "presign", blob |-> b]
    OBVIOUS
  <2>3. ledger' = [ledger EXCEPT ![b] = g] /\ req' = [req EXCEPT ![q] = f]
    <3>1. req[q].dev = d /\ req[q].size = n
      BY <1>2
    <3> QED BY <1>4, <2>1, <2>2, <3>1, Zenon DEF save
  <2>4. g.dev = d /\ g.size = n /\ f.pc = "presign"
    BY <2>1, <2>2
  <2>5. /\ ledger'[b] = g /\ \A c \in Blob \ {b} : ledger'[c] = ledger[c]
        /\ req'[q] = f /\ \A x \in Request \ {q} : req'[x] = req[x]
    BY <1>1, <2>3 DEF SizesOK
  <2>6. SizesOK'
    BY <1>1, <1>2, <2>3, <2>4, <2>5 DEF SizesOK
  <2> SUFFICES ASSUME NEW e \in Device
               PROVE  Sum(ledger', UploadedToday(e)') + Sum(req', Pending(e)') <= Allowance
    BY <2>6 DEF QuotaInv, Allowance
  <2>7. /\ Sized(ledger, UploadedToday(e)) /\ Sized(req, Pending(e))
        /\ Sum(ledger, UploadedToday(e)) \in Nat /\ Sum(req, Pending(e)) \in Nat
    BY <1>1, TodayFacts
  <2>8. /\ b \notin UploadedToday(e)
        /\ \A c \in UploadedToday(e) : ledger'[c].size = ledger[c].size
    BY <1>1, <2>5 DEF UploadedToday
  <2>9. /\ Sum(ledger', UploadedToday(e)) = Sum(ledger, UploadedToday(e))
        /\ Sized(ledger', UploadedToday(e))
    BY <2>7, <2>8, SumSame, SumShrinks
  <2>10. CASE e # d
    <3>1. UploadedToday(e)' = UploadedToday(e) /\ Pending(e)' = Pending(e)
      BY <1>1, <1>2, <2>4, <2>5, <2>10 DEF UploadedToday, Pending
    <3>2. \A x \in Pending(e) : req'[x].size = req[x].size
      BY <1>2, <2>5, <2>10 DEF Pending
    <3>3. Sum(req', Pending(e)) = Sum(req, Pending(e))
      BY <2>7, <3>2, SumSame
    <3>4. /\ Sum(ledger', UploadedToday(e)') = Sum(ledger, UploadedToday(e))
          /\ Sum(req', Pending(e)') = Sum(req, Pending(e))
      BY <2>9, <3>1, <3>3, Zenon
    <3> QED BY <3>4 DEF QuotaInv
  <2>11. CASE e = d
    <3>1. PICK T : T = UploadedToday(e)'
      OBVIOUS
    <3>2. T \in SUBSET (UploadedToday(e) \cup {b})
      BY <1>1, <2>5, <3>1 DEF UploadedToday
    <3>3. ledger'[b].size = n /\ n \in Nat
      BY <1>2, <2>4, <2>5, SizeFacts
    <3>4. /\ Sum(ledger', UploadedToday(e) \cup {b}) = n + Sum(ledger, UploadedToday(e))
          /\ Sized(ledger', UploadedToday(e) \cup {b})
      BY <2>8, <2>9, <3>3, SumAdd
    <3>5. Sum(ledger', T) <= n + Sum(ledger, UploadedToday(e)) /\ Sum(ledger', T) \in Nat
      BY <3>2, <3>4, SumShrinks
    <3>6. Pending(e)' = Pending(e) \ {q} /\ q \in Pending(e)
      BY <1>1, <1>2, <2>4, <2>5, <2>11 DEF Pending
    <3>7. /\ Sum(req, Pending(e)) = n + Sum(req, Pending(e) \ {q})
          /\ Sum(req, Pending(e) \ {q}) \in Nat
      <4>1. req[q].size = n
        BY <1>2
      <4> QED BY <2>7, <3>6, <4>1, SumRemove
    <3>8. Sum(req', Pending(e) \ {q}) = Sum(req, Pending(e) \ {q})
      <4>1. PICK P : P = Pending(e) \ {q}
        OBVIOUS
      <4>2. P \in SUBSET Pending(e) /\ \A x \in P : req'[x] = req[x]
        BY <2>5, <4>1 DEF Pending
      <4>3. Sized(req, P)
        BY <2>7, <4>2, SumShrinks
      <4>4. Sum(req', P) = Sum(req, P)
        BY <4>2, <4>3, SumSame
      <4> QED BY <4>1, <4>4, Zenon
    <3>9. Sum(ledger, UploadedToday(e)) + Sum(req, Pending(e)) <= Allowance
      BY DEF QuotaInv
    <3>10. Sum(ledger', T) + Sum(req', Pending(e) \ {q}) <= Allowance
      BY <2>7, <3>3, <3>5, <3>7, <3>8, <3>9, SizeFacts
    <3> QED BY <3>1, <3>6, <3>10, Zenon
  <2> QED BY <2>10, <2>11
<1> QED BY <1>3, <1>4

\* Every other step leaves the ledger alone or lets entries age out, and lets requests
\* only leave the save.
LEMMA QuotaKept ==
    ASSUME IInv, QuotaInv, [Next]_vars
    PROVE  QuotaInv'
<1>1. CASE \E q \in Request : quota(q)
  BY <1>1, QuotaPasses
<1>2. CASE \E q \in Request, b \in Blob : save(q, b)
  BY <1>2, QuotaSaves
<1>0. /\ SizesOK /\ req = [q \in Request |-> req[q]] /\ age \in [Blob -> 0..2]
      /\ \A q \in Request : ReqOK(req[q])
  BY DEF IInv, TablesOK, QuotaInv
\* The ledger and the ages stay, one request moves.
<1>3. ASSUME NEW q \in Request, NEW g, req' = [req EXCEPT ![q] = g], UNCHANGED <<ledger, age>>,
             g.pc # "save", g.pc = "quota" => g.size \in Size
      PROVE  QuotaInv'
  <2>1. req'[q] = g /\ \A x \in Request \ {q} : req'[x] = req[x]
    BY <1>0, <1>3
  <2>2. SizesOK'
    BY <1>0, <1>3, <2>1 DEF SizesOK
  <2> QED BY <1>3, <2>1, <2>2, QuotaShrinks
<1>4. ASSUME NEW q \in Request,
             \/ \E d \in Sender, n \in Size, s \in BOOLEAN : request_upload(q, d, n, s)
             \/ \E d \in Device, b \in Blob : confirm_download(q, d, b) \/ delete(q, d, b)
      PROVE  QuotaInv'
  <2>1. CASE \E d \in Sender, n \in Size, s \in BOOLEAN : request_upload(q, d, n, s)
    <3>1. PICK d \in Sender, n \in Size, s \in BOOLEAN : request_upload(q, d, n, s)
      BY <2>1
    <3>2. PICK g : g = [pc |-> "quota", dev |-> d, size |-> n, shared |-> s]
      OBVIOUS
    <3>3. req' = [req EXCEPT ![q] = g] /\ UNCHANGED <<ledger, age>>
      BY <3>1, <3>2 DEF request_upload, tables
    <3>4. g.pc = "quota" /\ g.size \in Size
      BY <3>2
    <3> QED BY <1>3, <3>3, <3>4
  <2>2. CASE \E d \in Device, b \in Blob : confirm_download(q, d, b)
    <3>1. PICK d \in Device, b \in Blob : confirm_download(q, d, b)
      BY <2>2
    <3>2. PICK g : g = [pc |-> "ack", dev |-> d, blob |-> b]
      OBVIOUS
    <3>3. req' = [req EXCEPT ![q] = g] /\ UNCHANGED <<ledger, age>>
      BY <3>1, <3>2 DEF confirm_download, tables
    <3>4. g.pc = "ack"
      BY <3>2
    <3> QED BY <1>3, <3>3, <3>4
  <2>3. CASE \E d \in Device, b \in Blob : delete(q, d, b)
    <3>1. PICK d \in Device, b \in Blob : delete(q, d, b)
      BY <2>3
    <3>2. PICK g : g = [pc |-> "object", blob |-> b]
      OBVIOUS
    <3>3. req' = [req EXCEPT ![q] = g] /\ UNCHANGED <<ledger, age>>
      BY <3>1, <3>2 DEF delete, tables
    <3>4. g.pc = "object"
      BY <3>2
    <3> QED BY <1>3, <3>3, <3>4
  <2> QED BY <1>4, <2>1, <2>2, <2>3
<1>5. CASE \E q \in Request : \/ presigned_upload_url(q) \/ record_ack(q) \/ delete_row(q)
                               \/ request_fails(q)
  <2>1. PICK q \in Request : req' = [req EXCEPT ![q] = Free] /\ UNCHANGED <<ledger, age>>
    BY <1>5 DEF presigned_upload_url, record_ack, delete_row, request_fails, tables
  <2>2. Free.pc = "free"
    BY DEF Free
  <2> QED BY <1>3, <2>1, <2>2
<1>6. CASE \E q \in Request : delete_object(q)
  <2>1. PICK q \in Request : delete_object(q)
    BY <1>6
  <2>2. PICK b \in Blob : req[q] = [pc |-> "object", blob |-> b]
    BY <1>0, <2>1 DEF ReqOK, delete_object
  <2>3. PICK g : g = [req[q] EXCEPT !.pc = "row"]
    OBVIOUS
  <2>4. g.pc = "row"
    BY <2>2, <2>3
  <2>5. req' = [req EXCEPT ![q] = g] /\ UNCHANGED <<ledger, age>>
    BY <2>1, <2>3 DEF delete_object, tables
  <2> QED BY <1>3, <2>4, <2>5
<1>7. CASE /\ UNCHANGED <<ledger, req>>
           /\ \/ UNCHANGED age \/ \E b \in Blob : age[b] < 2 /\ age' = [age EXCEPT ![b] = @ + 1]
  <2>1. SizesOK'
    BY <1>0, <1>7 DEF SizesOK
  <2>2. \A b \in Blob : age'[b] = 0 => age[b] = 0
    BY <1>0, <1>7
  <2> QED BY <1>7, <2>1, <2>2, QuotaShrinks
<1>8. CASE trim_upload_ledger
  <2>1. /\ ledger' = [b \in Blob |-> IF age[b] = 2 THEN None ELSE ledger[b]]
        /\ UNCHANGED <<age, req>>
    BY <1>8 DEF trim_upload_ledger
  <2>2. SizesOK'
    BY <1>0, <2>1 DEF SizesOK
  <2> QED BY <2>1, <2>2, QuotaShrinks
<1>9. CASE \/ \E r \in Replica : Collect(r) \/ gc_fails(r) \/ replica_dies(r) \/ session_dies(r)
           \/ \E b \in Blob : put(b) \/ pass_time(b)
           \/ \E d \in Device : join(d) \/ leave(d) \/ delete_device(d)
           \/ UNCHANGED vars
  <2>1. /\ UNCHANGED <<ledger, req>>
        /\ \/ UNCHANGED age \/ \E b \in Blob : age[b] < 2 /\ age' = [age EXCEPT ![b] = @ + 1]
    BY <1>9 DEF Collect, try_lock, list_gc_candidates, read_members, read_acks, collect_object,
       collect_row, release, gc_fails, replica_dies, session_dies, put, pass_time, join, leave,
       delete_device, vars, tables
  <2> QED BY <1>7, <2>1
<1> QED BY <1>1, <1>2, <1>4, <1>5, <1>6, <1>8, <1>9 DEF Next

\* However requests of a device interleave between the quota check and the save, and
\* whatever is deleted, aged or trimmed meanwhile, a device's uploads of a day exceed the
\* quota by at most one blob for each other request in flight.
THEOREM QuotaBounds == Spec => []QuotaHolds
<1>1. Init => QuotaInv
  <2> SUFFICES ASSUME Init PROVE QuotaInv
    OBVIOUS
  <2>1. SizesOK
    BY DEF Init, SizesOK, Free
  <2>2. \A d \in Device : UploadedToday(d) = {} /\ Pending(d) = {}
    BY DEF Init, UploadedToday, Pending, Free
  <2>3. \A d \in Device : Sum(ledger, UploadedToday(d)) = 0 /\ Sum(req, Pending(d)) = 0
    BY <2>2, SumEmpty, Zenon
  <2> QED BY <2>1, <2>3, SizeFacts DEF QuotaInv
<1>2. QuotaInv => QuotaHolds
  <2> SUFFICES ASSUME QuotaInv, NEW d \in Device PROVE Bytes(UploadedToday(d)) <= Allowance
    BY DEF QuotaHolds, Allowance
  <2>1. Bytes(UploadedToday(d)) = Sum(ledger, UploadedToday(d))
    BY DEF Bytes, Sum
  <2>2. Sum(ledger, UploadedToday(d)) \in Nat /\ Sum(req, Pending(d)) \in Nat
    BY TodayFacts DEF QuotaInv
  <2> QED BY <2>1, <2>2, SizeFacts DEF QuotaInv
<1> QED BY <1>1, <1>2, QuotaKept, IInvHolds, PTL DEF Spec
================================================================================
