-------------------------- MODULE MembershipProofs --------------------------
(***************************************************************************)
(* What holds of Membership for every set of devices, groups and workers   *)
(* and every cap: its types, that a removal is final, that a device has    *)
(* one seat in a group, and both caps on pending rows.                     *)
(***************************************************************************)
EXTENDS Membership, FiniteSetTheorems, WellFoundedInduction, TLAPS

tables == <<groups, members, pending, stamp, expired, revoked>>

Busy(w) == req[w].pc # "free"

\* Tags are handed out once: whatever carries one got it no later than stamp.  No
\* row is about a group that does not exist.
RowsAreOld ==
    /\ \A r \in members \cup pending : r.tag <= stamp /\ r.group \in groups
    /\ \A r, s \in members \cup pending : r.tag = s.tag => r = s
    /\ \A t \in revoked : t <= stamp

FrameIsOld(w) ==
    Busy(w) => req[w].group \in groups /\ \A t \in req[w].fence : t <= stamp

\* The row an accept has locked stays in pending until the accept moves it.
AcceptHoldsRow(w) ==
    req[w].pc \in {"fk_group", "fk_device"} =>
        /\ req[w].gone \subseteq pending
        /\ \A r \in req[w].gone : r.device = req[w].device

\* What add_pending found before its INSERT still holds when it inserts.
SeatStaysFree(w) ==
    req[w].pc \in {"evict", "insert"} =>
        Mine(members, w) = {} /\ Mine(pending \ req[w].gone, w) = {}

\* A row a removal must end is of the removal's seat; after the first DELETE it is
\* locked by the removal or it is a member's.
FenceIsHeld(w) ==
    /\ req[w].pc \in {"first_table", "second_table"} =>
          \A r \in members \cup pending : r.tag \in req[w].fence =>
              r.group = req[w].group /\ r.device = req[w].device
    /\ req[w].pc = "second_table" =>
          \A r \in pending : r.tag \in req[w].fence => r \in req[w].gone

FrameOK(w) == FrameIsOld(w) /\ AcceptHoldsRow(w) /\ SeatStaysFree(w) /\ FenceIsHeld(w)

\* Two transactions never hold one lock.
Exclude(v, w) ==
    /\ Busy(v) /\ Busy(w) => req[v].gone \cap req[w].gone = {}
    /\ LocksDevice(v, req[v].device) /\ LocksDevice(w, req[w].device)
          => req[v].device # req[w].device
    /\ LocksGroup(v, req[v].group) /\ LocksGroup(w, req[w].group)
          => req[v].group # req[w].group

IInv ==
    /\ TypeOK
    /\ RowsAreOld
    /\ \A w \in Worker : FrameOK(w)
    /\ \A v, w \in Worker : v # w => Exclude(v, w)
    /\ RemovedStaysOut
    /\ OneSeat

-----------------------------------------------------------------------------
\* A request in progress has all the fields of a frame.
LEMMA BusyFrame ==
    ASSUME TypeOK, NEW w \in Worker
    PROVE  /\ Busy(w) <=> req[w] # Free
           /\ Busy(w) => /\ req[w] \in Frame
                         /\ req[w].pc \in Pc /\ req[w].group \in Group
                         /\ req[w].device \in Device /\ req[w].gone \subseteq Row
                         /\ req[w].fence \subseteq 1..MaxRows
<1>1. req[w] = Free \/ req[w] \in Frame
  BY DEF TypeOK
<1>2. req[w] = Free => ~Busy(w)
  BY DEF Free, Busy
<1>3. req[w] \in Frame => Busy(w)
  BY DEF Frame, Busy, Pc
<1> QED BY <1>1, <1>2, <1>3 DEF Frame

\* Every variable keeps its type, for all values of the constants.
THEOREM TypeCorrect == Spec => []TypeOK
<1>1. Init => TypeOK
  BY MembershipAssumption DEF Init, TypeOK
<1>2. TypeOK /\ [Next]_vars => TypeOK'
  <2> SUFFICES ASSUME TypeOK, [Next]_vars PROVE TypeOK'
    OBVIOUS
  <2>a. ASSUME NEW w \in Worker, Finish(w) PROVE req' \in [Worker -> {Free} \cup Frame]
    BY <2>a DEF Finish, TypeOK
  <2>b. ASSUME NEW w \in Worker, NEW f \in Frame, req' = [req EXCEPT ![w] = f]
        PROVE  req' \in [Worker -> {Free} \cup Frame]
    BY <2>b DEF TypeOK
  <2>c. ASSUME NEW w \in Worker, Busy(w), NEW pc \in Pc, Goto(w, pc)
        PROVE  req' \in [Worker -> {Free} \cup Frame]
    <3>1. [req[w] EXCEPT !.pc = pc] \in Frame
      BY <2>c, BusyFrame DEF Frame
    <3>2. req' = [req EXCEPT ![w] = [req[w] EXCEPT !.pc = pc]]
      BY <2>c DEF Goto
    <3> QED BY <2>b, <3>1, <3>2
  <2>d. ASSUME NEW w \in Worker, Busy(w), NEW pc \in Pc, NEW gone \in SUBSET Row,
               req' = [req EXCEPT ![w].pc = pc, ![w].gone = gone]
        PROVE  req' \in [Worker -> {Free} \cup Frame]
    <3>1. [req[w] EXCEPT !.pc = pc, !.gone = gone] \in Frame
      BY <2>d, BusyFrame DEF Frame
    <3>2. req' = [req EXCEPT ![w] = [req[w] EXCEPT !.pc = pc, !.gone = gone]]
      BY <2>d
    <3> QED BY <2>b, <3>1, <3>2
  <2>1. ASSUME NEW d \in Device, NEW g \in Group, create_group(d, g) PROVE TypeOK'
    BY <2>1, MembershipAssumption DEF create_group, TypeOK, Row
  <2>2. ASSUME NEW d \in Device, NEW g \in Group, decline_pending(g, d) PROVE TypeOK'
    BY <2>2 DEF decline_pending, TypeOK
  <2>3. ASSUME NEW w \in Worker, NEW d \in Device, NEW g \in Group, accept_pending(w, g, d)
        PROVE  TypeOK'
    <3>1. PICK r \in pending : Start(w, "fk_group", g, d, {r}, {})
      BY <2>3 DEF accept_pending, Seat
    <3>2. [pc |-> "fk_group", group |-> g, device |-> d, gone |-> {r}, fence |-> {}] \in Frame
      BY DEF Frame, Pc, TypeOK
    <3> QED BY <2>3, <2>b, <3>1, <3>2 DEF Start, accept_pending, TypeOK
  <2>4. ASSUME NEW w \in Worker, NEW d \in Device, NEW g \in Group, NEW c \in Device,
               add_member(w, c, g, d)
        PROVE  TypeOK'
    <3>1. [pc |-> "lock_device", group |-> g, device |-> d, gone |-> {}, fence |-> {}] \in Frame
      BY DEF Frame, Pc
    <3> QED BY <2>4, <2>b, <3>1 DEF Start, add_member, TypeOK
  <2>5. ASSUME NEW w \in Worker, NEW d \in Device, NEW g \in Group, NEW c \in Device,
               remove_member(w, c, g, d)
        PROVE  TypeOK'
    <3> DEFINE fence == {r.tag : r \in Seat(pending, g, d) \cup Seat(members, g, d)}
    <3>1. fence \subseteq 1..MaxRows
      BY DEF Seat, TypeOK, Row
    <3> HIDE DEF fence
    <3>2. [pc |-> "first_table", group |-> g, device |-> d, gone |-> {}, fence |-> fence] \in Frame
      BY <3>1 DEF Frame, Pc
    <3>3. /\ req' = [req EXCEPT ![w] = [pc |-> "first_table", group |-> g, device |-> d,
                                        gone |-> {}, fence |-> fence]]
          /\ UNCHANGED tables
      BY <2>5 DEF remove_member, Start, fence, tables
    <3> QED BY <2>b, <3>2, <3>3 DEF TypeOK, tables
  <2>6. ASSUME NEW w \in Worker, lock_device(w) PROVE TypeOK'
    BY <2>6, <2>c DEF lock_device, TypeOK, Busy, Pc
  <2>7. ASSUME NEW w \in Worker, lock_group(w) PROVE TypeOK'
    BY <2>7, <2>c DEF lock_group, TypeOK, Busy, Pc
  <2>8. ASSUME NEW w \in Worker, add_check(w) PROVE TypeOK'
    <3>1. PICK purged \in ToPurge :
             \/ Finish(w)
             \/ req' = [req EXCEPT ![w].pc = "evict", ![w].gone = purged]
      BY <2>8 DEF add_check
    <3>2. purged \subseteq Row
      BY DEF ToPurge, kSubset, TypeOK
    <3>3. req' \in [Worker -> {Free} \cup Frame]
      BY <2>8, <2>a, <2>d, <3>1, <3>2 DEF add_check, Busy, Pc
    <3> QED BY <2>8, <3>3 DEF add_check, TypeOK
  <2>9. ASSUME NEW w \in Worker, add_evict(w) PROVE TypeOK'
    <3>1. Busy(w)
      BY <2>9 DEF add_evict, Busy
    <3>2. req[w].gone \cup Evicted(w) \in SUBSET Row
      BY <3>1, BusyFrame DEF Evicted, TypeOK
    <3>3. req' = [req EXCEPT ![w].pc = "insert", ![w].gone = req[w].gone \cup Evicted(w)]
      BY <2>9 DEF add_evict
    <3>4. req' \in [Worker -> {Free} \cup Frame]
      BY <2>d, <3>1, <3>2, <3>3 DEF Pc
    <3> QED BY <2>9, <3>4 DEF add_evict, TypeOK
  <2>10. ASSUME NEW w \in Worker, add_insert(w) PROVE TypeOK'
    <3>1. req[w].group \in Group /\ req[w].device \in Device
      BY <2>10, BusyFrame DEF add_insert, Busy
    <3>2. stamp + 1 \in 1..MaxRows
      BY <2>10, MembershipAssumption DEF add_insert, TypeOK
    <3> QED BY <2>10, <2>a, <3>1, <3>2 DEF add_insert, TypeOK, Row
  <2>11. ASSUME NEW w \in Worker, accept_fk_group(w) PROVE TypeOK'
    BY <2>11, <2>c DEF accept_fk_group, TypeOK, Busy, Pc
  <2>12. ASSUME NEW w \in Worker, accept_fk_device(w) PROVE TypeOK'
    <3>1. req[w].gone \subseteq Row
      BY <2>12, BusyFrame DEF accept_fk_device, Busy
    <3> QED BY <2>12, <2>a, <3>1 DEF accept_fk_device, TypeOK
  <2>13. ASSUME NEW w \in Worker, remove_first(w) PROVE TypeOK'
    <3>1. Busy(w) /\ Table(Tables[1]) = pending
      BY <2>13 DEF remove_first, Busy, Tables, Table
    <3>2. Mine(pending, w) \in SUBSET Row
      BY DEF Mine, Seat, TypeOK
    <3> QED BY <2>13, <2>d, <3>1, <3>2 DEF remove_first, TypeOK, Pc
  <2>14. ASSUME NEW w \in Worker, remove_second(w) PROVE TypeOK'
    <3>1. req[w].fence \subseteq 1..MaxRows
      BY <2>14, BusyFrame DEF remove_second, Busy
    <3> QED BY <2>14, <2>a, <3>1 DEF remove_second, TypeOK
  <2>15. ASSUME NEW w \in Worker, request_fails(w) PROVE TypeOK'
    BY <2>15, <2>a DEF request_fails, TypeOK
  <2>16. ASSUME NEW r \in pending, expire(r) PROVE TypeOK'
    BY <2>16 DEF expire, TypeOK, Row
  <2>17. CASE UNCHANGED vars
    BY <2>17 DEF vars, TypeOK
  <2> QED
    BY <2>1, <2>2, <2>3, <2>4, <2>5, <2>6, <2>7, <2>8, <2>9, <2>10, <2>11, <2>12, <2>13,
       <2>14, <2>15, <2>16, <2>17 DEF Next
<1> QED BY <1>1, <1>2, PTL DEF Spec

-----------------------------------------------------------------------------
\* A step of one request that leaves the tables alone: what its new frame must satisfy.
LEMMA RequestStep ==
    ASSUME IInv, TypeOK', UNCHANGED tables, NEW w \in Worker,
           \A v \in Worker \ {w} : req'[v] = req[v],
           FrameOK(w)',
           \A v \in Worker \ {w} : Exclude(v, w)' /\ Exclude(w, v)'
    PROVE  IInv'
<1>1. \A v \in Worker \ {w} : FrameOK(v)'
  BY DEF IInv, tables, FrameOK, FrameIsOld, AcceptHoldsRow, SeatStaysFree, FenceIsHeld,
         Busy, Mine, Seat
<1>2. \A u, v \in Worker \ {w} : u # v => Exclude(u, v)'
  BY DEF IInv, Exclude, Busy, LocksDevice, LocksGroup
<1> QED BY <1>1, <1>2 DEF IInv, tables, RowsAreOld, RemovedStaysOut, OneSeat

\* The end of a request, whatever ended it.
LEMMA FinishStep ==
    ASSUME IInv, TypeOK', UNCHANGED tables, NEW w \in Worker, Finish(w)
    PROVE  IInv'
<1>1. req'[w].pc = "free" /\ \A v \in Worker \ {w} : req'[v] = req[v]
  BY DEF Finish, IInv, TypeOK, Free
<1>2. FrameOK(w)'
  BY <1>1 DEF FrameOK, FrameIsOld, AcceptHoldsRow, SeatStaysFree, FenceIsHeld, Busy
<1>3. \A v \in Worker \ {w} : Exclude(v, w)' /\ Exclude(w, v)'
  BY <1>1 DEF Exclude, Busy, LocksDevice, LocksGroup
<1> QED BY <1>1, <1>2, <1>3, RequestStep

\* What Exclude says of two requests, either way round.
LEMMA ExcludeSymmetric ==
    ASSUME NEW v \in Worker, NEW w \in Worker, Exclude(v, w) PROVE Exclude(w, v)
  BY DEF Exclude

\* What a move of request w leaves of its frame.
LEMMA GotoFrame ==
    ASSUME TypeOK, NEW w \in Worker, Busy(w), NEW pc, Goto(w, pc)
    PROVE  /\ req'[w].pc = pc /\ req'[w].group = req[w].group
           /\ req'[w].device = req[w].device /\ req'[w].gone = req[w].gone
           /\ req'[w].fence = req[w].fence
           /\ \A v \in Worker \ {w} : req'[v] = req[v]
<1>1. req[w] \in Frame
  BY BusyFrame
<1>2. req'[w] = [req[w] EXCEPT !.pc = pc] /\ \A v \in Worker \ {w} : req'[v] = req[v]
  BY DEF Goto, TypeOK
<1> QED BY <1>1, <1>2 DEF Frame

\* The same with rows locked on the way.
GotoLocking(w, pc, gone) == req' = [req EXCEPT ![w].pc = pc, ![w].gone = gone]

LEMMA LockFrame ==
    ASSUME TypeOK, NEW w \in Worker, Busy(w), NEW pc, NEW gone, GotoLocking(w, pc, gone)
    PROVE  /\ req'[w].pc = pc /\ req'[w].group = req[w].group
           /\ req'[w].device = req[w].device /\ req'[w].gone = gone
           /\ req'[w].fence = req[w].fence
           /\ \A v \in Worker \ {w} : req'[v] = req[v]
<1> DEFINE f == [req[w] EXCEPT !.pc = pc]
           h == [f EXCEPT !.gone = gone]
<1>1. req[w] \in Frame
  BY BusyFrame
<1>2. req' = [req EXCEPT ![w] = h]
  BY DEF GotoLocking
<1>3. f = [pc |-> pc, group |-> req[w].group, device |-> req[w].device,
           gone |-> req[w].gone, fence |-> req[w].fence]
  BY <1>1 DEF Frame
<1> HIDE DEF f
<1>4. h = [pc |-> pc, group |-> req[w].group, device |-> req[w].device,
           gone |-> gone, fence |-> req[w].fence]
  BY <1>3
<1> HIDE DEF h
<1>5. req'[w] = h /\ \A v \in Worker \ {w} : req'[v] = req[v]
  BY <1>2 DEF TypeOK
<1> QED BY <1>4, <1>5

\* A transaction that ends and only takes rows away, no row that an accept in
\* progress has locked among them.
LEMMA ShrinkStep ==
    ASSUME IInv, TypeOK', UNCHANGED <<groups, stamp>>,
           members' \cup pending' \subseteq members \cup pending, pending' \subseteq pending,
           \A r \in members' \ members, v \in Worker :
               ~LocksDevice(v, r.device),
           revoked' \in SUBSET (1..stamp), \A r \in members' \cup pending' : r.tag \notin revoked',
           \A v \in Worker : req'[v] = req[v] \/ req'[v].pc = "free",
           \A v \in Worker : req'[v].pc # "free" => (pending \ pending') \cap req[v].gone = {}
    PROVE  IInv'
<1>1. \A v \in Worker : FrameOK(v)'
  <2> SUFFICES ASSUME NEW v \in Worker PROVE FrameOK(v)'
    OBVIOUS
  <2>1. CASE req'[v].pc = "free"
    BY <2>1 DEF FrameOK, FrameIsOld, AcceptHoldsRow, SeatStaysFree, FenceIsHeld, Busy
  <2>2. CASE req'[v].pc # "free" /\ req'[v] = req[v]
    <3>1. FrameIsOld(v)'
      BY <2>2 DEF IInv, FrameOK, FrameIsOld, Busy
    <3>2. AcceptHoldsRow(v)'
      BY <2>2 DEF IInv, FrameOK, AcceptHoldsRow
    <3>3. SeatStaysFree(v)'
      BY <2>2 DEF IInv, FrameOK, SeatStaysFree, Mine, Seat, LocksDevice
    <3>4. FenceIsHeld(v)'
      BY <2>2 DEF IInv, FrameOK, FenceIsHeld
    <3> QED BY <3>1, <3>2, <3>3, <3>4 DEF FrameOK
  <2> QED BY <2>1, <2>2
<1>2. \A u, v \in Worker : u # v => Exclude(u, v)'
  BY DEF IInv, Exclude, Busy, LocksDevice, LocksGroup
<1>3. RowsAreOld' /\ RemovedStaysOut' /\ OneSeat'
  BY DEF IInv, RowsAreOld, RemovedStaysOut, OneSeat, TypeOK
<1> QED BY <1>1, <1>2, <1>3 DEF IInv

-----------------------------------------------------------------------------
\* The inductive invariant, action by action.
LEMMA InvariantHolds == Spec => []IInv
<1>1. Init => IInv
  <2> SUFFICES ASSUME Init PROVE IInv
    OBVIOUS
  <2>1. \A w \in Worker : req[w].pc = "free"
    BY DEF Init, Free
  <2>2. TypeOK
    BY MembershipAssumption DEF Init, TypeOK
  <2>3. \A w \in Worker : FrameOK(w)
    BY <2>1 DEF FrameOK, FrameIsOld, AcceptHoldsRow, SeatStaysFree, FenceIsHeld, Busy
  <2>4. \A v, w \in Worker : Exclude(v, w)
    BY <2>1 DEF Exclude, Busy, LocksDevice, LocksGroup
  <2> QED BY <2>2, <2>3, <2>4 DEF Init, IInv, RowsAreOld, RemovedStaysOut, OneSeat
<1>2. IInv /\ TypeOK' /\ [Next]_vars => IInv'
  <2> SUFFICES ASSUME IInv, TypeOK', [Next]_vars PROVE IInv'
    OBVIOUS
  <2>0. TypeOK /\ TypeOK'
    BY DEF IInv
  \* A request that moves on with its rows, or takes new ones that nobody locks.
  <2>a. ASSUME NEW w \in Worker, UNCHANGED tables, Busy(w), NEW pc, NEW gone,
               req'[w].pc = pc, req'[w].group = req[w].group,
               req'[w].device = req[w].device, req'[w].gone = gone,
               req'[w].fence = req[w].fence,
               \A v \in Worker \ {w} : req'[v] = req[v],
               gone = req[w].gone \/ RowsFree(w, gone \ req[w].gone),
               LocksDevice(w, req[w].device)' =>
                   LocksDevice(w, req[w].device) \/ DeviceFree(w, req[w].device),
               LocksGroup(w, req[w].group)' =>
                   LocksGroup(w, req[w].group) \/ GroupFree(w, req[w].group),
               AcceptHoldsRow(w)', SeatStaysFree(w)', FenceIsHeld(w)'
        PROVE  IInv'
    <3>1. FrameOK(w)'
      BY <2>a DEF FrameOK, FrameIsOld, IInv, Busy, tables
    <3>2. ASSUME NEW v \in Worker \ {w} PROVE Exclude(v, w)'
      <4>1. Exclude(v, w)
        BY DEF IInv
      <4>2. Busy(v)' /\ Busy(w)' => (req[v].gone \cap req[w].gone = {})'
        BY <2>a, <4>1 DEF Exclude, Busy, RowsFree, LocksRow
      <4>3. (/\ LocksDevice(v, req[v].device) /\ LocksDevice(w, req[w].device)
                => req[v].device # req[w].device)'
        BY <2>a, <4>1 DEF Exclude, DeviceFree, LocksDevice
      <4>4. (/\ LocksGroup(v, req[v].group) /\ LocksGroup(w, req[w].group)
                => req[v].group # req[w].group)'
        BY <2>a, <4>1 DEF Exclude, GroupFree, LocksGroup
      <4> QED BY <4>2, <4>3, <4>4 DEF Exclude
    <3>3. \A v \in Worker \ {w} : Exclude(v, w)' /\ Exclude(w, v)'
      BY <3>2 DEF Exclude
    <3> QED BY <2>0, <2>a, <3>1, <3>3, RequestStep
  \* A request that begins.
  <2>b. ASSUME NEW w \in Worker, NEW f \in Frame, req[w] = Free, UNCHANGED tables,
               req' = [req EXCEPT ![w] = f],
               f.pc \in {"lock_device", "fk_group", "first_table"},
               f.group \in groups, \A t \in f.fence : t <= stamp,
               RowsFree(w, f.gone), AcceptHoldsRow(w)', FenceIsHeld(w)'
        PROVE  IInv'
    <3>1. req'[w] = f /\ \A v \in Worker \ {w} : req'[v] = req[v]
      BY <2>0, <2>b DEF TypeOK
    <3>2. FrameOK(w)'
      BY <2>b, <3>1 DEF FrameOK, FrameIsOld, SeatStaysFree, tables
    <3>3. \A v \in Worker \ {w} : Exclude(v, w)' /\ Exclude(w, v)'
      BY <2>b, <3>1 DEF Exclude, Busy, RowsFree, LocksRow, LocksDevice, LocksGroup
    <3> QED BY <2>0, <2>b, <3>1, <3>2, <3>3, RequestStep
  <2>1. ASSUME NEW d \in Device, NEW g \in Group, create_group(d, g) PROVE IInv'
    <3> DEFINE new == [group |-> g, device |-> d, tag |-> stamp + 1]
    <3>1. /\ g \notin groups /\ groups' = groups \cup {g} /\ members' = members \cup {new}
          /\ stamp' = stamp + 1 /\ UNCHANGED <<pending, req, revoked>>
          /\ \A v \in Worker : ~LocksDevice(v, d)
      BY <2>1 DEF create_group
    <3>2. new.group = g /\ new.device = d /\ new.tag = stamp + 1
      OBVIOUS
    <3> HIDE DEF new
    <3>3. ASSUME NEW v \in Worker PROVE FrameOK(v)'
      <4>1. FrameIsOld(v)' /\ AcceptHoldsRow(v)'
        <5>1. Busy(v) => \A t \in req[v].fence : t \in Int
          BY <2>0, BusyFrame
        <5> QED BY <2>0, <3>1, <5>1 DEF IInv, FrameOK, FrameIsOld, AcceptHoldsRow, Busy, TypeOK
      <4>2. SeatStaysFree(v)'
        BY <3>1, <3>2 DEF IInv, FrameOK, SeatStaysFree, LocksDevice, Mine, Seat
      <4>3. Busy(v) => stamp + 1 \notin req[v].fence
        BY <2>0 DEF IInv, FrameOK, FrameIsOld, TypeOK
      <4>4. FenceIsHeld(v)'
        BY <3>1, <3>2, <4>3 DEF IInv, FrameOK, FenceIsHeld, Busy
      <4> QED BY <4>1, <4>2, <4>4 DEF FrameOK
    <3>4. \A v, w \in Worker : v # w => Exclude(v, w)'
      BY <3>1 DEF IInv, Exclude, Busy, LocksDevice, LocksGroup
    <3>5. RowsAreOld' /\ RemovedStaysOut'
      BY <2>0, <3>1, <3>2 DEF IInv, RowsAreOld, RemovedStaysOut, TypeOK, Row
    <3>6. OneSeat'
      BY <3>1, <3>2 DEF IInv, RowsAreOld, OneSeat
    <3> QED BY <2>0, <3>3, <3>4, <3>5, <3>6 DEF IInv
  <2>2. ASSUME NEW d \in Device, NEW g \in Group, decline_pending(g, d) PROVE IInv'
    <3>1. /\ pending' = pending \ Seat(pending, g, d) /\ Seat(pending, g, d) \subseteq pending
          /\ UNCHANGED <<groups, members, stamp, expired, req, revoked>>
          /\ \A v \in Worker, r \in Seat(pending, g, d) : ~LocksRow(v, r)
      BY <2>2 DEF decline_pending, Seat
    <3>2. \A v \in Worker : req'[v].pc # "free" => (pending \ pending') \cap req[v].gone = {}
      BY <3>1 DEF LocksRow
    <3>3. revoked' \in SUBSET (1..stamp) /\ \A r \in members' \cup pending' : r.tag \notin revoked'
      BY <2>0, <3>1 DEF IInv, RowsAreOld, RemovedStaysOut, TypeOK
    <3> QED BY <2>0, <3>1, <3>2, <3>3, ShrinkStep
  <2>3. ASSUME NEW w \in Worker, NEW d \in Device, NEW g \in Group, accept_pending(w, g, d)
        PROVE  IInv'
    <3>1. PICK r \in pending : /\ r.group = g /\ r.device = d /\ RowsFree(w, {r})
                               /\ Start(w, "fk_group", g, d, {r}, {})
      BY <2>3 DEF accept_pending, Seat
    <3> DEFINE f == [pc |-> "fk_group", group |-> g, device |-> d, gone |-> {r}, fence |-> {}]
    <3>2. f \in Frame
      BY <2>0 DEF Frame, Pc, TypeOK
    <3>3. /\ f.pc = "fk_group" /\ f.group = g /\ f.device = d /\ f.gone = {r} /\ f.fence = {}
          /\ req' = [req EXCEPT ![w] = f] /\ UNCHANGED tables /\ req[w] = Free
      BY <2>3, <3>1 DEF Start, accept_pending, tables
    <3> HIDE DEF f
    <3>4. req'[w] = f
      BY <2>0, <3>3 DEF TypeOK
    <3>5. AcceptHoldsRow(w)' /\ FenceIsHeld(w)'
      BY <3>1, <3>3, <3>4 DEF AcceptHoldsRow, FenceIsHeld, tables
    <3>6. g \in groups
      BY <3>1 DEF IInv, RowsAreOld
    <3> QED BY <2>b, <3>1, <3>2, <3>3, <3>5, <3>6
  <2>4. ASSUME NEW w \in Worker, NEW d \in Device, NEW g \in Group, NEW c \in Device,
               add_member(w, c, g, d)
        PROVE  IInv'
    <3> DEFINE f == [pc |-> "lock_device", group |-> g, device |-> d, gone |-> {}, fence |-> {}]
    <3>2. f \in Frame
      BY DEF Frame, Pc
    <3>3. /\ f.pc = "lock_device" /\ f.group = g /\ f.device = d /\ f.gone = {} /\ f.fence = {}
          /\ req' = [req EXCEPT ![w] = f] /\ UNCHANGED tables /\ req[w] = Free
      BY <2>4 DEF Start, add_member, tables
    <3> HIDE DEF f
    <3>4. req'[w] = f
      BY <2>0, <3>3 DEF TypeOK
    <3>5. AcceptHoldsRow(w)' /\ FenceIsHeld(w)' /\ RowsFree(w, {})
      BY <3>3, <3>4 DEF AcceptHoldsRow, FenceIsHeld, RowsFree
    <3>6. g \in groups
      BY <2>4 DEF add_member, IsMember, Seat, IInv, RowsAreOld
    <3> QED BY <2>b, <3>2, <3>3, <3>5, <3>6
  <2>5. ASSUME NEW w \in Worker, NEW d \in Device, NEW g \in Group, NEW c \in Device,
               remove_member(w, c, g, d)
        PROVE  IInv'
    <3> DEFINE fence == {r.tag : r \in Seat(pending, g, d) \cup Seat(members, g, d)}
               f == [pc |-> "first_table", group |-> g, device |-> d, gone |-> {},
                     fence |-> fence]
    <3>1. /\ fence \subseteq 1..MaxRows /\ \A t \in fence : t <= stamp
          /\ \A r \in members \cup pending : r.tag \in fence => r.group = g /\ r.device = d
      <4>1. \A t \in fence : \E r \in members \cup pending :
               t = r.tag /\ r.group = g /\ r.device = d
        BY DEF Seat
      <4>2. fence \subseteq 1..MaxRows /\ \A t \in fence : t <= stamp
        BY <2>0, <4>1 DEF TypeOK, Row, IInv, RowsAreOld
      <4> QED BY <4>1, <4>2 DEF IInv, RowsAreOld
    <3> HIDE DEF fence
    <3>2. f \in Frame
      BY <3>1 DEF Frame, Pc
    <3>3. /\ f.pc = "first_table" /\ f.group = g /\ f.device = d /\ f.gone = {}
          /\ f.fence = fence
          /\ req' = [req EXCEPT ![w] = f] /\ UNCHANGED tables /\ req[w] = Free
      BY <2>5 DEF Start, remove_member, tables, fence
    <3> HIDE DEF f
    <3>4. req'[w] = f
      BY <2>0, <3>3 DEF TypeOK
    <3>5. AcceptHoldsRow(w)' /\ FenceIsHeld(w)' /\ RowsFree(w, {})
      BY <3>1, <3>3, <3>4 DEF AcceptHoldsRow, FenceIsHeld, RowsFree, tables
    <3>6. g \in groups
      BY <2>5 DEF remove_member, IsMember, Seat, IInv, RowsAreOld
    <3> QED BY <2>b, <3>1, <3>2, <3>3, <3>5, <3>6
  <2>6. ASSUME NEW w \in Worker, lock_device(w) PROVE IInv'
    <3>1. /\ req[w].pc = "lock_device" /\ Busy(w) /\ UNCHANGED tables
          /\ Goto(w, "lock_group") /\ DeviceFree(w, req[w].device)
      BY <2>6 DEF lock_device, Busy, tables
    <3>2. /\ req'[w].pc = "lock_group" /\ req'[w].group = req[w].group
          /\ req'[w].device = req[w].device /\ req'[w].gone = req[w].gone
          /\ req'[w].fence = req[w].fence /\ \A v \in Worker \ {w} : req'[v] = req[v]
      BY <2>0, <3>1, GotoFrame
    <3>3. AcceptHoldsRow(w)' /\ SeatStaysFree(w)' /\ FenceIsHeld(w)' /\ ~LocksGroup(w, req[w].group)'
      BY <3>2 DEF AcceptHoldsRow, SeatStaysFree, FenceIsHeld, LocksGroup
    <3> QED BY <2>a, <3>1, <3>2, <3>3
  <2>7. ASSUME NEW w \in Worker, lock_group(w) PROVE IInv'
    <3>1. /\ req[w].pc = "lock_group" /\ Busy(w) /\ UNCHANGED tables
          /\ Goto(w, "check") /\ GroupFree(w, req[w].group)
      BY <2>7 DEF lock_group, Busy, tables
    <3>2. /\ req'[w].pc = "check" /\ req'[w].group = req[w].group
          /\ req'[w].device = req[w].device /\ req'[w].gone = req[w].gone
          /\ req'[w].fence = req[w].fence /\ \A v \in Worker \ {w} : req'[v] = req[v]
      BY <2>0, <3>1, GotoFrame
    <3>3. AcceptHoldsRow(w)' /\ SeatStaysFree(w)' /\ FenceIsHeld(w)'
      BY <3>2 DEF AcceptHoldsRow, SeatStaysFree, FenceIsHeld
    <3>4. LocksDevice(w, req[w].device)
      BY <3>1 DEF LocksDevice
    <3> QED BY <2>a, <3>1, <3>2, <3>3, <3>4
  <2>8. ASSUME NEW w \in Worker, add_check(w) PROVE IInv'
    <3>1. req[w].pc = "check" /\ Busy(w) /\ UNCHANGED tables
      BY <2>8 DEF add_check, Busy, tables
    <3>2. PICK purged \in ToPurge :
             /\ RowsFree(w, purged)
             /\ \/ Finish(w)
                \/ GotoLocking(w, "evict", purged) /\ ~Seated(w, pending \ purged)
      BY <2>8 DEF add_check, GotoLocking
    <3>3. CASE Finish(w)
      BY <2>0, <3>1, <3>3, FinishStep
    <3>4. CASE GotoLocking(w, "evict", purged) /\ ~Seated(w, pending \ purged)
      <4>1. /\ req'[w].pc = "evict" /\ req'[w].group = req[w].group
            /\ req'[w].device = req[w].device /\ req'[w].gone = purged
            /\ req'[w].fence = req[w].fence /\ \A v \in Worker \ {w} : req'[v] = req[v]
        BY <2>0, <3>1, <3>4, LockFrame
      <4>2. AcceptHoldsRow(w)' /\ FenceIsHeld(w)'
        BY <4>1 DEF AcceptHoldsRow, FenceIsHeld
      <4>3. SeatStaysFree(w)'
        BY <3>1, <3>4, <4>1 DEF SeatStaysFree, Seated, Mine, tables
      <4>4. LocksDevice(w, req[w].device) /\ LocksGroup(w, req[w].group)
        BY <3>1 DEF LocksDevice, LocksGroup
      <4>5. RowsFree(w, purged \ req[w].gone)
        BY <3>2 DEF RowsFree
      <4> QED BY <2>a, <3>1, <4>1, <4>2, <4>3, <4>4, <4>5
    <3> QED BY <3>2, <3>3, <3>4
  <2>9. ASSUME NEW w \in Worker, add_evict(w) PROVE IInv'
    <3> DEFINE gone == req[w].gone \cup Evicted(w)
    <3>1. /\ req[w].pc = "evict" /\ Busy(w) /\ UNCHANGED tables
          /\ GotoLocking(w, "insert", gone) /\ RowsFree(w, Evicted(w))
      BY <2>9 DEF add_evict, Busy, tables, GotoLocking
    <3>2. /\ req'[w].pc = "insert" /\ req'[w].group = req[w].group
          /\ req'[w].device = req[w].device /\ req'[w].gone = gone
          /\ req'[w].fence = req[w].fence /\ \A v \in Worker \ {w} : req'[v] = req[v]
      BY <2>0, <3>1, LockFrame
    <3>3. AcceptHoldsRow(w)' /\ FenceIsHeld(w)'
      BY <3>2 DEF AcceptHoldsRow, FenceIsHeld
    <3>4. SeatStaysFree(w)'
      BY <3>1, <3>2 DEF SeatStaysFree, Mine, Seat, tables, IInv, FrameOK
    <3>5. LocksDevice(w, req[w].device) /\ LocksGroup(w, req[w].group)
      BY <3>1 DEF LocksDevice, LocksGroup
    <3>6. RowsFree(w, gone \ req[w].gone)
      BY <3>1 DEF RowsFree
    <3> HIDE DEF gone
    <3> QED BY <2>a, <3>1, <3>2, <3>3, <3>4, <3>5, <3>6
  <2>10. ASSUME NEW w \in Worker, add_insert(w) PROVE IInv'
    <3> DEFINE new == [group |-> req[w].group, device |-> req[w].device, tag |-> stamp + 1]
    <3>1. /\ req[w].pc = "insert" /\ Busy(w) /\ stamp' = stamp + 1
          /\ pending' = (pending \ req[w].gone) \cup {new}
          /\ Finish(w) /\ UNCHANGED <<groups, members, expired, revoked>>
      BY <2>10 DEF add_insert, Busy
    <3>2. new.group = req[w].group /\ new.device = req[w].device /\ new.tag = stamp + 1
      OBVIOUS
    <3> HIDE DEF new
    <3>3. req'[w].pc = "free" /\ \A v \in Worker \ {w} : req'[v] = req[v]
      BY <2>0, <3>1 DEF Finish, TypeOK, Free
    <3>4. FrameOK(w)'
      BY <3>3 DEF FrameOK, FrameIsOld, AcceptHoldsRow, SeatStaysFree, FenceIsHeld, Busy
    <3>5. ASSUME NEW v \in Worker \ {w} PROVE FrameOK(v)'
      <4>1. FrameIsOld(v)'
        <5>1. Busy(v) => \A t \in req[v].fence : t \in Int
          BY <2>0, BusyFrame
        <5> QED BY <2>0, <3>1, <3>3, <5>1 DEF IInv, FrameOK, FrameIsOld, Busy, TypeOK
      <4>2. AcceptHoldsRow(v)'
        BY <3>1, <3>3 DEF IInv, FrameOK, AcceptHoldsRow, Exclude, Busy
      <4>3. SeatStaysFree(v)'
        <5>1. req[v].pc \in {"evict", "insert"} => req[v].device # req[w].device
          BY <3>1 DEF IInv, Exclude, LocksDevice
        <5> QED BY <3>1, <3>2, <3>3, <5>1 DEF IInv, FrameOK, SeatStaysFree, Mine, Seat
      <4>4. Busy(v) => stamp + 1 \notin req[v].fence
        BY <2>0 DEF IInv, FrameOK, FrameIsOld, TypeOK
      <4>5. FenceIsHeld(v)'
        BY <3>1, <3>2, <3>3, <4>4 DEF IInv, FrameOK, FenceIsHeld, Busy
      <4> QED BY <4>1, <4>2, <4>3, <4>5 DEF FrameOK
    <3>6. \A u, v \in Worker : u # v => Exclude(u, v)'
      BY <3>3 DEF IInv, Exclude, Busy, LocksDevice, LocksGroup
    <3>7. req[w].group \in groups
      BY <3>1 DEF IInv, FrameOK, FrameIsOld
    <3>8. RowsAreOld' /\ RemovedStaysOut'
      BY <2>0, <3>1, <3>2, <3>7 DEF IInv, RowsAreOld, RemovedStaysOut, TypeOK, Row
    <3>9. OneSeat'
      <4>1. \A r \in members \cup (pending \ req[w].gone) :
               ~(r.group = req[w].group /\ r.device = req[w].device)
        BY <3>1 DEF IInv, FrameOK, SeatStaysFree, Mine, Seat
      <4> QED BY <3>1, <3>2, <4>1 DEF IInv, OneSeat
    <3> QED BY <2>0, <3>4, <3>5, <3>6, <3>8, <3>9 DEF IInv
  <2>11. ASSUME NEW w \in Worker, accept_fk_group(w) PROVE IInv'
    <3>1. req[w].pc = "fk_group" /\ Busy(w) /\ UNCHANGED tables /\ Goto(w, "fk_device")
      BY <2>11 DEF accept_fk_group, Busy, tables
    <3>2. /\ req'[w].pc = "fk_device" /\ req'[w].group = req[w].group
          /\ req'[w].device = req[w].device /\ req'[w].gone = req[w].gone
          /\ req'[w].fence = req[w].fence /\ \A v \in Worker \ {w} : req'[v] = req[v]
      BY <2>0, <3>1, GotoFrame
    <3>3. AcceptHoldsRow(w)'
      BY <3>1, <3>2 DEF AcceptHoldsRow, IInv, FrameOK, tables
    <3>4. SeatStaysFree(w)' /\ FenceIsHeld(w)' /\ ~LocksGroup(w, req[w].group)'
          /\ ~LocksDevice(w, req[w].device)'
      BY <3>2 DEF SeatStaysFree, FenceIsHeld, LocksGroup, LocksDevice
    <3> QED BY <2>a, <3>1, <3>2, <3>3, <3>4
  <2>12. ASSUME NEW w \in Worker, accept_fk_device(w) PROVE IInv'
    <3>1. /\ req[w].pc = "fk_device" /\ Busy(w) /\ DeviceFree(w, req[w].device)
          /\ pending' = pending \ req[w].gone
          /\ members' = members \/ members' = members \cup req[w].gone
          /\ Finish(w) /\ UNCHANGED <<groups, stamp, expired, revoked>>
      BY <2>12 DEF accept_fk_device, Busy
    <3>2. /\ req[w].gone \subseteq pending
          /\ \A r \in req[w].gone : r.device = req[w].device
      BY <3>1 DEF IInv, FrameOK, AcceptHoldsRow
    <3>3. \A r \in members' \ members, v \in Worker : ~LocksDevice(v, r.device)
      BY <3>1, <3>2 DEF DeviceFree, LocksDevice
    <3>4. req'[w].pc = "free" /\ \A v \in Worker \ {w} : req'[v] = req[v]
      BY <2>0, <3>1 DEF Finish, TypeOK, Free
    <3>5. \A v \in Worker : req'[v].pc # "free" => (pending \ pending') \cap req[v].gone = {}
      BY <3>1, <3>4 DEF IInv, Exclude, Busy
    <3>6. revoked' \in SUBSET (1..stamp) /\ \A r \in members' \cup pending' : r.tag \notin revoked'
      BY <2>0, <3>1, <3>2 DEF IInv, RowsAreOld, RemovedStaysOut, TypeOK
    <3> QED BY <2>0, <3>1, <3>2, <3>3, <3>4, <3>5, <3>6, ShrinkStep
  <2>13. ASSUME NEW w \in Worker, remove_first(w) PROVE IInv'
    <3> DEFINE gone == Mine(pending, w)
    <3>1. /\ req[w].pc = "first_table" /\ Busy(w) /\ UNCHANGED tables
          /\ GotoLocking(w, "second_table", gone) /\ RowsFree(w, gone)
      BY <2>13 DEF remove_first, Busy, tables, GotoLocking, Table, Tables
    <3>2. /\ req'[w].pc = "second_table" /\ req'[w].group = req[w].group
          /\ req'[w].device = req[w].device /\ req'[w].gone = gone
          /\ req'[w].fence = req[w].fence /\ \A v \in Worker \ {w} : req'[v] = req[v]
      BY <2>0, <3>1, LockFrame
    <3>3. FenceIsHeld(w)
      BY DEF IInv, FrameOK
    <3>4. FenceIsHeld(w)'
      BY <3>1, <3>2, <3>3 DEF FenceIsHeld, Mine, Seat, tables
    <3>5. AcceptHoldsRow(w)' /\ SeatStaysFree(w)' /\ ~LocksGroup(w, req[w].group)'
          /\ ~LocksDevice(w, req[w].device)'
      BY <3>2 DEF SeatStaysFree, AcceptHoldsRow, LocksGroup, LocksDevice
    <3>6. RowsFree(w, gone \ req[w].gone)
      BY <3>1 DEF RowsFree
    <3> HIDE DEF gone
    <3> QED BY <2>a, <3>1, <3>2, <3>4, <3>5, <3>6
  <2>14. ASSUME NEW w \in Worker, remove_second(w) PROVE IInv'
    <3>1. /\ req[w].pc = "second_table" /\ Busy(w)
          /\ members' = members \ Mine(members, w) /\ pending' = pending \ req[w].gone
          /\ revoked' = revoked \cup req[w].fence
          /\ Finish(w) /\ UNCHANGED <<groups, stamp, expired>>
      BY <2>14 DEF remove_second, Busy, Table, Tables
    <3>2. req'[w].pc = "free" /\ \A v \in Worker \ {w} : req'[v] = req[v]
      BY <2>0, <3>1 DEF Finish, TypeOK, Free
    <3>3. \A v \in Worker : req'[v].pc # "free" => (pending \ pending') \cap req[v].gone = {}
      BY <3>1, <3>2 DEF IInv, Exclude, Busy
    <3>4. FenceIsHeld(w) /\ FrameIsOld(w)
      BY DEF IInv, FrameOK
    <3>5. revoked' \in SUBSET (1..stamp)
      BY <2>0, <3>1, <3>4, BusyFrame DEF IInv, RowsAreOld, FrameIsOld, TypeOK
    <3>6. \A r \in members' \cup pending' : r.tag \notin req[w].fence
      BY <3>1, <3>4 DEF FenceIsHeld, Mine, Seat
    <3>7. \A r \in members' \cup pending' : r.tag \notin revoked'
      BY <3>1, <3>6 DEF IInv, RemovedStaysOut
    <3> QED BY <2>0, <3>1, <3>2, <3>3, <3>5, <3>7, ShrinkStep
  <2>15. ASSUME NEW w \in Worker, request_fails(w) PROVE IInv'
    BY <2>0, <2>15, FinishStep DEF request_fails, tables
  <2>c. ASSUME UNCHANGED <<groups, members, pending, stamp, req, revoked>> PROVE IInv'
    <3>1. revoked' \in SUBSET (1..stamp) /\ \A r \in members' \cup pending' : r.tag \notin revoked'
      BY <2>0, <2>c DEF IInv, RowsAreOld, RemovedStaysOut, TypeOK
    <3> QED BY <2>0, <2>c, <3>1, ShrinkStep
  <2>16. ASSUME NEW r \in pending, expire(r) PROVE IInv'
    BY <2>16, <2>c DEF expire
  <2>17. CASE UNCHANGED vars
    BY <2>17, <2>c DEF vars
  <2> QED
    BY <2>1, <2>2, <2>3, <2>4, <2>5, <2>6, <2>7, <2>8, <2>9, <2>10, <2>11, <2>12, <2>13,
       <2>14, <2>15, <2>16, <2>17 DEF Next
<1> QED BY <1>1, <1>2, TypeCorrect, PTL DEF Spec

\* A removal is final: no row that was there when remove_member was called outlives
\* it, because the pending table is emptied of the seat first and an accept that holds
\* the row is waited for.
THEOREM RemovalIsFinal == Spec => []RemovedStaysOut
<1>1. IInv => RemovedStaysOut
  BY DEF IInv
<1> QED BY <1>1, InvariantHolds, PTL

\* A device has at most one row in a group, pending or active: the SELECT on which
\* add_pending decides is still true at its INSERT, since the device's row is locked.
THEOREM SeatsAreUnique == Spec => []OneSeat
<1>1. IInv => OneSeat
  BY DEF IInv
<1> QED BY <1>1, InvariantHolds, PTL

-----------------------------------------------------------------------------
\* At most n rows of a finite set have fewer than n newer ones: what an eviction keeps.
LEMMA NewestFew ==
    ASSUME NEW rows, IsFiniteSet(rows), NEW n \in Nat,
           \A r \in rows : r.tag \in Nat, \A r, s \in rows : r.tag = s.tag => r = s,
           NEW kept, kept = {r \in rows : ~(Cardinality({s \in rows : s.tag > r.tag}) >= n)}
    PROVE  IsFiniteSet(kept) /\ Cardinality(kept) <= n
<1> DEFINE tags == {t \in Nat : \E r \in kept : r.tag = t}
<1>0. IsFiniteSet(kept) /\ kept \subseteq rows
  BY FS_Subset
<1>1. CASE kept = {}
  <2>1. Cardinality(kept) = 0
    BY <1>1, FS_EmptySet, Zenon
  <2> QED BY <1>0, <2>1
<1>2. CASE kept # {}
  <2>1. tags # {} /\ tags \subseteq Nat
    BY <1>2, <1>0
  <2>2. PICK t \in tags : \A u \in tags : <<u, t>> \notin OpToRel(<, Nat)
    <3> HIDE DEF tags
    <3> QED BY <2>1, WFMin, NatLessThanWellFounded, Zenon
  <2>3. \A u \in tags : ~(u < t)
    BY <2>2, Zenon DEF OpToRel
  <2>4. PICK r \in kept : r.tag = t
    OBVIOUS
  <2> DEFINE newer == {s \in rows : s.tag > r.tag}
  <2>5. kept \ {r} \subseteq newer
    <3> SUFFICES ASSUME NEW s \in kept, s # r PROVE s.tag > r.tag
      BY <1>0
    <3>1. s.tag \in Nat /\ s.tag \in tags /\ r.tag \in Nat
      BY <1>0
    <3>2. ~(s.tag < r.tag) /\ s.tag # r.tag
      BY <1>0, <2>3, <2>4, <3>1
    <3> QED BY <3>1, <3>2
  <2>6. IsFiniteSet(newer) /\ Cardinality(newer) \in Nat /\ Cardinality(newer) < n
    BY FS_Subset, FS_CardinalityType
  <2>7. Cardinality(kept \ {r}) <= Cardinality(newer) /\ Cardinality(kept \ {r}) = Cardinality(kept) - 1
    BY <1>0, <2>5, <2>6, FS_Subset, FS_RemoveElement
  <2> QED BY <1>0, <2>6, <2>7, FS_CardinalityType
<1> QED BY <1>1, <1>2

DeviceRows(table, d) == {r \in table : r.device = d}
LiveRows(table, g) == {r \in table : r.group = g /\ r.tag \notin expired}

\* The room an add has made, or has found, is still there when it inserts.
Room(w) ==
    /\ req[w].pc = "insert" =>
          Cardinality(DeviceRows(pending \ req[w].gone, req[w].device)) < MAX_PER_DEVICE
    /\ req[w].pc \in {"evict", "insert"} =>
          Cardinality(LiveRows(pending \ req[w].gone, req[w].group)) < MAX_PER_GROUP

CapInv ==
    /\ IsFiniteSet(pending)
    /\ \A w \in Worker : Room(w)
    /\ DeviceCap
    /\ GroupCap

\* A count below a cap stays below it when rows are lost.
LEMMA Fewer ==
    ASSUME NEW S, NEW T, IsFiniteSet(S), T \subseteq S, NEW n \in Nat
    PROVE  /\ Cardinality(S) < n => Cardinality(T) < n
           /\ Cardinality(S) <= n => Cardinality(T) <= n
  BY FS_Subset, FS_CardinalityType

\* One row may be added below a cap.
LEMMA OneMore ==
    ASSUME NEW S, NEW x, IsFiniteSet(S), NEW n \in Nat, Cardinality(S) < n
    PROVE  IsFiniteSet(S \cup {x}) /\ Cardinality(S \cup {x}) <= n
<1>1. Cardinality(S) \in Nat
  BY FS_CardinalityType
<1>2. /\ IsFiniteSet(S \cup {x})
      /\ Cardinality(S \cup {x}) = Cardinality(S) \/ Cardinality(S \cup {x}) = Cardinality(S) + 1
  BY FS_AddElement
<1> QED BY <1>1, <1>2

\* A request that keeps its frame keeps its room unless rows of its device or group appear.
LEMMA RoomStays ==
    ASSUME CapInv, NEW w \in Worker, req'[w] = req[w], expired \subseteq expired',
           req[w].pc \in {"evict", "insert"} =>
               \A r \in pending' \ pending : r.device # req[w].device /\ r.group # req[w].group
    PROVE  Room(w)'
<1>1. CASE req[w].pc \notin {"evict", "insert"}
  BY <1>1 DEF Room
<1>2. CASE req[w].pc \in {"evict", "insert"}
  <2> DEFINE D == DeviceRows(pending \ req[w].gone, req[w].device)
             L == LiveRows(pending \ req[w].gone, req[w].group)
  <2>1. D' \subseteq D /\ L' \subseteq L
    BY <1>2 DEF DeviceRows, LiveRows
  <2>2. IsFiniteSet(D) /\ IsFiniteSet(L)
    BY FS_Subset DEF CapInv, DeviceRows, LiveRows
  <2>3. (req[w].pc = "insert" => Cardinality(D) < MAX_PER_DEVICE) /\ Cardinality(L) < MAX_PER_GROUP
    BY <1>2 DEF CapInv, Room
  <2> HIDE DEF D, L
  <2>4. (req[w].pc = "insert" => Cardinality(D') < MAX_PER_DEVICE) /\ Cardinality(L') < MAX_PER_GROUP
    BY <2>1, <2>2, <2>3, Fewer, MembershipAssumption
  <2> QED BY <2>4 DEF Room, D, L
<1> QED BY <1>1, <1>2

\* A step by which rows only disappear or expire, and no add gets further.
LEMMA CapShrink ==
    ASSUME CapInv, pending' \subseteq pending, expired \subseteq expired',
           \A w \in Worker : req'[w] = req[w] \/ req'[w].pc \notin {"evict", "insert"}
    PROVE  CapInv'
<1>1. IsFiniteSet(pending')
  BY FS_Subset DEF CapInv
<1>2. ASSUME NEW w \in Worker PROVE Room(w)'
  <2>1. CASE req'[w] = req[w]
    BY <2>1, RoomStays
  <2>2. CASE req'[w].pc \notin {"evict", "insert"}
    BY <2>2 DEF Room
  <2> QED BY <2>1, <2>2
<1>3. DeviceCap'
  <2> SUFFICES ASSUME NEW d \in Device
               PROVE  Cardinality({r \in pending' : r.device = d}) <= MAX_PER_DEVICE
    BY DEF DeviceCap
  <2>1. IsFiniteSet({r \in pending : r.device = d})
    BY FS_Subset DEF CapInv
  <2>2. Cardinality({r \in pending : r.device = d}) <= MAX_PER_DEVICE
    BY DEF CapInv, DeviceCap
  <2>3. {r \in pending' : r.device = d} \subseteq {r \in pending : r.device = d}
    OBVIOUS
  <2> QED BY <2>1, <2>2, <2>3, Fewer, MembershipAssumption
<1>4. GroupCap'
  <2> DEFINE Live(g) == {r \in pending : r.group = g /\ r.tag \notin expired}
  <2> SUFFICES ASSUME NEW g \in Group PROVE Cardinality(Live(g)') <= MAX_PER_GROUP
    BY DEF GroupCap
  <2>1. IsFiniteSet(Live(g))
    BY FS_Subset DEF CapInv
  <2>2. Cardinality(Live(g)) <= MAX_PER_GROUP
    BY DEF CapInv, GroupCap
  <2>3. Live(g)' \subseteq Live(g)
    OBVIOUS
  <2> QED BY <2>1, <2>2, <2>3, Fewer, MembershipAssumption
<1> QED BY <1>1, <1>2, <1>3, <1>4 DEF CapInv

LEMMA CapHolds == Spec => []CapInv
<1>1. Init => CapInv
  <2> SUFFICES ASSUME Init PROVE CapInv
    OBVIOUS
  <2>1. \A T : T \subseteq pending => T = {}
    BY DEF Init
  <2>2. IsFiniteSet(pending) /\ Cardinality({}) = 0
    BY FS_EmptySet DEF Init
  <2>3. DeviceCap
    <3> SUFFICES ASSUME NEW d \in Device
                 PROVE  Cardinality({r \in pending : r.device = d}) <= MAX_PER_DEVICE
      BY DEF DeviceCap
    <3>1. {r \in pending : r.device = d} = {}
      BY DEF Init
    <3> QED BY <2>2, <3>1, MembershipAssumption
  <2>4. GroupCap
    <3> SUFFICES ASSUME NEW g \in Group
                 PROVE  Cardinality({r \in pending : r.group = g /\ r.tag \notin expired})
                           <= MAX_PER_GROUP
      BY DEF GroupCap
    <3>1. {r \in pending : r.group = g /\ r.tag \notin expired} = {}
      BY DEF Init
    <3> QED BY <2>2, <3>1, MembershipAssumption
  <2>5. \A w \in Worker : Room(w)
    BY DEF Init, Room, Free
  <2> QED BY <2>2, <2>3, <2>4, <2>5 DEF CapInv
<1>2. IInv /\ CapInv /\ [Next]_vars => CapInv'
  <2> SUFFICES ASSUME IInv, CapInv, [Next]_vars PROVE CapInv'
    OBVIOUS
  <2>0. TypeOK
    BY DEF IInv
  <2>a. ASSUME NEW w \in Worker, \A v \in Worker \ {w} : req'[v] = req[v],
               req'[w].pc \notin {"evict", "insert"},
               pending' \subseteq pending, UNCHANGED expired
        PROVE  CapInv'
    BY <2>a, CapShrink
  <2>b. ASSUME NEW w \in Worker, Finish(w)
        PROVE  req'[w].pc = "free" /\ \A v \in Worker \ {w} : req'[v] = req[v]
    BY <2>0, <2>b DEF Finish, TypeOK, Free
  <2>c. ASSUME NEW w \in Worker, Busy(w), NEW pc, Goto(w, pc), pc \notin {"evict", "insert"},
               UNCHANGED <<pending, expired>>
        PROVE  CapInv'
    BY <2>0, <2>a, <2>c, GotoFrame
  <2>d. ASSUME NEW w \in Worker, NEW f, req' = [req EXCEPT ![w] = f],
               f.pc \notin {"evict", "insert"}, UNCHANGED <<pending, expired>>
        PROVE  CapInv'
    <3>1. req'[w] = f /\ \A v \in Worker \ {w} : req'[v] = req[v]
      BY <2>0, <2>d DEF TypeOK
    <3> QED BY <2>a, <2>d, <3>1
  <2>1. ASSUME NEW d \in Device, NEW g \in Group, create_group(d, g) PROVE CapInv'
    BY <2>1, CapShrink DEF create_group
  <2>2. ASSUME NEW d \in Device, NEW g \in Group, decline_pending(g, d) PROVE CapInv'
    BY <2>2, CapShrink DEF decline_pending
  <2>3. ASSUME NEW w \in Worker, NEW d \in Device, NEW g \in Group, accept_pending(w, g, d)
        PROVE  CapInv'
    BY <2>3, <2>d DEF accept_pending, Start
  <2>4. ASSUME NEW w \in Worker, NEW d \in Device, NEW g \in Group, NEW c \in Device,
               add_member(w, c, g, d) \/ remove_member(w, c, g, d)
        PROVE  CapInv'
    BY <2>4, <2>d DEF add_member, remove_member, Start
  <2>5. ASSUME NEW w \in Worker, lock_device(w) PROVE CapInv'
    BY <2>5, <2>c DEF lock_device, Busy
  <2>6. ASSUME NEW w \in Worker, lock_group(w) PROVE CapInv'
    BY <2>6, <2>c DEF lock_group, Busy
  <2>7. ASSUME NEW w \in Worker, add_check(w) PROVE CapInv'
    <3>1. req[w].pc = "check" /\ Busy(w) /\ UNCHANGED <<pending, expired>>
      BY <2>7 DEF add_check, Busy
    <3>2. PICK purged : \/ Finish(w)
                        \/ GotoLocking(w, "evict", purged) /\ ~GroupFull(w, pending \ purged)
      BY <2>7 DEF add_check, GotoLocking
    <3>3. CASE Finish(w)
      BY <2>a, <2>b, <3>1, <3>3
    <3>4. CASE GotoLocking(w, "evict", purged) /\ ~GroupFull(w, pending \ purged)
      <4>1. /\ req'[w].pc = "evict" /\ req'[w].group = req[w].group
            /\ req'[w].gone = purged /\ \A v \in Worker \ {w} : req'[v] = req[v]
        BY <2>0, <3>1, <3>4, LockFrame
      <4>2. IsFiniteSet(LiveRows(pending \ purged, req[w].group))
        BY FS_Subset DEF CapInv, LiveRows
      <4>3. Cardinality(LiveRows(pending \ purged, req[w].group)) < MAX_PER_GROUP
        BY <3>4, <4>2, FS_CardinalityType, MembershipAssumption DEF GroupFull, LiveRows
      <4>4. Room(w)'
        BY <3>1, <4>1, <4>3 DEF Room, LiveRows
      <4>5. \A v \in Worker \ {w} : Room(v)'
        BY <3>1, <4>1, RoomStays
      <4> QED BY <3>1, <4>4, <4>5 DEF CapInv, DeviceCap, GroupCap
    <3> QED BY <3>2, <3>3, <3>4
  <2>8. ASSUME NEW w \in Worker, add_evict(w) PROVE CapInv'
    <3> DEFINE gone == req[w].gone \cup Evicted(w)
               rows == DeviceRows(pending \ req[w].gone, req[w].device)
               kept == {r \in rows :
                           ~(Cardinality({s \in rows : s.tag > r.tag}) >= MAX_PER_DEVICE - 1)}
    <3>1. /\ req[w].pc = "evict" /\ Busy(w) /\ UNCHANGED <<pending, expired>>
          /\ GotoLocking(w, "insert", gone)
      BY <2>8 DEF add_evict, Busy, GotoLocking
    <3>2. /\ req'[w].pc = "insert" /\ req'[w].group = req[w].group
          /\ req'[w].device = req[w].device /\ req'[w].gone = gone
          /\ \A v \in Worker \ {w} : req'[v] = req[v]
      BY <2>0, <3>1, LockFrame
    <3>3. DeviceRows(pending \ gone, req[w].device) = kept
      BY DEF DeviceRows, Evicted
    <3>4. /\ IsFiniteSet(rows) /\ \A r \in rows : r.tag \in Nat
          /\ \A r, s \in rows : r.tag = s.tag => r = s
      <4>1. rows \subseteq pending
        BY DEF DeviceRows
      <4> HIDE DEF rows
      <4> QED BY <2>0, <4>1, FS_Subset DEF CapInv, IInv, RowsAreOld, TypeOK, Row
    <3>5. Cardinality(kept) <= MAX_PER_DEVICE - 1 /\ Cardinality(kept) \in Nat
      <4> HIDE DEF rows
      <4>1. MAX_PER_DEVICE - 1 \in Nat
        BY MembershipAssumption
      <4> QED BY <3>4, <4>1, NewestFew, FS_CardinalityType
    <3>6. Cardinality(LiveRows(pending \ gone, req[w].group)) < MAX_PER_GROUP
      <4>1. LiveRows(pending \ gone, req[w].group)
               \subseteq LiveRows(pending \ req[w].gone, req[w].group)
        BY DEF LiveRows
      <4>2. IsFiniteSet(LiveRows(pending \ req[w].gone, req[w].group))
        BY FS_Subset DEF CapInv, LiveRows
      <4>3. Cardinality(LiveRows(pending \ req[w].gone, req[w].group)) < MAX_PER_GROUP
        BY <3>1 DEF CapInv, Room
      <4> HIDE DEF gone
      <4> QED BY <4>1, <4>2, <4>3, Fewer, MembershipAssumption
    <3>7. Room(w)'
      <4>1. Cardinality(DeviceRows(pending \ gone, req[w].device)) < MAX_PER_DEVICE
        <5> HIDE DEF kept, gone
        <5> QED BY <3>3, <3>5, MembershipAssumption
      <4> HIDE DEF gone
      <4> QED BY <3>1, <3>2, <3>6, <4>1 DEF Room, LiveRows, DeviceRows
    <3>8. \A v \in Worker \ {w} : Room(v)'
      BY <3>1, <3>2, RoomStays
    <3> QED BY <3>1, <3>7, <3>8 DEF CapInv, DeviceCap, GroupCap
  <2>9. ASSUME NEW w \in Worker, add_insert(w) PROVE CapInv'
    <3> DEFINE new == [group |-> req[w].group, device |-> req[w].device, tag |-> stamp + 1]
               rest == pending \ req[w].gone
    <3>1. /\ req[w].pc = "insert" /\ Busy(w) /\ pending' = rest \cup {new}
          /\ Finish(w) /\ UNCHANGED expired
      BY <2>9 DEF add_insert, Busy
    <3>2. new.group = req[w].group /\ new.device = req[w].device
      OBVIOUS
    <3> HIDE DEF new
    <3>3. req'[w].pc = "free" /\ \A v \in Worker \ {w} : req'[v] = req[v]
      BY <2>b, <3>1
    <3>4. IsFiniteSet(rest) /\ IsFiniteSet(pending')
      BY <3>1, FS_Subset, FS_AddElement DEF CapInv
    <3>5. Room(w)'
      BY <3>3 DEF Room
    <3>6. ASSUME NEW v \in Worker \ {w} PROVE Room(v)'
      <4>1. req[v].pc \in {"evict", "insert"} =>
               req[v].device # req[w].device /\ req[v].group # req[w].group
        BY <3>1 DEF IInv, Exclude, LocksDevice, LocksGroup
      <4>2. \A r \in pending' \ pending : r = new
        BY <3>1
      <4> QED BY <3>1, <3>2, <3>3, <4>1, <4>2, RoomStays
    <3>7. DeviceCap'
      <4> SUFFICES ASSUME NEW d \in Device
                   PROVE  Cardinality(DeviceRows(pending', d)) <= MAX_PER_DEVICE
        BY DEF DeviceCap, DeviceRows
      <4>1. CASE d # req[w].device
        <5>1. DeviceRows(pending', d) \subseteq DeviceRows(pending, d)
          BY <3>1, <3>2, <4>1 DEF DeviceRows
        <5>2. IsFiniteSet(DeviceRows(pending, d))
          BY FS_Subset DEF CapInv, DeviceRows
        <5>3. Cardinality(DeviceRows(pending, d)) <= MAX_PER_DEVICE
          BY DEF CapInv, DeviceCap, DeviceRows
        <5> QED BY <5>1, <5>2, <5>3, Fewer, MembershipAssumption
      <4>2. CASE d = req[w].device
        <5>1. DeviceRows(pending', d) = DeviceRows(rest, d) \cup {new}
          BY <3>1, <3>2, <4>2 DEF DeviceRows
        <5>2. IsFiniteSet(DeviceRows(rest, d))
          BY <3>4, FS_Subset DEF DeviceRows
        <5>3. Cardinality(DeviceRows(rest, d)) < MAX_PER_DEVICE
          BY <3>1, <4>2 DEF CapInv, Room
        <5> HIDE DEF rest
        <5> QED BY <5>1, <5>2, <5>3, OneMore, MembershipAssumption
      <4> QED BY <4>1, <4>2
    <3>8. GroupCap'
      <4> SUFFICES ASSUME NEW g \in Group
                   PROVE  Cardinality(LiveRows(pending', g)) <= MAX_PER_GROUP
        BY <3>1 DEF GroupCap, LiveRows
      <4>1. CASE g # req[w].group
        <5>1. LiveRows(pending', g) \subseteq LiveRows(pending, g)
          BY <3>1, <3>2, <4>1 DEF LiveRows
        <5>2. IsFiniteSet(LiveRows(pending, g))
          BY FS_Subset DEF CapInv, LiveRows
        <5>3. Cardinality(LiveRows(pending, g)) <= MAX_PER_GROUP
          BY DEF CapInv, GroupCap, LiveRows
        <5> QED BY <5>1, <5>2, <5>3, Fewer, MembershipAssumption
      <4>2. CASE g = req[w].group
        <5>1. LiveRows(pending', g) \subseteq LiveRows(rest, g) \cup {new}
          BY <3>1, <4>2 DEF LiveRows
        <5>2. IsFiniteSet(LiveRows(rest, g))
          BY <3>4, FS_Subset DEF LiveRows
        <5>3. Cardinality(LiveRows(rest, g)) < MAX_PER_GROUP
          BY <3>1, <4>2 DEF CapInv, Room
        <5> HIDE DEF rest
        <5>4. /\ IsFiniteSet(LiveRows(rest, g) \cup {new})
              /\ Cardinality(LiveRows(rest, g) \cup {new}) <= MAX_PER_GROUP
          BY <5>2, <5>3, OneMore, MembershipAssumption
        <5> QED BY <5>1, <5>4, Fewer, MembershipAssumption
      <4> QED BY <4>1, <4>2
    <3> QED BY <3>4, <3>5, <3>6, <3>7, <3>8 DEF CapInv
  <2>10. ASSUME NEW w \in Worker, accept_fk_group(w) PROVE CapInv'
    BY <2>10, <2>c DEF accept_fk_group, Busy
  <2>11. ASSUME NEW w \in Worker, accept_fk_device(w) PROVE CapInv'
    BY <2>11, <2>a, <2>b DEF accept_fk_device
  <2>12. ASSUME NEW w \in Worker, remove_first(w) PROVE CapInv'
    <3> DEFINE gone == Mine(Table(Tables[1]), w)
    <3>1. Busy(w) /\ UNCHANGED <<pending, expired>> /\ GotoLocking(w, "second_table", gone)
      BY <2>12 DEF remove_first, Busy, GotoLocking
    <3> HIDE DEF gone
    <3>2. req'[w].pc = "second_table" /\ \A v \in Worker \ {w} : req'[v] = req[v]
      BY <2>0, <3>1, LockFrame
    <3> QED BY <2>a, <3>1, <3>2
  <2>13. ASSUME NEW w \in Worker, remove_second(w) PROVE CapInv'
    BY <2>13, <2>a, <2>b DEF remove_second, Tables
  <2>14. ASSUME NEW w \in Worker, request_fails(w) PROVE CapInv'
    BY <2>14, <2>a, <2>b DEF request_fails
  <2>15. ASSUME NEW r \in pending, expire(r) PROVE CapInv'
    BY <2>15, CapShrink DEF expire
  <2>16. CASE UNCHANGED vars
    BY <2>16, CapShrink DEF vars
  <2> QED
    BY <2>1, <2>2, <2>3, <2>4, <2>5, <2>6, <2>7, <2>8, <2>9, <2>10, <2>11, <2>12, <2>13,
       <2>14, <2>15, <2>16 DEF Next
<1> QED BY <1>1, <1>2, InvariantHolds, PTL DEF Spec

\* No device ever has more than MAX_PER_DEVICE pending rows: the eviction makes room
\* under the device's lock, and only the holder of that lock adds a row of the device.
THEOREM DeviceCapHolds == Spec => []DeviceCap
<1>1. CapInv => DeviceCap
  BY DEF CapInv
<1> QED BY <1>1, CapHolds, PTL

\* No group ever has more than MAX_PER_GROUP unexpired pending rows, under the group's lock.
THEOREM GroupCapHolds == Spec => []GroupCap
<1>1. CapInv => GroupCap
  BY DEF CapInv
<1> QED BY <1>1, CapHolds, PTL

=============================================================================
