----------------------------- MODULE Membership -----------------------------
(***************************************************************************)
(* Group membership with consent, in a group's home region: GroupService   *)
(* over PgGroupRepository's tables group_members and pending_memberships.  *)
(*                                                                         *)
(* Each statement of a transaction is a step.  What one transaction sees   *)
(* of another, and what it waits for, is Postgres READ COMMITTED: SELECT   *)
(* ... FOR UPDATE and DELETE keep their rows until the transaction ends,   *)
(* and an INSERT's foreign keys share-lock the group's row, then the       *)
(* device's.  A row's tag is its place in insertion order.  created_at, by *)
(* which add_pending evicts, is the start of the inserting transaction: it *)
(* differs only between adds that waited for one another.                  *)
(***************************************************************************)
EXTENDS Integers, FiniteSets, FiniteSetsExt

CONSTANTS
    Device, Group,
    Worker,         \* requests that may be in flight at once
    MAX_PER_DEVICE, \* PENDING_MEMBERSHIP_MAX_PER_DEVICE
    MAX_PER_GROUP,  \* PENDING_MEMBERSHIP_MAX_PER_GROUP
    PURGE_BATCH,    \* PENDING_MEMBERSHIP_PURGE_BATCH
    MaxRows         \* bound: rows ever inserted

ASSUME MembershipAssumption ==
    /\ MAX_PER_DEVICE \in Nat \ {0}
    /\ MAX_PER_GROUP \in Nat \ {0}
    /\ PURGE_BATCH \in Nat \ {0}
    /\ MaxRows \in Nat

VARIABLES
    groups,     \* groups that exist
    members,    \* group_members
    pending,    \* pending_memberships
    stamp,      \* the last tag handed out
    expired,    \* tags older than PENDING_MEMBERSHIP_TTL_DAYS
    req,        \* req[w]: the request worker w is running
    revoked     \* history: tags of the rows a committed removal was to end

vars == <<groups, members, pending, stamp, expired, req, revoked>>

Row == [group : Group, device : Device, tag : 1..MaxRows]

\* A frame: where the request is, the seat it is about, the rows it has deleted so
\* far and the tags its removal must put an end to.
Free == [pc |-> "free"]
Pc == {"lock_device", "lock_group", "check", "evict", "insert", "fk_group", "fk_device",
       "first_table", "second_table"}
Frame == [pc : Pc, group : Group, device : Device, gone : SUBSET Row,
          fence : SUBSET (1..MaxRows)]

Seat(table, g, d) == {r \in table : r.group = g /\ r.device = d}
Mine(table, w) == Seat(table, req[w].group, req[w].device)
IsMember(g, d) == Seat(members, g, d) # {}

Start(w, pc, g, d, gone, fence) ==
    req' = [req EXCEPT ![w] = [pc |-> pc, group |-> g, device |-> d,
                               gone |-> gone, fence |-> fence]]
Goto(w, pc) == req' = [req EXCEPT ![w].pc = pc]
Finish(w) == req' = [req EXCEPT ![w] = Free]

Init ==
    /\ groups = {}
    /\ members = {}
    /\ pending = {}
    /\ stamp = 0
    /\ expired = {}
    /\ req = [w \in Worker |-> Free]
    /\ revoked = {}

(***************************************************************************)
(* Locks.  Only other transactions block one.                              *)
(***************************************************************************)
LocksDevice(v, d) == req[v].pc \in {"lock_group", "check", "evict", "insert"} /\ req[v].device = d
LocksGroup(v, g) == req[v].pc \in {"check", "evict", "insert"} /\ req[v].group = g
SharesGroup(v, g) == req[v].pc = "fk_device" /\ req[v].group = g
LocksRow(v, r) == req[v].pc # "free" /\ r \in req[v].gone

DeviceFree(w, d) == \A v \in Worker \ {w} : ~LocksDevice(v, d)
GroupFree(w, g) == \A v \in Worker \ {w} : ~LocksGroup(v, g) /\ ~SharesGroup(v, g)
RowsFree(w, rows) == \A v \in Worker \ {w}, r \in rows : ~LocksRow(v, r)

(***************************************************************************)
(* create_group: group and creator in one transaction, or nothing.  For an *)
(* id that exists the caller's answer depends on its membership; no row    *)
(* changes.                                                                *)
(***************************************************************************)
create_group(d, g) ==
    /\ g \notin groups
    /\ stamp < MaxRows
    /\ \A v \in Worker : ~LocksDevice(v, d)
    /\ stamp' = stamp + 1
    /\ groups' = groups \cup {g}
    /\ members' = members \cup {[group |-> g, device |-> d, tag |-> stamp + 1]}
    /\ UNCHANGED <<pending, expired, req, revoked>>

(***************************************************************************)
(* add_member: the caller must be a member; the device only becomes        *)
(* pending (add_pending).                                                  *)
(***************************************************************************)
add_member(w, caller, g, d) ==
    /\ req[w] = Free
    /\ IsMember(g, caller)
    /\ Start(w, "lock_device", g, d, {}, {})
    /\ UNCHANGED <<groups, members, pending, stamp, expired, revoked>>

lock_device_unlocked(w) ==                   \* mutant: no FOR UPDATE on the device
    /\ req[w].pc = "lock_device"
    /\ Goto(w, "lock_group")
    /\ UNCHANGED <<groups, members, pending, stamp, expired, revoked>>

lock_device(w) ==
    /\ req[w].pc = "lock_device"
    /\ DeviceFree(w, req[w].device)
    /\ Goto(w, "lock_group")
    /\ UNCHANGED <<groups, members, pending, stamp, expired, revoked>>

lock_group_unlocked(w) ==                    \* mutant: no FOR UPDATE on the group
    /\ req[w].pc = "lock_group"
    /\ Goto(w, "check")
    /\ UNCHANGED <<groups, members, pending, stamp, expired, revoked>>

lock_group(w) ==
    /\ req[w].pc = "lock_group"
    /\ GroupFree(w, req[w].group)
    /\ Goto(w, "check")
    /\ UNCHANGED <<groups, members, pending, stamp, expired, revoked>>

\* The bounded purge of expired rows, wherever they are.
ToPurge ==
    LET old == {r \in pending : r.tag \in expired}
    IN  IF Cardinality(old) <= PURGE_BATCH THEN {old} ELSE kSubset(PURGE_BATCH, old)

SeatedIgnoringActive(w, rest) == Mine(rest, w) # {}         \* mutant
Seated(w, rest) == Mine(members, w) # {} \/ Mine(rest, w) # {}
GroupFull(w, rest) ==
    Cardinality({r \in rest : r.group = req[w].group /\ r.tag \notin expired}) >= MAX_PER_GROUP

\* Purge, then the one SELECT the decision rests on.  An early return drops the
\* transaction, and the purge with it.
add_check(w) ==
    /\ req[w].pc = "check"
    /\ \E purged \in ToPurge :
          /\ RowsFree(w, purged)
          /\ LET rest == pending \ purged
             IN  IF Seated(w, rest) \/ GroupFull(w, rest)
                 THEN Finish(w)
                 ELSE req' = [req EXCEPT ![w].pc = "evict", ![w].gone = purged]
    /\ UNCHANGED <<groups, members, pending, stamp, expired, revoked>>

\* The device's rows beyond its MAX_PER_DEVICE - 1 newest make room.
Evicted(w) ==
    LET rows == {r \in pending \ req[w].gone : r.device = req[w].device}
    IN  {r \in rows : Cardinality({s \in rows : s.tag > r.tag}) >= MAX_PER_DEVICE - 1}

add_evict(w) ==
    /\ req[w].pc = "evict"
    /\ RowsFree(w, Evicted(w))
    /\ req' = [req EXCEPT ![w].pc = "insert", ![w].gone = @ \cup Evicted(w)]
    /\ UNCHANGED <<groups, members, pending, stamp, expired, revoked>>

add_insert(w) ==
    /\ req[w].pc = "insert"
    /\ stamp < MaxRows
    /\ stamp' = stamp + 1
    /\ pending' = (pending \ req[w].gone) \cup
          {[group |-> req[w].group, device |-> req[w].device, tag |-> stamp + 1]}
    /\ Finish(w)
    /\ UNCHANGED <<groups, members, expired, revoked>>

(***************************************************************************)
(* accept_membership: one statement deletes the pending row and inserts    *)
(* the member; its foreign keys then want the group's and the device's     *)
(* rows.  Without an unexpired pending row nothing changes.                *)
(***************************************************************************)
accept_pending(w, g, d) ==
    /\ req[w] = Free
    /\ \E r \in Seat(pending, g, d) :
          /\ r.tag \notin expired
          /\ RowsFree(w, {r})
          /\ Start(w, "fk_group", g, d, {r}, {})
    /\ UNCHANGED <<groups, members, pending, stamp, expired, revoked>>

accept_fk_group(w) ==
    /\ req[w].pc = "fk_group"
    /\ \A v \in Worker \ {w} : ~LocksGroup(v, req[w].group)
    /\ Goto(w, "fk_device")
    /\ UNCHANGED <<groups, members, pending, stamp, expired, revoked>>

accept_fk_device(w) ==
    /\ req[w].pc = "fk_device"
    /\ DeviceFree(w, req[w].device)
    /\ pending' = pending \ req[w].gone
    /\ members' = IF Mine(members, w) # {} THEN members ELSE members \cup req[w].gone
    /\ Finish(w)
    /\ UNCHANGED <<groups, stamp, expired, revoked>>

decline_pending(g, d) ==
    /\ Seat(pending, g, d) # {}
    /\ \A v \in Worker, r \in Seat(pending, g, d) : ~LocksRow(v, r)
    /\ pending' = pending \ Seat(pending, g, d)
    /\ UNCHANGED <<groups, members, stamp, expired, req, revoked>>

(***************************************************************************)
(* remove_member: the caller must be a member; then both tables, in order, *)
(* in one transaction.                                                     *)
(***************************************************************************)
remove_member(w, caller, g, d) ==
    /\ req[w] = Free
    /\ IsMember(g, caller)
    /\ Start(w, "first_table", g, d, {},
             {r.tag : r \in Seat(pending, g, d) \cup Seat(members, g, d)})
    /\ UNCHANGED <<groups, members, pending, stamp, expired, revoked>>

TablesMembersFirst == <<"group_members", "pending_memberships">>     \* mutant
Tables == <<"pending_memberships", "group_members">>
Table(name) == IF name = "group_members" THEN members ELSE pending

remove_first(w) ==
    /\ req[w].pc = "first_table"
    /\ RowsFree(w, Mine(Table(Tables[1]), w))
    /\ req' = [req EXCEPT ![w].pc = "second_table",
                          ![w].gone = Mine(Table(Tables[1]), w)]
    /\ UNCHANGED <<groups, members, pending, stamp, expired, revoked>>

remove_second(w) ==
    /\ req[w].pc = "second_table"
    /\ LET rows == Mine(Table(Tables[2]), w)
       IN  /\ RowsFree(w, rows)
           /\ members' = IF Tables[1] = "group_members" THEN members \ req[w].gone
                                                         ELSE members \ rows
           /\ pending' = IF Tables[1] = "group_members" THEN pending \ rows
                                                         ELSE pending \ req[w].gone
    /\ revoked' = revoked \cup req[w].fence
    /\ Finish(w)
    /\ UNCHANGED <<groups, stamp, expired>>

\* A database error, a dropped request, or Postgres aborting the victim of a
\* deadlock: the transaction rolls back.
request_fails(w) ==
    /\ req[w] # Free
    /\ Finish(w)
    /\ UNCHANGED <<groups, members, pending, stamp, expired, revoked>>

expire(r) ==
    /\ r.tag \notin expired
    /\ expired' = expired \cup {r.tag}
    /\ UNCHANGED <<groups, members, pending, stamp, req, revoked>>

Next ==
    \/ \E d \in Device, g \in Group :
          \/ create_group(d, g)
          \/ decline_pending(g, d)
          \/ \E w \in Worker :
                \/ accept_pending(w, g, d)
                \/ \E caller \in Device :
                      add_member(w, caller, g, d) \/ remove_member(w, caller, g, d)
    \/ \E w \in Worker :
          \/ lock_device(w) \/ lock_group(w) \/ add_check(w)
          \/ add_evict(w) \/ add_insert(w)
          \/ accept_fk_group(w) \/ accept_fk_device(w)
          \/ remove_first(w) \/ remove_second(w)
          \/ request_fails(w)
    \/ \E r \in pending : expire(r)

Spec == Init /\ [][Next]_vars

-----------------------------------------------------------------------------
\* Type invariant.
TypeOK ==
    /\ groups \subseteq Group
    /\ members \subseteq Row
    /\ pending \subseteq Row
    /\ stamp \in 0..MaxRows
    /\ expired \subseteq 1..MaxRows
    /\ req \in [Worker -> {Free} \cup Frame]
    /\ revoked \subseteq 1..MaxRows

\* A removal is final: no membership, and no invitation to one, that existed when
\* the removal was requested survives it, whatever accepts, declines and adds run
\* between its two DELETEs ("an accept racing the removal can then only find
\* nothing, never re-seat the device").
RemovedStaysOut == \A r \in members \cup pending : r.tag \notin revoked

\* One seat per device and group: never two pending rows, two member rows or one
\* of each, although add_pending decides on a SELECT it made before its INSERT.
OneSeat ==
    \A r, s \in members \cup pending :
        (r.group = s.group /\ r.device = s.device) => r = s

\* The per-device cap holds after every commit, with adds into several groups in
\* flight and expired rows still unpurged.
DeviceCap ==
    \A d \in Device : Cardinality({r \in pending : r.device = d}) <= MAX_PER_DEVICE

\* The per-group cap on unexpired rows holds likewise.
GroupCap ==
    \A g \in Group :
        Cardinality({r \in pending : r.group = g /\ r.tag \notin expired}) <= MAX_PER_GROUP
=============================================================================
