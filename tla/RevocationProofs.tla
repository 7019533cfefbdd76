-------------------------- MODULE RevocationProofs --------------------------
(***************************************************************************)
(* What holds of Revocation for every set of devices, groups and requests  *)
(* in flight: its types, that a revocation leaves no KeyPackage it set out *)
(* to delete, that its reminders outlive the device, and why a session may *)
(* survive it.                                                             *)
(***************************************************************************)
EXTENDS Revocation, TLAPS

RevokePc == {"index", "invites", "groups", "remind", "packages", "delete",
             "tokens", "sessions", "untrack"}
LoginPc == {"find", "count", "session", "track", "untracked", "expire", "verify",
            "clean_session", "clean_set"}
OtherPc == {"mint", "upload", "invite", "add", "join", "clear"}

\* The order of revoke_device's steps.
LEMMA StepNumbers ==
    /\ DOMAIN RevokeSteps = 1..9
    /\ RevokeSteps[1] = "index" /\ RevokeSteps[2] = "invites" /\ RevokeSteps[3] = "groups"
    /\ RevokeSteps[4] = "remind" /\ RevokeSteps[5] = "packages" /\ RevokeSteps[6] = "delete"
    /\ RevokeSteps[7] = "tokens" /\ RevokeSteps[8] = "sessions" /\ RevokeSteps[9] = "untrack"
  BY DEF RevokeSteps

LEMMA Positions ==
    /\ Position("index") = 1 /\ Position("invites") = 2 /\ Position("groups") = 3
    /\ Position("remind") = 4 /\ Position("packages") = 5 /\ Position("delete") = 6
    /\ Position("tokens") = 7 /\ Position("sessions") = 8 /\ Position("untrack") = 9
<1>1. ASSUME NEW n \in 1..9 PROVE Position(RevokeSteps[n]) = n
  <2>1. \A i \in 1..9 : RevokeSteps[i] = RevokeSteps[n] => i = n
    BY StepNumbers
  <2>2. Position(RevokeSteps[n]) \in 1..9 /\ RevokeSteps[Position(RevokeSteps[n])] = RevokeSteps[n]
    BY StepNumbers DEF Position
  <2> QED BY <2>1, <2>2
<1> QED BY <1>1, StepNumbers

LEMMA StepNames ==
    /\ {RevokeSteps[i] : i \in DOMAIN RevokeSteps} = RevokePc
    /\ \A w \in Worker : Revoking(w) <=> req[w].pc \in RevokePc
    /\ \A w \in Worker : Deleted(w) <=> req[w].pc \in {"tokens", "sessions", "untrack"}
<1>1. {RevokeSteps[i] : i \in DOMAIN RevokeSteps} = RevokePc
  <2>1. ASSUME NEW i \in 1..9 PROVE RevokeSteps[i] \in RevokePc
    BY StepNumbers DEF RevokePc
  <2>2. \A p \in RevokePc : \E i \in 1..9 : RevokeSteps[i] = p
    BY StepNumbers DEF RevokePc
  <2> QED BY <2>1, <2>2, StepNumbers
<1>2. \A w \in Worker : Revoking(w) <=> req[w].pc \in RevokePc
  BY <1>1 DEF Revoking
<1>3. ASSUME NEW p \in RevokePc
      PROVE  Position(p) > Position("delete") <=> p \in {"tokens", "sessions", "untrack"}
  BY Positions DEF RevokePc
<1>4. {"tokens", "sessions", "untrack"} \subseteq RevokePc
  BY DEF RevokePc
<1>5. \A w \in Worker : Deleted(w) <=> req[w].pc \in {"tokens", "sessions", "untrack"}
  BY <1>2, <1>3, <1>4 DEF Deleted
<1> QED BY <1>1, <1>2, <1>5

-----------------------------------------------------------------------------
\* How a step changes req: only worker w's frame, which it starts, moves on or ends.
Alone(w) ==
    /\ req' \in [Worker -> {Free} \cup Frame]
    /\ \A v \in Worker \ {w} : req'[v] = req[v]
Starts(w, pc, d, token, proof, todo, fence) ==
    /\ Alone(w)
    /\ req'[w].pc = pc /\ req'[w].dev = d /\ req'[w].token = token /\ req'[w].proof = proof
    /\ req'[w].todo = todo /\ req'[w].groups = {} /\ req'[w].fence = fence
Moves(w, pc, todo, groups) ==
    /\ Alone(w)
    /\ req'[w].pc = pc /\ req'[w].todo = todo /\ req'[w].groups = groups
    /\ req'[w].dev = req[w].dev /\ req'[w].token = req[w].token
    /\ req'[w].proof = req[w].proof /\ req'[w].fence = req[w].fence
Ends(w) == Alone(w) /\ req'[w].pc = "free"

Busy(w) == req[w].pc # "free"
Shaped == req \in [Worker -> {Free} \cup Frame]

LEMMA BusyFrame ==
    ASSUME Shaped, NEW w \in Worker, Busy(w)
    PROVE  /\ req[w] \in Frame
           /\ req[w].pc \in LoginPc \cup OtherPc \cup RevokePc
           /\ req[w].dev \in Device /\ req[w].token \in 0..MaxLogins
           /\ req[w].proof \in BOOLEAN /\ req[w].todo \subseteq Nat \cup Group
           /\ req[w].groups \subseteq Group /\ req[w].fence \subseteq 1..MaxItems
<1>1. req[w] \in Frame
  BY DEF Shaped, Busy, Free
<1>2. req[w].pc \in LoginPc \cup OtherPc \cup RevokePc
  BY <1>1, StepNames DEF Frame, LoginPc, OtherPc
<1> QED BY <1>1, <1>2 DEF Frame

LEMMA IdleIsFree ==
    ASSUME Shaped, NEW w \in Worker
    PROVE  req[w] = Free <=> ~Busy(w)
<1>1. req[w] \in Frame => req[w].pc # "free"
  BY StepNames DEF Frame, RevokePc
<1> QED BY <1>1 DEF Shaped, Busy, Free

LEMMA FinishEnds ==
    ASSUME Shaped, NEW w \in Worker, Finish(w)
    PROVE  Ends(w)
  BY DEF Shaped, Finish, Ends, Alone, Free

LEMMA NewFrame ==
    ASSUME Shaped, NEW w \in Worker, NEW f \in Frame, req' = [req EXCEPT ![w] = f]
    PROVE  Alone(w) /\ req'[w] = f
  BY DEF Shaped, Alone

LEMMA FreshStarts ==
    ASSUME Shaped, NEW w \in Worker,
           NEW pc \in LoginPc \cup OtherPc \cup RevokePc, NEW d \in Device,
           NEW token \in 0..MaxLogins, NEW proof \in BOOLEAN,
           NEW todo \in SUBSET (Nat \cup Group), NEW fence \in SUBSET (1..MaxItems),
           req' = [req EXCEPT ![w] = [pc |-> pc, dev |-> d, token |-> token, proof |-> proof,
                                      todo |-> todo, groups |-> {}, fence |-> fence]]
    PROVE  Starts(w, pc, d, token, proof, todo, fence)
<1> DEFINE f == [pc |-> pc, dev |-> d, token |-> token, proof |-> proof,
                 todo |-> todo, groups |-> {}, fence |-> fence]
<1>1. f \in Frame
  <2>1. pc \in {"find", "count", "mint", "session", "track", "untracked", "expire", "verify",
                "clean_session", "clean_set", "upload", "invite", "add", "join", "clear"}
               \cup {RevokeSteps[i] : i \in DOMAIN RevokeSteps}
    BY StepNames DEF LoginPc, OtherPc
  <2> QED BY <2>1 DEF Frame
<1>2. /\ f.pc = pc /\ f.dev = d /\ f.token = token /\ f.proof = proof
      /\ f.todo = todo /\ f.groups = {} /\ f.fence = fence
  OBVIOUS
<1> HIDE DEF f
<1>3. Alone(w) /\ req'[w] = f
  BY <1>1, NewFrame DEF f
<1> QED BY <1>2, <1>3 DEF Starts

\* A frame with another place, other collections.
LEMMA FrameMoves ==
    ASSUME Shaped, NEW w \in Worker, Busy(w),
           NEW pc \in LoginPc \cup OtherPc \cup RevokePc,
           NEW todo \in SUBSET (Nat \cup Group), NEW groups \in SUBSET Group,
           req' = [req EXCEPT ![w] = [pc |-> pc, dev |-> req[w].dev, token |-> req[w].token,
                                      proof |-> req[w].proof, todo |-> todo,
                                      groups |-> groups, fence |-> req[w].fence]]
    PROVE  Moves(w, pc, todo, groups)
<1> DEFINE f == [pc |-> pc, dev |-> req[w].dev, token |-> req[w].token,
                 proof |-> req[w].proof, todo |-> todo, groups |-> groups,
                 fence |-> req[w].fence]
<1>1. f \in Frame
  <2>1. pc \in {"find", "count", "mint", "session", "track", "untracked", "expire", "verify",
                "clean_session", "clean_set", "upload", "invite", "add", "join", "clear"}
               \cup {RevokeSteps[i] : i \in DOMAIN RevokeSteps}
    BY StepNames DEF LoginPc, OtherPc
  <2>2. /\ req[w].dev \in Device /\ req[w].token \in 0..MaxLogins
        /\ req[w].proof \in BOOLEAN /\ req[w].fence \in SUBSET (1..MaxItems)
    BY BusyFrame
  <2> QED BY <2>1, <2>2 DEF Frame
<1>2. /\ f.pc = pc /\ f.dev = req[w].dev /\ f.token = req[w].token /\ f.proof = req[w].proof
      /\ f.todo = todo /\ f.groups = groups /\ f.fence = req[w].fence
  OBVIOUS
<1> HIDE DEF f
<1>3. Alone(w) /\ req'[w] = f
  BY <1>1, NewFrame DEF f
<1> QED BY <1>2, <1>3 DEF Moves

\* The forms in which the actions move a frame.
SetPc(w, pc) == [req EXCEPT ![w].pc = pc]
SetTodo(f, w, todo) == [f EXCEPT ![w].todo = todo]
SetGroups(f, w, groups) == [f EXCEPT ![w].groups = groups]
With(w, pc, todo, groups) ==
    [req EXCEPT ![w] = [pc |-> pc, dev |-> req[w].dev, token |-> req[w].token,
                        proof |-> req[w].proof, todo |-> todo, groups |-> groups,
                        fence |-> req[w].fence]]

LEMMA PcIsWith ==
    ASSUME Shaped, NEW w \in Worker, Busy(w), NEW pc
    PROVE  SetPc(w, pc) = With(w, pc, req[w].todo, req[w].groups)
<1>1. [req[w] EXCEPT !.pc = pc]
        = [pc |-> pc, dev |-> req[w].dev, token |-> req[w].token, proof |-> req[w].proof,
           todo |-> req[w].todo, groups |-> req[w].groups, fence |-> req[w].fence]
  BY BusyFrame DEF Frame
<1>2. SetPc(w, pc) = [req EXCEPT ![w] = [req[w] EXCEPT !.pc = pc]]
  BY DEF SetPc
<1> QED BY <1>1, <1>2 DEF With

LEMMA TodoIsWith ==
    ASSUME Shaped, NEW w \in Worker, NEW pc, NEW old, NEW todo, NEW groups
    PROVE  SetTodo(With(w, pc, old, groups), w, todo) = With(w, pc, todo, groups)
<1> DEFINE r == [pc |-> pc, dev |-> req[w].dev, token |-> req[w].token,
                 proof |-> req[w].proof, todo |-> old, groups |-> groups,
                 fence |-> req[w].fence]
           t == [pc |-> pc, dev |-> req[w].dev, token |-> req[w].token,
                 proof |-> req[w].proof, todo |-> todo, groups |-> groups,
                 fence |-> req[w].fence]
           f == [req EXCEPT ![w] = r]
<1>1. [r EXCEPT !.todo = todo] = t
  OBVIOUS
<1> HIDE DEF r, t
<1>2. f[w] = r /\ DOMAIN f = Worker /\ \A v \in Worker \ {w} : f[v] = req[v]
  BY DEF Shaped
<1>3. SetTodo(f, w, todo) = [f EXCEPT ![w] = [f[w] EXCEPT !.todo = todo]]
  BY DEF SetTodo
<1>4. [f EXCEPT ![w] = t] = [req EXCEPT ![w] = t]
  BY DEF Shaped
<1>5. SetTodo(f, w, todo) = [req EXCEPT ![w] = t]
  <2> HIDE DEF f
  <2> QED BY <1>1, <1>2, <1>3, <1>4
<1> QED BY <1>5 DEF With, f, r, t

LEMMA GroupsIsWith ==
    ASSUME Shaped, NEW w \in Worker, NEW pc, NEW old, NEW todo, NEW groups
    PROVE  SetGroups(With(w, pc, todo, old), w, groups) = With(w, pc, todo, groups)
<1> DEFINE r == [pc |-> pc, dev |-> req[w].dev, token |-> req[w].token,
                 proof |-> req[w].proof, todo |-> todo, groups |-> old,
                 fence |-> req[w].fence]
           t == [pc |-> pc, dev |-> req[w].dev, token |-> req[w].token,
                 proof |-> req[w].proof, todo |-> todo, groups |-> groups,
                 fence |-> req[w].fence]
           f == [req EXCEPT ![w] = r]
<1>1. [r EXCEPT !.groups = groups] = t
  OBVIOUS
<1> HIDE DEF r, t
<1>2. f[w] = r /\ DOMAIN f = Worker /\ \A v \in Worker \ {w} : f[v] = req[v]
  BY DEF Shaped
<1>3. SetGroups(f, w, groups) = [f EXCEPT ![w] = [f[w] EXCEPT !.groups = groups]]
  BY DEF SetGroups
<1>4. [f EXCEPT ![w] = t] = [req EXCEPT ![w] = t]
  BY DEF Shaped
<1>5. SetGroups(f, w, groups) = [req EXCEPT ![w] = t]
  <2> HIDE DEF f
  <2> QED BY <1>1, <1>2, <1>3, <1>4
<1> QED BY <1>5 DEF With, f, r, t

LEMMA WithMoves ==
    ASSUME Shaped, NEW w \in Worker, Busy(w),
           NEW pc \in LoginPc \cup OtherPc \cup RevokePc,
           NEW todo \in SUBSET (Nat \cup Group), NEW groups \in SUBSET Group,
           req' = With(w, pc, todo, groups)
    PROVE  Moves(w, pc, todo, groups)
  BY FrameMoves DEF With

LEMMA GotoMoves ==
    ASSUME Shaped, NEW w \in Worker, Busy(w),
           NEW pc \in LoginPc \cup OtherPc \cup RevokePc, Goto(w, pc)
    PROVE  Moves(w, pc, req[w].todo, req[w].groups)
<1>1. req' = With(w, pc, req[w].todo, req[w].groups)
  BY PcIsWith DEF Goto, SetPc
<1> QED BY <1>1, WithMoves, BusyFrame

\* The next step of revoke_device.
Succ(pc) == RevokeSteps[Position(pc) + 1]

LEMMA ContinueIsWith ==
    ASSUME Shaped, NEW w \in Worker, Busy(w)
    PROVE  Continue(w) = With(w, Succ(req[w].pc), req[w].todo, req[w].groups)
<1>1. Continue(w) = SetPc(w, Succ(req[w].pc))
  BY DEF Continue, SetPc, Succ
<1> QED BY <1>1, PcIsWith

LEMMA Successors ==
    /\ Succ("index") = "invites" /\ Succ("invites") = "groups" /\ Succ("groups") = "remind"
    /\ Succ("remind") = "packages" /\ Succ("packages") = "delete" /\ Succ("delete") = "tokens"
    /\ Succ("tokens") = "sessions" /\ Succ("sessions") = "untrack"
  BY Positions, StepNumbers DEF Succ

LEMMA ContinueMoves ==
    ASSUME Shaped, NEW w \in Worker, req[w].pc \in RevokePc \ {"untrack"}, req' = Continue(w)
    PROVE  Moves(w, Succ(req[w].pc), req[w].todo, req[w].groups)
<1>1. Succ(req[w].pc) \in RevokePc /\ Busy(w)
  BY Successors DEF RevokePc, Busy
<1> QED BY <1>1, ContinueIsWith, WithMoves, BusyFrame

LEMMA ContinueWithTodo ==
    ASSUME Shaped, NEW w \in Worker, req[w].pc \in RevokePc \ {"untrack"},
           NEW todo \in SUBSET (Nat \cup Group), req' = SetTodo(Continue(w), w, todo)
    PROVE  Moves(w, Succ(req[w].pc), todo, req[w].groups)
<1>1. Succ(req[w].pc) \in RevokePc /\ Busy(w)
  BY Successors DEF RevokePc, Busy
<1>2. req' = With(w, Succ(req[w].pc), todo, req[w].groups)
  BY <1>1, ContinueIsWith, TodoIsWith
<1> QED BY <1>1, <1>2, WithMoves, BusyFrame

LEMMA SelfIsWith ==
    ASSUME Shaped, NEW w \in Worker, Busy(w)
    PROVE  req = With(w, req[w].pc, req[w].todo, req[w].groups)
<1>1. req[w] = [pc |-> req[w].pc, dev |-> req[w].dev, token |-> req[w].token,
                proof |-> req[w].proof, todo |-> req[w].todo, groups |-> req[w].groups,
                fence |-> req[w].fence]
  BY BusyFrame DEF Frame
<1>2. req = [req EXCEPT ![w] = req[w]]
  BY DEF Shaped
<1> QED BY <1>1, <1>2 DEF With

LEMMA TodoMoves ==
    ASSUME Shaped, NEW w \in Worker, Busy(w), NEW todo \in SUBSET (Nat \cup Group),
           req' = SetTodo(req, w, todo)
    PROVE  Moves(w, req[w].pc, todo, req[w].groups)
<1>1. req' = With(w, req[w].pc, todo, req[w].groups)
  BY SelfIsWith, TodoIsWith
<1> QED BY <1>1, WithMoves, BusyFrame

-----------------------------------------------------------------------------
\* What the steps of revoke_device do, in these terms.
LEMMA RevokeEffects ==
    ASSUME Shaped, TypeOK, NEW w \in Worker
    PROVE  /\ revoke_index(w) => Moves(w, "invites", index[req[w].dev], req[w].groups)
           /\ revoke_invite(w) =>
                 \/ \E id \in req[w].todo :
                       /\ Moves(w, "invites", req[w].todo \ {id}, req[w].groups)
                       /\ invites' = {i \in invites : i.id # id} /\ index' = index
                 \/ /\ Moves(w, "groups", req[w].todo, req[w].groups)
                    /\ index' = [index EXCEPT ![req[w].dev] = {}] /\ invites' = invites
           /\ list_groups_for_device(w) =>
                 \E mine \in SUBSET Group : Moves(w, "remind", mine, mine)
           /\ create_pending_removal(w) =>
                 \/ \E g \in req[w].todo :
                       /\ Moves(w, "remind", req[w].todo \ {g}, req[w].groups)
                       /\ LET row == [group |-> g, dev |-> req[w].dev, epoch |-> epoch[g]]
                              new == IF \E r \in removals : r.group = g /\ r.dev = req[w].dev
                                     THEN {} ELSE {row}
                          IN  removals' = removals \cup new /\ written' = written \cup new
                 \/ /\ req[w].todo = {}
                    /\ Moves(w, "packages", req[w].todo, req[w].groups)
                    /\ UNCHANGED <<removals, written>>
           /\ delete_by_device(w) => Moves(w, "delete", req[w].todo, req[w].groups)
           /\ delete_device(w) => Moves(w, "tokens", req[w].todo, req[w].groups)
           /\ set_members(w) => Moves(w, "sessions", tracked[req[w].dev], req[w].groups)
           /\ delete_session(w) =>
                 \/ \E t \in req[w].todo :
                       /\ Moves(w, "sessions", req[w].todo \ {t}, req[w].groups)
                       /\ \/ sessions' = {s \in sessions : s.token # t} /\ UNCHANGED kept
                          \/ kept' = kept \cup {t} /\ UNCHANGED sessions
                 \/ /\ req[w].todo = {}
                    /\ Moves(w, "untrack", req[w].todo, req[w].groups)
                    /\ UNCHANGED <<sessions, kept>>
           /\ delete_set(w) => Ends(w)
<1>0. ASSUME req[w].pc \in RevokePc
      PROVE  /\ Busy(w) /\ req[w].todo \subseteq Nat \cup Group /\ req[w].dev \in Device
             /\ index[req[w].dev] \in SUBSET (Nat \cup Group)
             /\ tracked[req[w].dev] \in SUBSET (Nat \cup Group)
  <2>1. Busy(w)
    BY <1>0 DEF Busy, RevokePc
  <2>2. req[w].todo \subseteq Nat \cup Group /\ req[w].dev \in Device
    BY <2>1, BusyFrame
  <2> QED BY <2>1, <2>2, RevocationAssumption DEF TypeOK, Token
<1>1. ASSUME revoke_index(w) PROVE Moves(w, "invites", index[req[w].dev], req[w].groups)
  <2>1. req[w].pc = "index" /\ req' = SetTodo(Continue(w), w, index[req[w].dev])
    BY <1>1 DEF revoke_index, SetTodo
  <2>2. req[w].pc \in RevokePc \ {"untrack"}
    BY <2>1 DEF RevokePc
  <2> QED BY <1>0, <2>1, <2>2, ContinueWithTodo, Successors
<1>2. ASSUME revoke_invite(w)
      PROVE  \/ \E id \in req[w].todo :
                   /\ Moves(w, "invites", req[w].todo \ {id}, req[w].groups)
                   /\ invites' = {i \in invites : i.id # id} /\ index' = index
             \/ /\ Moves(w, "groups", req[w].todo, req[w].groups)
                /\ index' = [index EXCEPT ![req[w].dev] = {}] /\ invites' = invites
  <2>1. req[w].pc = "invites" /\ req[w].pc \in RevokePc \ {"untrack"}
    BY <1>2 DEF revoke_invite, RevokePc
  <2>2. CASE req[w].todo # {}
    <3>1. PICK id \in req[w].todo :
             /\ invites' = {i \in invites : i.id # id} /\ index' = index
             /\ req' = SetTodo(req, w, req[w].todo \ {id})
      BY <1>2, <2>2 DEF revoke_invite, SetTodo
    <3>2. Moves(w, "invites", req[w].todo \ {id}, req[w].groups)
      BY <1>0, <2>1, <3>1, TodoMoves
    <3> QED BY <3>1, <3>2
  <2>3. CASE req[w].todo = {}
    BY <1>2, <2>1, <2>3, ContinueMoves, Successors DEF revoke_invite
  <2> QED BY <2>2, <2>3
<1>3. ASSUME list_groups_for_device(w)
      PROVE  \E mine \in SUBSET Group : Moves(w, "remind", mine, mine)
  <2> DEFINE mine == {g \in Group : <<g, req[w].dev>> \in seats}
  <2>0. mine \in SUBSET Group /\ mine \in SUBSET (Nat \cup Group)
    OBVIOUS
  <2>1. req[w].pc = "groups" /\ req' = SetGroups(SetTodo(Continue(w), w, mine), w, mine)
    BY <1>3 DEF list_groups_for_device, SetTodo, SetGroups
  <2> HIDE DEF mine
  <2>2. Busy(w) /\ Succ(req[w].pc) = "remind" /\ "remind" \in RevokePc
    BY <2>1, Successors DEF Busy, RevokePc
  <2>3. req' = With(w, "remind", mine, mine)
    BY <2>1, <2>2, ContinueIsWith, TodoIsWith, GroupsIsWith
  <2>4. Moves(w, "remind", mine, mine)
    BY <2>0, <2>2, <2>3, WithMoves
  <2> QED BY <2>0, <2>4
<1>4. ASSUME create_pending_removal(w)
      PROVE  \/ \E g \in req[w].todo :
                   /\ Moves(w, "remind", req[w].todo \ {g}, req[w].groups)
                   /\ LET row == [group |-> g, dev |-> req[w].dev, epoch |-> epoch[g]]
                          new == IF \E r \in removals : r.group = g /\ r.dev = req[w].dev
                                 THEN {} ELSE {row}
                      IN  removals' = removals \cup new /\ written' = written \cup new
             \/ /\ req[w].todo = {}
                /\ Moves(w, "packages", req[w].todo, req[w].groups)
                /\ UNCHANGED <<removals, written>>
  <2>1. req[w].pc = "remind" /\ req[w].pc \in RevokePc \ {"untrack"}
    BY <1>4 DEF create_pending_removal, RevokePc
  <2>2. CASE req[w].todo # {}
    <3>1. PICK g \in req[w].todo :
             /\ LET row == [group |-> g, dev |-> req[w].dev, epoch |-> epoch[g]]
                    new == IF \E r \in removals : r.group = g /\ r.dev = req[w].dev
                           THEN {} ELSE {row}
                IN  removals' = removals \cup new /\ written' = written \cup new
             /\ req' = SetTodo(req, w, req[w].todo \ {g})
      BY <1>4, <2>2 DEF create_pending_removal, SetTodo
    <3>2. Moves(w, "remind", req[w].todo \ {g}, req[w].groups)
      BY <1>0, <2>1, <3>1, TodoMoves
    <3> QED BY <3>1, <3>2
  <2>3. CASE req[w].todo = {}
    BY <1>4, <2>1, <2>3, ContinueMoves, Successors DEF create_pending_removal
  <2> QED BY <2>2, <2>3
<1>5. ASSUME delete_by_device(w) PROVE Moves(w, "delete", req[w].todo, req[w].groups)
  <2>1. req[w].pc = "packages" /\ req[w].pc \in RevokePc \ {"untrack"} /\ req' = Continue(w)
    BY <1>5 DEF delete_by_device, RevokePc
  <2> QED BY <2>1, ContinueMoves, Successors
<1>6. ASSUME delete_device(w) PROVE Moves(w, "tokens", req[w].todo, req[w].groups)
  <2>1. req[w].pc = "delete" /\ req[w].pc \in RevokePc \ {"untrack"} /\ req' = Continue(w)
    BY <1>6 DEF delete_device, RevokePc
  <2> QED BY <2>1, ContinueMoves, Successors
<1>7. ASSUME set_members(w) PROVE Moves(w, "sessions", tracked[req[w].dev], req[w].groups)
  <2>1. req[w].pc = "tokens" /\ req' = SetTodo(Continue(w), w, tracked[req[w].dev])
    BY <1>7 DEF set_members, SetTodo
  <2>2. req[w].pc \in RevokePc \ {"untrack"}
    BY <2>1 DEF RevokePc
  <2> QED BY <1>0, <2>1, <2>2, ContinueWithTodo, Successors
<1>8. ASSUME delete_session(w)
      PROVE  \/ \E t \in req[w].todo :
                   /\ Moves(w, "sessions", req[w].todo \ {t}, req[w].groups)
                   /\ \/ sessions' = {s \in sessions : s.token # t} /\ UNCHANGED kept
                      \/ kept' = kept \cup {t} /\ UNCHANGED sessions
             \/ /\ req[w].todo = {}
                /\ Moves(w, "untrack", req[w].todo, req[w].groups)
                /\ UNCHANGED <<sessions, kept>>
  <2>1. req[w].pc = "sessions" /\ req[w].pc \in RevokePc \ {"untrack"}
    BY <1>8 DEF delete_session, RevokePc
  <2>2. CASE req[w].todo # {}
    <3>1. PICK t \in req[w].todo :
             /\ \/ sessions' = {s \in sessions : s.token # t} /\ UNCHANGED kept
                \/ kept' = kept \cup {t} /\ UNCHANGED sessions
             /\ req' = SetTodo(req, w, req[w].todo \ {t})
      BY <1>8, <2>2 DEF delete_session, SetTodo
    <3>2. Moves(w, "sessions", req[w].todo \ {t}, req[w].groups)
      BY <1>0, <2>1, <3>1, TodoMoves
    <3> QED BY <3>1, <3>2
  <2>3. CASE req[w].todo = {}
    BY <1>8, <2>1, <2>3, ContinueMoves, Successors DEF delete_session
  <2> QED BY <2>2, <2>3
<1>9. ASSUME delete_set(w) PROVE Ends(w)
  BY <1>9, FinishEnds DEF delete_set
<1> QED BY <1>1, <1>2, <1>3, <1>4, <1>5, <1>6, <1>7, <1>8, <1>9

\* What the steps of a login do.
LEMMA LoginEffects ==
    ASSUME Shaped, NEW w \in Worker
    PROVE  /\ login_find(w) =>
                 \/ req[w].dev \in devices /\ Moves(w, "session", req[w].todo, req[w].groups)
                 \/ req[w].dev \notin devices /\ req[w].proof
                       /\ Moves(w, "count", req[w].todo, req[w].groups)
                 \/ Ends(w)
           /\ count_devices(w) => Moves(w, "mint", req[w].todo, req[w].groups) \/ Ends(w)
           /\ save_device(w) =>
                 \/ req[w].proof /\ Moves(w, "session", req[w].todo, req[w].groups)
                 \/ ~req[w].proof /\ Ends(w)
           /\ login_session(w) => Moves(w, "track", req[w].todo, req[w].groups)
           /\ login_track(w) =>
                 \/ /\ tracked' = [tracked EXCEPT ![req[w].dev] = @ \cup {req[w].token}]
                    /\ Moves(w, "expire", req[w].todo, req[w].groups)
                 \/ Moves(w, "untracked", req[w].todo, req[w].groups) /\ UNCHANGED tracked
           /\ login_untracked(w) => Ends(w)
           /\ login_expire(w) => Moves(w, "verify", req[w].todo, req[w].groups)
           /\ login_verify(w) =>
                 \/ req[w].dev \in devices /\ issued' = issued \cup {req[w].token} /\ Ends(w)
                 \/ /\ req[w].dev \notin devices /\ UNCHANGED issued
                    /\ Moves(w, "clean_session", req[w].todo, req[w].groups)
           /\ login_clean_session(w) => Moves(w, "clean_set", req[w].todo, req[w].groups)
           /\ login_clean_set(w) => Ends(w)
<1>0. {"session", "count", "mint", "track", "expire", "verify", "untracked", "clean_session",
       "clean_set"} \subseteq LoginPc \cup OtherPc \cup RevokePc
  BY DEF LoginPc, OtherPc
<1>a. ASSUME Busy(w), NEW pc \in {"session", "count", "mint", "track", "expire", "verify",
                                  "untracked", "clean_session", "clean_set"}, Goto(w, pc)
      PROVE  Moves(w, pc, req[w].todo, req[w].groups)
  BY <1>0, <1>a, GotoMoves
<1>1. login_find(w) =>
         \/ req[w].dev \in devices /\ Moves(w, "session", req[w].todo, req[w].groups)
         \/ req[w].dev \notin devices /\ req[w].proof
               /\ Moves(w, "count", req[w].todo, req[w].groups)
         \/ Ends(w)
  BY <1>a, FinishEnds DEF login_find, Busy
<1>2. count_devices(w) => Moves(w, "mint", req[w].todo, req[w].groups) \/ Ends(w)
  BY <1>a, FinishEnds DEF count_devices, Busy
<1>3. save_device(w) =>
         \/ req[w].proof /\ Moves(w, "session", req[w].todo, req[w].groups)
         \/ ~req[w].proof /\ Ends(w)
  BY <1>a, FinishEnds DEF save_device, Busy
<1>4. login_session(w) => Moves(w, "track", req[w].todo, req[w].groups)
  BY <1>a DEF login_session, Busy
<1>5. login_track(w) =>
         \/ /\ tracked' = [tracked EXCEPT ![req[w].dev] = @ \cup {req[w].token}]
            /\ Moves(w, "expire", req[w].todo, req[w].groups)
         \/ Moves(w, "untracked", req[w].todo, req[w].groups) /\ UNCHANGED tracked
  BY <1>a DEF login_track, Busy
<1>6. login_untracked(w) => Ends(w)
  BY FinishEnds DEF login_untracked
<1>7. login_verify(w) =>
         \/ req[w].dev \in devices /\ issued' = issued \cup {req[w].token} /\ Ends(w)
         \/ /\ req[w].dev \notin devices /\ UNCHANGED issued
            /\ Moves(w, "clean_session", req[w].todo, req[w].groups)
  BY <1>a, FinishEnds DEF login_verify, Busy
<1>8. login_clean_session(w) => Moves(w, "clean_set", req[w].todo, req[w].groups)
  BY <1>a DEF login_clean_session, Busy
<1>9. login_clean_set(w) => Ends(w)
  BY FinishEnds DEF login_clean_set
<1>10. login_expire(w) => Moves(w, "verify", req[w].todo, req[w].groups)
  BY <1>a DEF login_expire, Busy
<1> QED BY <1>1, <1>2, <1>3, <1>4, <1>5, <1>6, <1>7, <1>8, <1>9, <1>10

\* How requests begin, and what the short ones do.
LEMMA RequestEffects ==
    ASSUME Shaped, TypeOK, NEW w \in Worker, NEW d \in Device
    PROVE  /\ \A proof \in BOOLEAN : login_finish(w, d, proof) =>
                 ~Busy(w) /\ Starts(w, "find", d, logins + 1, proof, {}, {})
           /\ \A new \in Device : register_device(w, d, new) =>
                 ~Busy(w) /\ Starts(w, "mint", new, 0, FALSE, {}, {})
           /\ \A pc \in {"upload", "invite", "join"} : authenticated_call(w, d, pc) =>
                 ~Busy(w) /\ Starts(w, pc, d, 0, FALSE, {}, {})
           /\ \A c \in Device : revoke_device(w, c, d) =>
                 ~Busy(w) /\ Starts(w, "index", d, 0, FALSE, {}, Ids(packages, d) \cup index[d])
           /\ \A g \in Group : remove_member(w, g, d) =>
                 ~Busy(w) /\ Starts(w, "clear", d, 0, FALSE, {g}, {})
           /\ create_invite(w) => Moves(w, "add", {items + 1}, req[w].groups)
           /\ upload(w) \/ create_invite_add(w) \/ delete_pending_removal(w) \/ request_fails(w)
                 => Ends(w)
           /\ \A g \in Group : accept_membership(w, g) => Ends(w)
<1>0. {"find", "mint", "upload", "invite", "join", "index", "clear", "add"}
         \subseteq LoginPc \cup OtherPc \cup RevokePc
      /\ 0 \in 0..MaxLogins /\ logins \in 0..MaxLogins
      /\ {} \in SUBSET (Nat \cup Group) /\ {} \in SUBSET (1..MaxItems)
  BY RevocationAssumption DEF LoginPc, OtherPc, RevokePc, TypeOK
<1>1. ASSUME NEW proof \in BOOLEAN, login_finish(w, d, proof)
      PROVE  ~Busy(w) /\ Starts(w, "find", d, logins + 1, proof, {}, {})
  <2>1. logins + 1 \in 0..MaxLogins
    BY <1>0, <1>1, RevocationAssumption DEF login_finish
  <2>2. ~Busy(w)
    BY <1>1 DEF login_finish, Busy, Free
  <2>3. Starts(w, "find", d, logins + 1, proof, {}, {})
    BY <1>0, <1>1, <2>1, FreshStarts DEF login_finish
  <2> QED BY <2>2, <2>3
<1>2. ASSUME NEW new \in Device, register_device(w, d, new)
      PROVE  ~Busy(w) /\ Starts(w, "mint", new, 0, FALSE, {}, {})
  <2>1. ~Busy(w)
    BY <1>2 DEF register_device, Busy, Free
  <2>2. Starts(w, "mint", new, 0, FALSE, {}, {})
    BY <1>0, <1>2, FreshStarts DEF register_device, Begin
  <2> QED BY <2>1, <2>2
<1>3. ASSUME NEW pc \in {"upload", "invite", "join"}, authenticated_call(w, d, pc)
      PROVE  ~Busy(w) /\ Starts(w, pc, d, 0, FALSE, {}, {})
  <2>1. ~Busy(w)
    BY <1>3 DEF authenticated_call, Busy, Free
  <2>2. Starts(w, pc, d, 0, FALSE, {}, {})
    BY <1>0, <1>3, FreshStarts DEF authenticated_call, Begin
  <2> QED BY <2>1, <2>2
<1>4. ASSUME NEW c \in Device, revoke_device(w, c, d)
      PROVE  ~Busy(w) /\ Starts(w, "index", d, 0, FALSE, {}, Ids(packages, d) \cup index[d])
  <2> DEFINE fence == Ids(packages, d) \cup index[d]
  <2>1. fence \in SUBSET (1..MaxItems)
    BY DEF TypeOK, Ids, Item
  <2>2. req' = [req EXCEPT ![w] = [pc |-> "index", dev |-> d, token |-> 0, proof |-> FALSE,
                                   todo |-> {}, groups |-> {}, fence |-> fence]]
    BY <1>4, StepNumbers DEF revoke_device
  <2>3. ~Busy(w)
    BY <1>4 DEF revoke_device, Busy, Free
  <2> HIDE DEF fence
  <2>4. Starts(w, "index", d, 0, FALSE, {}, fence)
    BY <1>0, <2>1, <2>2, FreshStarts
  <2> QED BY <2>3, <2>4 DEF fence
<1>5. ASSUME NEW g \in Group, remove_member(w, g, d)
      PROVE  ~Busy(w) /\ Starts(w, "clear", d, 0, FALSE, {g}, {})
  <2>1. {g} \in SUBSET (Nat \cup Group)
    OBVIOUS
  <2>2. ~Busy(w)
    BY <1>5 DEF remove_member, Busy, Free
  <2>3. Starts(w, "clear", d, 0, FALSE, {g}, {})
    BY <1>0, <1>5, <2>1, FreshStarts DEF remove_member
  <2> QED BY <2>2, <2>3
<1>6. ASSUME create_invite(w) PROVE Moves(w, "add", {items + 1}, req[w].groups)
  <2> DEFINE todo == {items + 1}
  <2>1. todo \in SUBSET (Nat \cup Group)
    BY RevocationAssumption DEF TypeOK
  <2>2. Busy(w) /\ req' = SetTodo(SetPc(w, "add"), w, todo)
    BY <1>6 DEF create_invite, SetTodo, SetPc, Busy
  <2> HIDE DEF todo
  <2>3. req' = With(w, "add", todo, req[w].groups)
    BY <2>2, PcIsWith, TodoIsWith
  <2>4. Moves(w, "add", todo, req[w].groups)
    BY <1>0, <2>1, <2>2, <2>3, WithMoves, BusyFrame
  <2> QED BY <2>4 DEF todo
<1>7. upload(w) \/ create_invite_add(w) \/ delete_pending_removal(w) \/ request_fails(w) => Ends(w)
  BY FinishEnds DEF upload, create_invite_add, delete_pending_removal, request_fails
<1>8. \A g \in Group : accept_membership(w, g) => Ends(w)
  BY FinishEnds DEF accept_membership
<1> QED BY <1>1, <1>2, <1>3, <1>4, <1>5, <1>6, <1>7, <1>8

-----------------------------------------------------------------------------
\* Which fields a frame needs at which step.
FrameTyped(w) ==
    /\ req[w].pc \in LoginPc \/ (req[w].pc = "mint" /\ req[w].proof) => req[w].token \in Token
    /\ req[w].pc \in LoginPc \cup {"mint"} => req[w].dev \in ids
    /\ req[w].pc = "sessions" => req[w].todo \subseteq Token
    /\ req[w].pc = "remind" => req[w].todo \subseteq Group
    /\ req[w].pc = "add" => req[w].todo \subseteq 1..MaxItems

TablesTyped ==
    /\ devices \subseteq ids /\ ids \subseteq Device
    /\ logins \in 0..MaxLogins
    /\ sessions \subseteq [token : Token, dev : Device]
    /\ tracked \in [Device -> SUBSET Token] /\ covered \subseteq Token
    /\ packages \subseteq Item /\ invites \subseteq Item
    /\ index \in [Device -> SUBSET (1..MaxItems)]
    /\ items \in 0..MaxItems
    /\ seats \subseteq Group \X devices
    /\ epoch \in [Group -> 0..MaxEpoch]
    /\ removals \subseteq Reminder /\ written \subseteq Reminder
    /\ issued \subseteq Token /\ kept \subseteq Token /\ wiped \subseteq Token
    /\ lapsed \subseteq Token /\ stranded \subseteq Device
    /\ doomed \subseteq 1..MaxItems
    /\ captured \subseteq Group \X Device

TypeInv == TablesTyped /\ Shaped /\ \A w \in Worker : FrameTyped(w)

LEMMA TypeInvIsTypeOK == TypeInv => TypeOK
  BY DEF TypeInv, TypeOK, TablesTyped, Shaped

\* A step of one request.
LEMMA TypedStep ==
    ASSUME TypeInv, NEW w \in Worker, Alone(w), FrameTyped(w)', TablesTyped', ids \subseteq ids'
    PROVE  TypeInv'
<1>1. ASSUME NEW v \in Worker PROVE FrameTyped(v)'
  <2>1. CASE v = w
    BY <2>1
  <2>2. CASE v # w
    BY <2>2 DEF TypeInv, FrameTyped, Alone
  <2> QED BY <2>1, <2>2
<1> QED BY <1>1 DEF TypeInv, Shaped, Alone

\* A step of none.
LEMMA TypedWorld ==
    ASSUME TypeInv, UNCHANGED <<req, ids>>, TablesTyped'
    PROVE  TypeInv'
<1>1. ASSUME NEW v \in Worker PROVE FrameTyped(v)'
  BY DEF TypeInv, FrameTyped
<1> QED BY <1>1 DEF TypeInv, Shaped

\* The end of a request makes no demand.
LEMMA EndTyped ==
    ASSUME NEW w \in Worker, Ends(w) PROVE Alone(w) /\ FrameTyped(w)'
  BY DEF Ends, FrameTyped, LoginPc

LEMMA TypeInvHolds == Spec => []TypeInv
<1>1. Init => TypeInv
  <2> SUFFICES ASSUME Init PROVE TypeInv
    OBVIOUS
  <2>1. TablesTyped
    BY RevocationAssumption DEF Init, TablesTyped
  <2>2. Shaped /\ \A w \in Worker : req[w].pc = "free"
    BY DEF Init, Shaped, Free
  <2>3. \A w \in Worker : FrameTyped(w)
    BY <2>2 DEF FrameTyped, LoginPc
  <2> QED BY <2>1, <2>2, <2>3 DEF TypeInv
<1>2. TypeInv /\ [Next]_vars => TypeInv'
  <2> SUFFICES ASSUME TypeInv, [Next]_vars PROVE TypeInv'
    OBVIOUS
  <2>0. TablesTyped /\ Shaped /\ TypeOK /\ \A w \in Worker : FrameTyped(w)
    BY TypeInvIsTypeOK DEF TypeInv
  <2> USE RevocationAssumption
  <2>1. ASSUME NEW w \in Worker, NEW d \in Device, NEW proof \in BOOLEAN,
               login_finish(w, d, proof)
        PROVE  TypeInv'
    <3>1. Starts(w, "find", d, logins + 1, proof, {}, {})
      BY <2>0, <2>1, RequestEffects
    <3>2. logins + 1 \in Token /\ logins' = logins + 1 /\ ids' = ids \cup {d}
      BY <2>0, <2>1 DEF login_finish, TablesTyped, Token
    <3>3. FrameTyped(w)' /\ Alone(w)
      BY <3>1, <3>2 DEF Starts, FrameTyped, Token
    <3>4. TablesTyped'
      BY <2>0, <2>1, <3>2 DEF login_finish, TablesTyped, itemVars, groupVars, historyVars, Token
    <3> QED BY <3>2, <3>3, <3>4, TypedStep
  <2>2. ASSUME NEW w \in Worker, NEW d \in Device, NEW new \in Device,
               register_device(w, d, new)
        PROVE  TypeInv'
    <3>1. Starts(w, "mint", new, 0, FALSE, {}, {})
      BY <2>0, <2>2, RequestEffects
    <3>2. FrameTyped(w)' /\ Alone(w)
      BY <2>2, <3>1 DEF Starts, FrameTyped, register_device, LoginPc
    <3>3. TablesTyped' /\ ids \subseteq ids'
      BY <2>0, <2>2 DEF register_device, TablesTyped, itemVars, groupVars, historyVars
    <3> QED BY <3>2, <3>3, TypedStep
  <2>3. ASSUME NEW w \in Worker, NEW d \in Device, NEW pc \in {"upload", "invite", "join"},
               authenticated_call(w, d, pc)
        PROVE  TypeInv'
    <3>1. Starts(w, pc, d, 0, FALSE, {}, {})
      BY <2>0, <2>3, RequestEffects
    <3>2. FrameTyped(w)' /\ Alone(w)
      BY <3>1 DEF Starts, FrameTyped, LoginPc
    <3>3. TablesTyped' /\ ids \subseteq ids'
      BY <2>0, <2>3 DEF authenticated_call, TablesTyped, authVars, itemVars, groupVars, historyVars
    <3> QED BY <3>2, <3>3, TypedStep
  <2>4. ASSUME NEW w \in Worker, NEW c \in Device, NEW d \in Device, revoke_device(w, c, d)
        PROVE  TypeInv'
    <3>1. Starts(w, "index", d, 0, FALSE, {}, Ids(packages, d) \cup index[d])
      BY <2>0, <2>4, RequestEffects
    <3>2. FrameTyped(w)' /\ Alone(w)
      BY <3>1 DEF Starts, FrameTyped, LoginPc
    <3>3. TablesTyped' /\ ids \subseteq ids'
      BY <2>0, <2>4 DEF revoke_device, TablesTyped, authVars, itemVars, groupVars, historyVars
    <3> QED BY <3>2, <3>3, TypedStep
  <2>5. ASSUME NEW w \in Worker, NEW d \in Device, NEW g \in Group, remove_member(w, g, d)
        PROVE  TypeInv'
    <3>1. Starts(w, "clear", d, 0, FALSE, {g}, {})
      BY <2>0, <2>5, RequestEffects
    <3>2. FrameTyped(w)' /\ Alone(w)
      BY <3>1 DEF Starts, FrameTyped, LoginPc
    <3>3. TablesTyped' /\ ids \subseteq ids'
      BY <2>0, <2>5 DEF remove_member, TablesTyped, authVars, itemVars, historyVars
    <3> QED BY <3>2, <3>3, TypedStep
  <2>a. ASSUME NEW w \in Worker, Busy(w)
        PROVE  /\ req[w].dev \in Device /\ req[w].groups \subseteq Group
               /\ req[w].fence \subseteq 1..MaxItems /\ FrameTyped(w)
    BY <2>0, <2>a, BusyFrame
  <2>6. ASSUME NEW w \in Worker, login_find(w) PROVE TypeInv'
    <3>1. TablesTyped' /\ ids \subseteq ids'
      BY <2>0, <2>6 DEF login_find, TablesTyped, authVars, itemVars, groupVars, historyVars
    <3>2. FrameTyped(w)' /\ Alone(w)
      BY <2>0, <2>6, <3>1, LoginEffects, EndTyped DEF Moves, FrameTyped, LoginPc, login_find
    <3> QED BY <3>1, <3>2, TypedStep
  <2>7. ASSUME NEW w \in Worker, count_devices(w) PROVE TypeInv'
    <3>1. TablesTyped' /\ ids \subseteq ids'
      BY <2>0, <2>7 DEF count_devices, TablesTyped, authVars, itemVars, groupVars, historyVars
    <3>2. FrameTyped(w)' /\ Alone(w)
      BY <2>0, <2>7, <3>1, LoginEffects, EndTyped DEF Moves, FrameTyped, LoginPc, count_devices
    <3> QED BY <3>1, <3>2, TypedStep
  <2>8. ASSUME NEW w \in Worker, save_device(w) PROVE TypeInv'
    <3>1. req[w].pc = "mint" /\ req[w].dev \in ids
      BY <2>0, <2>8 DEF save_device, FrameTyped
    <3>2. TablesTyped' /\ ids \subseteq ids'
      BY <2>0, <2>8, <3>1 DEF save_device, TablesTyped, itemVars, groupVars, historyVars
    <3>3. FrameTyped(w)' /\ Alone(w)
      BY <2>0, <2>8, <3>1, <3>2, LoginEffects, EndTyped DEF Moves, FrameTyped, LoginPc
    <3> QED BY <3>2, <3>3, TypedStep
  <2>9. ASSUME NEW w \in Worker, login_session(w) PROVE TypeInv'
    <3>1. req[w].pc = "session" /\ req[w].token \in Token /\ req[w].dev \in ids
      BY <2>0, <2>9 DEF login_session, FrameTyped, LoginPc
    <3>2. TablesTyped' /\ ids \subseteq ids'
      BY <2>0, <2>9, <3>1 DEF login_session, TablesTyped, itemVars, groupVars, historyVars
    <3>3. FrameTyped(w)' /\ Alone(w)
      BY <2>0, <2>9, <3>1, <3>2, LoginEffects DEF Moves, FrameTyped, LoginPc
    <3> QED BY <3>2, <3>3, TypedStep
  <2>10. ASSUME NEW w \in Worker, login_track(w) PROVE TypeInv'
    <3>1. req[w].pc = "track" /\ req[w].token \in Token /\ req[w].dev \in ids
      BY <2>0, <2>10 DEF login_track, FrameTyped, LoginPc
    <3>2. TablesTyped' /\ ids \subseteq ids'
      BY <2>0, <2>10, <3>1 DEF login_track, TablesTyped, itemVars, groupVars, historyVars
    <3>3. FrameTyped(w)' /\ Alone(w)
      BY <2>0, <2>10, <3>1, <3>2, LoginEffects DEF Moves, FrameTyped, LoginPc
    <3> QED BY <3>2, <3>3, TypedStep
  <2>36. ASSUME NEW w \in Worker, login_expire(w) PROVE TypeInv'
    <3>1. req[w].pc = "expire" /\ req[w].token \in Token /\ req[w].dev \in ids
      BY <2>0, <2>36 DEF login_expire, FrameTyped, LoginPc
    <3>2. TablesTyped' /\ ids \subseteq ids'
      BY <2>0, <2>36, <3>1 DEF login_expire, TablesTyped, itemVars, groupVars, historyVars
    <3>3. FrameTyped(w)' /\ Alone(w)
      BY <2>0, <2>36, <3>1, <3>2, LoginEffects DEF Moves, FrameTyped, LoginPc
    <3> QED BY <3>2, <3>3, TypedStep
  <2>11. ASSUME NEW w \in Worker, login_untracked(w) PROVE TypeInv'
    <3>1. TablesTyped' /\ ids \subseteq ids'
      BY <2>0, <2>11 DEF login_untracked, Others, TablesTyped, itemVars, groupVars, historyVars
    <3> QED BY <2>0, <2>11, <3>1, LoginEffects, EndTyped, TypedStep
  <2>12. ASSUME NEW w \in Worker, login_verify(w) PROVE TypeInv'
    <3>1. req[w].pc = "verify" /\ req[w].token \in Token /\ req[w].dev \in ids
      BY <2>0, <2>12 DEF login_verify, FrameTyped, LoginPc
    <3>2. TablesTyped' /\ ids \subseteq ids'
      BY <2>0, <2>12, <3>1, LoginEffects DEF login_verify, TablesTyped, authVars, itemVars, groupVars
    <3>3. FrameTyped(w)' /\ Alone(w)
      BY <2>0, <2>12, <3>1, <3>2, LoginEffects, EndTyped DEF Moves, FrameTyped, LoginPc
    <3> QED BY <3>2, <3>3, TypedStep
  <2>13. ASSUME NEW w \in Worker, login_clean_session(w) PROVE TypeInv'
    <3>1. TablesTyped' /\ ids \subseteq ids'
      BY <2>0, <2>13 DEF login_clean_session, Others, TablesTyped, itemVars, groupVars, historyVars
    <3>2. FrameTyped(w)' /\ Alone(w)
      BY <2>0, <2>13, <3>1, LoginEffects DEF Moves, FrameTyped, LoginPc, login_clean_session
    <3> QED BY <3>1, <3>2, TypedStep
  <2>14. ASSUME NEW w \in Worker, login_clean_set(w) PROVE TypeInv'
    <3>1. req[w].dev \in Device
      BY <2>14, <2>a DEF login_clean_set, Busy
    <3>2. TablesTyped' /\ ids \subseteq ids'
      BY <2>0, <2>14, <3>1 DEF login_clean_set, TablesTyped, itemVars, groupVars
    <3> QED BY <2>0, <2>14, <3>2, LoginEffects, EndTyped, TypedStep
  <2>15. ASSUME NEW w \in Worker, revoke_index(w) PROVE TypeInv'
    <3>1. TablesTyped' /\ ids \subseteq ids'
      BY <2>0, <2>15 DEF revoke_index, TablesTyped, authVars, itemVars, groupVars, historyVars
    <3>2. FrameTyped(w)' /\ Alone(w)
      BY <2>0, <2>15, RevokeEffects DEF Moves, FrameTyped, LoginPc
    <3> QED BY <3>1, <3>2, TypedStep
  <2>16. ASSUME NEW w \in Worker, revoke_invite(w) PROVE TypeInv'
    <3>1. invites' \subseteq Item /\ index' \in [Device -> SUBSET (1..MaxItems)]
      BY <2>0, <2>16, RevokeEffects DEF TablesTyped
    <3>2. TablesTyped' /\ ids \subseteq ids'
      BY <2>0, <2>16, <3>1 DEF revoke_invite, TablesTyped, authVars, groupVars, historyVars
    <3>3. FrameTyped(w)' /\ Alone(w)
      BY <2>0, <2>16, RevokeEffects DEF Moves, FrameTyped, LoginPc
    <3> QED BY <3>2, <3>3, TypedStep
  <2>17. ASSUME NEW w \in Worker, list_groups_for_device(w) PROVE TypeInv'
    <3>1. TablesTyped' /\ ids \subseteq ids'
      BY <2>0, <2>17 DEF list_groups_for_device, TablesTyped, authVars, itemVars, groupVars, historyVars
    <3>2. FrameTyped(w)' /\ Alone(w)
      BY <2>0, <2>17, RevokeEffects DEF Moves, FrameTyped, LoginPc
    <3> QED BY <3>1, <3>2, TypedStep
  <2>18. ASSUME NEW w \in Worker, create_pending_removal(w) PROVE TypeInv'
    <3>1. req[w].pc = "remind" /\ req[w].todo \subseteq Group /\ req[w].dev \in Device
      BY <2>0, <2>18, <2>a DEF create_pending_removal, FrameTyped, Busy
    <3>2. removals' \subseteq Reminder /\ written' \subseteq Reminder
      <4>1. ASSUME NEW g \in req[w].todo
            PROVE  [group |-> g, dev |-> req[w].dev, epoch |-> epoch[g]] \in Reminder
        BY <2>0, <3>1 DEF Reminder, TablesTyped
      <4>2. \/ \E g \in req[w].todo :
                  \E new \in SUBSET {[group |-> g, dev |-> req[w].dev, epoch |-> epoch[g]]} :
                     removals' = removals \cup new /\ written' = written \cup new
            \/ UNCHANGED <<removals, written>>
        BY <2>18 DEF create_pending_removal
      <4> QED BY <2>0, <4>1, <4>2 DEF TablesTyped
    <3>3. TablesTyped' /\ ids \subseteq ids'
      BY <2>0, <2>18, <3>2 DEF create_pending_removal, TablesTyped, authVars, itemVars
    <3>4. FrameTyped(w)' /\ Alone(w)
      BY <2>0, <2>18, <3>1, RevokeEffects DEF Moves, FrameTyped, LoginPc
    <3> QED BY <3>3, <3>4, TypedStep
  <2>19. ASSUME NEW w \in Worker, delete_by_device(w) PROVE TypeInv'
    <3>1. TablesTyped' /\ ids \subseteq ids'
      BY <2>0, <2>19 DEF delete_by_device, TablesTyped, authVars, groupVars, historyVars
    <3>2. FrameTyped(w)' /\ Alone(w)
      BY <2>0, <2>19, RevokeEffects DEF Moves, FrameTyped, LoginPc
    <3> QED BY <3>1, <3>2, TypedStep
  <2>20. ASSUME NEW w \in Worker, delete_device(w) PROVE TypeInv'
    <3>1. /\ req[w].dev \in Device /\ req[w].groups \subseteq Group
          /\ req[w].fence \subseteq 1..MaxItems
      BY <2>20, <2>a DEF delete_device, Busy
    <3>2. /\ captured' \subseteq Group \X Device /\ doomed' \subseteq 1..MaxItems
          /\ seats' \subseteq Group \X devices'
      <4>1. captured' \subseteq Group \X Device
        <5>1. {<<g, req[w].dev>> : g \in req[w].groups} \subseteq Group \X Device
          BY <3>1
        <5> QED BY <2>0, <2>20, <5>1 DEF delete_device, TablesTyped
      <4>2. doomed' \subseteq 1..MaxItems
        BY <2>0, <2>20, <3>1 DEF delete_device, TablesTyped
      <4>3. seats' \subseteq Group \X devices'
        <5>1. seats \subseteq Group \X devices
          BY <2>0 DEF TablesTyped
        <5>2. seats' = {s \in seats : s[2] # req[w].dev} /\ devices' = devices \ {req[w].dev}
          BY <2>20 DEF delete_device
        <5> QED BY <5>1, <5>2
      <4> QED BY <4>1, <4>2, <4>3
    <3>3. TablesTyped' /\ ids \subseteq ids'
      BY <2>0, <2>20, <3>2 DEF delete_device, TablesTyped, itemVars
    <3>4. FrameTyped(w)' /\ Alone(w)
      BY <2>0, <2>20, RevokeEffects DEF Moves, FrameTyped, LoginPc
    <3> QED BY <3>3, <3>4, TypedStep
  <2>21. ASSUME NEW w \in Worker, set_members(w) PROVE TypeInv'
    <3>1. tracked[req[w].dev] \subseteq Token
      BY <2>0, <2>21, <2>a DEF set_members, Busy, TablesTyped
    <3>2. TablesTyped' /\ ids \subseteq ids'
      BY <2>0, <2>21 DEF set_members, TablesTyped, authVars, itemVars, groupVars, historyVars
    <3>3. FrameTyped(w)' /\ Alone(w)
      BY <2>0, <2>21, <3>1, RevokeEffects DEF Moves, FrameTyped, LoginPc
    <3> QED BY <3>2, <3>3, TypedStep
  <2>22. ASSUME NEW w \in Worker, delete_session(w) PROVE TypeInv'
    <3>1. req[w].pc = "sessions" /\ req[w].todo \subseteq Token
      BY <2>0, <2>22 DEF delete_session, FrameTyped
    <3>2. sessions' \subseteq sessions /\ kept' \subseteq Token
      BY <2>0, <2>22, <3>1 DEF delete_session, TablesTyped
    <3>3. TablesTyped' /\ ids \subseteq ids'
      BY <2>0, <2>22, <3>2 DEF delete_session, TablesTyped, itemVars, groupVars
    <3>4. FrameTyped(w)' /\ Alone(w)
      BY <2>0, <2>22, <3>1, RevokeEffects DEF Moves, FrameTyped, LoginPc
    <3> QED BY <3>3, <3>4, TypedStep
  <2>23. ASSUME NEW w \in Worker, delete_set(w) PROVE TypeInv'
    <3>1. TablesTyped' /\ ids \subseteq ids'
      BY <2>0, <2>23 DEF delete_set, TablesTyped, itemVars, groupVars, historyVars
    <3> QED BY <2>0, <2>23, <3>1, RevokeEffects, EndTyped, TypedStep
  <2>24. ASSUME NEW w \in Worker, upload(w) PROVE TypeInv'
    <3>1. items + 1 \in 1..MaxItems /\ req[w].dev \in Device
      BY <2>0, <2>24, <2>a DEF upload, TablesTyped, Busy
    <3>2. TablesTyped' /\ ids \subseteq ids'
      BY <2>0, <2>24, <3>1 DEF upload, TablesTyped, Item, authVars, groupVars, historyVars
    <3> QED BY <2>0, <2>24, <3>1, <3>2, RequestEffects, EndTyped, TypedStep
  <2>25. ASSUME NEW w \in Worker, create_invite(w) PROVE TypeInv'
    <3>1. items + 1 \in 1..MaxItems /\ req[w].dev \in Device
      BY <2>0, <2>25, <2>a DEF create_invite, TablesTyped, Busy
    <3>2. TablesTyped' /\ ids \subseteq ids'
      BY <2>0, <2>25, <3>1 DEF create_invite, TablesTyped, Item, authVars, groupVars, historyVars
    <3>3. FrameTyped(w)' /\ Alone(w)
      BY <2>0, <2>25, <3>1, RequestEffects DEF Moves, FrameTyped, LoginPc
    <3> QED BY <3>2, <3>3, TypedStep
  <2>26. ASSUME NEW w \in Worker, create_invite_add(w) PROVE TypeInv'
    <3>1. req[w].todo \subseteq 1..MaxItems /\ req[w].dev \in Device
      BY <2>0, <2>26, <2>a DEF create_invite_add, FrameTyped, Busy
    <3>2. TablesTyped' /\ ids \subseteq ids'
      BY <2>0, <2>26, <3>1 DEF create_invite_add, TablesTyped, authVars, groupVars, historyVars
    <3> QED BY <2>0, <2>26, <3>1, <3>2, RequestEffects, EndTyped, TypedStep
  <2>27. ASSUME NEW w \in Worker, NEW g \in Group, accept_membership(w, g) PROVE TypeInv'
    <3>1. TablesTyped' /\ ids \subseteq ids'
      BY <2>0, <2>27 DEF accept_membership, TablesTyped, authVars, itemVars, historyVars
    <3>2. req[w].dev \in Device
      BY <2>27, <2>a DEF accept_membership, Busy
    <3> QED BY <2>0, <2>27, <3>1, <3>2, RequestEffects, EndTyped, TypedStep
  <2>28. ASSUME NEW w \in Worker, delete_pending_removal(w) PROVE TypeInv'
    <3>1. TablesTyped' /\ ids \subseteq ids'
      BY <2>0, <2>28 DEF delete_pending_removal, TablesTyped, authVars, itemVars, historyVars
    <3>2. req[w].dev \in Device
      BY <2>28, <2>a DEF delete_pending_removal, Busy
    <3> QED BY <2>0, <2>28, <3>1, <3>2, RequestEffects, EndTyped, TypedStep
  <2>29. ASSUME NEW w \in Worker, request_fails(w) PROVE TypeInv'
    <3>1. req[w].dev \in Device
      BY <2>0, <2>29, <2>a, IdleIsFree DEF request_fails
    <3>2. TablesTyped' /\ ids \subseteq ids'
      BY <2>0, <2>29, <3>1 DEF request_fails, TablesTyped, authVars, itemVars, groupVars
    <3> QED BY <2>0, <2>29, <3>1, <3>2, RequestEffects, EndTyped, TypedStep
  <2>30. ASSUME NEW s \in sessions, session_ends(s) PROVE TypeInv'
    BY <2>0, <2>30, TypedWorld DEF session_ends, TablesTyped, itemVars, groupVars, historyVars
  <2>37. ASSUME NEW d \in Device, index_expires(d) PROVE TypeInv'
    BY <2>0, <2>37, TypedWorld DEF index_expires, TablesTyped, itemVars, groupVars
  <2>31. ASSUME NEW p \in packages, fetch_one(p) PROVE TypeInv'
    BY <2>0, <2>31, TypedWorld DEF fetch_one, TablesTyped, authVars, groupVars, historyVars
  <2>32. ASSUME NEW i \in invites, redeem_invite(i) PROVE TypeInv'
    <3>1. index' \in [Device -> SUBSET (1..MaxItems)]
      BY <2>0, <2>32 DEF redeem_invite, TablesTyped
    <3> QED BY <2>0, <2>32, <3>1, TypedWorld DEF redeem_invite, TablesTyped, authVars, groupVars, historyVars
  <2>33. ASSUME NEW g \in Group, commit(g) PROVE TypeInv'
    <3>1. epoch' \in [Group -> 0..MaxEpoch]
      <4>1. epoch[g] + 1 \in 0..MaxEpoch
        BY <2>0, <2>33 DEF commit, TablesTyped
      <4> QED BY <2>0, <2>33, <4>1 DEF commit, TablesTyped
    <3> QED BY <2>0, <2>33, <3>1, TypedWorld DEF commit, TablesTyped, authVars, itemVars, historyVars
  <2>34. ASSUME NEW S \in SUBSET removals, sweep_stale_pending_removals(S) PROVE TypeInv'
    BY <2>0, <2>34, TypedWorld
       DEF sweep_stale_pending_removals, TablesTyped, authVars, itemVars, historyVars
  <2>35. CASE UNCHANGED vars
    BY <2>0, <2>35, TypedWorld
       DEF vars, TablesTyped, authVars, itemVars, groupVars, historyVars
  <2> QED
    BY <2>1, <2>2, <2>3, <2>4, <2>5, <2>6, <2>7, <2>8, <2>9, <2>10, <2>11, <2>12, <2>13,
       <2>14, <2>15, <2>16, <2>17, <2>18, <2>19, <2>20, <2>21, <2>22, <2>23, <2>24, <2>25,
       <2>26, <2>27, <2>28, <2>29, <2>30, <2>31, <2>32, <2>33, <2>34, <2>35,
       <2>36, <2>37
    DEF Next, LoginStep, RevokeStep
<1> QED BY <1>1, <1>2, PTL DEF Spec

\* Every variable keeps its type: no session without a token, no seat of a device that
\* is gone, whatever requests run at once.
THEOREM TypeCorrect == Spec => []TypeOK
  BY TypeInvHolds, TypeInvIsTypeOK, PTL

-----------------------------------------------------------------------------
\* What a revocation set out to end are items of its device that exist already; once it
\* has deleted the device's packages none of them is left.
FenceOK(w) ==
    /\ Busy(w) => \A i \in req[w].fence : i <= items
    /\ req[w].pc = "add" =>
          \A i \in req[w].todo : i <= items /\ \A p \in packages : p.id # i
    /\ req[w].pc \in {"index", "invites", "groups", "remind", "packages"} =>
          \A p \in packages : p.id \in req[w].fence => p.dev = req[w].dev
    /\ req[w].pc = "delete" => \A p \in packages : p.id \notin req[w].fence

\* Ids are handed out once, to a KeyPackage or to an invite.
ItemsOK ==
    /\ \A p \in packages : p.id <= items
    /\ \A p, q \in packages : p.id = q.id => p = q
    /\ \A d \in Device : \A i \in index[d] : i <= items /\ \A p \in packages : p.id # i
    /\ \A i \in doomed : i <= items

DoomInv ==
    /\ ItemsOK
    /\ \A w \in Worker : FenceOK(w)
    /\ DoomedPackagesGone

\* A reminder that stands, or has been answered by a Commit.
Reminded(g, d) ==
    \E r \in written :
        /\ r.group = g /\ r.dev = d
        /\ r \in removals \/ epoch[r.group] > r.epoch

\* A revocation has reminded the groups it has visited, and all it found before it goes on.
RemindOK(w) ==
    /\ req[w].pc = "remind" => \A g \in req[w].groups \ req[w].todo : Reminded(g, req[w].dev)
    /\ req[w].pc \in {"packages", "delete"} => \A g \in req[w].groups : Reminded(g, req[w].dev)

RemindInv ==
    /\ removals \subseteq written
    /\ \A w \in Worker : RemindOK(w)
    /\ \A c \in captured : Reminded(c[1], c[2])

Touching == {"session", "track", "untracked", "expire", "verify", "clean_session",
             "clean_set"} \cup RevokePc
Done == {"tokens", "sessions", "untrack"}
Minting(w) == req[w].pc \in {"count", "mint"} \/ (req[w].pc = "find" /\ req[w].proof)
LoggingIn(w) == req[w].pc \in LoginPc \/ (req[w].pc = "mint" /\ req[w].proof)
Explained(s) == s.token \in kept \cup wiped \cup lapsed \/ s.dev \in stranded

\* What a request knows of sessions: a revocation that has deleted the row has yet to
\* visit every issued token of the device, or it is explained; a login that has tracked
\* its token finds it in the index as long as the device and the session exist, unless
\* another's clean-up or the index's TTL took it out.
Indexed(w) ==
    \A s \in sessions : s.token = req[w].token =>
        s.token \in tracked[req[w].dev] \cup wiped \cup lapsed
SurvivorOK(w) ==
    /\ req[w].pc \in Touching => req[w].dev \in ids
    /\ req[w].pc \in Done => req[w].dev \notin devices
    /\ Minting(w) => req[w].dev \notin devices
    /\ req[w].pc = "sessions" =>
          \A s \in sessions : s.dev = req[w].dev /\ s.token \in issued =>
              s.token \in req[w].todo \/ Explained(s)
    /\ req[w].pc = "untrack" =>
          \A s \in sessions : s.dev = req[w].dev /\ s.token \in issued => Explained(s)
    /\ req[w].pc \in {"expire", "verify"} /\ req[w].dev \in devices => Indexed(w)
    /\ LoggingIn(w) =>
          /\ req[w].token \notin issued /\ req[w].token <= logins
          /\ \A s \in sessions : s.token = req[w].token => s.dev = req[w].dev

\* A device is minted by one request, before any other has found it; a token is one login's.
Separate(v, w) ==
    /\ Minting(v) /\ (req[w].pc \in Touching \/ Minting(w)) => req[v].dev # req[w].dev
    /\ LoggingIn(v) /\ LoggingIn(w) => req[v].token # req[w].token

TokensOK ==
    /\ \A s \in sessions : s.token <= logins
    /\ \A t \in issued : t <= logins
    /\ \A s \in sessions : s.token \in issued => s.token \in tracked[s.dev] \/ Explained(s)

\* SurvivorsAreExplained, with Deleted spelt out.
SurvivorsOK ==
    \A s \in sessions :
        /\ s.token \in issued /\ s.dev \notin devices
        /\ \A w \in Worker : ~(req[w].pc \in Done /\ req[w].dev = s.dev)
        => Explained(s)

SurvivorInv ==
    /\ TokensOK
    /\ \A w \in Worker : SurvivorOK(w)
    /\ \A v, w \in Worker : v # w => Separate(v, w)
    /\ SurvivorsOK

-----------------------------------------------------------------------------
\* Other requests when worker w's frame changes and packages only disappear.
LEMMA DoomStep ==
    ASSUME TypeInv, TypeInv', DoomInv, NEW w \in Worker, Alone(w), FenceOK(w)', ItemsOK',
           items <= items', packages' \subseteq packages, DoomedPackagesGone'
    PROVE  DoomInv'
<1>1. ASSUME NEW v \in Worker \ {w} PROVE FenceOK(v)'
  <2>1. req'[v] = req[v] /\ FenceOK(v)
    BY DEF Alone, DoomInv
  <2>2. items \in Int /\ items' \in Int
    BY DEF TypeInv, TablesTyped
  <2>3. Busy(v) => \A i \in req[v].fence : i \in Int
    BY BusyFrame DEF TypeInv
  <2>4. req[v].pc = "add" => \A i \in req[v].todo : i \in Int
    BY DEF TypeInv, FrameTyped
  <2> QED BY <2>1, <2>2, <2>3, <2>4 DEF FenceOK, Busy
<1> QED BY <1>1 DEF DoomInv

LEMMA DoomFrame ==
    ASSUME TypeInv, TypeInv', DoomInv, NEW w \in Worker, Alone(w), FenceOK(w)',
           UNCHANGED <<packages, index, items, doomed>>
    PROVE  DoomInv'
<1>1. ItemsOK' /\ DoomedPackagesGone'
  BY DEF DoomInv, ItemsOK, DoomedPackagesGone
<1>2. items <= items'
  BY DEF TypeInv, TablesTyped
<1> QED BY <1>1, <1>2, DoomStep

LEMMA DoomWorld ==
    ASSUME DoomInv, UNCHANGED <<req, items, doomed>>, packages' \subseteq packages,
           \A d \in Device : index'[d] \subseteq index[d]
    PROVE  DoomInv'
<1>1. ItemsOK' /\ DoomedPackagesGone'
  BY DEF DoomInv, ItemsOK, DoomedPackagesGone
<1>2. \A w \in Worker : FenceOK(w)'
  BY DEF DoomInv, FenceOK, Busy
<1> QED BY <1>1, <1>2 DEF DoomInv

\* Steps at which a frame makes no claim about items but that its fence is old.
Quiet == LoginPc \cup {"mint", "upload", "invite", "join", "clear", "tokens", "sessions",
                       "untrack"}

LEMMA QuietFence ==
    ASSUME TypeInv, DoomInv, NEW w \in Worker, items' = items
    PROVE  /\ Ends(w) => Alone(w) /\ FenceOK(w)'
           /\ \A pc \in Quiet : \A todo, groups :
                 Busy(w) /\ Moves(w, pc, todo, groups) => Alone(w) /\ FenceOK(w)'
           /\ \A pc \in Quiet : \A d, token, proof, todo :
                 Starts(w, pc, d, token, proof, todo, {}) => Alone(w) /\ FenceOK(w)'
<1>1. Ends(w) => Alone(w) /\ FenceOK(w)'
  BY DEF Ends, FenceOK, Busy
<1>2. ASSUME NEW pc \in Quiet, NEW todo, NEW groups, Busy(w), Moves(w, pc, todo, groups)
      PROVE  Alone(w) /\ FenceOK(w)'
  BY <1>2 DEF Moves, FenceOK, Busy, Quiet, LoginPc, DoomInv
<1>3. ASSUME NEW pc \in Quiet, NEW d, NEW token, NEW proof, NEW todo,
             Starts(w, pc, d, token, proof, todo, {})
      PROVE  Alone(w) /\ FenceOK(w)'
  BY <1>3 DEF Starts, FenceOK, Busy, Quiet, LoginPc
<1> QED BY <1>1, <1>2, <1>3

LEMMA DoomInvHolds == Spec => []DoomInv
<1>1. Init => DoomInv
  <2> SUFFICES ASSUME Init PROVE DoomInv
    OBVIOUS
  <2>1. \A w \in Worker : req[w].pc = "free"
    BY DEF Init, Free
  <2> QED BY <2>1 DEF Init, DoomInv, ItemsOK, FenceOK, Busy, DoomedPackagesGone
<1>2. TypeInv /\ TypeInv' /\ DoomInv /\ [Next]_vars => DoomInv'
  <2> SUFFICES ASSUME TypeInv, TypeInv', DoomInv, [Next]_vars PROVE DoomInv'
    OBVIOUS
  <2>0. Shaped /\ TypeOK /\ TablesTyped
    BY TypeInvIsTypeOK DEF TypeInv
  <2>1. ASSUME NEW w \in Worker, NEW d \in Device, NEW proof \in BOOLEAN,
               login_finish(w, d, proof)
        PROVE  DoomInv'
    <3>1. UNCHANGED <<packages, index, items, doomed>>
      BY <2>1 DEF login_finish, itemVars, historyVars
    <3>2. FenceOK(w)' /\ Alone(w)
      BY <2>0, <2>1, <3>1, RequestEffects, QuietFence DEF Quiet, LoginPc
    <3> QED BY <3>1, <3>2, DoomFrame
  <2>2. ASSUME NEW w \in Worker, NEW d \in Device, NEW new \in Device,
               register_device(w, d, new)
        PROVE  DoomInv'
    <3>1. UNCHANGED <<packages, index, items, doomed>>
      BY <2>2 DEF register_device, itemVars, historyVars
    <3>2. FenceOK(w)' /\ Alone(w)
      BY <2>0, <2>2, <3>1, RequestEffects, QuietFence DEF Quiet
    <3> QED BY <3>1, <3>2, DoomFrame
  <2>3. ASSUME NEW w \in Worker, NEW d \in Device, NEW pc \in {"upload", "invite", "join"},
               authenticated_call(w, d, pc)
        PROVE  DoomInv'
    <3>1. UNCHANGED <<packages, index, items, doomed>>
      BY <2>3 DEF authenticated_call, itemVars, historyVars
    <3>2. FenceOK(w)' /\ Alone(w)
      BY <2>0, <2>3, <3>1, RequestEffects, QuietFence DEF Quiet
    <3> QED BY <3>1, <3>2, DoomFrame
  <2>4. ASSUME NEW w \in Worker, NEW c \in Device, NEW d \in Device, revoke_device(w, c, d)
        PROVE  DoomInv'
    <3>1. UNCHANGED <<packages, index, items, doomed>>
      BY <2>4 DEF revoke_device, itemVars, historyVars
    <3>2. Starts(w, "index", d, 0, FALSE, {}, Ids(packages, d) \cup index[d])
      BY <2>0, <2>4, RequestEffects
    <3>3. \A i \in Ids(packages, d) \cup index[d] : i <= items
      BY DEF Ids, DoomInv, ItemsOK
    <3>4. \A p \in packages : p.id \in Ids(packages, d) \cup index[d] => p.dev = d
      BY DEF Ids, DoomInv, ItemsOK
    <3>5. FenceOK(w)' /\ Alone(w)
      BY <3>1, <3>2, <3>3, <3>4 DEF Starts, FenceOK, Busy
    <3> QED BY <3>1, <3>5, DoomFrame
  <2>5. ASSUME NEW w \in Worker, NEW d \in Device, NEW g \in Group, remove_member(w, g, d)
        PROVE  DoomInv'
    <3>1. UNCHANGED <<packages, index, items, doomed>>
      BY <2>5 DEF remove_member, itemVars, historyVars
    <3>2. FenceOK(w)' /\ Alone(w)
      BY <2>0, <2>5, <3>1, RequestEffects, QuietFence DEF Quiet
    <3> QED BY <3>1, <3>2, DoomFrame
  <2>6. ASSUME NEW w \in Worker, LoginStep(w) PROVE DoomInv'
    <3>1. UNCHANGED <<packages, index, items, doomed>>
      BY <2>6 DEF LoginStep, login_find, count_devices, save_device, login_session, login_track,
                  login_untracked, login_expire, login_verify, login_clean_session,
                  login_clean_set,
                  itemVars, historyVars
    <3>2. Busy(w)
      BY <2>6 DEF LoginStep, login_find, count_devices, save_device, login_session, login_track,
                  login_untracked, login_expire, login_verify, login_clean_session,
                  login_clean_set, Busy
    <3>3. Ends(w) \/ \E pc \in Quiet : Moves(w, pc, req[w].todo, req[w].groups)
      BY <2>0, <2>6, LoginEffects DEF LoginStep, Quiet, LoginPc
    <3>4. FenceOK(w)' /\ Alone(w)
      BY <3>1, <3>2, <3>3, QuietFence
    <3> QED BY <3>1, <3>4, DoomFrame
  <2>7. ASSUME NEW w \in Worker, revoke_index(w) PROVE DoomInv'
    <3>1. UNCHANGED <<packages, index, items, doomed>> /\ req[w].pc = "index"
      BY <2>7 DEF revoke_index, itemVars, historyVars
    <3>2. Moves(w, "invites", index[req[w].dev], req[w].groups)
      BY <2>0, <2>7, RevokeEffects
    <3>3. FenceOK(w)' /\ Alone(w)
      BY <3>1, <3>2 DEF Moves, FenceOK, Busy, DoomInv
    <3> QED BY <3>1, <3>3, DoomFrame
  <2>8. ASSUME NEW w \in Worker, revoke_invite(w) PROVE DoomInv'
    <3>1. UNCHANGED <<packages, items, doomed>> /\ req[w].pc = "invites"
      BY <2>8 DEF revoke_invite, historyVars
    <3>2. \A d \in Device : index'[d] \subseteq index[d]
      BY <2>0, <2>8 DEF revoke_invite, TablesTyped
    <3>3. \E todo : \E pc \in {"invites", "groups"} : Moves(w, pc, todo, req[w].groups)
      BY <2>0, <2>8, RevokeEffects
    <3>4. FenceOK(w)' /\ Alone(w)
      BY <3>1, <3>3 DEF Moves, FenceOK, Busy, DoomInv
    <3>5. ItemsOK' /\ DoomedPackagesGone' /\ items <= items'
      BY <2>0, <3>1, <3>2 DEF DoomInv, ItemsOK, DoomedPackagesGone, TablesTyped
    <3> QED BY <3>1, <3>4, <3>5, DoomStep
  <2>9. ASSUME NEW w \in Worker, list_groups_for_device(w) PROVE DoomInv'
    <3>1. UNCHANGED <<packages, index, items, doomed>> /\ req[w].pc = "groups"
      BY <2>9 DEF list_groups_for_device, itemVars, historyVars
    <3>2. \E mine : Moves(w, "remind", mine, mine)
      BY <2>0, <2>9, RevokeEffects
    <3>3. FenceOK(w)' /\ Alone(w)
      BY <3>1, <3>2 DEF Moves, FenceOK, Busy, DoomInv
    <3> QED BY <3>1, <3>3, DoomFrame
  <2>10. ASSUME NEW w \in Worker, create_pending_removal(w) PROVE DoomInv'
    <3>1. UNCHANGED <<packages, index, items, doomed>> /\ req[w].pc = "remind"
      BY <2>10 DEF create_pending_removal, itemVars
    <3>2. \E todo : \E pc \in {"remind", "packages"} : Moves(w, pc, todo, req[w].groups)
      BY <2>0, <2>10, RevokeEffects
    <3>3. FenceOK(w)' /\ Alone(w)
      BY <3>1, <3>2 DEF Moves, FenceOK, Busy, DoomInv
    <3> QED BY <3>1, <3>3, DoomFrame
  <2>11. ASSUME NEW w \in Worker, delete_by_device(w) PROVE DoomInv'
    <3>1. /\ UNCHANGED <<index, items, doomed>> /\ req[w].pc = "packages"
          /\ packages' = {p \in packages : p.dev # req[w].dev}
      BY <2>11 DEF delete_by_device, historyVars
    <3>2. Moves(w, "delete", req[w].todo, req[w].groups)
      BY <2>0, <2>11, RevokeEffects
    <3>3. FenceOK(w)' /\ Alone(w)
      BY <3>1, <3>2 DEF Moves, FenceOK, Busy, DoomInv
    <3>4. ItemsOK' /\ DoomedPackagesGone' /\ items <= items'
      BY <2>0, <3>1 DEF DoomInv, ItemsOK, DoomedPackagesGone, TablesTyped
    <3> QED BY <3>1, <3>3, <3>4, DoomStep
  <2>12. ASSUME NEW w \in Worker, delete_device(w) PROVE DoomInv'
    <3>1. /\ UNCHANGED <<packages, index, items>> /\ req[w].pc = "delete" /\ Busy(w)
          /\ doomed' = doomed \cup req[w].fence
      BY <2>12 DEF delete_device, itemVars, Busy
    <3>2. FenceOK(w)' /\ Alone(w)
      BY <2>0, <2>12, <3>1, RevokeEffects, QuietFence DEF Quiet
    <3>3. /\ \A i \in req[w].fence : i <= items
          /\ \A p \in packages : p.id \notin req[w].fence
      BY <3>1 DEF DoomInv, FenceOK
    <3>4. ItemsOK'
      BY <3>1, <3>3 DEF DoomInv, ItemsOK
    <3>5. DoomedPackagesGone'
      BY <3>1, <3>3 DEF DoomInv, DoomedPackagesGone
    <3>6. items <= items' /\ packages' \subseteq packages
      BY <2>0, <3>1 DEF TablesTyped
    <3> QED BY <3>2, <3>4, <3>5, <3>6, DoomStep
  <2>13. ASSUME NEW w \in Worker, set_members(w) \/ delete_session(w) \/ delete_set(w)
         PROVE  DoomInv'
    <3>1. UNCHANGED <<packages, index, items, doomed>> /\ Busy(w)
      BY <2>13 DEF set_members, delete_session, delete_set, itemVars, historyVars, Busy
    <3>2. Ends(w) \/ \E pc \in Quiet : \E todo : Moves(w, pc, todo, req[w].groups)
      BY <2>0, <2>13, RevokeEffects DEF Quiet
    <3>3. FenceOK(w)' /\ Alone(w)
      BY <3>1, <3>2, QuietFence
    <3> QED BY <3>1, <3>3, DoomFrame
  <2>14. ASSUME NEW w \in Worker, upload(w) PROVE DoomInv'
    <3> DEFINE new == [id |-> items + 1, dev |-> req[w].dev]
    <3>1. /\ UNCHANGED <<index, doomed>> /\ items' = items + 1
          /\ packages' = packages \cup {new} /\ Finish(w)
      BY <2>14 DEF upload, historyVars
    <3>2. new.id = items + 1
      OBVIOUS
    <3> HIDE DEF new
    <3>3. Ends(w)
      BY <2>0, <3>1, FinishEnds
    <3>4. items \in Nat /\ \A p \in packages : p.id \in Nat
      BY <2>0, RevocationAssumption DEF TablesTyped, Item
    <3>5. (\A i \in doomed : i \in Nat) /\ \A d \in Device : \A i \in index[d] : i \in Nat
      BY <2>0, RevocationAssumption DEF TablesTyped
    <3>6. ItemsOK' /\ DoomedPackagesGone'
      BY <3>1, <3>2, <3>4, <3>5 DEF DoomInv, ItemsOK, DoomedPackagesGone
    <3>7. ASSUME NEW v \in Worker PROVE FenceOK(v)'
      <4>1. CASE v = w
        BY <3>3, <4>1 DEF Ends, FenceOK, Busy
      <4>2. CASE v # w
        <5>1. req'[v] = req[v] /\ FenceOK(v)
          BY <3>3, <4>2 DEF Ends, Alone, DoomInv
        <5>2. Busy(v) => \A i \in req[v].fence : i \in Int
          BY <2>0, BusyFrame
        <5>3. req[v].pc = "add" => \A i \in req[v].todo : i \in Int
          BY DEF TypeInv, FrameTyped
        <5>4. /\ Busy(v)' => \A i \in req'[v].fence : i <= items'
              /\ req'[v].pc = "add" =>
                    \A i \in req'[v].todo : i <= items' /\ \A p \in packages' : p.id # i
          BY <3>1, <3>2, <3>4, <5>1, <5>2, <5>3 DEF FenceOK, Busy
        <5>5. Busy(v) => items + 1 \notin req[v].fence
          BY <3>4, <5>1, <5>2 DEF FenceOK
        <5>6. /\ req'[v].pc \in {"index", "invites", "groups", "remind", "packages"} =>
                    \A p \in packages' : p.id \in req'[v].fence => p.dev = req'[v].dev
              /\ req'[v].pc = "delete" => \A p \in packages' : p.id \notin req'[v].fence
          BY <3>1, <3>2, <5>1, <5>5 DEF FenceOK, Busy
        <5> QED BY <5>4, <5>6 DEF FenceOK
      <4> QED BY <4>1, <4>2
    <3> QED BY <3>6, <3>7 DEF DoomInv
  <2>15. ASSUME NEW w \in Worker, create_invite(w) PROVE DoomInv'
    <3>1. UNCHANGED <<packages, index, doomed>> /\ items' = items + 1 /\ req[w].pc = "invite"
      BY <2>15 DEF create_invite, historyVars
    <3>2. Moves(w, "add", {items + 1}, req[w].groups)
      BY <2>0, <2>15, BusyFrame, RequestEffects DEF create_invite, Busy
    <3>3. items \in Nat /\ \A p \in packages : p.id \in Nat
      BY <2>0, RevocationAssumption DEF TablesTyped, Item
    <3>4. (\A i \in doomed : i \in Nat) /\ \A d \in Device : \A i \in index[d] : i \in Nat
      BY <2>0, RevocationAssumption DEF TablesTyped
    <3>5. ItemsOK' /\ DoomedPackagesGone' /\ items <= items'
      BY <3>1, <3>3, <3>4 DEF DoomInv, ItemsOK, DoomedPackagesGone
    <3>6. FenceOK(w)' /\ Alone(w)
      <4>1. Busy(w) /\ \A i \in req[w].fence : i \in Int /\ i <= items
        BY <2>0, <3>1, BusyFrame DEF Busy, DoomInv, FenceOK
      <4>2. \A p \in packages : p.id # items + 1
        BY <3>3 DEF DoomInv, ItemsOK
      <4> QED BY <3>1, <3>2, <3>3, <4>1, <4>2 DEF Moves, FenceOK, Busy
    <3> QED BY <3>1, <3>5, <3>6, DoomStep
  <2>16. ASSUME NEW w \in Worker, create_invite_add(w) PROVE DoomInv'
    <3>1. /\ UNCHANGED <<packages, items, doomed>> /\ req[w].pc = "add" /\ Busy(w)
          /\ index' = [index EXCEPT ![req[w].dev] = @ \cup req[w].todo]
      BY <2>16 DEF create_invite_add, historyVars, Busy
    <3>2. Ends(w)
      BY <2>0, <2>16, FinishEnds DEF create_invite_add
    <3>3. FenceOK(w)
      BY DEF DoomInv
    <3>4. \A d \in Device : \A i \in index'[d] : i \in index[d] \/ i \in req[w].todo
      BY <2>0, <3>1 DEF TablesTyped
    <3>5. ItemsOK' /\ DoomedPackagesGone' /\ items <= items'
      BY <2>0, <3>1, <3>3, <3>4 DEF DoomInv, ItemsOK, DoomedPackagesGone, FenceOK, TablesTyped
    <3>6. FenceOK(w)' /\ Alone(w)
      BY <3>1, <3>2, QuietFence
    <3> QED BY <3>1, <3>5, <3>6, DoomStep
  <2>17. ASSUME NEW w \in Worker,
                \/ \E g \in Group : accept_membership(w, g)
                \/ delete_pending_removal(w) \/ request_fails(w)
         PROVE  DoomInv'
    <3>1. UNCHANGED <<packages, index, items, doomed>>
      BY <2>17 DEF accept_membership, delete_pending_removal, request_fails, itemVars, historyVars
    <3>2. Ends(w)
      BY <2>0, <2>17, FinishEnds DEF accept_membership, delete_pending_removal, request_fails
    <3> QED BY <3>1, <3>2, QuietFence, DoomFrame
  <2>18. ASSUME NEW s \in sessions, session_ends(s) PROVE DoomInv'
    BY <2>18, DoomWorld DEF session_ends, itemVars, historyVars
  <2>24. ASSUME NEW d \in Device, index_expires(d) PROVE DoomInv'
    BY <2>24, DoomWorld DEF index_expires, itemVars
  <2>19. ASSUME NEW p \in packages, fetch_one(p) PROVE DoomInv'
    BY <2>19, DoomWorld DEF fetch_one, historyVars
  <2>20. ASSUME NEW i \in invites, redeem_invite(i) PROVE DoomInv'
    <3>1. \A d \in Device : index'[d] \subseteq index[d]
      BY <2>0, <2>20 DEF redeem_invite, TablesTyped
    <3> QED BY <2>20, <3>1, DoomWorld DEF redeem_invite, historyVars
  <2>21. ASSUME NEW g \in Group, commit(g) PROVE DoomInv'
    BY <2>21, DoomWorld DEF commit, itemVars, historyVars
  <2>22. ASSUME NEW S \in SUBSET removals, sweep_stale_pending_removals(S) PROVE DoomInv'
    BY <2>22, DoomWorld DEF sweep_stale_pending_removals, itemVars, historyVars
  <2>23. CASE UNCHANGED vars
    BY <2>23, DoomWorld DEF vars, itemVars, historyVars
  <2> QED
    BY <2>1, <2>2, <2>3, <2>4, <2>5, <2>6, <2>7, <2>8, <2>9, <2>10, <2>11, <2>12, <2>13,
       <2>14, <2>15, <2>16, <2>17, <2>18, <2>19, <2>20, <2>21, <2>22, <2>23, <2>24
    DEF Next, RevokeStep
<1> QED BY <1>1, <1>2, TypeInvHolds, PTL DEF Spec

\* Once a revocation has deleted the device's row, no KeyPackage the device had when the
\* revocation began is left, however far the revocation then gets.
THEOREM PackagesGoFirst == Spec => []DoomedPackagesGone
<1>1. DoomInv => DoomedPackagesGone
  BY DEF DoomInv
<1> QED BY <1>1, DoomInvHolds, PTL

-----------------------------------------------------------------------------
\* A reminder is deleted only when its group's epoch has passed it: what has been
\* reminded stays so.
RemindersKept ==
    /\ written \subseteq written'
    /\ \A g \in Group : epoch[g] <= epoch'[g]
    /\ \A r \in removals \ removals' : r.epoch < epoch'[r.group]

LEMMA RemindedStays ==
    ASSUME TypeInv, TypeInv', RemindInv, RemindersKept, NEW g, NEW d, Reminded(g, d)
    PROVE  Reminded(g, d)'
<1>1. PICK r \in written : /\ r.group = g /\ r.dev = d
                           /\ r \in removals \/ epoch[r.group] > r.epoch
  BY DEF Reminded
<1>2. r.group \in Group /\ r.epoch \in Int
  BY DEF TypeInv, TablesTyped, Reminder
<1>3. epoch[r.group] \in Int /\ epoch'[r.group] \in Int
  BY <1>2 DEF TypeInv, TablesTyped
<1>4. r \in removals' \/ epoch'[r.group] > r.epoch
  BY <1>1, <1>2, <1>3 DEF RemindersKept
<1>5. r \in written'
  BY <1>1 DEF RemindersKept
<1> QED BY <1>1, <1>4, <1>5 DEF Reminded

\* A step of one request that deletes no device.
LEMMA RemindStep ==
    ASSUME TypeInv, TypeInv', RemindInv, RemindersKept, NEW w \in Worker, Alone(w), RemindOK(w)',
           removals' \subseteq written', \A c \in captured' : c \in captured \/ Reminded(c[1], c[2])
    PROVE  RemindInv'
<1>1. ASSUME NEW v \in Worker PROVE RemindOK(v)'
  <2>1. CASE v = w
    BY <2>1
  <2>2. CASE v # w
    <3>1. req'[v] = req[v] /\ RemindOK(v)
      BY <2>2 DEF Alone, RemindInv
    <3> QED BY <3>1, RemindedStays DEF RemindOK
  <2> QED BY <2>1, <2>2
<1>2. ASSUME NEW c \in captured' PROVE Reminded(c[1], c[2])'
  <2>1. Reminded(c[1], c[2])
    BY DEF RemindInv
  <2> QED BY <2>1, RemindedStays
<1> QED BY <1>1, <1>2 DEF RemindInv

\* A step of none.
LEMMA RemindWorld ==
    ASSUME TypeInv, TypeInv', RemindInv, RemindersKept, UNCHANGED <<req, captured>>,
           removals' \subseteq written'
    PROVE  RemindInv'
<1>1. ASSUME NEW v \in Worker PROVE RemindOK(v)'
  <2>1. req'[v] = req[v] /\ RemindOK(v)
    BY DEF RemindInv
  <2> QED BY <2>1, RemindedStays DEF RemindOK
<1>2. ASSUME NEW c \in captured' PROVE Reminded(c[1], c[2])'
  <2>1. Reminded(c[1], c[2])
    BY DEF RemindInv
  <2> QED BY <2>1, RemindedStays
<1> QED BY <1>1, <1>2 DEF RemindInv

\* A step of one request that leaves the reminders alone and claims nothing about them.
Speechless == (LoginPc \cup OtherPc \cup RevokePc) \ {"remind", "packages", "delete"}

LEMMA RemindFrame ==
    ASSUME TypeInv, TypeInv', RemindInv, NEW w \in Worker, Alone(w),
           req'[w].pc \in Speechless \cup {"free"},
           UNCHANGED <<epoch, removals, written, captured>>
    PROVE  RemindInv'
<1>1. RemindOK(w)'
  BY DEF RemindOK, Speechless
<1>2. RemindersKept
  BY DEF RemindersKept, TypeInv, TablesTyped
<1>3. removals' \subseteq written'
  BY DEF RemindInv
<1> QED BY <1>1, <1>2, <1>3, RemindStep

LEMMA RemindInvHolds == Spec => []RemindInv
<1>1. Init => RemindInv
  <2> SUFFICES ASSUME Init PROVE RemindInv
    OBVIOUS
  <2>1. \A w \in Worker : req[w].pc = "free"
    BY DEF Init, Free
  <2> QED BY <2>1 DEF Init, RemindInv, RemindOK
<1>2. TypeInv /\ TypeInv' /\ RemindInv /\ [Next]_vars => RemindInv'
  <2> SUFFICES ASSUME TypeInv, TypeInv', RemindInv, [Next]_vars PROVE RemindInv'
    OBVIOUS
  <2>0. Shaped /\ TypeOK /\ TablesTyped /\ removals \subseteq written
    BY TypeInvIsTypeOK DEF TypeInv, RemindInv
  <2>s. LoginPc \cup OtherPc \cup {"index", "invites", "groups", "tokens", "sessions", "untrack"}
           \subseteq Speechless
    BY DEF Speechless, LoginPc, OtherPc, RevokePc
  <2>1. ASSUME NEW w \in Worker, NEW d \in Device,
               \/ \E proof \in BOOLEAN : login_finish(w, d, proof)
               \/ \E pc \in {"upload", "invite", "join"} : authenticated_call(w, d, pc)
               \/ \E e \in Device : register_device(w, d, e) \/ revoke_device(w, d, e)
               \/ \E g \in Group : remove_member(w, g, d)
        PROVE  RemindInv'
    <3>1. UNCHANGED <<epoch, removals, written, captured>>
      BY <2>1 DEF login_finish, authenticated_call, register_device, revoke_device, remove_member,
                  groupVars, historyVars
    <3>2. Alone(w) /\ req'[w].pc \in {"find", "mint", "upload", "invite", "join", "index", "clear"}
      <4>1. ASSUME NEW proof \in BOOLEAN, login_finish(w, d, proof)
            PROVE  Alone(w) /\ req'[w].pc = "find"
        <5>1. Starts(w, "find", d, logins + 1, proof, {}, {})
          BY <2>0, <4>1, RequestEffects
        <5> QED BY <5>1 DEF Starts
      <4>2. ASSUME NEW pc \in {"upload", "invite", "join"}, authenticated_call(w, d, pc)
            PROVE  Alone(w) /\ req'[w].pc = pc
        <5>1. Starts(w, pc, d, 0, FALSE, {}, {})
          BY <2>0, <4>2, RequestEffects
        <5> QED BY <5>1 DEF Starts
      <4>3. ASSUME NEW e \in Device, register_device(w, d, e)
            PROVE  Alone(w) /\ req'[w].pc = "mint"
        BY <2>0, <4>3, RequestEffects DEF Starts
      <4>4. ASSUME NEW e \in Device, revoke_device(w, d, e)
            PROVE  Alone(w) /\ req'[w].pc = "index"
        BY <2>0, <4>4, RequestEffects DEF Starts
      <4>5. CASE \E g \in Group : remove_member(w, g, d)
        BY <2>0, <4>5, RequestEffects DEF Starts
      <4> QED BY <2>1, <4>1, <4>2, <4>3, <4>4, <4>5
    <3>3. req'[w].pc \in Speechless
      BY <2>s, <3>2 DEF LoginPc, OtherPc
    <3> QED BY <3>1, <3>2, <3>3, RemindFrame
  <2>2. ASSUME NEW w \in Worker, LoginStep(w) PROVE RemindInv'
    <3>1. UNCHANGED <<epoch, removals, written, captured>>
      BY <2>2 DEF LoginStep, login_find, count_devices, save_device, login_session, login_track,
                  login_untracked, login_expire, login_verify, login_clean_session,
                  login_clean_set,
                  groupVars, historyVars
    <3>2. Alone(w) /\ req'[w].pc \in LoginPc \cup {"mint", "free"}
      BY <2>0, <2>2, LoginEffects DEF LoginStep, Moves, Ends, LoginPc
    <3>3. req'[w].pc \in Speechless \cup {"free"}
      BY <2>s, <3>2 DEF OtherPc
    <3> QED BY <3>1, <3>2, <3>3, RemindFrame
  <2>3. ASSUME NEW w \in Worker,
               \/ revoke_index(w) \/ revoke_invite(w) \/ delete_session(w)
               \/ set_members(w) \/ delete_set(w)
        PROVE  RemindInv'
    <3>1. UNCHANGED <<epoch, removals, written, captured>>
      BY <2>3 DEF revoke_index, revoke_invite, delete_session, set_members, delete_set,
                  groupVars, historyVars
    <3>2. Alone(w) /\ req'[w].pc \in {"invites", "groups", "sessions", "untrack", "free"}
      BY <2>0, <2>3, RevokeEffects DEF Moves, Ends
    <3>3. req'[w].pc \in Speechless \cup {"free"}
      BY <2>s, <3>2
    <3> QED BY <3>1, <3>2, <3>3, RemindFrame
  <2>4. ASSUME NEW w \in Worker, list_groups_for_device(w) PROVE RemindInv'
    <3>1. UNCHANGED <<epoch, removals, written, captured>>
      BY <2>4 DEF list_groups_for_device, groupVars, historyVars
    <3>2. \E mine : Moves(w, "remind", mine, mine)
      BY <2>0, <2>4, RevokeEffects
    <3>3. RemindOK(w)' /\ Alone(w)
      BY <3>2 DEF Moves, RemindOK
    <3>4. RemindersKept
      BY <2>0, <3>1 DEF RemindersKept, TablesTyped
    <3> QED BY <2>0, <3>1, <3>3, <3>4, RemindStep
  <2>5. ASSUME NEW w \in Worker, create_pending_removal(w) PROVE RemindInv'
    <3>1. /\ UNCHANGED <<epoch, captured>> /\ req[w].pc = "remind" /\ RemindOK(w)
          /\ req[w].todo \subseteq Group
      BY <2>5 DEF create_pending_removal, RemindInv, TypeInv, FrameTyped
    <3>d. PICK d : d = req[w].dev
      OBVIOUS
    <3>2. CASE req[w].todo = {}
      <4>1. UNCHANGED <<removals, written>> /\ req' = Continue(w)
        BY <2>5, <3>2 DEF create_pending_removal
      <4>2. Moves(w, "packages", req[w].todo, req[w].groups)
        BY <2>0, <3>1, <4>1, ContinueMoves, Successors DEF RevokePc
      <4>3. RemindersKept
        BY <2>0, <3>1, <4>1 DEF RemindersKept, TablesTyped
      <4>4. ASSUME NEW g \in req[w].groups PROVE Reminded(g, d)'
        BY <3>1, <3>2, <3>d, <4>3, RemindedStays DEF RemindOK
      <4>5. RemindOK(w)' /\ Alone(w)
        BY <3>d, <4>2, <4>4 DEF Moves, RemindOK
      <4> QED BY <2>0, <3>1, <4>1, <4>3, <4>5, RemindStep
    <3>3. CASE req[w].todo # {}
      <4>1. PICK g \in req[w].todo :
               /\ req' = SetTodo(req, w, req[w].todo \ {g})
               /\ LET row == [group |-> g, dev |-> req[w].dev, epoch |-> epoch[g]]
                      new == IF \E r \in removals : r.group = g /\ r.dev = req[w].dev
                             THEN {} ELSE {row}
                  IN  removals' = removals \cup new /\ written' = written \cup new
        BY <2>5, <3>3 DEF create_pending_removal, SetTodo
      <4> DEFINE row == [group |-> g, dev |-> req[w].dev, epoch |-> epoch[g]]
      <4>2. row.group = g /\ row.dev = req[w].dev
        OBVIOUS
      <4>3. \/ /\ removals' = removals \cup {row} /\ written' = written \cup {row}
            \/ /\ removals' = removals /\ written' = written
               /\ \E r \in removals : r.group = g /\ r.dev = req[w].dev
        BY <4>1
      <4> HIDE DEF row
      <4>4. Busy(w) /\ req[w].todo \ {g} \in SUBSET (Nat \cup Group)
        BY <3>1 DEF Busy
      <4>5. Moves(w, "remind", req[w].todo \ {g}, req[w].groups)
        <5> DEFINE rest == req[w].todo \ {g}
        <5>1. req' = SetTodo(req, w, rest) /\ rest \in SUBSET (Nat \cup Group)
          BY <4>1, <4>4
        <5> HIDE DEF rest
        <5>2. Moves(w, req[w].pc, rest, req[w].groups)
          BY <2>0, <4>4, <5>1, TodoMoves
        <5> QED BY <3>1, <5>2 DEF rest
      <4>6. RemindersKept /\ removals' \subseteq written'
        BY <2>0, <3>1, <4>3 DEF RemindersKept, TablesTyped
      <4>7. Reminded(g, d)'
        BY <2>0, <3>d, <4>2, <4>3 DEF Reminded
      <4>8. ASSUME NEW h \in req[w].groups \ (req[w].todo \ {g}) PROVE Reminded(h, d)'
        <5>1. CASE h = g
          BY <4>7, <5>1
        <5>2. CASE h # g
          <6>1. Reminded(h, d)
            BY <3>1, <3>d, <5>2 DEF RemindOK
          <6> QED BY <4>6, <6>1, RemindedStays
        <5> QED BY <5>1, <5>2
      <4>9. RemindOK(w)' /\ Alone(w)
        BY <3>d, <4>5, <4>8 DEF Moves, RemindOK
      <4> QED BY <3>1, <4>6, <4>9, RemindStep
    <3> QED BY <3>2, <3>3
  <2>6. ASSUME NEW w \in Worker, delete_by_device(w) PROVE RemindInv'
    <3>1. UNCHANGED <<epoch, removals, written, captured>> /\ req[w].pc = "packages"
      BY <2>6 DEF delete_by_device, groupVars, historyVars
    <3>2. Moves(w, "delete", req[w].todo, req[w].groups)
      BY <2>0, <2>6, RevokeEffects
    <3>3. RemindersKept
      BY <2>0, <3>1 DEF RemindersKept, TablesTyped
    <3>d. PICK d : d = req[w].dev
      OBVIOUS
    <3>4. ASSUME NEW g \in req[w].groups PROVE Reminded(g, d)'
      BY <3>1, <3>d, <3>3, RemindedStays DEF RemindOK, RemindInv
    <3>5. RemindOK(w)' /\ Alone(w)
      BY <3>d, <3>2, <3>4 DEF Moves, RemindOK
    <3> QED BY <2>0, <3>1, <3>3, <3>5, RemindStep
  <2>7. ASSUME NEW w \in Worker, delete_device(w) PROVE RemindInv'
    <3>1. /\ UNCHANGED <<epoch, removals, written>> /\ req[w].pc = "delete"
          /\ captured' = captured \cup {<<g, req[w].dev>> : g \in req[w].groups}
      BY <2>7 DEF delete_device
    <3>2. \A g \in req[w].groups : Reminded(g, req[w].dev)
      BY <3>1 DEF RemindOK, RemindInv
    <3>3. ASSUME NEW c \in captured' PROVE c \in captured \/ Reminded(c[1], c[2])
      BY <3>1, <3>2
    <3>4. Moves(w, "tokens", req[w].todo, req[w].groups)
      BY <2>0, <2>7, RevokeEffects
    <3>5. RemindOK(w)' /\ Alone(w)
      BY <3>4 DEF Moves, RemindOK
    <3>6. RemindersKept
      BY <2>0, <3>1 DEF RemindersKept, TablesTyped
    <3> QED BY <2>0, <3>1, <3>3, <3>5, <3>6, RemindStep
  <2>8. ASSUME NEW w \in Worker,
               \/ upload(w) \/ create_invite_add(w) \/ request_fails(w)
               \/ \E g \in Group : accept_membership(w, g)
        PROVE  RemindInv'
    <3>1. UNCHANGED <<epoch, removals, written, captured>>
      BY <2>8 DEF upload, create_invite_add, request_fails, accept_membership,
                  groupVars, historyVars
    <3>2. Ends(w)
      BY <2>0, <2>8, FinishEnds DEF upload, create_invite_add, request_fails, accept_membership
    <3> QED BY <3>1, <3>2, RemindFrame DEF Ends
  <2>9. ASSUME NEW w \in Worker, create_invite(w) PROVE RemindInv'
    <3>1. UNCHANGED <<epoch, removals, written, captured>>
      BY <2>9 DEF create_invite, groupVars, historyVars
    <3>2. Moves(w, "add", {items + 1}, req[w].groups)
      BY <2>0, <2>9, BusyFrame, RequestEffects DEF create_invite, Busy
    <3>3. Alone(w) /\ req'[w].pc \in Speechless
      BY <2>s, <3>2 DEF Moves, OtherPc
    <3> QED BY <3>1, <3>3, RemindFrame
  <2>10. ASSUME NEW w \in Worker, delete_pending_removal(w) PROVE RemindInv'
    <3>1. /\ UNCHANGED <<epoch, written, captured>>
          /\ removals' = {r \in removals : ~(/\ r.group \in req[w].todo
                                             /\ r.dev = req[w].dev
                                             /\ r.epoch < epoch[r.group])}
      BY <2>10 DEF delete_pending_removal, historyVars, EpochGate
    <3>2. RemindersKept /\ removals' \subseteq written'
      BY <2>0, <3>1 DEF RemindersKept, TablesTyped
    <3>3. Ends(w)
      BY <2>0, <2>10, FinishEnds DEF delete_pending_removal
    <3>4. RemindOK(w)' /\ Alone(w)
      BY <3>3 DEF Ends, RemindOK
    <3> QED BY <3>1, <3>2, <3>4, RemindStep
  <2>11. ASSUME NEW g \in Group, commit(g) PROVE RemindInv'
    <3>1. UNCHANGED <<req, removals, written, captured>>
      BY <2>11 DEF commit, historyVars
    <3>2. \A h \in Group : epoch[h] <= epoch'[h]
      BY <2>0, <2>11 DEF commit, TablesTyped
    <3> QED BY <2>0, <3>1, <3>2, RemindWorld DEF RemindersKept
  <2>12. ASSUME NEW S \in SUBSET removals, sweep_stale_pending_removals(S) PROVE RemindInv'
    <3>1. /\ UNCHANGED <<req, epoch, written, captured>> /\ removals' = removals \ S
          /\ \A r \in S : r.epoch < epoch[r.group]
      BY <2>12 DEF sweep_stale_pending_removals, historyVars, EpochGate
    <3>2. RemindersKept /\ removals' \subseteq written'
      BY <2>0, <3>1 DEF RemindersKept, TablesTyped
    <3> QED BY <3>1, <3>2, RemindWorld
  <2>13. ASSUME \/ \E s \in sessions : session_ends(s)
                \/ \E d \in Device : index_expires(d)
                \/ \E p \in packages : fetch_one(p)
                \/ \E i \in invites : redeem_invite(i)
                \/ UNCHANGED vars
         PROVE  RemindInv'
    <3>1. UNCHANGED <<req, epoch, removals, written, captured>>
      BY <2>13 DEF session_ends, index_expires, fetch_one, redeem_invite, vars, groupVars, historyVars
    <3>2. RemindersKept
      BY <2>0, <3>1 DEF RemindersKept, TablesTyped
    <3> QED BY <2>0, <3>1, <3>2, RemindWorld
  <2> QED
    BY <2>1, <2>2, <2>3, <2>4, <2>5, <2>6, <2>7, <2>8, <2>9, <2>10, <2>11, <2>12, <2>13
    DEF Next, RevokeStep
<1> QED BY <1>1, <1>2, TypeInvHolds, PTL DEF Spec

\* For every group a revocation found its device in, a reminder was written before the
\* device's row went, and it stands until the group has accepted a later Commit: no retry,
\* sweep, removal or second revocation takes it earlier.
THEOREM RemindersStand == Spec => []RemindersOutliveDevice
<1>1. RemindInv => RemindersOutliveDevice
  BY DEF RemindInv, RemindersOutliveDevice, Reminded
<1> QED BY <1>1, RemindInvHolds, PTL

-----------------------------------------------------------------------------
\* What a step of worker w may do to the tables the survivors depend on.
Gentle(w) ==
    /\ ids \subseteq ids' /\ logins <= logins'
    /\ kept \subseteq kept' /\ wiped \subseteq wiped' /\ lapsed \subseteq lapsed'
    /\ stranded \subseteq stranded'
    /\ \A d \in devices' \ devices : Minting(w) /\ d = req[w].dev
    /\ \A d \in devices \ devices' : req'[w].pc \in Done /\ d = req'[w].dev
    /\ \A s \in sessions' \ sessions :
          LoggingIn(w) /\ s.token = req[w].token /\ s.dev = req[w].dev /\ s.token \notin issued'
    /\ \A t \in issued' \ issued :
          /\ LoggingIn(w) /\ t = req[w].token /\ req[w].dev \in devices
          /\ \A s \in sessions' : s.token = t =>
                t \in tracked'[req[w].dev] \cup wiped' \cup lapsed'
    /\ \A d \in Device : \A t \in tracked[d] \ tracked'[d] :
          t \in wiped' \/ (req[w].pc = "untrack" /\ d = req[w].dev)
    /\ req[w].pc \in Done =>
          \/ req'[w].pc \in Done /\ req'[w].dev = req[w].dev
          \/ \A s \in sessions' : s.dev = req[w].dev /\ s.token \in issued' => Explained(s)'

\* What it may do to its frame: it mints a device nobody knows, touches one that exists,
\* or takes the next token.
Kin(w) ==
    /\ Minting(w)' =>
          \/ Minting(w) /\ req'[w].dev = req[w].dev
          \/ req'[w].dev \notin ids
    /\ req'[w].pc \in Touching =>
          \/ (req[w].pc \in Touching \/ Minting(w)) /\ req'[w].dev = req[w].dev
          \/ req'[w].dev \in devices
    /\ LoggingIn(w)' =>
          \/ LoggingIn(w) /\ req'[w].token = req[w].token /\ req'[w].dev = req[w].dev
          \/ req'[w].token = logins + 1 /\ logins' = logins + 1

\* Tokens and logins are numbers.
LEMMA TokenNumbers ==
    ASSUME TypeInv
    PROVE  /\ logins \in Int /\ \A t \in issued : t \in Int
           /\ \A s \in sessions : s.token \in Int /\ s.dev \in Device
           /\ \A w \in Worker : LoggingIn(w) => req[w].token \in Int
           /\ \A w \in Worker : req[w].pc \in Touching \/ Minting(w) => req[w].dev \in Device
           /\ \A w \in Worker : Minting(w) => req[w].dev \in ids
<1>1. logins \in Int /\ (\A t \in issued : t \in Int)
      /\ \A s \in sessions : s.token \in Int /\ s.dev \in Device
  BY RevocationAssumption DEF TypeInv, TablesTyped, Token
<1>2. ASSUME NEW w \in Worker, LoggingIn(w) PROVE req[w].token \in Int
  BY <1>2, RevocationAssumption DEF LoggingIn, TypeInv, FrameTyped, Token
<1>3. ASSUME NEW w \in Worker, req[w].pc \in Touching \/ Minting(w) PROVE req[w].dev \in Device
  BY <1>3, BusyFrame DEF Touching, RevokePc, Minting, Busy, TypeInv
<1>4. ASSUME NEW w \in Worker, Minting(w) PROVE req[w].dev \in ids
  BY <1>4 DEF Minting, TypeInv, FrameTyped, LoginPc
<1> QED BY <1>1, <1>2, <1>3, <1>4

LEMMA ExplainedStays ==
    ASSUME NEW w \in Worker, Gentle(w), NEW s, Explained(s) PROVE Explained(s)'
  BY DEF Gentle, Explained

LEMMA SurvivorOthers ==
    ASSUME TypeInv, TypeInv', SurvivorInv, NEW w \in Worker, Alone(w), Gentle(w),
           NEW v \in Worker, v # w
    PROVE  SurvivorOK(v)'
<1>0. /\ req'[v] = req[v] /\ SurvivorOK(v) /\ SurvivorOK(w)
      /\ Separate(v, w) /\ Separate(w, v)
  BY DEF Alone, SurvivorInv
<1>1. /\ Minting(v)' <=> Minting(v)
      /\ LoggingIn(v)' <=> LoggingIn(v)
  BY <1>0 DEF Minting, LoggingIn
<1>2. req[v].pc \in Touching \/ Minting(v) => (req[v].dev \in devices' => req[v].dev \in devices)
  BY <1>0 DEF Separate, Gentle
<1>3. req'[v].pc \in Touching => req'[v].dev \in ids'
  BY <1>0 DEF SurvivorOK, Gentle
<1>4. req'[v].pc \in Done => req'[v].dev \notin devices'
  BY <1>0, <1>2 DEF SurvivorOK, Done, Touching, RevokePc
<1>5. Minting(v)' => req'[v].dev \notin devices'
  BY <1>0, <1>1, <1>2 DEF SurvivorOK
<1>6. ASSUME NEW s \in sessions', s.dev = req[v].dev, s.token \in issued', req[v].pc \in Done
      PROVE  s \in sessions /\ s.token \in issued
  <2>1. s \in sessions
    BY <1>6 DEF Gentle
  <2>2. CASE s.token \notin issued
    <3>1. LoggingIn(w) /\ s.token = req[w].token /\ req[w].dev \in devices
      BY <1>6, <2>2 DEF Gentle
    <3>2. s.dev = req[w].dev
      BY <1>0, <2>1, <3>1 DEF SurvivorOK
    <3> QED BY <1>0, <1>6, <3>1, <3>2 DEF SurvivorOK
  <2> QED BY <2>1, <2>2
<1>7. req'[v].pc = "sessions" =>
         \A s \in sessions' : s.dev = req'[v].dev /\ s.token \in issued' =>
             s.token \in req'[v].todo \/ Explained(s)'
  BY <1>0, <1>6, ExplainedStays DEF SurvivorOK, Done
<1>8. req'[v].pc = "untrack" =>
         \A s \in sessions' : s.dev = req'[v].dev /\ s.token \in issued' => Explained(s)'
  BY <1>0, <1>6, ExplainedStays DEF SurvivorOK, Done
<1>9. ASSUME req[v].pc \in {"expire", "verify"}, req[v].dev \in devices'
      PROVE  Indexed(v)'
  <2>1. req[v].pc \in Touching /\ LoggingIn(v)
    BY <1>9 DEF Touching, LoggingIn, LoginPc
  <2>2. req[v].dev \in devices /\ req[v].dev \in Device
    BY <1>2, <1>9, <2>1, TokenNumbers
  <2>3. Indexed(v)
    BY <1>0, <1>9, <2>2 DEF SurvivorOK
  <2>4. ~(req[w].pc = "untrack" /\ req[v].dev = req[w].dev)
    BY <1>0, <2>2 DEF SurvivorOK, Done
  <2>5. ASSUME NEW s \in sessions', s.token = req[v].token
        PROVE  s.token \in tracked'[req[v].dev] \cup wiped' \cup lapsed'
    <3>1. s \in sessions
      BY <1>0, <2>1, <2>5 DEF Gentle, Separate
    <3>2. s.token \in tracked[req[v].dev] \cup wiped \cup lapsed
      BY <2>3, <2>5, <3>1 DEF Indexed
    <3> QED BY <2>2, <2>4, <3>2 DEF Gentle
  <2> QED BY <1>0, <2>5 DEF Indexed
<1>10. ASSUME LoggingIn(v)
       PROVE  /\ req[v].token \notin issued' /\ req[v].token <= logins'
              /\ \A s \in sessions' : s.token = req[v].token => s.dev = req[v].dev
  <2>1. /\ req[v].token \notin issued /\ req[v].token <= logins
        /\ \A s \in sessions : s.token = req[v].token => s.dev = req[v].dev
    BY <1>0, <1>10 DEF SurvivorOK
  <2>2. LoggingIn(w) => req[v].token # req[w].token
    BY <1>0, <1>10 DEF Separate
  <2>3. req[v].token \in Int /\ logins \in Int /\ logins' \in Int /\ logins <= logins'
    BY <1>10, TokenNumbers DEF Gentle, TypeInv, TablesTyped
  <2>4. req[v].token \notin issued'
    BY <2>1, <2>2 DEF Gentle
  <2>5. \A s \in sessions' : s.token = req[v].token => s.dev = req[v].dev
    BY <2>1, <2>2 DEF Gentle
  <2>6. req[v].token <= logins'
    BY <2>1, <2>3
  <2> QED BY <2>4, <2>5, <2>6
<1> QED BY <1>0, <1>1, <1>3, <1>4, <1>5, <1>7, <1>8, <1>9, <1>10 DEF SurvivorOK

LEMMA SeparateStep ==
    ASSUME TypeInv, TypeInv', SurvivorInv, NEW w \in Worker, Alone(w), Kin(w),
           NEW v \in Worker, v # w
    PROVE  Separate(v, w)' /\ Separate(w, v)'
<1>0. /\ req'[v] = req[v] /\ SurvivorOK(v) /\ SurvivorOK(w)
      /\ Separate(v, w) /\ Separate(w, v)
  BY DEF Alone, SurvivorInv
<1>1. /\ Minting(v)' <=> Minting(v)
      /\ LoggingIn(v)' <=> LoggingIn(v)
  BY <1>0 DEF Minting, LoggingIn
<1>2. Minting(v) /\ (req'[w].pc \in Touching \/ Minting(w)') => req[v].dev # req'[w].dev
  <2> SUFFICES ASSUME Minting(v), req'[w].pc \in Touching \/ Minting(w)'
               PROVE  req[v].dev # req'[w].dev
    OBVIOUS
  <2>1. req[v].dev \notin devices /\ req[v].dev \in ids
    BY <1>0, TokenNumbers DEF SurvivorOK
  <2> QED BY <1>0, <2>1 DEF Kin, Separate
<1>3. Minting(w)' /\ (req[v].pc \in Touching \/ Minting(v)) => req'[w].dev # req[v].dev
  <2> SUFFICES ASSUME Minting(w)', req[v].pc \in Touching \/ Minting(v)
               PROVE  req'[w].dev # req[v].dev
    OBVIOUS
  <2>1. req[v].dev \in ids
    BY <1>0, TokenNumbers DEF SurvivorOK
  <2> QED BY <1>0, <2>1 DEF Kin, Separate
<1>4. LoggingIn(v) /\ LoggingIn(w)' => req[v].token # req'[w].token
  <2> SUFFICES ASSUME LoggingIn(v), LoggingIn(w)' PROVE req[v].token # req'[w].token
    OBVIOUS
  <2>1. req[v].token <= logins /\ req[v].token \in Int /\ logins \in Int
    BY <1>0, TokenNumbers DEF SurvivorOK
  <2>2. CASE LoggingIn(w) /\ req'[w].token = req[w].token
    BY <1>0, <2>2 DEF Separate
  <2>3. CASE req'[w].token = logins + 1
    BY <2>1, <2>3
  <2> QED BY <2>2, <2>3 DEF Kin
<1> QED BY <1>0, <1>1, <1>2, <1>3, <1>4 DEF Separate

LEMMA SurvivorTables ==
    ASSUME TypeInv, TypeInv', SurvivorInv, NEW w \in Worker, Alone(w), Gentle(w)
    PROVE  TokensOK' /\ SurvivorsOK'
<1>0. SurvivorOK(w) /\ logins \in Int /\ logins' \in Int /\ logins <= logins'
  BY DEF SurvivorInv, TypeInv, TablesTyped, Gentle
<1>1. ASSUME NEW s \in sessions' PROVE s.token <= logins'
  <2>1. CASE s \in sessions
    BY <1>0, <2>1, TokenNumbers DEF SurvivorInv, TokensOK
  <2>2. CASE s \notin sessions
    <3>1. LoggingIn(w) /\ s.token = req[w].token
      BY <2>2 DEF Gentle
    <3> QED BY <1>0, <3>1, TokenNumbers DEF SurvivorOK
  <2> QED BY <2>1, <2>2
<1>2. ASSUME NEW t \in issued' PROVE t <= logins'
  <2>1. CASE t \in issued
    BY <1>0, <2>1, TokenNumbers DEF SurvivorInv, TokensOK
  <2>2. CASE t \notin issued
    <3>1. LoggingIn(w) /\ t = req[w].token
      BY <2>2 DEF Gentle
    <3> QED BY <1>0, <3>1, TokenNumbers DEF SurvivorOK
  <2> QED BY <2>1, <2>2
\* A token issued by this step is that of a device that exists.
<1>3. ASSUME NEW s \in sessions', s.token \in issued', s.token \notin issued
      PROVE  /\ s \in sessions /\ s.dev = req[w].dev /\ s.dev \in devices
             /\ s.token \in tracked'[s.dev] \cup wiped' \cup lapsed'
  <2>1. s \in sessions
    BY <1>3 DEF Gentle
  <2>2. /\ LoggingIn(w) /\ s.token = req[w].token /\ req[w].dev \in devices
        /\ s.token \in tracked'[req[w].dev] \cup wiped' \cup lapsed'
    BY <1>3 DEF Gentle
  <2>3. s.dev = req[w].dev
    BY <1>0, <2>1, <2>2 DEF SurvivorOK
  <2> QED BY <2>1, <2>2, <2>3
<1>4. ASSUME NEW s \in sessions', s.token \in issued'
      PROVE  s.token \in tracked'[s.dev] \/ Explained(s)'
  <2>1. CASE s.token \notin issued
    BY <1>3, <1>4, <2>1 DEF Explained
  <2>2. CASE s.token \in issued
    <3>1. s \in sessions /\ s.dev \in Device
      BY <1>4, <2>2, TokenNumbers DEF Gentle
    <3>2. s.token \in tracked[s.dev] \/ Explained(s)
      BY <2>2, <3>1 DEF SurvivorInv, TokensOK
    <3>3. CASE Explained(s)
      BY <3>3, ExplainedStays
    <3>4. CASE s.token \in tracked[s.dev] /\ s.token \notin tracked'[s.dev]
      <4>1. s.token \in wiped' \/ (req[w].pc = "untrack" /\ s.dev = req[w].dev)
        BY <3>1, <3>4 DEF Gentle
      <4>2. CASE req[w].pc = "untrack" /\ s.dev = req[w].dev
        BY <1>0, <2>2, <3>1, <4>2, ExplainedStays DEF SurvivorOK
      <4> QED BY <4>1, <4>2 DEF Explained
    <3> QED BY <3>2, <3>3, <3>4
  <2> QED BY <2>1, <2>2
<1>5. TokensOK'
  BY <1>1, <1>2, <1>4 DEF TokensOK
<1>6. ASSUME NEW s \in sessions', s.token \in issued', s.dev \notin devices',
             \A v \in Worker : ~(req'[v].pc \in Done /\ req'[v].dev = s.dev)
      PROVE  Explained(s)'
  <2>1. s.dev \notin devices
    BY <1>6 DEF Gentle
  <2>2. s \in sessions /\ s.token \in issued
    BY <1>3, <1>6, <2>1 DEF Gentle
  <2>3. CASE req[w].pc \in Done /\ req[w].dev = s.dev
    BY <1>6, <2>3 DEF Gentle
  <2>4. CASE ~(req[w].pc \in Done /\ req[w].dev = s.dev)
    <3>1. \A v \in Worker : ~(req[v].pc \in Done /\ req[v].dev = s.dev)
      BY <1>6, <2>4 DEF Alone
    <3>2. Explained(s)
      BY <2>1, <2>2, <3>1 DEF SurvivorInv, SurvivorsOK
    <3> QED BY <3>2, ExplainedStays
  <2> QED BY <2>3, <2>4
<1>7. SurvivorsOK'
  BY <1>6 DEF SurvivorsOK
<1> QED BY <1>5, <1>7

\* A step of one request.
LEMMA SurvivorStep ==
    ASSUME TypeInv, TypeInv', SurvivorInv, NEW w \in Worker, Alone(w), Gentle(w), Kin(w),
           SurvivorOK(w)'
    PROVE  SurvivorInv'
<1>1. ASSUME NEW v \in Worker PROVE SurvivorOK(v)'
  BY SurvivorOthers
<1>2. ASSUME NEW u \in Worker, NEW v \in Worker, u # v PROVE Separate(u, v)'
  <2>1. CASE u # w /\ v # w
    <3>1. req'[u] = req[u] /\ req'[v] = req[v] /\ Separate(u, v)
      BY <1>2, <2>1 DEF Alone, SurvivorInv
    <3> QED BY <3>1 DEF Separate, Minting, LoggingIn
  <2>2. CASE u = w
    BY <1>2, <2>2, SeparateStep
  <2>3. CASE v = w
    BY <1>2, <2>3, SeparateStep
  <2> QED BY <2>1, <2>2, <2>3
<1>3. TokensOK' /\ SurvivorsOK'
  BY SurvivorTables
<1> QED BY <1>1, <1>2, <1>3 DEF SurvivorInv

\* A step of one request that leaves devices, sessions and their index alone.
Calm == UNCHANGED <<devices, sessions, tracked, issued, kept, wiped, lapsed, stranded>>

LEMMA CalmIsGentle ==
    ASSUME TypeInv, NEW w \in Worker, Calm, ids \subseteq ids', logins <= logins',
           req[w].pc \in Done => req'[w].pc \in Done /\ req'[w].dev = req[w].dev
    PROVE  Gentle(w)
  BY DEF Gentle, Calm

LEMMA CalmStep ==
    ASSUME TypeInv, TypeInv', SurvivorInv, NEW w \in Worker, Alone(w), Kin(w), Calm,
           ids \subseteq ids', logins <= logins',
           req[w].pc \notin Done, req'[w].pc \notin Done \cup {"expire", "verify"}
    PROVE  SurvivorInv'
<1>0. SurvivorOK(w) /\ TokensOK
  BY DEF SurvivorInv
<1>1. Gentle(w)
  BY CalmIsGentle
<1>2. req'[w].pc \in Touching => req'[w].dev \in ids'
  <2>1. devices \subseteq ids'
    BY DEF TypeInv, TablesTyped
  <2> QED BY <1>0, <2>1, TokenNumbers DEF Kin, SurvivorOK
<1>3. Minting(w)' => req'[w].dev \notin devices'
  BY <1>0 DEF Kin, SurvivorOK, Calm, TypeInv, TablesTyped
<1>4. ASSUME LoggingIn(w)'
      PROVE  /\ req'[w].token \notin issued' /\ req'[w].token <= logins'
             /\ \A s \in sessions' : s.token = req'[w].token => s.dev = req'[w].dev
  <2>1. CASE LoggingIn(w) /\ req'[w].token = req[w].token /\ req'[w].dev = req[w].dev
    <3>1. req[w].token <= logins'
      BY <1>0, <2>1, TokenNumbers DEF SurvivorOK, TypeInv, TablesTyped
    <3> QED BY <1>0, <2>1, <3>1 DEF SurvivorOK, Calm
  <2>2. CASE req'[w].token = logins + 1 /\ logins' = logins + 1
    BY <1>0, <2>2, TokenNumbers DEF TokensOK, Calm
  <2> QED BY <1>4, <2>1, <2>2 DEF Kin
<1>5. SurvivorOK(w)'
  BY <1>2, <1>3, <1>4 DEF SurvivorOK, Done
<1> QED BY <1>1, <1>5, SurvivorStep

\* Steps that neither mint, nor touch a session, nor log in.
Aside == {"free", "upload", "invite", "add", "join", "clear"}

LEMMA AsideFrame ==
    ASSUME NEW w \in Worker, req'[w].pc \in Aside
    PROVE  Kin(w) /\ SurvivorOK(w)' /\ req'[w].pc \notin Done \cup {"expire", "verify"}
  BY DEF Aside, Kin, SurvivorOK, Minting, LoggingIn, Touching, Done, LoginPc, RevokePc

LEMMA SurvivorWorld ==
    ASSUME SurvivorInv, sessions' \subseteq sessions,
           UNCHANGED <<req, devices, ids, logins, tracked, issued, kept, wiped, lapsed, stranded>>
    PROVE  SurvivorInv'
<1>1. TokensOK'
  BY DEF SurvivorInv, TokensOK, Explained
<1>2. ASSUME NEW w \in Worker PROVE SurvivorOK(w)'
  BY DEF SurvivorInv, SurvivorOK, Minting, LoggingIn, Explained, Indexed
<1>3. ASSUME NEW v \in Worker, NEW w \in Worker, v # w PROVE Separate(v, w)'
  BY <1>3 DEF SurvivorInv, Separate, Minting, LoggingIn
<1>4. SurvivorsOK'
  BY DEF SurvivorInv, SurvivorsOK, Explained
<1> QED BY <1>1, <1>2, <1>3, <1>4 DEF SurvivorInv

\* The index of one device expires.
LEMMA SurvivorLapse ==
    ASSUME TypeInv, SurvivorInv, NEW d \in Device, index_expires(d)
    PROVE  SurvivorInv'
<1>0. /\ UNCHANGED <<req, devices, ids, logins, sessions, issued, kept, wiped, stranded>>
      /\ lapsed \subseteq lapsed'
  BY DEF index_expires
<1>1. \A s : Explained(s) => Explained(s)'
  BY <1>0 DEF Explained
<1>2. ASSUME NEW s \in sessions, NEW e \in Device, s.token \in tracked[e]
      PROVE  s.token \in tracked'[e] \cup lapsed'
  <2>1. CASE e = d
    BY <1>2, <2>1 DEF index_expires
  <2>2. CASE e # d
    BY <1>2, <2>2 DEF index_expires, TypeInv, TablesTyped
  <2> QED BY <2>1, <2>2
<1>3. TokensOK'
  <2>1. ASSUME NEW s \in sessions, s.token \in issued
        PROVE  s.token \in tracked'[s.dev] \/ Explained(s)'
    <3>1. s.dev \in Device /\ (s.token \in tracked[s.dev] \/ Explained(s))
      BY <2>1, TokenNumbers DEF SurvivorInv, TokensOK
    <3> QED BY <1>1, <1>2, <3>1 DEF Explained
  <2> QED BY <1>0, <2>1 DEF SurvivorInv, TokensOK
<1>4. ASSUME NEW w \in Worker PROVE SurvivorOK(w)'
  <2>1. ASSUME req[w].pc \in {"expire", "verify"}, req[w].dev \in devices PROVE Indexed(w)'
    <3>1. req[w].dev \in Device
      BY <2>1, TokenNumbers DEF Touching
    <3>2. Indexed(w)
      BY <2>1 DEF SurvivorInv, SurvivorOK
    <3>3. ASSUME NEW s \in sessions, s.token = req[w].token
          PROVE  s.token \in tracked'[req[w].dev] \cup wiped' \cup lapsed'
      BY <1>0, <1>2, <3>1, <3>2, <3>3 DEF Indexed
    <3> QED BY <1>0, <3>3 DEF Indexed
  <2>2. SurvivorOK(w) /\ (Minting(w)' <=> Minting(w)) /\ (LoggingIn(w)' <=> LoggingIn(w))
    BY <1>0 DEF SurvivorInv, Minting, LoggingIn
  <2> QED BY <1>0, <1>1, <2>1, <2>2 DEF SurvivorOK
<1>5. ASSUME NEW v \in Worker, NEW w \in Worker, v # w PROVE Separate(v, w)'
  BY <1>0, <1>5 DEF SurvivorInv, Separate, Minting, LoggingIn
<1>6. SurvivorsOK'
  BY <1>0, <1>1 DEF SurvivorInv, SurvivorsOK
<1> QED BY <1>3, <1>4, <1>5, <1>6 DEF SurvivorInv

\* A request begins.
LEMMA SurvivorBegins ==
    ASSUME TypeInv, TypeInv', SurvivorInv, NEW w \in Worker, NEW d \in Device,
           \/ \E proof \in BOOLEAN : login_finish(w, d, proof)
           \/ \E pc \in {"upload", "invite", "join"} : authenticated_call(w, d, pc)
           \/ \E e \in Device : register_device(w, d, e) \/ revoke_device(w, d, e)
           \/ \E g \in Group : remove_member(w, g, d)
    PROVE  SurvivorInv'
<1>0. Shaped /\ TypeOK /\ TablesTyped /\ logins \in Int
  BY TypeInvIsTypeOK DEF TypeInv, TablesTyped
<1>1. ASSUME NEW proof \in BOOLEAN, login_finish(w, d, proof) PROVE SurvivorInv'
  <2>1. /\ Calm /\ ids' = ids \cup {d} /\ logins' = logins + 1
        /\ proof <=> d \notin ids
    BY <1>1 DEF login_finish, Calm, historyVars
  <2>2. ~Busy(w) /\ Starts(w, "find", d, logins + 1, proof, {}, {})
    BY <1>0, <1>1, RequestEffects
  <2>3. Alone(w) /\ Kin(w)
    BY <2>1, <2>2 DEF Starts, Kin, Minting, LoggingIn, Touching, RevokePc
  <2>4. logins <= logins' /\ req[w].pc \notin Done /\ req'[w].pc \notin Done \cup {"expire", "verify"}
    BY <1>0, <2>1, <2>2 DEF Busy, Done, Starts
  <2> QED BY <2>1, <2>3, <2>4, CalmStep
<1>2. ASSUME NEW pc \in {"upload", "invite", "join"}, authenticated_call(w, d, pc)
      PROVE  SurvivorInv'
  <2>1. Calm /\ UNCHANGED <<ids, logins>>
    BY <1>2 DEF authenticated_call, Calm, authVars, historyVars
  <2>2. ~Busy(w) /\ Starts(w, pc, d, 0, FALSE, {}, {})
    BY <1>0, <1>2, RequestEffects
  <2>3. Alone(w) /\ req'[w].pc \in Aside /\ req[w].pc \notin Done
    BY <2>2 DEF Starts, Aside, Busy, Done
  <2> QED BY <1>0, <2>1, <2>3, AsideFrame, CalmStep
<1>3. ASSUME NEW e \in Device, register_device(w, d, e) PROVE SurvivorInv'
  <2>1. Calm /\ ids' = ids \cup {e} /\ logins' = logins /\ e \notin ids
    BY <1>3 DEF register_device, Calm, historyVars
  <2>2. ~Busy(w) /\ Starts(w, "mint", e, 0, FALSE, {}, {})
    BY <1>0, <1>3, RequestEffects
  <2>3. Alone(w) /\ Kin(w)
    BY <2>1, <2>2 DEF Starts, Kin, Minting, LoggingIn, Touching, RevokePc, LoginPc
  <2>4. logins <= logins' /\ req[w].pc \notin Done /\ req'[w].pc \notin Done \cup {"expire", "verify"}
    BY <1>0, <2>1, <2>2 DEF Busy, Done, Starts
  <2> QED BY <2>1, <2>3, <2>4, CalmStep
<1>4. ASSUME NEW e \in Device, revoke_device(w, d, e) PROVE SurvivorInv'
  <2>1. Calm /\ UNCHANGED <<ids, logins>> /\ e \in devices
    BY <1>4 DEF revoke_device, Calm, authVars, historyVars
  <2>2. ~Busy(w) /\ Starts(w, "index", e, 0, FALSE, {}, Ids(packages, e) \cup index[e])
    BY <1>0, <1>4, RequestEffects
  <2>3. Alone(w) /\ Kin(w)
    BY <2>1, <2>2 DEF Starts, Kin, Minting, LoggingIn, LoginPc
  <2>4. logins <= logins' /\ req[w].pc \notin Done /\ req'[w].pc \notin Done \cup {"expire", "verify"}
    BY <1>0, <2>1, <2>2 DEF Busy, Done, Starts
  <2> QED BY <2>1, <2>3, <2>4, CalmStep
<1>5. ASSUME NEW g \in Group, remove_member(w, g, d) PROVE SurvivorInv'
  <2>1. Calm /\ UNCHANGED <<ids, logins>>
    BY <1>5 DEF remove_member, Calm, authVars, historyVars
  <2>2. ~Busy(w) /\ Starts(w, "clear", d, 0, FALSE, {g}, {})
    BY <1>0, <1>5, RequestEffects
  <2>3. Alone(w) /\ req'[w].pc \in Aside /\ req[w].pc \notin Done
    BY <2>2 DEF Starts, Aside, Busy, Done
  <2> QED BY <1>0, <2>1, <2>3, AsideFrame, CalmStep
<1> QED BY <1>1, <1>2, <1>3, <1>4, <1>5

\* A login moves on.
LEMMA SurvivorLogin ==
    ASSUME TypeInv, TypeInv', SurvivorInv, NEW w \in Worker, LoginStep(w)
    PROVE  SurvivorInv'
<1>0. Shaped /\ TypeOK /\ TablesTyped /\ logins \in Int /\ SurvivorOK(w)
  BY TypeInvIsTypeOK DEF TypeInv, TablesTyped, SurvivorInv
<1>a. Ends(w) => Alone(w) /\ req'[w].pc \in Aside
  BY DEF Ends, Aside
<1>1. CASE login_find(w)
  <2>1. Calm /\ UNCHANGED <<ids, logins>> /\ req[w].pc = "find"
    BY <1>1 DEF login_find, Calm, authVars, historyVars
  <2>2. CASE Ends(w)
    BY <1>0, <1>a, <2>1, <2>2, AsideFrame, CalmStep DEF Done
  <2>3. CASE req[w].dev \in devices /\ Moves(w, "session", req[w].todo, req[w].groups)
    <3>1. Alone(w) /\ Kin(w) /\ req'[w].pc = "session"
      BY <2>1, <2>3 DEF Moves, Kin, Minting, LoggingIn, LoginPc
    <3> QED BY <1>0, <2>1, <3>1, CalmStep DEF Done
  <2>4. CASE req[w].proof /\ Moves(w, "count", req[w].todo, req[w].groups)
    <3>1. Alone(w) /\ Kin(w) /\ req'[w].pc = "count"
      BY <2>1, <2>4 DEF Moves, Kin, Minting, LoggingIn, LoginPc, Touching, RevokePc
    <3> QED BY <1>0, <2>1, <3>1, CalmStep DEF Done
  <2> QED BY <1>0, <1>1, <2>2, <2>3, <2>4, LoginEffects
<1>2. CASE count_devices(w)
  <2>1. Calm /\ UNCHANGED <<ids, logins>> /\ req[w].pc = "count"
    BY <1>2 DEF count_devices, Calm, authVars, historyVars
  <2>2. CASE Ends(w)
    BY <1>0, <1>a, <2>1, <2>2, AsideFrame, CalmStep DEF Done
  <2>3. CASE Moves(w, "mint", req[w].todo, req[w].groups)
    <3>1. Alone(w) /\ Kin(w) /\ req'[w].pc = "mint"
      BY <2>1, <2>3 DEF Moves, Kin, Minting, LoggingIn, LoginPc, Touching, RevokePc
    <3> QED BY <1>0, <2>1, <3>1, CalmStep DEF Done
  <2> QED BY <1>0, <1>2, <2>2, <2>3, LoginEffects
<1>3. CASE save_device(w)
  <2>1. /\ UNCHANGED <<sessions, tracked, issued, kept, wiped, lapsed, stranded, ids, logins>>
        /\ devices' = devices \cup {req[w].dev} /\ req[w].pc = "mint"
    BY <1>3 DEF save_device, historyVars
  <2>2. Gentle(w)
    BY <1>0, <2>1 DEF Gentle, Minting, Done
  <2>3. CASE Ends(w)
    BY <1>a, <2>2, <2>3, AsideFrame, SurvivorStep
  <2>4. CASE req[w].proof /\ Moves(w, "session", req[w].todo, req[w].groups)
    <3>1. Alone(w) /\ Kin(w) /\ req'[w].pc = "session"
      BY <2>1, <2>4 DEF Moves, Kin, Minting, LoggingIn, LoginPc
    <3>2. LoggingIn(w) /\ req[w].dev \in ids
      BY <2>1, <2>4, TokenNumbers DEF LoggingIn, Minting
    <3>3. SurvivorOK(w)'
      BY <1>0, <2>1, <2>4, <3>1, <3>2 DEF Moves, SurvivorOK, Minting, Done
    <3> QED BY <2>2, <3>1, <3>3, SurvivorStep
  <2> QED BY <1>0, <1>3, <2>3, <2>4, LoginEffects
<1>4. CASE login_session(w)
  <2> DEFINE new == [token |-> req[w].token, dev |-> req[w].dev]
  <2>1. /\ UNCHANGED <<devices, tracked, issued, kept, wiped, lapsed, stranded, ids, logins>>
        /\ sessions' = sessions \cup {new} /\ req[w].pc = "session"
    BY <1>4 DEF login_session, historyVars
  <2>2. new.token = req[w].token /\ new.dev = req[w].dev
    OBVIOUS
  <2> HIDE DEF new
  <2>3. LoggingIn(w) /\ req[w].token \notin issued /\ req[w].token <= logins /\ req[w].dev \in ids
    BY <1>0, <2>1 DEF LoggingIn, LoginPc, SurvivorOK, Touching
  <2>4. Gentle(w)
    BY <1>0, <2>1, <2>2, <2>3 DEF Gentle, Done
  <2>5. Moves(w, "track", req[w].todo, req[w].groups)
    BY <1>0, <1>4, LoginEffects
  <2>6. Alone(w) /\ Kin(w)
    BY <2>1, <2>5 DEF Moves, Kin, Minting, LoggingIn, LoginPc, Touching
  <2>7. \A s \in sessions' : s.token = req[w].token => s.dev = req[w].dev
    BY <1>0, <2>1, <2>2, <2>3 DEF SurvivorOK
  <2>8. SurvivorOK(w)'
    BY <2>1, <2>3, <2>5, <2>7 DEF Moves, SurvivorOK, Minting, Done
  <2> QED BY <2>4, <2>6, <2>8, SurvivorStep
<1>5. CASE login_track(w)
  <2>1. /\ UNCHANGED <<devices, sessions, issued, kept, wiped, lapsed, stranded, ids, logins>>
        /\ req[w].pc = "track"
    BY <1>5 DEF login_track, historyVars
  <2>2. LoggingIn(w) /\ req[w].pc \in Touching /\ req[w].dev \in ids /\ req[w].dev \in Device
    BY <1>0, <2>1 DEF LoggingIn, LoginPc, SurvivorOK, Touching, TablesTyped
  <2>3. CASE /\ tracked' = [tracked EXCEPT ![req[w].dev] = @ \cup {req[w].token}]
             /\ Moves(w, "expire", req[w].todo, req[w].groups)
    <3>1. /\ \A d \in Device : tracked[d] \subseteq tracked'[d]
          /\ req[w].token \in tracked'[req[w].dev]
      BY <1>0, <2>2, <2>3 DEF TablesTyped
    <3>2. Gentle(w)
      BY <1>0, <2>1, <3>1 DEF Gentle, Done
    <3>3. Alone(w) /\ Kin(w)
      BY <2>2, <2>3 DEF Moves, Kin, Minting
    <3>4. SurvivorOK(w)'
      BY <1>0, <2>1, <2>2, <2>3, <3>1 DEF Moves, SurvivorOK, Minting, Done, Indexed
    <3> QED BY <3>2, <3>3, <3>4, SurvivorStep
  <2>4. CASE Moves(w, "untracked", req[w].todo, req[w].groups) /\ UNCHANGED tracked
    <3>1. Alone(w) /\ Kin(w) /\ req'[w].pc = "untracked" /\ Calm
      BY <2>1, <2>2, <2>4 DEF Moves, Kin, Minting, Calm
    <3> QED BY <1>0, <2>1, <3>1, CalmStep DEF Done
  <2> QED BY <1>0, <1>5, <2>3, <2>4, LoginEffects
<1>6. CASE login_untracked(w)
  <2>1. /\ UNCHANGED <<devices, tracked, issued, kept, wiped, lapsed, stranded, ids, logins>>
        /\ sessions' \subseteq sessions /\ req[w].pc = "untracked"
    BY <1>6 DEF login_untracked, Others, historyVars
  <2>2. Gentle(w)
    BY <1>0, <2>1 DEF Gentle, Done
  <2> QED BY <1>0, <1>6, <1>a, <2>2, LoginEffects, AsideFrame, SurvivorStep
<1>7. CASE login_verify(w)
  <2>1. /\ UNCHANGED <<devices, sessions, tracked, kept, wiped, lapsed, stranded, ids, logins>>
        /\ req[w].pc = "verify"
    BY <1>7 DEF login_verify, authVars
  <2>2. LoggingIn(w) /\ req[w].pc \in Touching
    BY <2>1 DEF LoggingIn, LoginPc, Touching
  <2>3. CASE req[w].dev \in devices /\ issued' = issued \cup {req[w].token} /\ Ends(w)
    <3>1. \A s \in sessions' : s.token = req[w].token =>
             req[w].token \in tracked'[req[w].dev] \cup wiped' \cup lapsed'
      BY <1>0, <2>1, <2>3 DEF SurvivorOK, Indexed
    <3>2. Gentle(w)
      BY <1>0, <2>1, <2>2, <2>3, <3>1 DEF Gentle, Done
    <3> QED BY <1>a, <2>3, <3>2, AsideFrame, SurvivorStep
  <2>4. CASE /\ UNCHANGED issued
             /\ Moves(w, "clean_session", req[w].todo, req[w].groups)
    <3>1. Alone(w) /\ Kin(w) /\ req'[w].pc = "clean_session" /\ Calm
      BY <2>1, <2>2, <2>4 DEF Moves, Kin, Minting, Calm
    <3> QED BY <1>0, <2>1, <3>1, CalmStep DEF Done
  <2> QED BY <1>0, <1>7, <2>3, <2>4, LoginEffects
<1>8. CASE login_clean_session(w)
  <2>1. /\ UNCHANGED <<devices, tracked, issued, kept, wiped, lapsed, stranded, ids, logins>>
        /\ sessions' \subseteq sessions /\ req[w].pc = "clean_session"
    BY <1>8 DEF login_clean_session, Others, historyVars
  <2>2. LoggingIn(w) /\ req[w].pc \in Touching
    BY <2>1 DEF LoggingIn, LoginPc, Touching
  <2>3. Gentle(w)
    BY <1>0, <2>1 DEF Gentle, Done
  <2>4. Moves(w, "clean_set", req[w].todo, req[w].groups)
    BY <1>0, <1>8, LoginEffects
  <2>5. Alone(w) /\ Kin(w)
    BY <2>2, <2>4 DEF Moves, Kin, Minting
  <2>6. SurvivorOK(w)'
    BY <1>0, <2>1, <2>2, <2>4 DEF Moves, SurvivorOK, Minting, Done
  <2> QED BY <2>3, <2>5, <2>6, SurvivorStep
<1>9. CASE login_clean_set(w)
  <2>1. /\ UNCHANGED <<devices, sessions, issued, kept, stranded, ids, logins>>
        /\ tracked' \in {tracked, [tracked EXCEPT ![req[w].dev] = {}]}
        /\ wiped' = wiped \cup (tracked[req[w].dev] \ tracked'[req[w].dev])
        /\ UNCHANGED lapsed /\ req[w].pc = "clean_set"
    BY <1>9 DEF login_clean_set
  <2>2. \A d \in Device : \A t \in tracked[d] \ tracked'[d] : t \in wiped'
    BY <1>0, <2>1 DEF TablesTyped
  <2>3. Gentle(w)
    BY <1>0, <2>1, <2>2 DEF Gentle, Done
  <2> QED BY <1>0, <1>9, <1>a, <2>3, LoginEffects, AsideFrame, SurvivorStep
<1>10. CASE login_expire(w)
  <2>1. Calm /\ UNCHANGED <<ids, logins>> /\ req[w].pc = "expire"
    BY <1>10 DEF login_expire, Calm, historyVars
  <2>2. Moves(w, "verify", req[w].todo, req[w].groups)
    BY <1>0, <1>10, LoginEffects
  <2>3. LoggingIn(w) /\ req[w].pc \in Touching
    BY <2>1 DEF LoggingIn, LoginPc, Touching
  <2>4. Alone(w) /\ Kin(w)
    BY <2>2, <2>3 DEF Moves, Kin, Minting
  <2>5. Gentle(w)
    BY <1>0, <2>1, CalmIsGentle DEF Done
  <2>6. SurvivorOK(w)'
    BY <1>0, <2>1, <2>2, <2>3 DEF Moves, SurvivorOK, Minting, Done, Indexed, Calm
  <2> QED BY <2>4, <2>5, <2>6, SurvivorStep
<1> QED BY <1>1, <1>2, <1>3, <1>4, <1>5, <1>6, <1>7, <1>8, <1>9, <1>10 DEF LoginStep

\* A revocation moves on.
LEMMA SurvivorRevoke ==
    ASSUME TypeInv, TypeInv', SurvivorInv, NEW w \in Worker, RevokeStep(w)
    PROVE  SurvivorInv'
<1>0. Shaped /\ TypeOK /\ TablesTyped /\ logins \in Int /\ SurvivorOK(w)
  BY TypeInvIsTypeOK DEF TypeInv, TablesTyped, SurvivorInv
<1>a. ASSUME NEW pc \in RevokePc, NEW todo, NEW groups, Moves(w, pc, todo, groups),
             req[w].pc \in RevokePc
      PROVE  /\ Alone(w) /\ Kin(w) /\ ~Minting(w)' /\ ~LoggingIn(w)' /\ req'[w].dev \in ids
             /\ req'[w].pc = pc /\ req'[w].dev = req[w].dev
  <2>1. req'[w].pc = pc /\ req'[w].dev = req[w].dev /\ Alone(w)
    BY <1>a DEF Moves
  <2>2. ~Minting(w)' /\ ~LoggingIn(w)'
    BY <2>1 DEF Minting, LoggingIn, LoginPc, RevokePc
  <2>3. req[w].pc \in Touching
    BY <1>a DEF Touching
  <2> QED BY <1>0, <2>1, <2>2, <2>3 DEF Kin, SurvivorOK
<1>1. CASE \/ revoke_index(w) \/ revoke_invite(w) \/ list_groups_for_device(w)
           \/ create_pending_removal(w) \/ delete_by_device(w)
  <2>1. /\ Calm /\ UNCHANGED <<ids, logins>>
        /\ req[w].pc \in {"index", "invites", "groups", "remind", "packages"}
    BY <1>1 DEF revoke_index, revoke_invite, list_groups_for_device, create_pending_removal,
                delete_by_device, Calm, authVars, historyVars
  <2>2. \E pc \in {"invites", "groups", "remind", "packages", "delete"} : \E todo, groups :
           Moves(w, pc, todo, groups)
    BY <1>0, <1>1, RevokeEffects
  <2>3. /\ Alone(w) /\ Kin(w)
        /\ req'[w].pc \in {"invites", "groups", "remind", "packages", "delete"}
    BY <1>a, <2>1, <2>2 DEF RevokePc
  <2> QED BY <1>0, <2>1, <2>3, CalmStep DEF Done
<1>2. CASE delete_device(w)
  <2>1. /\ UNCHANGED <<sessions, tracked, issued, kept, wiped, lapsed, stranded, ids, logins>>
        /\ devices' = devices \ {req[w].dev} /\ req[w].pc = "delete"
    BY <1>2 DEF delete_device
  <2>2. Moves(w, "tokens", req[w].todo, req[w].groups)
    BY <1>0, <1>2, RevokeEffects
  <2>3. /\ Alone(w) /\ Kin(w) /\ ~Minting(w)' /\ ~LoggingIn(w)' /\ req'[w].dev \in ids
        /\ req'[w].pc = "tokens" /\ req'[w].dev = req[w].dev
    BY <1>a, <2>1, <2>2 DEF RevokePc
  <2>4. Gentle(w)
    BY <1>0, <2>1, <2>3 DEF Gentle, Done
  <2>5. SurvivorOK(w)'
    BY <2>1, <2>3 DEF SurvivorOK, Done
  <2> QED BY <2>3, <2>4, <2>5, SurvivorStep
<1>3. CASE set_members(w)
  <2>1. Calm /\ UNCHANGED <<ids, logins>> /\ req[w].pc = "tokens"
    BY <1>3 DEF set_members, Calm, authVars, historyVars
  <2>2. Moves(w, "sessions", tracked[req[w].dev], req[w].groups)
    BY <1>0, <1>3, RevokeEffects
  <2>3. /\ Alone(w) /\ Kin(w) /\ ~Minting(w)' /\ ~LoggingIn(w)' /\ req'[w].dev \in ids
        /\ req'[w].pc = "sessions" /\ req'[w].dev = req[w].dev
    BY <1>a, <2>1, <2>2 DEF RevokePc
  <2>4. Gentle(w)
    BY <1>0, <2>1, <2>3, CalmIsGentle DEF Done
  <2>5. \A s \in sessions : s.dev = req[w].dev /\ s.token \in issued =>
           s.token \in tracked[req[w].dev] \/ Explained(s)
    BY DEF SurvivorInv, TokensOK
  <2>6. \A s \in sessions' : s.dev = req'[w].dev /\ s.token \in issued' =>
           s.token \in req'[w].todo \/ Explained(s)'
    BY <2>1, <2>2, <2>3, <2>5 DEF Calm, Moves, Explained
  <2>7. req[w].dev \notin devices'
    BY <1>0, <2>1 DEF SurvivorOK, Done, Calm
  <2>8. SurvivorOK(w)'
    BY <2>1, <2>3, <2>6, <2>7 DEF SurvivorOK, Done
  <2> QED BY <2>3, <2>4, <2>8, SurvivorStep
<1>4. CASE delete_session(w)
  <2>1. /\ UNCHANGED <<devices, tracked, issued, wiped, lapsed, stranded, ids, logins>>
        /\ kept \subseteq kept' /\ sessions' \subseteq sessions /\ req[w].pc = "sessions"
    BY <1>4 DEF delete_session
  <2>2. \E pc \in {"sessions", "untrack"} : \E todo : Moves(w, pc, todo, req[w].groups)
    BY <1>0, <1>4, RevokeEffects
  <2>3. /\ Alone(w) /\ Kin(w) /\ ~Minting(w)' /\ ~LoggingIn(w)' /\ req'[w].dev \in ids
        /\ req'[w].pc \in {"sessions", "untrack"} /\ req'[w].dev = req[w].dev
    BY <1>a, <2>1, <2>2 DEF RevokePc
  <2>4. Gentle(w)
    BY <1>0, <2>1, <2>3 DEF Gentle, Done
  <2>5. \A s \in sessions : s.dev = req[w].dev /\ s.token \in issued =>
           s.token \in req[w].todo \/ Explained(s)
    BY <1>0, <2>1 DEF SurvivorOK
  <2>6. req[w].dev \notin devices'
    BY <1>0, <2>1 DEF SurvivorOK, Done
  <2>7. \A s : Explained(s) => Explained(s)'
    BY <2>1 DEF Explained
  <2>8. CASE req[w].todo = {} /\ Moves(w, "untrack", req[w].todo, req[w].groups)
    <3>1. \A s \in sessions' : s.dev = req'[w].dev /\ s.token \in issued' => Explained(s)'
      BY <2>1, <2>3, <2>5, <2>7, <2>8
    <3>2. req'[w].pc = "untrack"
      BY <2>8 DEF Moves
    <3>3. SurvivorOK(w)'
      BY <2>1, <2>3, <2>6, <3>1, <3>2 DEF SurvivorOK, Done
    <3> QED BY <2>3, <2>4, <3>3, SurvivorStep
  <2>9. ASSUME NEW t \in req[w].todo,
               Moves(w, "sessions", req[w].todo \ {t}, req[w].groups),
               \/ sessions' = {s \in sessions : s.token # t}
               \/ kept' = kept \cup {t}
        PROVE  SurvivorInv'
    <3>1. req'[w].pc = "sessions" /\ req'[w].todo = req[w].todo \ {t}
      BY <2>9 DEF Moves
    <3>2. \A s \in sessions' : s.token = t => Explained(s)'
      BY <2>9 DEF Explained
    <3>3. \A s \in sessions' : s.dev = req'[w].dev /\ s.token \in issued' =>
             s.token \in req'[w].todo \/ Explained(s)'
      BY <2>1, <2>3, <2>5, <2>7, <3>1, <3>2
    <3>4. SurvivorOK(w)'
      BY <2>1, <2>3, <2>6, <3>1, <3>3 DEF SurvivorOK, Done
    <3> QED BY <2>3, <2>4, <3>4, SurvivorStep
  <2> QED BY <1>0, <1>4, <2>8, <2>9, RevokeEffects
<1>5. CASE delete_set(w)
  <2>1. /\ UNCHANGED <<devices, sessions, issued, kept, wiped, lapsed, stranded, ids, logins>>
        /\ tracked' \in {tracked, [tracked EXCEPT ![req[w].dev] = {}]}
        /\ req[w].pc = "untrack"
    BY <1>5 DEF delete_set, historyVars
  <2>2. \A d \in Device : \A t \in tracked[d] \ tracked'[d] : d = req[w].dev
    BY <1>0, <2>1 DEF TablesTyped
  <2>3. \A s \in sessions' : s.dev = req[w].dev /\ s.token \in issued' => Explained(s)'
    BY <1>0, <2>1 DEF SurvivorOK, Explained
  <2>4. Gentle(w)
    BY <1>0, <2>1, <2>2, <2>3 DEF Gentle
  <2>5. Alone(w) /\ req'[w].pc \in Aside
    BY <1>0, <1>5, RevokeEffects DEF Ends, Aside
  <2> QED BY <2>4, <2>5, AsideFrame, SurvivorStep
<1> QED BY <1>1, <1>2, <1>3, <1>4, <1>5 DEF RevokeStep

LEMMA SurvivorInvHolds == Spec => []SurvivorInv
<1>1. Init => SurvivorInv
  <2> SUFFICES ASSUME Init PROVE SurvivorInv
    OBVIOUS
  <2>1. \A w \in Worker : req[w].pc = "free"
    BY DEF Init, Free
  <2>2. \A w \in Worker : ~Minting(w) /\ ~LoggingIn(w) /\ req[w].pc \notin Touching \cup Done
    BY <2>1 DEF Minting, LoggingIn, Touching, RevokePc, LoginPc, Done
  <2>3. \A w \in Worker : SurvivorOK(w)
    BY <2>1, <2>2 DEF SurvivorOK
  <2>4. sessions = {} /\ issued = {}
    BY DEF Init
  <2> QED BY <2>2, <2>3, <2>4 DEF SurvivorInv, TokensOK, Separate, SurvivorsOK
<1>2. TypeInv /\ TypeInv' /\ SurvivorInv /\ [Next]_vars => SurvivorInv'
  <2> SUFFICES ASSUME TypeInv, TypeInv', SurvivorInv, [Next]_vars PROVE SurvivorInv'
    OBVIOUS
  <2>0. Shaped /\ TypeOK /\ TablesTyped /\ logins \in Int
    BY TypeInvIsTypeOK DEF TypeInv, TablesTyped
  <2>1. ASSUME NEW w \in Worker,
               \/ upload(w) \/ create_invite_add(w) \/ delete_pending_removal(w)
               \/ \E g \in Group : accept_membership(w, g)
        PROVE  SurvivorInv'
    <3>1. Calm /\ UNCHANGED <<ids, logins>> /\ req[w].pc \notin Done
      BY <2>1 DEF upload, create_invite_add, delete_pending_removal, accept_membership, Calm,
                  authVars, historyVars, Done
    <3>2. Alone(w) /\ req'[w].pc \in Aside
      BY <2>0, <2>1, FinishEnds DEF upload, create_invite_add, delete_pending_removal,
                                    accept_membership, Ends, Aside
    <3> QED BY <2>0, <3>1, <3>2, AsideFrame, CalmStep
  <2>2. ASSUME NEW w \in Worker, create_invite(w) PROVE SurvivorInv'
    <3>1. Calm /\ UNCHANGED <<ids, logins>> /\ req[w].pc \notin Done
      BY <2>2 DEF create_invite, Calm, authVars, historyVars, Done
    <3>2. Moves(w, "add", {items + 1}, req[w].groups)
      BY <2>0, <2>2, BusyFrame, RequestEffects DEF create_invite, Busy
    <3>3. Alone(w) /\ req'[w].pc \in Aside
      BY <3>2 DEF Moves, Aside
    <3> QED BY <2>0, <3>1, <3>3, AsideFrame, CalmStep
  <2>3. ASSUME NEW w \in Worker, request_fails(w) PROVE SurvivorInv'
    <3>1. /\ UNCHANGED <<devices, sessions, tracked, issued, kept, wiped, lapsed, ids, logins>>
          /\ stranded' = IF Deleted(w) THEN stranded \cup {req[w].dev} ELSE stranded
      BY <2>3 DEF request_fails, authVars
    <3>2. Deleted(w) <=> req[w].pc \in Done
      BY StepNames DEF Done
    <3>3. stranded \subseteq stranded' /\ (req[w].pc \in Done => req[w].dev \in stranded')
      BY <3>1, <3>2
    <3>4. Gentle(w)
      BY <2>0, <3>1, <3>3 DEF Gentle, Explained
    <3>5. Alone(w) /\ req'[w].pc \in Aside
      BY <2>0, <2>3, FinishEnds DEF request_fails, Ends, Aside
    <3> QED BY <3>4, <3>5, AsideFrame, SurvivorStep
  <2>4. ASSUME NEW s \in sessions, session_ends(s) PROVE SurvivorInv'
    BY <2>4, SurvivorWorld DEF session_ends, historyVars
  <2>8. ASSUME NEW d \in Device, index_expires(d) PROVE SurvivorInv'
    BY <2>8, SurvivorLapse
  <2>5. ASSUME \/ \E p \in packages : fetch_one(p)
               \/ \E i \in invites : redeem_invite(i)
               \/ \E g \in Group : commit(g)
               \/ \E S \in SUBSET removals : sweep_stale_pending_removals(S)
               \/ UNCHANGED vars
        PROVE  SurvivorInv'
    <3>1. UNCHANGED <<req, devices, ids, logins, sessions, tracked, issued, kept, wiped, lapsed, stranded>>
      BY <2>5 DEF fetch_one, redeem_invite, commit, sweep_stale_pending_removals, vars,
                  authVars, historyVars
    <3> QED BY <3>1, SurvivorWorld
  <2>6. ASSUME NEW w \in Worker, LoginStep(w) \/ RevokeStep(w) PROVE SurvivorInv'
    BY <2>6, SurvivorLogin, SurvivorRevoke
  <2>7. ASSUME NEW w \in Worker, NEW d \in Device,
               \/ \E proof \in BOOLEAN : login_finish(w, d, proof)
               \/ \E pc \in {"upload", "invite", "join"} : authenticated_call(w, d, pc)
               \/ \E e \in Device : register_device(w, d, e) \/ revoke_device(w, d, e)
               \/ \E g \in Group : remove_member(w, g, d)
        PROVE  SurvivorInv'
    BY <2>7, SurvivorBegins
  <2> QED BY <2>1, <2>2, <2>3, <2>4, <2>5, <2>6, <2>7, <2>8 DEF Next
<1> QED BY <1>1, <1>2, TypeInvHolds, PTL DEF Spec

\* A token some client holds for a device that is gone survives only because the cache
\* refused its deletion, another login's clean-up dropped it from the index, the index
\* expired under it because its login could not renew the TTL, or the revocation was cut
\* off: never because a login raced the revocation, in whatever order
\* their steps fall and however many of either run.
THEOREM SurvivorsHaveReasons == Spec => []SurvivorsAreExplained
<1>1. SurvivorInv => SurvivorsAreExplained
  <2> SUFFICES ASSUME SurvivorInv, NEW s \in sessions, Survives(s) PROVE Explained(s)
    BY DEF SurvivorsAreExplained, Explained
  <2>1. \A w \in Worker : ~(req[w].pc \in Done /\ req[w].dev = s.dev)
    BY StepNames DEF Survives, Done
  <2> QED BY <2>1 DEF SurvivorInv, SurvivorsOK, Survives
<1> QED BY <1>1, SurvivorInvHolds, PTL

=============================================================================
