----------------------------- MODULE Revocation -----------------------------
(***************************************************************************)
(* One account's devices: login, recovery-phrase restore and revocation    *)
(* (AuthService) over Postgres (devices, group_members, pending_removals,  *)
(* key_packages) and Redis (sessions and their index, invites), raced      *)
(* by what the device still does with its session.                         *)
(*                                                                         *)
(* No transaction spans two of these stores: every await is a step, and    *)
(* any of them may be the last one its request takes.  A step that only    *)
(* authenticates (AuthenticatedDevice) and the first read of its handler   *)
(* are one.  A login's nonce is single-use (OpaqueServer removes it before *)
(* the first await), so an attempt stands for its nonce and its token.     *)
(***************************************************************************)
EXTENDS Integers, Sequences, FiniteSets

CONSTANTS
    Device,
    Registered,             \* the account's devices at the start
    Group,                  \* groups; each has members of other accounts
    Worker,                 \* requests that may be in flight at once
    MAX_DEVICES_PER_USER,
    MaxLogins,              \* bound: login attempts
    MaxItems,               \* bound: KeyPackages and invites ever made
    MaxEpoch                \* bound: Commits accepted by a group

ASSUME RevocationAssumption ==
    /\ Registered \subseteq Device
    /\ MAX_DEVICES_PER_USER \in Nat
    /\ MaxLogins \in Nat /\ MaxItems \in Nat /\ MaxEpoch \in Nat

VARIABLES
    devices,    \* devices
    ids,        \* device ids ever chosen
    logins,     \* login attempts so far
    sessions,   \* session:<token>
    tracked,    \* device_sessions:<device>
    covered,    \* tokens in such an index when its TTL was last set
    packages,   \* key_packages, unconsumed
    invites,    \* invite:<code>, with the KeyPackage it pins
    index,      \* invite:device:<device>
    items,      \* KeyPackages and invites so far
    seats,      \* group_members: <<group, device>>
    epoch,      \* groups.epoch
    removals,   \* pending_removals
    req,        \* req[w]: the request worker w is running
    issued,     \* history: tokens a client was given
    kept,       \* history: tokens whose deletion failed in the cache
    wiped,      \* history: tokens another login's clean-up dropped from the index
    lapsed,     \* history: tokens the index's TTL took out of it before their session's
    stranded,   \* history: devices whose revocation was cut off after the row went
    doomed,     \* history: items a revocation that deleted its device set out to end
    captured,   \* history: <<group, device>> a revocation that deleted its device had found
    written     \* history: reminders ever written

authVars == <<devices, ids, logins, sessions, tracked, covered>>
itemVars == <<packages, invites, index, items>>
groupVars == <<seats, epoch, removals>>
historyVars == <<issued, kept, wiped, lapsed, stranded, doomed, captured, written>>
vars == <<authVars, itemVars, groupVars, req, historyVars>>

Token == 1..MaxLogins
Item == [id : 1..MaxItems, dev : Device]
Reminder == [group : Group, dev : Device, epoch : 0..MaxEpoch]

\* The steps of revoke_device, in order.
RevokeStepsDeleteEarly ==                    \* mutant: the row goes before its packages
    <<"index", "invites", "groups", "remind", "delete", "packages",
      "tokens", "sessions", "untrack">>
RevokeStepsRemindLate ==                     \* mutant: reminders once the row is gone
    <<"index", "invites", "groups", "packages", "delete", "remind",
      "tokens", "sessions", "untrack">>
RevokeSteps ==
    <<"index", "invites", "groups", "remind", "packages", "delete",
      "tokens", "sessions", "untrack">>
Position(pc) == CHOOSE i \in DOMAIN RevokeSteps : RevokeSteps[i] = pc
Revoking(w) == \E i \in DOMAIN RevokeSteps : RevokeSteps[i] = req[w].pc

\* A frame keeps the device, its token, whether it carries a recovery proof, the
\* collections a loop has yet to visit, what revocation must end.
Free == [pc |-> "free"]
Frame == [pc : {"find", "count", "mint", "session", "track", "untracked", "expire", "verify",
                "clean_session", "clean_set", "upload", "invite", "add", "join", "clear"}
               \cup {RevokeSteps[i] : i \in DOMAIN RevokeSteps},
          dev : Device, token : 0..MaxLogins, proof : BOOLEAN, todo : SUBSET (Nat \cup Group),
          groups : SUBSET Group, fence : SUBSET (1..MaxItems)]

Begin(w, pc, d) ==
    req' = [req EXCEPT ![w] = [pc |-> pc, dev |-> d, token |-> 0, proof |-> FALSE,
                               todo |-> {}, groups |-> {}, fence |-> {}]]
Goto(w, pc) == req' = [req EXCEPT ![w].pc = pc]
Finish(w) == req' = [req EXCEPT ![w] = Free]
Continue(w) == [req EXCEPT ![w].pc = RevokeSteps[Position(@) + 1]]

Init ==
    /\ devices = Registered /\ ids = Registered
    /\ logins = 0 /\ sessions = {}
    /\ tracked = [d \in Device |-> {}] /\ covered = {}
    /\ packages = {} /\ invites = {} /\ items = 0
    /\ index = [d \in Device |-> {}]
    /\ seats \in SUBSET (Group \X Registered)
    /\ epoch = [g \in Group |-> 0]
    /\ removals = {}
    /\ req = [w \in Worker |-> Free]
    /\ issued = {} /\ kept = {} /\ wiped = {} /\ lapsed = {} /\ stranded = {}
    /\ doomed = {} /\ captured = {} /\ written = {}

(***************************************************************************)
(* login_finish.  A login names a device the client knows; a restore names *)
(* a fresh id and carries the recovery proof.                              *)
(***************************************************************************)
login_finish(w, d, proof) ==
    /\ req[w] = Free
    /\ logins < MaxLogins
    /\ proof <=> d \notin ids
    /\ logins' = logins + 1
    /\ ids' = ids \cup {d}
    /\ req' = [req EXCEPT ![w] = [pc |-> "find", dev |-> d, token |-> logins + 1,
                                  proof |-> proof, todo |-> {}, groups |-> {},
                                  fence |-> {}]]
    /\ UNCHANGED <<devices, sessions, tracked, covered, itemVars, groupVars, historyVars>>

\* Every refusal of this path is the same Unauthorized.
login_find(w) ==
    /\ req[w].pc = "find"
    /\ \/ req[w].dev \in devices /\ Goto(w, "session")
       \/ req[w].dev \notin devices /\ req[w].proof /\ Goto(w, "count")
       \/ req[w].dev \notin devices /\ ~req[w].proof /\ Finish(w)
    /\ UNCHANGED <<authVars, itemVars, groupVars, historyVars>>

\* mint_recovery_device, and register_device: the cap is counted, then the row
\* is saved.
count_devices(w) ==
    /\ req[w].pc = "count"
    /\ \/ Cardinality(devices) < MAX_DEVICES_PER_USER /\ Goto(w, "mint")
       \/ Finish(w)            \* over the cap, or the proof does not verify
    /\ UNCHANGED <<authVars, itemVars, groupVars, historyVars>>

save_device(w) ==
    /\ req[w].pc = "mint"
    /\ devices' = devices \cup {req[w].dev}
    /\ IF req[w].proof THEN Goto(w, "session") ELSE Finish(w)
    /\ UNCHANGED <<ids, logins, sessions, tracked, covered, itemVars, groupVars, historyVars>>

login_session(w) ==
    /\ req[w].pc = "session"
    /\ sessions' = sessions \cup {[token |-> req[w].token, dev |-> req[w].dev]}
    /\ Goto(w, "track")
    /\ UNCHANGED <<devices, ids, logins, tracked, covered, itemVars, groupVars, historyVars>>

login_track(w) ==
    /\ req[w].pc = "track"
    /\ \/ /\ tracked' = [tracked EXCEPT ![req[w].dev] = @ \cup {req[w].token}]
          /\ Goto(w, "expire")
       \/ /\ Goto(w, "untracked")
          /\ UNCHANGED tracked
    /\ UNCHANGED <<devices, ids, logins, sessions, covered, itemVars, groupVars, historyVars>>

\* The index's TTL starts again at DEVICE_SESSIONS_TTL, longer than SESSION_TTL: it
\* will outlive the sessions it lists.  A failure is ignored, and leaves the TTL of an
\* earlier login, or none.
login_expire(w) ==
    /\ req[w].pc = "expire"
    /\ covered' \in {covered, covered \cup tracked[req[w].dev]}
    /\ Goto(w, "verify")
    /\ UNCHANGED <<devices, ids, logins, sessions, tracked, itemVars, groupVars, historyVars>>

Others(w) == {s \in sessions : s.token # req[w].token}

\* The session written before the failure is taken back, best effort.
login_untracked(w) ==
    /\ req[w].pc = "untracked"
    /\ sessions' \in {sessions, Others(w)}
    /\ Finish(w)
    /\ UNCHANGED <<devices, ids, logins, tracked, covered, itemVars, groupVars, historyVars>>

\* The token is given out only if the device still exists.
login_verify_none(w) ==                      \* mutant: no second look at the device
    /\ req[w].pc = "verify"
    /\ issued' = issued \cup {req[w].token}
    /\ Finish(w)
    /\ UNCHANGED <<authVars, itemVars, groupVars, kept, wiped, lapsed, stranded, doomed,
                   captured, written>>

login_verify(w) ==
    /\ req[w].pc = "verify"
    /\ IF req[w].dev \in devices
       THEN issued' = issued \cup {req[w].token} /\ Finish(w)
       ELSE Goto(w, "clean_session") /\ UNCHANGED issued
    /\ UNCHANGED <<authVars, itemVars, groupVars, kept, wiped, lapsed, stranded, doomed,
                   captured, written>>

login_clean_session(w) ==
    /\ req[w].pc = "clean_session"
    /\ sessions' \in {sessions, Others(w)}
    /\ Goto(w, "clean_set")
    /\ UNCHANGED <<devices, ids, logins, tracked, covered, itemVars, groupVars, historyVars>>

login_clean_set(w) ==
    /\ req[w].pc = "clean_set"
    /\ tracked' \in {tracked, [tracked EXCEPT ![req[w].dev] = {}]}
    /\ wiped' = wiped \cup (tracked[req[w].dev] \ tracked'[req[w].dev])
    /\ Finish(w)
    /\ UNCHANGED <<devices, ids, logins, sessions, covered, itemVars, groupVars, issued,
                   kept, lapsed, stranded, doomed, captured, written>>

\* DELETE /v1/auth/session, or SESSION_TTL: the index keeps the token.
session_ends(s) ==
    /\ sessions' = sessions \ {s}
    /\ UNCHANGED <<devices, ids, logins, tracked, covered, itemVars, groupVars, req,
                   historyVars>>

\* The index's TTL runs out, if it has one: the sessions it covered have ended by then,
\* those added since may not have.
index_expires(d) ==
    /\ tracked[d] \cap covered # {}
    /\ \A s \in sessions : s.token \in tracked[d] => s.token \notin covered
    /\ tracked' = [tracked EXCEPT ![d] = {}]
    /\ lapsed' = lapsed \cup (tracked[d] \ covered)
    /\ UNCHANGED <<devices, ids, logins, sessions, covered, itemVars, groupVars, req, issued,
                   kept, wiped, stranded, doomed, captured, written>>

(***************************************************************************)
(* What a device does with its session.                                    *)
(***************************************************************************)
Authenticated(d) == \E s \in sessions : s.dev = d /\ s.token \in issued

register_device(w, d, new) ==
    /\ req[w] = Free
    /\ Authenticated(d) /\ d \in devices
    /\ new \notin ids
    /\ Cardinality(devices) < MAX_DEVICES_PER_USER
    /\ ids' = ids \cup {new}
    /\ Begin(w, "mint", new)
    /\ UNCHANGED <<devices, logins, sessions, tracked, covered, itemVars, groupVars,
                   historyVars>>

\* upload, create_invite and accept_membership (or create_group) have passed the
\* session check.
authenticated_call(w, d, pc) ==
    /\ req[w] = Free
    /\ Authenticated(d)
    /\ Begin(w, pc, d)
    /\ UNCHANGED <<authVars, itemVars, groupVars, historyVars>>

upload(w) ==
    /\ req[w].pc = "upload"
    /\ items < MaxItems
    /\ items' = items + 1
    /\ packages' = packages \cup {[id |-> items + 1, dev |-> req[w].dev]}
    /\ Finish(w)
    /\ UNCHANGED <<invites, index, authVars, groupVars, historyVars>>

create_invite(w) ==
    /\ req[w].pc = "invite"
    /\ items < MaxItems
    /\ items' = items + 1
    /\ invites' = invites \cup {[id |-> items + 1, dev |-> req[w].dev]}
    /\ req' = [req EXCEPT ![w].pc = "add", ![w].todo = {items + 1}]
    /\ UNCHANGED <<packages, index, authVars, groupVars, historyVars>>

create_invite_add(w) ==
    /\ req[w].pc = "add"
    /\ index' = [index EXCEPT ![req[w].dev] = @ \cup req[w].todo]
    /\ Finish(w)
    /\ UNCHANGED <<packages, invites, items, authVars, groupVars, historyVars>>

\* The foreign key on devices(id): no seat for a device that is gone.
accept_membership_no_fk(w, g) ==             \* mutant: no foreign key
    /\ req[w].pc = "join"
    /\ seats' = seats \cup {<<g, req[w].dev>>}
    /\ Finish(w)
    /\ UNCHANGED <<epoch, removals, authVars, itemVars, historyVars>>

accept_membership(w, g) ==
    /\ req[w].pc = "join"
    /\ req[w].dev \in devices
    /\ seats' = seats \cup {<<g, req[w].dev>>}
    /\ Finish(w)
    /\ UNCHANGED <<epoch, removals, authVars, itemVars, historyVars>>

\* A peer takes a KeyPackage out of the pool, or redeems an invite; the index is
\* then updated, best effort.
fetch_one(p) ==
    /\ packages' = packages \ {p}
    /\ UNCHANGED <<invites, index, items, authVars, groupVars, req, historyVars>>

redeem_invite(i) ==
    /\ invites' = invites \ {i}
    /\ index' \in {index, [index EXCEPT ![i.dev] = @ \ {i.id}]}
    /\ UNCHANGED <<packages, items, authVars, groupVars, req, historyVars>>

(***************************************************************************)
(* revoke_device.  Its caller is a device of the account with a session.   *)
(***************************************************************************)
Ids(S, d) == {x.id : x \in {y \in S : y.dev = d}}

revoke_device(w, caller, d) ==
    /\ req[w] = Free
    /\ Authenticated(caller) /\ caller \in devices
    /\ d \in devices
    /\ req' = [req EXCEPT ![w] = [pc |-> RevokeSteps[1], dev |-> d, token |-> 0,
                                  proof |-> FALSE, todo |-> {}, groups |-> {},
                                  fence |-> Ids(packages, d) \cup index[d]]]
    /\ UNCHANGED <<authVars, itemVars, groupVars, historyVars>>

\* revoke_invites_for_device: the index is read, its codes deleted, then itself.
revoke_index(w) ==
    /\ req[w].pc = "index"
    /\ req' = [Continue(w) EXCEPT ![w].todo = index[req[w].dev]]
    /\ UNCHANGED <<authVars, itemVars, groupVars, historyVars>>

revoke_invite(w) ==
    /\ req[w].pc = "invites"
    /\ IF req[w].todo # {}
       THEN \E id \in req[w].todo :
              /\ invites' = {i \in invites : i.id # id}
              /\ req' = [req EXCEPT ![w].todo = @ \ {id}]
              /\ UNCHANGED index
       ELSE /\ index' = [index EXCEPT ![req[w].dev] = {}]
            /\ req' = Continue(w)
            /\ UNCHANGED invites
    /\ UNCHANGED <<packages, items, authVars, groupVars, historyVars>>

list_groups_for_device(w) ==
    /\ req[w].pc = "groups"
    /\ LET mine == {g \in Group : <<g, req[w].dev>> \in seats}
       IN  req' = [Continue(w) EXCEPT ![w].todo = mine, ![w].groups = mine]
    /\ UNCHANGED <<authVars, itemVars, groupVars, historyVars>>

\* INSERT ... ON CONFLICT DO NOTHING, at the epoch it finds.
create_pending_removal(w) ==
    /\ req[w].pc = "remind"
    /\ IF req[w].todo # {}
       THEN \E g \in req[w].todo :
              /\ LET row == [group |-> g, dev |-> req[w].dev, epoch |-> epoch[g]]
                     new == IF \E r \in removals : r.group = g /\ r.dev = req[w].dev
                            THEN {} ELSE {row}
                 IN  removals' = removals \cup new /\ written' = written \cup new
              /\ req' = [req EXCEPT ![w].todo = @ \ {g}]
       ELSE req' = Continue(w) /\ UNCHANGED <<removals, written>>
    /\ UNCHANGED <<seats, epoch, authVars, itemVars, issued, kept, wiped, lapsed, stranded,
                   doomed, captured>>

delete_by_device(w) ==
    /\ req[w].pc = "packages"
    /\ packages' = {p \in packages : p.dev # req[w].dev}
    /\ req' = Continue(w)
    /\ UNCHANGED <<invites, index, items, authVars, groupVars, historyVars>>

\* The row goes, and the seats with it (ON DELETE CASCADE).
delete_device(w) ==
    /\ req[w].pc = "delete"
    /\ devices' = devices \ {req[w].dev}
    /\ seats' = {s \in seats : s[2] # req[w].dev}
    /\ req' = Continue(w)
    /\ doomed' = doomed \cup req[w].fence
    /\ captured' = captured \cup {<<g, req[w].dev>> : g \in req[w].groups}
    /\ UNCHANGED <<ids, logins, sessions, tracked, covered, itemVars, epoch, removals, issued,
                   kept, wiped, lapsed, stranded, written>>

set_members(w) ==
    /\ req[w].pc = "tokens"
    /\ req' = [Continue(w) EXCEPT ![w].todo = tracked[req[w].dev]]
    /\ UNCHANGED <<authVars, itemVars, groupVars, historyVars>>

\* A deletion that fails is logged and the loop goes on.
delete_session(w) ==
    /\ req[w].pc = "sessions"
    /\ IF req[w].todo # {}
       THEN \E t \in req[w].todo :
              /\ req' = [req EXCEPT ![w].todo = @ \ {t}]
              /\ \/ /\ sessions' = {s \in sessions : s.token # t}
                    /\ UNCHANGED kept
                 \/ /\ kept' = kept \cup {t}
                    /\ UNCHANGED sessions
       ELSE req' = Continue(w) /\ UNCHANGED <<sessions, kept>>
    /\ UNCHANGED <<devices, ids, logins, tracked, covered, itemVars, groupVars, issued, wiped,
                   lapsed, stranded, doomed, captured, written>>

delete_set(w) ==
    /\ req[w].pc = "untrack"
    /\ tracked' \in {tracked, [tracked EXCEPT ![req[w].dev] = {}]}
    /\ Finish(w)
    /\ UNCHANGED <<devices, ids, logins, sessions, covered, itemVars, groupVars, historyVars>>

\* An error that is propagated (a session that could not be written included), or
\* the client hangs up.
Deleted(w) == Revoking(w) /\ Position(req[w].pc) > Position("delete")
request_fails(w) ==
    /\ req[w] # Free
    /\ stranded' = IF Deleted(w) THEN stranded \cup {req[w].dev} ELSE stranded
    /\ Finish(w)
    /\ UNCHANGED <<authVars, itemVars, groupVars, issued, kept, wiped, lapsed, doomed,
                   captured, written>>

(***************************************************************************)
(* The groups: Commits, removals by other members, the retention sweep.    *)
(***************************************************************************)
commit(g) ==
    /\ epoch[g] < MaxEpoch
    /\ epoch' = [epoch EXCEPT ![g] = @ + 1]
    /\ UNCHANGED <<seats, removals, authVars, itemVars, req, historyVars>>

\* GroupService::remove_member ends by asking for the reminder to be cleared.
remove_member(w, g, d) ==
    /\ req[w] = Free
    /\ seats' = seats \ {<<g, d>>}
    /\ req' = [req EXCEPT ![w] = [pc |-> "clear", dev |-> d, token |-> 0, proof |-> FALSE,
                                  todo |-> {g}, groups |-> {}, fence |-> {}]]
    /\ UNCHANGED <<epoch, removals, authVars, itemVars, historyVars>>

EpochGate(r) == r.epoch < epoch[r.group]

delete_pending_removal(w) ==
    /\ req[w].pc = "clear"
    /\ removals' = {r \in removals : ~(/\ r.group \in req[w].todo
                                       /\ r.dev = req[w].dev
                                       /\ EpochGate(r))}
    /\ Finish(w)
    /\ UNCHANGED <<seats, epoch, authVars, itemVars, historyVars>>

sweep_stale_pending_removals(S) ==
    /\ S # {}
    /\ \A r \in S : EpochGate(r)
    /\ removals' = removals \ S
    /\ UNCHANGED <<seats, epoch, authVars, itemVars, req, historyVars>>

-----------------------------------------------------------------------------
LoginStep(w) ==
    \/ login_find(w) \/ count_devices(w) \/ save_device(w)
    \/ login_session(w) \/ login_track(w) \/ login_untracked(w) \/ login_expire(w)
    \/ login_verify(w) \/ login_clean_session(w) \/ login_clean_set(w)

RevokeStep(w) ==
    \/ revoke_index(w) \/ revoke_invite(w) \/ list_groups_for_device(w)
    \/ create_pending_removal(w) \/ delete_by_device(w) \/ delete_device(w)
    \/ set_members(w) \/ delete_session(w) \/ delete_set(w)

Next ==
    \/ \E w \in Worker, d \in Device :
          \/ \E proof \in BOOLEAN : login_finish(w, d, proof)
          \/ \E pc \in {"upload", "invite", "join"} : authenticated_call(w, d, pc)
          \/ \E e \in Device : register_device(w, d, e) \/ revoke_device(w, d, e)
          \/ \E g \in Group : remove_member(w, g, d)
    \/ \E w \in Worker :
          \/ LoginStep(w)
          \/ RevokeStep(w)
          \/ upload(w) \/ create_invite(w) \/ create_invite_add(w)
          \/ \E g \in Group : accept_membership(w, g)
          \/ delete_pending_removal(w)
          \/ request_fails(w)
    \/ \E s \in sessions : session_ends(s)
    \/ \E d \in Device : index_expires(d)
    \/ \E p \in packages : fetch_one(p)
    \/ \E i \in invites : redeem_invite(i)
    \/ \E g \in Group : commit(g)
    \/ \E S \in SUBSET removals : sweep_stale_pending_removals(S)

Spec == Init /\ [][Next]_vars

-----------------------------------------------------------------------------
\* Type invariant.
TypeOK ==
    /\ devices \subseteq ids /\ ids \subseteq Device
    /\ logins \in 0..MaxLogins
    /\ sessions \subseteq [token : Token, dev : Device]
    /\ tracked \in [Device -> SUBSET Token] /\ covered \subseteq Token
    /\ packages \subseteq Item /\ invites \subseteq Item
    /\ index \in [Device -> SUBSET (1..MaxItems)]
    /\ items \in 0..MaxItems
    /\ seats \subseteq Group \X devices
    /\ epoch \in [Group -> 0..MaxEpoch]
    /\ removals \subseteq Reminder /\ written \subseteq Reminder
    /\ \A w \in Worker : req[w] = Free \/ req[w] \in Frame
    /\ issued \subseteq Token /\ kept \subseteq Token /\ wiped \subseteq Token
    /\ lapsed \subseteq Token /\ stranded \subseteq Device
    /\ doomed \subseteq 1..MaxItems
    /\ captured \subseteq Group \X Device

\* A token some client holds for a device that is gone, while no revocation of it
\* is at work.
Survives(s) ==
    /\ s.token \in issued /\ s.dev \notin devices
    /\ \A w \in Worker : ~(Deleted(w) /\ req[w].dev = s.dev)

\* Why a revoked device may still have a session: the revocation was cut off after
\* the row went, the cache refused the deletion, a login's clean-up took the token out
\* of the index, or the index expired first because the login that added the token
\* failed to renew its TTL (set_expire, whose failure is ignored).  A login that raced
\* the revocation is never the reason by itself: its second look at the device (R-1)
\* takes its session back.
SurvivorsAreExplained ==
    \A s \in sessions :
        Survives(s) => s.token \in kept \cup wiped \cup lapsed \/ s.dev \in stranded

\* Does not hold (README, 6): auth_service.rs, revoke_device: "Immediately invalidate all
\* active sessions for the revoked device", when every step of it succeeds and no login
\* failed to renew the index's TTL.
RevokedHasNoSession ==
    \A s \in sessions : Survives(s) => s.token \in kept \cup lapsed \/ s.dev \in stranded

\* Once the device's row is gone, so is every KeyPackage it had when its revocation
\* began, although the revocation may go no further and cannot be repeated
\* ("idempotent hard-fail steps first, then irreversible deletes").
DoomedPackagesGone == \A p \in packages : p.id \notin doomed

\* Does not hold (README, 6): ports/invite.rs, revoke_invites_for_device: "Delete every outstanding (unredeemed)
\* invite created by device_id", for invites complete when the revocation began.
DoomedInvitesGone == \A i \in invites : i.id \notin doomed

\* A reminder outlives the device: for every group the revocation found, a row was
\* written before the device's row went, and it stands until a Commit has been
\* accepted after it was written.
RemindersOutliveDevice ==
    \A c \in captured : \E r \in written :
        /\ r.group = c[1] /\ r.dev = c[2]
        /\ r \in removals \/ epoch[r.group] > r.epoch
=============================================================================
