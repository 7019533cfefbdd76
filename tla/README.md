# powehi in TLA+

powehi is an end-to-end encrypted messenger.  Its server never sees plaintext;
what it does keep (devices, sessions, group membership, an epoch per group,
envelopes waiting for delivery, encrypted media) decides whether the clients'
MLS state stays usable, and the command-line client keeps that state in a store
that has to survive crashes.  This directory models the server's logic and the
client's, model-checks them with TLC on small instances and proves the central
results with TLAPS.

## 1. The system

| Part | State | Operations | Shares state with |
|---|---|---|---|
| Cross-region gRPC (`powehi-grpc`) | one circuit breaker per peer; no state of its own on the server side | `with_retry`, `forward_commit`, `forward_envelope`, `sync_group_membership`, `consume_key_package`, abuse signals | commit ledger, envelopes, group membership, KeyPackages |
| Messaging (`MessagingService`, `PgEnvelopeRepository`) | `envelopes`, `envelope_acks` | send message, Welcome or Commit; poll; ack; expiry | membership (who may send, whose ack is needed), ledger |
| Commit ledger (`PgCommitLedger`) | `groups.epoch`, one Commit envelope per epoch | `commit_epoch_and_save` | envelopes, groups |
| Group membership (`GroupService`, `PgGroupRepository`) | `groups`, `group_members`, `pending_memberships`, `pending_removals` | create, add (pending), accept, decline, remove, reminders and their sweep | devices (foreign keys, cascade) |
| Login and revocation (`AuthService`) | `devices`; Redis `session:*`, `device_sessions:*` | login, restore by recovery phrase, register, revoke, log out | invites, KeyPackages, groups |
| Invites (`InviteService`) | Redis `invite:*`, `invite:device:*` | create, redeem, revoke all | revocation |
| KeyPackage pool | `key_packages` | upload, fetch one, delete by device, cross-region consume, sweep | revocation |
| Media (`MediaService`, `R2MediaAdapter`) | `media_blobs`, `media_acks`, `media_upload_ledger`; objects in R2 and the `.owner` marker | request upload, confirm download, delete, collection, ledger trim, orphan sweep | membership (whose ack is needed), devices (cascade) |
| Background jobs (`main.rs`, `PgLeaderLock`) | one advisory lock per job, held by a database session | collections and sweeps on timers, in every replica | media, envelopes |
| Client store (`powehi-cli/store`) | record files, `manifest`, `keys`, `rekey.go` and a staging directory | open, put, remove, password and recovery slots, rekey | the file system |
| Client groups and inbox (`powehi-cli/group`, `inbox`, `welcome`, `requests`) | MLS group state, `conv-`, `gadd-`/`grem-`, `req-`, `rx-` records, inbox cursor and junk tracker | add, resume, remove, accept, decline, send, inbox | messaging, ledger and membership, over REST; the client store |
| Web app (`app`) | fetch cursors, IndexedDB | poll, process, ack | everything above, over REST |
| Web push, WebSocket hub, rate limits, telemetry | subscriptions, sockets | see section 8 | |

The server runs as several instances over one Postgres and one Redis per
region.  There is no in-process lock around a use case: every `await` is a
point where any other request may run, and Postgres transactions are READ
COMMITTED.  What is hard in this code follows from that:

* transactions of several statements that see each other's effects between
  statements (`ack_broadcast`, `add_pending`, `remove_member`,
  `commit_epoch_and_save`);
* use cases over two stores with no transaction around them (`revoke_device`
  takes nine steps in Postgres and Redis, and its middle step cannot be undone
  or repeated);
* values read before an await and used after it (member lists, session and
  invite indexes, the groups of a device);
* calls between regions, Commit posts and presigned uploads that may be executed
  after their caller gave up;
* time stamps taken before the row they order becomes visible;
* a database and an object store that are changed one after the other;
* a client that can be killed between any two file operations or calls, and
  whose MLS state keeps no past epoch, so that a wrong order cannot be made good;
* limits (pages, attempts, caps, grace periods) that decide what a run leaves
  for the next one.

What makes the parts correct: an epoch is consumed by exactly one Commit and
that Commit is deliverable; nobody's ack removes what another member still has
to read; a client's cursor skips nothing; removal and revocation are final,
although they race with joins and logins; caps hold at their limits; a blob is
kept until everyone has it and collected afterwards; a client's store opens
after any crash with what was acknowledged, and its group state follows the
ledger.

`PROJECT.json` lists these hazards one by one, at the line where each bites,
with the properties that would catch it.

## 2. Modules

| Module | Models | Proofs | TLC instance |
|---|---|---|---|
| `RegionForward` | `client.rs` `with_retry`/`forward_commit`, `circuit.rs`, `server.rs` `forward_commit` | `DeliveryProofs` | `MCRegionForward` |
| `CommitLog` | the promise of the `CommitLedger` port: an epoch and its stored Commit in one step | | |
| `Delivery` | `messaging_service.rs`, `envelope_repo.rs`, `commit_ledger.rs`; implements `CommitLog` | `DeliveryProofs` | `MCPoller` |
| `Poller` | `Delivery` composed with the fetch cursor of `useMessages.ts` and `find_pending`'s pages | `DeliveryProofs` | `MCPoller` |
| `Membership` | `group_service.rs` over `group_repo.rs` | `MembershipProofs` | `MCMembership` |
| `Revocation` | `auth_service.rs` with invites, KeyPackages and reminders as revocation meets them | `RevocationProofs` | `MCRevocation` |
| `Media` | `media_service.rs` over `powehi-r2`, `leader_lock.rs`, the media jobs of `main.rs` | `MediaProofs` | `MCMedia` |
| `OrphanSweep` | the ownership marker and the orphan sweep of `powehi-r2` | `OrphanSweepProofs` | `MCOrphanSweep` |
| `ProfileStore` | `powehi-cli` `store.rs`, `store/manifest.rs`, `store/keys.rs`, `store/rekey.rs` | `ProfileStoreProofs` | `MCProfileStore` |
| `GroupClient` | `powehi-cli` `group.rs`, `group/*.rs`, `welcome.rs`, `requests.rs`, `message.rs`, with the Delivery Service as `Delivery` shows it | `GroupClientProofs` | `MCGroupClient` |
| `Inbox` | `powehi-cli` `inbox.rs`, `inbox/cursor.rs`, `inbox/junk.rs` | `InboxProofs` | `MCInbox` |

The server's modules have the same shape.  Tables and Redis keys are variables, one
record per row.  A request in flight is a frame `req[w]` of a worker `w`: where
it stands (`pc`) and the local values it carries over an await.  An action is
one statement or one cache command together with the code up to the next
await; actions and operators keep the names of the functions they model.
`request_fails` ends a request at any point (error, dropped connection, killed
process; a transaction rolls back).  Variables marked "history" exist for the
properties only and guard nothing.  Operators marked "mutant" stand before the
definition they vary and are used by no specification.

### RegionForward

A call makes `RETRY_MAX + 1` attempts.  An attempt puts its request in `wire`,
from where the home region may execute it at any later time
(`ServeCommit`), refuse it, or never see it (`LoseRequest`).  Responses are
recorded only if the attempt is still the current one; `AttemptFails` covers
timeouts, broken connections and retryable statuses.  `openUntil` counts ticks
left; the code compares instants, and `0` is an instant in the past.  The
server's checks before the ledger (size, ids, certificate, membership) are one
refusal with a non-retryable status.  Idle time between attempts is left out:
the model allows any delay.  The failure counter saturates at the threshold,
past which the code does not tell values apart.

### Delivery

One group.  An envelope's id stands for the (`created_at`, `id`) key that
pollers page by.  `Envelope::new` takes it from `Utc::now()` on whichever server
instance runs the request, so `Stamp` hands out any place that is free: clocks
may disagree by any amount.  `skewed` records the pairs stamped in one order
that come in the other.  Sending checks membership, builds the envelope and saves it in a later
step.  `send_commit` enters the ledger: `cas_won` updates the group's row,
which stays locked until `insert_commit` commits both writes or
`request_fails` rolls both back; `cas_lost` returns without writing.
`ack_envelope` reads the envelope, then the member list (`list_members`), then
runs `ack_broadcast` as three steps (insert, delete if everyone in the list
acked as far as this transaction sees, commit); the deleting transaction keeps
the row locked.  Unicast envelopes are deleted by their recipient.  `owed`
records, for each stored envelope, the devices that were to receive it and have
neither acked nor left; `log` records the accepted Commits in order.  Proposals
are sent by no use case and are left out.

### Poller

`find_pending` answers with a non-empty prefix, of at most `PollLimit` rows, of
what is pending behind the cursor (the byte budget may cut a page short), and
the client moves its cursor to the page's last row.  `reset_cursor` is the
effect's reset on a change of group or reload.  `late` records deliveries that
became visible behind a cursor.

### Membership

Groups, devices and two tables.  `add_pending` is split into its statements:
device row lock, group row lock, purge and decision, eviction, insert and
commit.  A row that an open transaction has deleted blocks every other
transaction that would touch it.  `accept_pending` is one SQL statement, but
its foreign keys then wait for the group's and the device's row, so it takes
three steps.  `remove_member` deletes from two tables in order.  A row's `tag`
is its insertion order, which stands for `created_at`.  `revoked` records the
tags that existed when a removal that later committed was requested.  Removal's
last call, `delete_pending_removal`, touches another table and is modelled in
`Revocation`.

### Revocation

One account and the groups its devices are in.  Logins name a known device;
a restore names a fresh id (the client draws a UUID) and carries a recovery
proof that may or may not verify.  `revoke_device` follows `RevokeSteps`:
invite index, invites, groups, reminders, KeyPackages, device row (with the
cascade to `group_members`), session index, sessions, index.  The event
published in between changes no state and is left out, as are the caps on
KeyPackages and invites and all TTLs but those of a session and of the session
index.  The index's TTL is longer than a session's and is set anew by each login,
a failure being ignored: `covered` are the tokens listed when it was last set, and
`index_expires` waits for their sessions and not for later ones.  What the device does
meanwhile with its session (upload, invite, join, revoke) checks the session in
one step and writes in a later one, as the handlers do.  `create_pending_removal`
is one statement and one step; the code's comment concedes a narrower race with
a Commit inside it.

### Media

A blob is a row, a ledger row, an object and a set of acks.  The tables and the
bucket share no transaction, so `save` (one transaction), `presigned_upload_url`,
the client's `put`, and the two halves of `delete` (object, then row) are steps
of their own.  A blob's `age` is the only clock: inside the quota's day, past
it, past the retention; an upload URL lapses with the first.  The collection is
a frame `gc[r]` per replica: lock, page, members, acks, object, row, next page
or release.  `gc_fails` is an error or the job's timeout, `replica_dies` takes
the lock with it, and `session_dies` takes the lock only, so that another
replica starts beside a sweep that goes on.  `stray` records objects that a PUT
stored after a delete had passed, or whose row a device's deletion cascaded.
Content types, sizes above the maximum and unshared downloads by others are
refusals that change nothing.

### OrphanSweep

Two environments share a bucket's prefix, each with its own database.  A sweep
reads the marker, claims a prefix that has none with a conditional PUT, reads
again, and then page by page lists, asks the rows, applies the ratio guard and
the caps and deletes; keys may fail one by one.  Rows and objects change between
any two of these steps; `lose_rows` is a database restored without its media.
An object ages past the grace period only after its URL has lapsed, which the
configuration enforces; the marker ages like any other and is listed with them,
and `candidates` leaves it out by its name, as the code does.  The bucket honours
`If-None-Match` (section 6).

### ProfileStore

One process, since the profile's lock file is held while the store is open; what
interleaves is failure.  `fs` is what the directory shows a process.  What each
entry may be after a power loss is kept in two parts, independently of the
others: `dur`, every value it had since the running process last fsynced the
directory (or started), and `stale`, older values the disk may still hold because
an fsync before that failed or its process died first.  A successful fsync empties
`stale`.  Each rename, unlink and fsync is a step.
`h` is the handle (bundle, credentials, manifest, index, poisoned); a call's
record mutations are queued in `todo` and made by the steps of `mutate`
(pending manifest, record, settled manifest).  Contents are numbers and equal
numbers are equal hashes; a record's tag is its bundle and name.  `Init` offers
an empty directory, plain-named records of the oldest version, or records
without a manifest.

The faults are these.  Any write of `mutate` may fail, and staging may, and so
may the directory fsync after a write: the error is returned to a process that
goes on, with the rename made (`PendingSyncFails`, `ApplySyncFails`,
`KeysSyncFails`).  A failing step of `open` or of `write_journal`, an fsync among
them, ends the call like a `Kill`.  After either, the next process sees what was
renamed, but the disk need not have it (`LoseSync`, counted in `lost`).  After a
`PowerLoss` each entry falls back on its own to a value in `dur` or `stale`; if it
is one of `stale`, which a process had already gone on from, the history variable
`torn` says so.  Not among the faults: files changed by others, a full table of
records, and a second process.  The fsync of a new directory is taken to keep that
directory's own entry.

### GroupClient

The Delivery Service is `log` (the ledger), the member tables, the envelopes
and their acks, at the granularity that `Delivery`'s results justify: a Commit
is accepted in one step, an ack deletes once every member has acked.  A posted
Commit sits in `wire` and may be executed, refused, lost, or executed after its
sender stopped waiting (`commit_unknown`).  A device has its durable profile
(`grp` with its staged Commit and ratchet positions, `conv`, `rec`, `request`,
`rx`) and at most one command in progress, `cmd[d]`, which writes and calls in
the code's order and may `stop` between any two.  Two steps write more than one
record of the device's own profile, which nobody else reads in between: `join` and
`decline`; `join_cut` and `decline_cut` are the same commands cut off between those
writes, with the request still there, and `decline`'s ack may fail unnoticed.  A
Commit is a record of who
built it on what; cryptography enters only as: a Commit applies to the state it
was built on, a message decrypts once in the epoch it was encrypted in, a
Welcome is used once.

An inbox run's effects are taken one envelope at a time, always the first one
that is usable; what a run leaves alone changes nothing.  Limits and grace
periods are `Inbox`'s.

### Inbox

One device and its queue; the other members, its own unresolved Commits
(`leave_own`, `resume_own`) and the clock are the environment.  `fetch` takes
the pages behind the cursor and the loop's branches are one action each.  An
envelope's id is its place in the server's order, and a late one may appear before
others that are visible already.  `finish` saves tracker and cursor; the tracker's
write may fail unnoticed.  `die` is a run cut off anywhere, or one that returns
the error of an envelope or of the cursor's write: the tracker may then be saved
without the cursor.  `fetch_fails` is a fetch that fails behind the cursor, which
is cleared.

A Commit may remove this device (`peer_removes`).  Applying it deletes the MLS
state and keeps the conversation's record (`evicted`).  The server's member row
stays too, so the device goes on seeing the group: messages are then skipped, not
tracked, and defer the window; Commits are refused, counted and, after the grace,
acked.  A peer may add the device again (`peer_adds`); the Welcome is kept as a
request, and `accept` joins the epoch of that add, or the request expires.

Group conversations and strangers only; storing a message is one step here
(`GroupClient` has its two).  Left out: Proposals, own echoes, ephemeral messages,
pair conversations, the Welcome phase but for that request, declining it, a second
re-add or a superseding Welcome, a state that disagrees with its record (the same
answers as no state), and the tracker's age and size limits.

## 3. Runs

| Run | Instance | Result |
|---|---|---|
| `region_forward` | 2 tasks, 2 calls each, 1 retry, threshold 2, 2 ticks open | holds |
| `delivery` | 2 devices, one of them polling with pages of 1, 2 workers, 2 envelopes in any order of stamps | holds |
| `membership` | 3 devices, 2 groups, 2 workers, caps of 1, 4 rows | holds |
| `revocation_sessions` | 2 devices (one to restore), 2 workers, 2 logins | holds |
| `revocation_records` | 1 device, 1 group, 2 workers, 2 items, 1 Commit | holds |
| `revocation_leak` | 1 device, 2 workers, 2 logins | violated: the finding of section 6 |
| `media` | 2 devices, 2 blobs, 1 request at a time, 2 replicas, pages of 1, quota of one blob, 1 upset | holds |
| `orphan_sweep` | 2 environments, 4 keys, pages of 2, sample of 3, caps of 1 and 2 | holds |
| `profile_store` | 1 record name, 2 passwords, 1 content, 1 random bundle, 1 lost fsync | holds |
| `group_client` | 3 devices, 2 Commits, 1 message per device and epoch, 5 envelopes, 1 upset | holds |
| `inbox` | 1 group with Commits of our own, which the device is removed from and added to again, 3 envelopes, window of 2, 1 per conversation, 2 per run, 1 stored, 1 upset | holds |
| `inbox_reach` | the same without Commits of our own | holds |

What the passing runs show:

* `AppliedAtMostOnce`, `OkMeansStored`: no loss, delay or retry makes a
  forwarded Commit count twice, and an Ok is never the answer to somebody
  else's Commit.  `OpenOnlyAfterThreshold`: the breaker opens on evidence only.
  `CircuitCloses`: it never stays open for good.
* `OwedIsStored`: concurrent acks with stale member lists never delete what
  another member has still to read.
* `EpochConsumedIffStored`, `CommitsInEpochOrder`, `LedgerRefines`: across lost
  races and rollbacks the epoch is the number of accepted Commits, and the ledger
  implements `CommitLog`.  Pollers get Commits in the order they must apply them
  although a Commit is stamped before it wins its epoch, unless the clock that
  stamped the later one was behind the other's.
* `GapsAreLateSaves`: paging itself loses nothing.
* `RemovedStaysOut`, `OneSeat`, `DeviceCap`, `GroupCap`: removal is final
  against racing accepts, a device has one seat per group, and the caps hold at
  their limit with adds in flight.
* `SurvivorsAreExplained`: a session outlives its device only because the
  revocation was cut off, the cache refused a deletion, another login's clean-up
  dropped the token from the index, or the index expired first because the
  token's login could not renew its TTL; the login race itself is closed.
* `DoomedPackagesGone`, `RemindersOutliveDevice`: wherever a revocation stops,
  if the device row is gone then so are the KeyPackages it had, and the
  reminders for the groups found are written.
* `UnackedIsKept`: two sweeps at once, stale member lists and deletions between
  a page and its use never cost a member a blob it has not acked (but for
  members who joined after the list was read).  `OrphansAreLate`: deleting the
  object before the row leaves no object behind but those stored too late.
  `QuotaHolds`: deleting does not give quota back (the run has one request at a
  time; by how much several may overshoot is shown by the theorem).  `AckedIsCollected`: blobs
  that stay do not hide those that can go, and no failure or lost lock stops the
  collection for good.
* `OneOwner`: of two environments that find a prefix unclaimed one wins, and its
  marker, which is listed and grows old like any object, is never swept.  `NamedIsKept`: a sweep never takes an object its own
  database names.  `BlastRadius`: against an emptied or a foreign database a
  sweep stops within its caps.
* `NeverRefused`, `AckedIsKept`: whatever step a failed write, a kill or a power
  loss interrupts, in a put, a remove, an upgrade, a rekey or the recovery of one,
  the store opens and holds what was acknowledged, with one exception: a power loss
  that undoes a rename whose fsync failed or was never reached, after a process has
  gone on from it (`torn`; section 6).  `OldPasswordRetired`: once a password
  change is acknowledged nothing left on the disk opens with the old one.
  `RecoverySlotKept`: no rekey or password change loses the recovery slot.  Both
  without the exception.
* `NoFork`: whatever is lost or interrupted, a device's state is the ledger's
  for its epoch.  `NotStranded`: a device behind the ledger still has the next
  Commit in its queue, or its own in its record.  `ResumeNeverRefused`,
  `WelcomeNeverLost`: an accepted add can be resumed from any crash and its
  Welcome is not forgotten.  `SpentIsStored`, `KeysAreFresh`: a receive key is
  spent only once the plaintext is on disk, and a send key is used once.
* `NotOvertaken`: limits, full stores, held envelopes and dying runs never let a
  Commit pass a message it makes unreadable, the Commit that removes the device
  included.  `GivenUpIsUseless`: of what came in order, the junk tracker acks
  nothing that could still be used.  Both exempt the Commits refused while the
  device was out of the group and, once it has joined again, what builds on them:
  section 6 (`PendingRequestHeld`).  `AllAreReached`: the cursor and its hops hide
  nothing for ever, unless the store is full, a message of an evicted conversation
  is in the queue, or a Commit of our own is unresolved.

Why the bounds are enough for these questions.  Races on the server are between
two transactions over one row, and two workers give each pair; the properties of
`Delivery` are proved for any number (section 5), and the run shows that the
model reaches them.  Caps of one are reached, evicted and refused within four
rows.  Two calls per task let a late attempt of the first meet the second, and
two failed calls reach the threshold.  Two logins let one session issue the
revocation that the other login races.  Two blobs are a page that stays and one
behind it, or an upload at the quota's limit after a deletion; two replicas with
one upset are the two sweeps a lost lock allows.  Four keys fill two pages and
cross the sample size.  One record beside the two internal ones makes every step
of a put, a remove and a rekey; kills and power losses are not bounded, but one of
them, or of the failed fsyncs, may leave renames behind that a later process goes on
from (`MaxLost`).  One random bundle is a fresh store, or the rekey of a derived
one (3.9 million states).  Two Commits are an add and its
race, a removal, or a second add.  Three envelopes exceed the inbox's window and
its limits by one; they are also a removal, the re-add and the Commit after it.  A
window of two never holds two messages and their Commit, so that the cap of a
conversation keeps a Commit back within one window is shown by the theorem and by
the larger instances below.  One message per device and epoch (`MaxSends`) lets a
send key be used twice only by entering an epoch twice; the theorem has any
number.  Larger instances explored without a run of their own:
the safety properties of `Media` with two requests, which may then both read the
quota before either is saved (8.1 million states up to their symmetry);
those of `Inbox` with a window of three and two messages per conversation, for five
envelopes without eviction (3.5 million states) and four with it, and
`AllAreReached` for the same window with four envelopes and no eviction; and
`ProfileStore` with two random bundles, so that a fresh store is rekeyed (10
million states).

Every action fires in some passing run.  Bounds on counters (`MaxCalls`,
`MaxEnvelopes`, `MaxRows`, `MaxLogins`, `MaxItems`, `MaxEpoch`, `MaxVer`,
`MaxBundle`, `MaxLost`, `MaxCommits`, `MaxSends`, `MaxUpsets`) are guards of the actions
that count; when they are used up a behaviour may stop, hence
`CHECK_DEADLOCK FALSE`, except for `ProfileStore`, which can always go on.

Symmetry is declared for workers, and for devices and groups where they are
interchangeable, in runs that check safety only.  `Media` orders its replicas
instead: of two idle ones the first ticks.

## 4. Fairness

`RegionForward`: `WF_forwardVars(Tick)`, that is, time passes.  `is_open` compares the
clock with `open_until`, so nothing else is needed for an open circuit to close;
no task, message or server is assumed to make progress.

`Media`: `WF_vars(\E r \in Replica : Collect(r))`.  `main.rs` ticks its interval
for ever in every replica, and statements and R2 calls answer or run into the
job's timeout; that the collection of some replica goes on is all that is
assumed.  Requests, clients and time are not assumed to do anything.

`Inbox` (`FairSpec`): `WF_vars(Work)`, the user runs `inbox` again and a run goes
on, and `SF_vars(tick)`, time passes between runs (a tick is disabled during
one).  Without either nothing need ever be read.

The other specifications state none: their properties are safety properties, and
the server guarantees no request's completion.

## 5. Proofs

The modules named `...Proofs` prove, for all sets of tasks, devices, workers,
replicas and environments and for all bounds, from the named assumptions on the
constants alone.  Those say that bounds are naturals, caps positive, and markers
such as `NoDevice` and `None` are nothing else, and for the quota that blobs,
sizes and requests in flight are finite in number (`ForwardAssumption`,
`DeliveryAssumption`, `PollerAssumption`, `MembershipAssumption`,
`SweepAssumption`, `RevocationAssumption`, `MediaAssumption`,
`GroupClientAssumption`, `StoreAssumption`, `InboxAssumption`, and the
`NoneAssumption`s of `Media`, `GroupClient` and `ProfileStore`).

| Theorem | Statement |
|---|---|
| `DeliveryProofs!ForwardTypeCorrect` | `ForwardSpec => []ForwardTypeOK` |
| `DeliveryProofs!AtMostOnce` | `ForwardSpec => []AppliedAtMostOnce` |
| `DeliveryProofs!OkIsStored` | `ForwardSpec => []OkMeansStored` |
| `DeliveryProofs!OpensOnEvidence` | `ForwardSpec => []OpenOnlyAfterThreshold` |
| `DeliveryProofs!TypeCorrect` | `Spec => []TypeOK` |
| `DeliveryProofs!NoDeliveryIsLost` | `Spec => []OwedIsStored` |
| `DeliveryProofs!EpochsAreCommits` | `Spec => []EpochConsumedIffStored` |
| `DeliveryProofs!CommitsAreOrdered` | `Spec => []CommitsInEpochOrder` |
| `DeliveryProofs!LedgerImplementsLog` | `Spec => LedgerRefines` |
| `DeliveryProofs!PagesLeaveNoGap` | `PollSpec => []GapsAreLateSaves` |
| `MembershipProofs!TypeCorrect` | `Spec => []TypeOK` |
| `MembershipProofs!RemovalIsFinal` | `Spec => []RemovedStaysOut` |
| `MembershipProofs!SeatsAreUnique` | `Spec => []OneSeat` |
| `MembershipProofs!DeviceCapHolds` | `Spec => []DeviceCap` |
| `MembershipProofs!GroupCapHolds` | `Spec => []GroupCap` |
| `OrphanSweepProofs!SweptByOne` | `Spec => []OneOwner` |
| `OrphanSweepProofs!DamageIsBounded` | `Spec => []BlastRadius` |
| `OrphanSweepProofs!NamedObjectsStay` | `Spec => NamedIsKept` |
| `RevocationProofs!TypeCorrect` | `Spec => []TypeOK` |
| `RevocationProofs!PackagesGoFirst` | `Spec => []DoomedPackagesGone` |
| `RevocationProofs!RemindersStand` | `Spec => []RemindersOutliveDevice` |
| `RevocationProofs!SurvivorsHaveReasons` | `Spec => []SurvivorsAreExplained` |
| `MediaProofs!NoOtherOrphans` | `Spec => []OrphansAreLate` |
| `MediaProofs!CollectedIsAcked` | `Spec => UnackedIsKept` |
| `MediaProofs!QuotaBounds` | `Spec => []QuotaHolds` |
| `GroupClientProofs!TypeCorrect` | `Spec => []TypeOK` |
| `GroupClientProofs!EpochsAreTheLedgers` | `Spec => []NoFork` |
| `GroupClientProofs!AddsCanBeResumed` | `Spec => []ResumeNeverRefused` |
| `GroupClientProofs!WelcomesAreKept` | `Spec => []WelcomeNeverLost` |
| `GroupClientProofs!NobodyIsStranded` | `Spec => []NotStranded` |
| `GroupClientProofs!PlaintextsAreKept` | `Spec => []SpentIsStored` |
| `GroupClientProofs!KeysAreUsedOnce` | `Spec => []KeysAreFresh` |
| `ProfileStoreProofs!SlotSurvives` | `Spec => [](~torn => RecoverySlotKept)` |
| `ProfileStoreProofs!RetiredOpensNothing` | `Spec => [](~torn => OldPasswordRetired)` |
| `ProfileStoreProofs!NeverRefusedHolds` | `Spec => []NeverRefused` |
| `ProfileStoreProofs!AckedRecordsKept` | `Spec => []AckedIsKept` |
| `InboxProofs!NoneOvertaken` | `Spec => []NotOvertaken` |
| `InboxProofs!OnlyUselessGivenUp` | `Spec => []GivenUpIsUseless` |

Hardly any of the properties is inductive as it stands; these are the
strengthenings they rest on.

*`RegionForward`.*  All attempts of a call carry the same expected epoch, and a
stored Commit's epoch is that of its call plus one and not above the group's
(`CallsAreUniform`).  The compare-and-swap leaves the epoch past the expectation
of the Commit it accepted, so a second attempt of the same call can never match
again.  `OkIsStored` follows the acceptance from the server's reply to the
outcome: whoever has been told "accepted" has its own Commit stored
(`AcceptedIsStored`).

*`Delivery`.*  `IInv` adds
`IdsAreFresh` (an envelope still on its way to the tables shares its id with no
row, ack or other request), `LedgerFrames` (a request inside the ledger was
built on an epoch no greater than the current one and stamped after every
Commit up to that epoch; at most one holds the group's row, and its expectation
is the current epoch), `LogShape` (accepted Commits have increasing ids but for
the pairs in `skewed`, and a stored Commit is the log's entry for its epoch) and `OwedShape` (who can be owed
an envelope, and: whoever is owed the envelope of an ack in flight is in that
ack's list of required members).  The last is the heart of `NoDeliveryIsLost`:
the list is stale, but it can only be too long for those who were members when
the envelope was stored, because a device that joins later is not owed it.
`CommitsAreOrdered` needs that a Commit is stamped after the winner of the
epoch it expects; that is why `send_commit` may only expect an epoch whose
Commit its sender has seen; then only a clock that is behind can put it in
front of that winner.  The refinement maps the stored Commits to `stored` and
the ledger's transaction to one step of `CommitLog`, taken by `insert_commit`;
all other actions leave the epoch alone and at most take Commits away.

*`Poller`.*  On top of `IInv`, which every poller step keeps: whatever is owed to a
device is among its pending rows, a page is a prefix of those behind the cursor,
and it has a last row (the envelopes are finite, since their ids are).  So every
row between the old cursor and the new one was in the page.

*`Membership`.*  `IInv` says what a transaction in flight may rely on: the row an
accept has locked is still pending, the seat an add found free is free at its
INSERT, and a row a removal must end is a member's or locked by the removal after
its first DELETE; each because two transactions never hold one lock (`Exclude`).
`CapInv` adds the room: what an eviction left, or a count found, is still there
when the INSERT runs.  The counting lemma behind it: at most n rows of a finite
set have fewer than n newer ones.

*`OrphanSweep`.*  A trusted sweep is the owner's, the marker is on a page but never
among what a sweep is about to delete, and what a sweep is about to delete has no row in its own
database.  `Counted` carries the run's totals from page to page.

*`Revocation`.*  Three strengthenings beside the types.  `DoomInv`: ids are handed
out once, and past `delete_by_device` no KeyPackage of the request's fence is left.
`RemindInv`: a revocation has reminded each group it has visited.  `SurvivorInv`:
every issued token of a device whose row is gone is still to be visited by the
revocation that deleted it, or its survival is one of the four known ones; a
login past `set_add` finds its token listed, unless its session has ended.

*`Media`.*  `GcOK` follows one candidate through a collection: its row is as the
page returned it or gone, the members it requires are those the collection read
or joined since, and once the object has gone, an object that is there came
later (`Passed`), which is also what a delete's second half relies on.
`QuotaInv` adds up, for a device, what it uploaded today and what its requests
have passed the quota check with and not saved yet: when a request passes, the
sum is within the quota but for the requests that passed before it, each with at
most the largest size.  The sum is a fold over a finite set; that it is the sum,
and what adding, dropping or changing a term does to it, is proved by taking a
smallest set for which it fails.  The run has one request at a time; the theorem
has any number.

*`GroupClient`.*  In three layers.  `StateInv`: every Commit in a group state, a
queue or a Welcome is the ledger's for its epoch (`Known`), and a record, the
staged Commit and the command's place agree (`RecOK`, `StagedOK`, `WorkOK`); it
gives `NoFork` and `ResumeNeverRefused`.  It needs the second layer, `WireInv`, at
one step: a posted Commit is not in the ledger yet and its author still has record
and staged state (`WireOK`), so that what is accepted is what will be merged.
`WireInv` also has each epoch's debt: an add's Welcome is stored, or the record has
it (`DebtOK`, `FateOK`).  The third, `StayInv`, is about time: epochs are entered
in order within a stay, every stay begins with a Welcome whose KeyPackage is used
up (`Rooted`), so an epoch once left is never entered again (`Left`, lemma
`LeftStays`).  Hence who acked a Commit or built on it is past the epoch before
(`AckOK`, `OwnOK`), which gives `NotStranded`; who encrypted in an epoch is past it
or has its ratchet as far (`SentOK`, `FreshOK`), which gives `KeysAreFresh`; and a
used receive key is that of a stored message, with the last, which gives
`SpentIsStored`.

*`ProfileStore`.*  The invariant speaks of every value an entry may fall back to.
`KeyInv`: each key file the disk may show has a password and a slot the callers
know of, and a derived bundle only under `FirstPw`; outside the two steps that
write the first key file, either all of these values are a key file or none is.
`DeleteInv`: a store file that is gone is durably gone, except between a delete
and its fsync; this is what lets an open trust the directory it lists.
`StagingInv`: a staged key file is seen only while the rekey that staged it is
under way.  `HandleInv` ties the handle to the key file: its bundle is the key
file's, or the derived one while an older store has none; a handle of another
bundle has seen that no derived record is left.  `RetiredInv` closes a corner: a
fresh store under another password whose first key file may still be lost has
nothing else on disk, so an upgrade under `FirstPw` cannot begin there.

`KeptInv`, on top of it, is about records.  `StoreInv`: without a journal, every
choice of one value per entry is a store that opens to what was acknowledged
(`PlainStore`); with one, the journal's bundle and the staged files restore it
(`JournalStore`).  Entries fall back independently, so both speak of all values
of one entry and relate at most the manifest and one record: a record that is
still open is the manifest's pending one, in its old or its new state.
`StableInv`: at which steps an entry may still fall back at all.  `StagedInv`: when
the journal is written, a complete store of the new bundle is staged.  `RollInv`:
how far a roll-forward has come.  `OpenInv`, `MutateInv` and `MigrateInv` tie what the running call has read, or will write next, to what the
disk holds.  `NeverRefused` and `AckedIsKept` both follow from it.

All this speaks of `dur`, and is preserved by every step but a power loss that
brings back a value of `stale`: `Intact` holds until `torn`, and nothing is claimed
of records afterwards.  `RecoverySlotKept` and `OldPasswordRetired` speak of the
stale values too, which are still there to come back: `StaleInv` says that every
stale key file is one the store may be left with, and that a derived record is
stale only while `FirstPw` still opens the store.  The two are proved up to `torn`
as well; TLC finds them to hold without it.

*`Inbox`.*  `LedgerOK`: every epoch up to the peers' has its Commit, stamped once,
or is the one our own unresolved Commit leads to; so an envelope ahead of the
epoch held builds on a Commit not applied yet.  `BehindOK` and `HandledOK`: an
envelope that is still queued behind the cursor, or behind the run's place in
its window, is one the held epoch cannot read, unless its conversation is
blocked for this run, and then the cursor will not move.  If all that an envelope
builds on came in order, the missing Commit was met before it, and only our own
Commit can have kept that one.  `OrderOK`: no Commit of the window stands before
an earlier envelope, those held for a Commit and put back included.  `SeatOK`:
while the device is out it holds the epoch of the Commit that removed it, and a
re-add it can still join comes after that; so joining skips only epochs it was not
in, what it had refused up to there is past, and of the Commits refused only those
after the re-add cost anything (`refused`).  The clock
and the counts of the junk tracker are not used: what it protects is what comes
out of order.  That every finite set of stamps has an ascending enumeration (the
window of `fetch`) is proved from a smallest set without one.

The proof changed both properties.  They used to exempt envelopes stamped before
a Commit they build on; with one attempt per run, or five envelopes, TLC found
that this is not enough: a Commit that becomes visible behind the cursor leaves
what builds on it ahead for as long as capped runs keep the window, and when the
grace is over the envelope is acked although the head scan would have found the
Commit.  `Disordered` exempts both kinds.

Only model-checked, since out of the prover's reach: `CircuitCloses`,
`AckedIsCollected` and `AllAreReached` (liveness under fairness).  So are
statements about ENABLED, and what a recursive definition computes for every
input.  No module uses a RECURSIVE operator.

## 6. Findings

`revocation_leak` (`RevokedHasNoSession`).  A login that finds its device gone
deletes the device's whole session index.  Between revocation's row delete and
its reading of the index this drops the other live tokens: `revoke_device`
returns Ok and they stay valid until `SESSION_TTL`, although
`auth_service.rs:671` says "Immediately invalidate all active sessions for the
revoked device".

### Stated but not held

These definitions say what a comment or a port says; the models refute them, and
the modules keep them, marked "Does not hold", beside the weaker property that
does hold.

* `RegionForward!OpensAtThreshold`.  `circuit.rs:5` describes the breaker as
  closed, open after the threshold, closed after the open period.
  `record_failure` sets `open_until` only while it is `None`, and only a success
  sets it back, so after the first period no number of failures opens the
  circuit again.
* `Delivery!DeletedWhenAllAcked`.  The port promises deletion "iff" all members
  acked.  Two last acks in concurrent transactions do not see each other,
  neither deletes, and nobody will ack again: the envelope stays until it
  expires.
* `Delivery!CommitsNeverReversed`.  `useMessages.ts:35` has a group's Commits and
  messages "always processed in the server's delivery order", which is to be the
  order of their epochs.  `created_at` is the clock of the instance that ran the
  request, and nothing bounds how far two instances' clocks are apart: a Commit
  stamped by a clock that is behind is delivered before the one it builds on.
* `Poller!BehindCursorIsSeen`.  `useMessages.ts:1250` assumes that everything up
  to the last fetched envelope has been seen.  An envelope is stamped before it
  is inserted; one inserted late lies behind the cursor and stays unseen until
  the cursor is reset.
* `Revocation!DoomedInvitesGone`.  `revoke_invites_for_device` reads the index
  and later deletes the whole key.  An invite indexed in between loses its
  entry; no later pass finds it.
* `Media!CeilingHolds`.  `media_service.rs:30` calls the retention a ceiling "for
  blobs that are never fully acknowledged"; `run_gc_batched` deletes acked blobs
  only, so one that a member never acks stays while that member stays.
* `GroupClient!UnresolvedIsResolvable`.  The `gadd-` record is kept so that "a
  later resolver" can compare it with the stored Commit.  There is no resolver,
  and the sender's inbox acks its own Commit as an echo, so an add or remove
  with an unknown outcome blocks the group on this device for good.
* `GroupClient!JoinerCatchesUp`.  A pending member is not among those whose acks
  a Commit needs.  A Commit made between the Welcome and the acceptance can be
  deleted before the joiner is a member, who then stays in the Welcome's epoch.
* `Inbox!HeldIsReadLater`.  A message held for our own accepted but unmerged
  Commit keeps the cursor for `AHEAD_PIN`; afterwards the cursor may pass it, and
  once the Commit is merged a later Commit is applied before the head is scanned
  again.  The comment at `inbox.rs:437` says it is revisited.
* `Inbox!PendingRequestHeld`.  A device is removed from a group: its MLS state is
  deleted and the conversation's record kept (`group/commit.rs:70`).  It is added
  again, and the Welcome is kept as a request, for up to five days.  The group's next
  Commit is then not held for the request, since a record is there, but refused for
  want of a state (`group/commit.rs:51`), and after five failures and a day acked
  and gone (`inbox.rs:536`), against "unknown or pending-request groups: held and
  never" acked (`inbox.rs:509`).  `accept` afterwards joins an epoch the others have
  left, without the Commit that leads on.  (The server takes the add of a device
  whose member row is there as done, `group_repo.rs:288`, and nothing in
  `group remove` deletes that row.)
* `Inbox!ReachedPastEvicted`.  A message of a conversation without MLS state is
  skipped (`inbox.rs:709`): neither stored, acked nor timed, and the run counts as
  deferred (`inbox.rs:413`).  One such message keeps the window where it is until
  the server expires it, and nothing behind the window is reached.
* `ProfileStore!NeverRefusedAtAll`.  The shortest way to a refusal: the fsync after
  a record's rename fails, `settle_pending` reads the record back and renames the
  settled manifest all the same, and a power loss keeps the manifest and undoes the
  record.  The next open refuses the store.

### Known gaps

The models reach these, or are kept from them by a stated assumption.

* `accept_pending` takes the group's row lock before the device's (foreign
  keys), against "device row, then group row, everywhere" (`group_repo.rs:251`);
  with an add of the same device, Postgres aborts one of the two.
* An upload that passed its session check may store a KeyPackage after
  `delete_by_device`; the table has no foreign key to stop it.
* A group joined between revocation's listing and the row's deletion gets no
  reminder.
* A reminder left by a failed revocation keeps its epoch (`DO NOTHING`), so a
  later, successful revocation may find it sweepable at once.  The sweep is off
  by default.
* `set_expire` on the session index may fail unnoticed (`auth_service.rs:484`).
  The index then expires before a session it lists, against "so it outlives any
  session it tracks" (`auth_service.rs:36`), and revocation does not find it.
* A cache failure after a recovery device was saved is answered 401, which
  `powehi-cli` reads as "nothing was minted" (`auth.rs:514`).
* Devices, KeyPackages, invites and a day's media are counted before they are
  inserted.  The code calls the caps soft; the comment on invites says the
  limiter never lets the cap be exceeded.
* One failing R2 delete ends a collection, and the next starts at the lowest id
  again: a blob that always fails keeps all behind it.  `AckedIsCollected` holds
  because failures are bounded.
* The deletion of a device cascades to the rows of its blobs, acked or not; the
  objects are left to the orphan sweep.
* On a store that ignores `If-None-Match` the read after the claim does not
  separate two owners: both can read their own marker in turn, although the
  comment at `powehi-r2/src/lib.rs:344` relies on it.
* Profile store, with an fsync that failed or was never reached and a power loss
  that undoes its rename later (`torn`).  Besides the refusal above: a retried rekey
  can find a journal older than its staging directory; a remove whose unlink failed
  can take effect later; and a fresh store can keep a manifest without its key file.
* A group message whose epoch check passed may be stored after a Commit, and is
  then unreadable.  A device's own add or remove merges without reading the
  inbox first, with the same effect on what was waiting.
* A creator who was removed can never rejoin (`ensure_resumable`).
* A full store defers the inbox's window and counts no hop, so the bound of
  `cursor.rs:18` does not hold while it stays full; a message of an evicted
  conversation does the same; messages held for our own unresolved Commit use up
  the conversation's cap.  `AllAreReached` exempts all three.
* An envelope stamped before a Commit it builds on (clocks of two servers) can
  be acked at the end of its grace in the very run that then applies the Commit;
  one that builds on a Commit that became visible behind the cursor, before the
  head is scanned again (`Inbox!Disordered`).
* `RegionRouter::forward_commit` is called by no use case yet; the messaging
  service commits locally.

## 7. Plan

Done: `RegionForward`, `Delivery` with `CommitLog`, `Poller`, `Membership`,
`Revocation`, `Media`, `OrphanSweep`, `ProfileStore`, `GroupClient`, `Inbox`,
and the proofs of section 5, which cover every safety property a passing run
checks.

Models that would add most next: `forward_envelope` and membership sync
composed with `Delivery`; the KeyPackage pool with its cross-region consume;
pair conversations once `pcs::rotate` is called; `register_finish`'s replay
record.

## 8. Not modelled

Cryptography (OPAQUE, MLS, KEM, recovery phrases) and the WASM bindings: their
callers' reliance on them is taken as given, and so is the single use of a
login nonce.  REST routing, rate limits, headers, configuration, telemetry and
generated protobuf: no state the properties speak of.  Web push and the
WebSocket hub: best-effort hints beside the queue that the clients poll.  Abuse
signals: no state that another part reads.  User interfaces, attachments and
certificate pinning.  The web app's worker, commit lock and database: the order
they enforce is the command-line client's, which is modelled.  `PROJECT.json`
gives the reason part by part.
