---------------------------- MODULE ProfileStore ----------------------------
(***************************************************************************)
(* The encrypted profile store of the command-line client: a directory of  *)
(* record files listed by a manifest, a key file that wraps the store's    *)
(* key bundle, the conversion of older stores, and the rekey of an         *)
(* upgraded store through a staging directory and a roll-forward journal   *)
(* (crates/client/powehi-cli/src/store.rs, store/manifest.rs,              *)
(* store/keys.rs, store/rekey.rs).                                         *)
(*                                                                         *)
(* One process holds the profile lock, so there is one thread of steps.    *)
(* What interleaves with it is failure: any file operation may fail, an    *)
(* fsync of the directory among them, the process may be killed, and a     *)
(* power loss keeps, for every directory entry on its own, any value it    *)
(* had since the directory was last fsynced.  File contents are fsynced    *)
(* before they are renamed into place, so an entry never shows half a      *)
(* file.                                                                   *)
(*                                                                         *)
(* A file's bytes are its content number; equal numbers stand for equal    *)
(* hashes.  A record's tag is the pair of the bundle it is keyed with and  *)
(* its name, since tags of two bundles are unrelated.                      *)
(***************************************************************************)
EXTENDS Naturals, FiniteSets, Sequences

CONSTANTS
    UserNames,   \* the names of the caller's records
    MARKER,      \* internal record: the PHS1 import window is shut
    LATCH,       \* internal record: the store has had a manifest
    Passwords,   \* export keys
    FirstPw,     \* the export key an older store was keyed with
    None,        \* no file, no entry, no pending mutation
    MaxVer,      \* bound: contents written by put are 1 .. MaxVer
    MaxBundle,   \* bound: random bundles are 1 .. MaxBundle
    MaxLost      \* bound: how often renames are left without their fsync

Names == UserNames \cup {MARKER, LATCH}

ASSUME StoreAssumption ==
    /\ FirstPw \in Passwords
    /\ MARKER # LATCH /\ {MARKER, LATCH} \cap UserNames = {}
    /\ None \notin UserNames \cup {MARKER, LATCH}
    /\ MaxVer \in Nat /\ MaxBundle \in Nat /\ MaxLost \in Nat

Derived == 0                       \* the bundle derived from FirstPw
Bundles == 0 .. MaxBundle
Contents == 0 .. MaxVer            \* 0: written before this version, or internal
Recovery == "recovery"

Tag(b, n) == <<"rc2", b, n>>
Legacy(n) == <<"rec", n>>
ManifestFile == <<"manifest">>
KeysFile == <<"keys">>
Journal == <<"journal">>
Staging == <<"staging">>

Tags == {Tag(b, n) : b \in Bundles, n \in Names}
Files == Tags \cup {Legacy(n) : n \in UserNames}
              \cup {ManifestFile, KeysFile, Journal, Staging}

VARIABLES
    fs,       \* fs[f]: what the profile directory (dir) and the staging
              \* directory (stg) hold under f now; fs[Staging].dir is the
              \* bundle the staging directory was made for
    dur,      \* dur[f]: the values f had since the last fsync of the running
              \* process, or since it started
    stale,    \* stale[f]: the older ones the disk may still hold, since an fsync
              \* failed or a process died before its fsync
    lost,     \* how often that happened
    torn,     \* history: a power loss brought such an older value back
    pc,       \* the step of the running call; "closed" without a handle,
              \* "open" between calls
    h,        \* the handle (and the arguments of the open that builds it)
    todo,     \* the record mutations the running call still has to make
    ret,      \* the step after the last of them
    err,      \* the apply step of the running mutation failed
    ver,      \* contents used so far
    nextB,    \* random bundles used so far
    \* What callers were promised.
    promise,  \* promise[n]: the contents a reader of n may find
    okPw,     \* the passwords that may be the store's
    okRc,     \* a recovery slot was acknowledged
    keyed,    \* some open of this store has succeeded
    refused   \* an open with the right credentials was refused

disk == <<fs, dur, stale, lost, torn>>
call == <<todo, ret, err>>
promises == <<promise, okPw, okRc, keyed>>
vars == <<fs, dur, stale, lost, torn, pc, h, todo, ret, err, ver, nextB, promise,
          okPw, okRc, keyed, refused>>

-----------------------------------------------------------------------------
(* The file system. *)

\* What f may be after a power loss.
MayBe(f) == dur[f] \cup stale[f]

Absent == [dir |-> None, stg |-> None]
InDir(f) == fs[f].dir
Staged(f) == IF InDir(Staging) = None THEN None ELSE fs[f].stg

\* The directory entries become `new`; until the next fsync each entry that
\* changed may fall back to any value it had.
Touch(new) ==
    /\ fs' = new
    /\ dur' = [f \in Files |-> dur[f] \cup {new[f]}]
    /\ UNCHANGED <<stale, lost, torn>>

\* atomic_write: a synced temporary file renamed onto f.
Rename(f, v) == Touch([fs EXCEPT ![f].dir = v])

\* The entries as they are now are where the next renames start from.
Flush ==
    /\ dur' = [f \in Files |-> {fs[f]}]
    /\ UNCHANGED <<fs, torn>>

\* File::open(dir).sync_all().
SyncDir ==
    /\ Flush
    /\ stale' = [f \in Files |-> {}]
    /\ UNCHANGED lost

\* The same, failing, or never reached: what was renamed since the last fsync that
\* succeeded is in the page cache, and the disk may hold the older entries.
LoseSync ==
    /\ Flush
    /\ stale' = [f \in Files |-> (stale[f] \cup dur[f]) \ {fs[f]}]
    /\ lost' = IF stale' = stale THEN lost ELSE lost + 1
    /\ lost' <= MaxLost

\* The staging directory goes with all it holds.
WithoutStaging(g) ==
    [f \in Files |-> IF f = Staging THEN Absent ELSE [g[f] EXCEPT !.stg = None]]

\* A directory entry that survived names the directory that was made for it:
\* files staged for another bundle are not in it.
Settled(g) ==
    [f \in Files |->
        IF /\ g[f].stg # None
           /\ g[Staging].dir # (IF f \in Tags THEN f[2] ELSE g[f].stg.b)
        THEN [g[f] EXCEPT !.stg = None] ELSE g[f]]

-----------------------------------------------------------------------------
(* Manifests, key files, journals. *)

NoEntries == [n \in Names |-> None]
Manifest == [b : Bundles, e : [Names -> Contents \cup {None}],
             p : {None} \cup [n : Names, old : Contents \cup {None}]]
KeyFile == [b : Bundles, pw : Passwords, rc : BOOLEAN]
JournalFile == [b : Bundles, new : [Names -> Contents \cup {None}],
                man : Manifest, old : SUBSET Tags]

ASSUME NoneAssumption ==
    /\ None \notin Manifest /\ None \notin KeyFile /\ None \notin JournalFile
    /\ None \notin [n : Names, old : Contents \cup {None}]
    /\ None \notin Contents /\ None \notin Bundles
    /\ Recovery \notin Passwords

\* The record files of bundle b, by name.
Found(b) == [n \in Names |-> InDir(Tag(b, n))]

\* Manifest::verify: every entry has its file and every file its entry, but
\* for the pending one, which may still be in its old state.
Verify(m, found) ==
    \A n \in Names :
        \/ found[n] = m.e[n]
        \/ /\ m.p # None
           /\ m.p.n = n
           /\ m.p.old = found[n]

\* unlock_password, unlock_recovery.
Unlocks(k, u) == IF u = Recovery THEN k.rc ELSE k.pw = u

NoHandle == [b |-> Derived, u |-> FirstPw, upgrade |-> FALSE, flow |-> "keyed",
             derived |-> FALSE, man |-> None, idx |-> {}, poisoned |-> FALSE,
             imported |-> FALSE]

\* What the profile directory may hold before this version first opens it:
\* nothing, plain-named PHS1 records, or PHS2 records without a manifest.
FirstDirs ==
    LET empty == [f \in Files |-> Absent]
        old == [dir |-> 0, stg |-> None] IN
    {empty}
    \cup {[f \in Files |-> IF f \in {Legacy(n) : n \in ns} THEN old ELSE Absent] :
             ns \in SUBSET UserNames \ {{}}}
    \cup {[f \in Files |-> IF f \in {Tag(Derived, n) : n \in ns \cup {MARKER}}
                           THEN old ELSE Absent] : ns \in SUBSET UserNames}

Init ==
    /\ fs \in FirstDirs
    /\ dur = [f \in Files |-> {fs[f]}]
    /\ stale = [f \in Files |-> {}] /\ lost = 0 /\ torn = FALSE
    /\ pc = "closed" /\ h = NoHandle
    /\ todo = <<>> /\ ret = "closed" /\ err = FALSE
    /\ ver = 0 /\ nextB = 0
    /\ promise = [n \in UserNames |->
                     {IF 0 \in {InDir(Legacy(n)), InDir(Tag(Derived, n))}
                      THEN 0 ELSE None}]
    /\ okPw = {FirstPw} /\ okRc = FALSE /\ keyed = FALSE
    /\ refused = FALSE

-----------------------------------------------------------------------------
(* open: the interrupted rekey first. *)

Goto(l) == pc' = l /\ UNCHANGED <<h, todo, ret, err, ver, nextB, promise, okPw,
                                  okRc, keyed, refused>>

\* open, open_upgrading and open_with_recovery take the lock and recover.
Open(u, upgrade) ==
    /\ pc = "closed"
    /\ upgrade => u # Recovery
    /\ pc' = "recover"
    /\ h' = [NoHandle EXCEPT !.u = u, !.upgrade = upgrade]
    /\ UNCHANGED <<disk, call, ver, nextB, promises, refused>>

\* There is something to lose: the store has been opened, or holds records.
InUse == keyed \/ \E n \in UserNames : promise[n] # {None}

\* The open returns an error: `wrong` unless the caller should expect it.
Refuse(wrong) ==
    /\ pc' = "closed" /\ h' = NoHandle
    /\ todo' = <<>> /\ ret' = "closed" /\ err' = FALSE
    /\ refused' = (refused \/ (wrong /\ InUse))
    /\ UNCHANGED <<disk, ver, nextB, promises>>

\* The caller's password is the store's, or its phrase has a slot.
RightCredentials == IF h.u = Recovery THEN okRc ELSE okPw = {h.u}

\* recover without rekey.go: a staging directory is left over, and goes.
RecoverDiscards ==
    /\ pc = "recover"
    /\ InDir(Journal) = None
    /\ Touch(WithoutStaging(fs))
    /\ Goto("unlock")

\* rekey.go without a staging directory: the switch had finished.
RecoverFinished ==
    /\ pc = "recover"
    /\ InDir(Journal) # None
    /\ InDir(Staging) = None
    /\ Goto("jdrop") /\ UNCHANGED disk

\* The key file moves last: once it has, the profile's own copy is the staged one.
StagedKeys == IF Staged(KeysFile) # None THEN Staged(KeysFile) ELSE InDir(KeysFile)

\* verify_file: staged, or already moved, every file is the journaled one.
FileIs(f, v) == (IF Staged(f) # None THEN Staged(f) ELSE InDir(f)) = v

JournalVerifies(j) ==
    /\ j.b = StagedKeys.b
    /\ \A n \in Names : j.new[n] # None => FileIs(Tag(j.b, n), j.new[n])
    /\ FileIs(ManifestFile, j.man)

\* Nothing moves before the key file opens, the journal authenticates under
\* its bundle, and every staged file has its journaled hash.
RecoverVerify ==
    /\ pc = "recover"
    /\ InDir(Journal) # None
    /\ InDir(Staging) # None
    /\ IF StagedKeys = None THEN Refuse(RightCredentials)
       ELSE IF ~Unlocks(StagedKeys, h.u) THEN Refuse(RightCredentials)
       ELSE IF ~JournalVerifies(InDir(Journal)) THEN Refuse(TRUE)
       ELSE Goto("move") /\ UNCHANGED disk

\* move_in: the staged file replaces the profile's.
MoveIn(f) == Touch([fs EXCEPT ![f] = [dir |-> fs[f].stg, stg |-> None]])

Unmoved == {n \in Names : /\ InDir(Journal).new[n] # None
                          /\ Staged(Tag(InDir(Journal).b, n)) # None}

RecoverMovesRecord(n) ==
    /\ pc = "move" /\ n \in Unmoved
    /\ MoveIn(Tag(InDir(Journal).b, n))
    /\ Goto("move")

RecoverMovesManifest ==
    /\ pc = "move" /\ Unmoved = {}
    /\ IF Staged(ManifestFile) # None THEN MoveIn(ManifestFile) ELSE UNCHANGED disk
    /\ Goto("movekeys")

RecoverMovesKeys ==
    /\ pc = "movekeys"
    /\ IF Staged(KeysFile) # None THEN MoveIn(KeysFile) ELSE UNCHANGED disk
    /\ Goto("movesync")

\* The deletes rely on the moves having reached the disk first.
RecoverMovesSync ==
    /\ pc = "movesync" /\ SyncDir /\ Goto("drop")

\* drop_old_records: only what the journal lists.
RecoverDrops(t) ==
    /\ pc = "drop"
    /\ t \in InDir(Journal).old /\ InDir(t) # None
    /\ Rename(t, None)
    /\ Goto("drop")

\* Mutant: the staging directory goes while the deletes may still be lost.
RecoverDropsUnsynced ==
    /\ pc = "drop"
    /\ \A t \in InDir(Journal).old : InDir(t) = None
    /\ UNCHANGED disk
    /\ Goto("rmdir")

\* The deletes are durable before the staging directory goes.
RecoverDropsSync ==
    /\ pc = "drop"
    /\ \A t \in InDir(Journal).old : InDir(t) = None
    /\ SyncDir
    /\ Goto("rmdir")

RecoverRemovesStaging ==
    /\ pc = "rmdir"
    /\ Touch(WithoutStaging(fs))
    /\ Goto("jdrop")

RecoverRemovesStagingSync == pc = "jdrop" /\ SyncDir /\ Goto("jremove")
RecoverRemovesJournal == pc = "jremove" /\ Rename(Journal, None) /\ Goto("jremoved")
RecoverEnds == pc = "jremoved" /\ SyncDir /\ Goto("unlock")

-----------------------------------------------------------------------------
(* open: the key bundle, the index, the manifest. *)

HasStoreFiles ==
    \/ InDir(ManifestFile) # None
    \/ \E f \in Files \ {ManifestFile, KeysFile, Journal, Staging} : InDir(f) # None

UnlockKeyed ==
    /\ pc = "unlock"
    /\ LET k == InDir(KeysFile) IN
       /\ k # None
       /\ IF Unlocks(k, h.u)
          THEN /\ h' = [h EXCEPT !.b = k.b, !.flow = "keyed",
                                 !.derived = h.u # Recovery /\ k.b = Derived /\ h.u = FirstPw]
               /\ pc' = "load"
               /\ UNCHANGED <<disk, call, ver, nextB, promises, refused>>
          ELSE Refuse(RightCredentials)

\* No key file: a pre-PHS3 store is converted only when the user confirmed it,
\* and only under the password its keys derive from.
UnlockUpgrade ==
    /\ pc = "unlock"
    /\ InDir(KeysFile) = None
    /\ HasStoreFiles \/ h.u = Recovery
    /\ IF h.u = FirstPw /\ h.upgrade
       THEN /\ h' = [h EXCEPT !.b = Derived, !.flow = "upgrade", !.derived = TRUE]
            /\ pc' = "load"
            /\ UNCHANGED <<disk, call, ver, nextB, promises, refused>>
       ELSE Refuse(keyed)

UnlockFresh ==
    /\ pc = "unlock"
    /\ InDir(KeysFile) = None
    /\ ~HasStoreFiles /\ h.u # Recovery
    /\ nextB < MaxBundle
    /\ nextB' = nextB + 1
    /\ h' = [h EXCEPT !.b = nextB + 1, !.flow = "fresh"]
    /\ pc' = "fkeys"
    /\ UNCHANGED <<disk, call, ver, promises, refused>>

\* write_keyfile: a fresh store gets its key file before anything else.
FreshKeys ==
    /\ pc = "fkeys"
    /\ Rename(KeysFile, [b |-> h.b, pw |-> h.u, rc |-> FALSE])
    /\ okPw' = {h.u}
    /\ pc' = "fsync"
    /\ UNCHANGED <<h, call, ver, nextB, promise, okRc, keyed, refused>>

FreshKeysSync == pc = "fsync" /\ SyncDir /\ Goto("load")

\* The latch is written if the index lacks it; then the legacy files.
LatchThen(idx) ==
    /\ todo' = IF LATCH \in idx THEN <<>> ELSE <<[n |-> LATCH, v |-> 0]>>
    /\ ret' = "migrate"
    /\ pc' = IF LATCH \in idx THEN "migrate" ELSE "pend"

\* load_index, load_manifest.  A record of another bundle does not authenticate.
LoadManifest ==
    /\ pc = "load"
    /\ LET found == Found(h.b)
           idx == {n \in Names : found[n] # None}
           m == InDir(ManifestFile) IN
       IF \E b \in Bundles \ {h.b}, n \in Names : InDir(Tag(b, n)) # None
       THEN Refuse(TRUE)
       ELSE IF m = None
       THEN IF LATCH \in idx \/ (idx # {} /\ h.flow # "upgrade") THEN Refuse(TRUE)
            ELSE /\ h' = [h EXCEPT !.idx = idx]
                 /\ Rename(ManifestFile, [b |-> h.b, e |-> found, p |-> None])
                 /\ pc' = "adopt"
                 /\ UNCHANGED <<call, ver, nextB, promises, refused>>
       ELSE IF m.b # h.b \/ ~Verify(m, found) THEN Refuse(TRUE)
       ELSE IF m.p = None
       THEN /\ h' = [h EXCEPT !.idx = idx, !.man = m]
            /\ LatchThen(idx)
            /\ UNCHANGED <<disk, err, ver, nextB, promises, refused>>
       ELSE /\ h' = [h EXCEPT !.idx = idx, !.man = m]
            /\ pc' = "settledel"
            /\ UNCHANGED <<disk, call, ver, nextB, promises, refused>>

\* The first manifest of an adopted or a fresh store is durable before the latch.
AdoptSync ==
    /\ pc = "adopt"
    /\ SyncDir
    /\ h' = [h EXCEPT !.man = InDir(ManifestFile)]
    /\ LatchThen(h.idx)
    /\ UNCHANGED <<err, ver, nextB, promises, refused>>

\* settle_pending: a pending delete whose file is still there is completed.
SettleDeletes ==
    /\ pc = "settledel"
    /\ LET n == h.man.p.n
           again == h.man.e[n] = None /\ InDir(Tag(h.b, n)) # None IN
       /\ IF again THEN Rename(Tag(h.b, n), None) ELSE UNCHANGED disk
       /\ h' = [h EXCEPT !.idx = IF again THEN @ \ {n} ELSE @]
       /\ pc' = IF again THEN "settledsync" ELSE "settle1"
    /\ UNCHANGED <<call, ver, nextB, promises, refused>>

SettleDeletesSync == pc = "settledsync" /\ SyncDir /\ Goto("settle1")

\* The manifest is rewritten to match the files, without pending.
SettleWrites ==
    /\ pc = "settle1"
    /\ Rename(ManifestFile, [b |-> h.b, e |-> Found(h.b), p |-> None])
    /\ Goto("adopt")

-----------------------------------------------------------------------------
(* open: PHS1 files, the key file of an upgraded store. *)

LegacyNames == {n \in UserNames : InDir(Legacy(n)) # None}
ImportClosed == h.flow # "upgrade" \/ MARKER \in h.idx

\* import_legacy, unless the record exists or the window is shut.
MigrateImports(n) ==
    /\ pc = "migrate" /\ n \in LegacyNames
    /\ ~ImportClosed /\ n \notin h.idx
    /\ todo' = <<[n |-> n, v |-> InDir(Legacy(n))]>>
    /\ ret' = "migrate" /\ pc' = "pend"
    /\ UNCHANGED <<disk, h, err, ver, nextB, promises, refused>>

MigrateDeletes(n) ==
    /\ pc = "migrate" /\ n \in LegacyNames
    /\ ImportClosed \/ n \in h.idx
    /\ Rename(Legacy(n), None)
    /\ h' = [h EXCEPT !.imported = @ \/ ~ImportClosed]
    /\ pc' = "migsync"
    /\ UNCHANGED <<call, ver, nextB, promises, refused>>

MigrateDeletesSync == pc = "migsync" /\ SyncDir /\ Goto("migrate")

\* The marker shuts the window once every legacy file is dealt with.
MigrateEnds ==
    /\ pc = "migrate" /\ LegacyNames = {}
    /\ LET mark == h.imported /\ MARKER \notin h.idx
           after == IF h.flow = "upgrade" THEN "ukeys" ELSE "opened" IN
       /\ todo' = IF mark THEN <<[n |-> MARKER, v |-> 0]>> ELSE <<>>
       /\ ret' = after
       /\ pc' = IF mark THEN "pend" ELSE after
    /\ UNCHANGED <<disk, h, err, ver, nextB, promises, refused>>

\* An upgraded store gets its key file last, once every record authenticated.
UpgradeKeys ==
    /\ pc = "ukeys"
    /\ Rename(KeysFile, [b |-> h.b, pw |-> h.u, rc |-> FALSE])
    /\ Goto("usync")

UpgradeKeysSync == pc = "usync" /\ SyncDir /\ Goto("opened")

\* The caller has the handle.
Opened ==
    /\ pc = "opened"
    /\ pc' = "open"
    /\ keyed' = TRUE
    /\ UNCHANGED <<disk, h, call, ver, nextB, promise, okPw, okRc, refused>>

-----------------------------------------------------------------------------
(* put and remove. *)

\* A record is written behind the marker.
Put(n) ==
    /\ pc = "open" /\ ver < MaxVer
    /\ ver' = ver + 1
    /\ todo' = (IF MARKER \in h.idx THEN <<>> ELSE <<[n |-> MARKER, v |-> 0]>>)
               \o <<[n |-> n, v |-> ver + 1]>>
    /\ ret' = "open" /\ pc' = "pend"
    /\ promise' = [promise EXCEPT ![n] = @ \cup {ver + 1}]
    /\ UNCHANGED <<disk, h, err, nextB, okPw, okRc, keyed, refused>>

\* remove returns at once when the manifest does not list the record.
Remove(n) ==
    /\ pc = "open" /\ ~h.poisoned
    /\ h.man.e[n] # None
    /\ todo' = <<[n |-> n, v |-> None]>>
    /\ ret' = "open" /\ pc' = "pend"
    /\ promise' = [promise EXCEPT ![n] = @ \cup {None}]
    /\ UNCHANGED <<disk, h, err, ver, nextB, okPw, okRc, keyed, refused>>

Doing == Head(todo)
DoingTag == Tag(h.b, Doing.n)

\* The running call ends with an error.  An open that fails drops the handle.
CallFails ==
    /\ todo' = <<>> /\ err' = FALSE
    /\ pc' = IF ret = "open" THEN "open" ELSE "closed"
    /\ ret' = "closed"

\* mutate, first half: the manifest with the new state and the pending entry.
MutatePending ==
    /\ pc = "pend" /\ ~h.poisoned
    /\ Rename(ManifestFile,
              [h.man EXCEPT !.e[Doing.n] = Doing.v,
                            !.p = [n |-> Doing.n, old |-> h.man.e[Doing.n]]])
    /\ Goto("psync")

MutatePoisoned ==
    /\ pc = "pend" /\ h.poisoned
    /\ CallFails
    /\ UNCHANGED <<disk, h, ver, nextB, promises, refused>>

MutatePendingSync ==
    /\ pc = "psync"
    /\ SyncDir
    /\ h' = [h EXCEPT !.man = InDir(ManifestFile)]
    /\ pc' = "apply"
    /\ UNCHANGED <<call, ver, nextB, promises, refused>>

\* The record file is renamed into place, or removed.
MutateApply ==
    /\ pc = "apply"
    /\ Rename(DoingTag, Doing.v)
    /\ h' = [h EXCEPT !.idx = IF Doing.v = None THEN @ ELSE @ \cup {Doing.n}]
    /\ pc' = "async"
    /\ UNCHANGED <<call, ver, nextB, promises, refused>>

MutateApplySync == pc = "async" /\ SyncDir /\ Goto("settle")

\* The manifest without pending, for the file that is there.
SettledManifest ==
    [h.man EXCEPT !.e[Doing.n] = InDir(DoingTag), !.p = None]

Settle ==
    h' = [h EXCEPT !.man = SettledManifest,
                   !.idx = IF InDir(DoingTag) = None THEN @ \ {Doing.n}
                                                     ELSE @ \cup {Doing.n}]

\* The file is one the pending entry allows.
SettleAllowed ==
    \/ InDir(DoingTag) = Doing.v
    \/ err /\ InDir(DoingTag) = h.man.p.old

\* Mutant: the error of the apply step is dropped.
SettleDropsError ==
    /\ pc = "settle" /\ SettleAllowed
    /\ Rename(ManifestFile, SettledManifest)
    /\ Settle
    /\ todo' = Tail(todo)
    /\ pc' = IF Tail(todo) = <<>> THEN ret ELSE "pend"
    /\ err' = FALSE
    /\ promise' = IF ret = "open" /\ Doing.n \in UserNames
                  THEN [promise EXCEPT ![Doing.n] = {Doing.v}] ELSE promise
    /\ UNCHANGED <<ret, ver, nextB, okPw, okRc, keyed, refused>>

\* mutate, second half.  This rename is not fsynced: the pending manifest it
\* replaces is accepted by open.  An apply that failed is still settled.
MutateSettle ==
    /\ pc = "settle" /\ SettleAllowed
    /\ Rename(ManifestFile, SettledManifest)
    /\ Settle
    /\ IF err
       THEN CallFails /\ UNCHANGED promise
       ELSE /\ todo' = Tail(todo)
            /\ pc' = IF Tail(todo) = <<>> THEN ret ELSE "pend"
            /\ UNCHANGED <<ret, err>>
            /\ promise' = IF ret = "open" /\ Doing.n \in UserNames
                          THEN [promise EXCEPT ![Doing.n] = {Doing.v}] ELSE promise
    /\ UNCHANGED <<ver, nextB, okPw, okRc, keyed, refused>>

-----------------------------------------------------------------------------
(* The key file of an open store. *)

\* Mutant: a store with derived keys is resealed too.
RewrapAnyStore(p) ==
    /\ pc = "open"
    /\ Rename(KeysFile, [InDir(KeysFile) EXCEPT !.pw = p])
    /\ okPw' = okPw \cup {p}
    /\ pc' = "ksync"
    /\ UNCHANGED <<h, call, ver, nextB, promise, okRc, keyed, refused>>

\* rewrap_password: refused while the keys are derived, or unknown to be.
RewrapPassword(p) ==
    /\ pc = "open"
    /\ ~h.derived /\ h.u # Recovery
    /\ Rename(KeysFile, [InDir(KeysFile) EXCEPT !.pw = p])
    /\ okPw' = okPw \cup {p}
    /\ pc' = "ksync"
    /\ UNCHANGED <<h, call, ver, nextB, promise, okRc, keyed, refused>>

AddRecoveryWrap ==
    /\ pc = "open"
    /\ Rename(KeysFile, [InDir(KeysFile) EXCEPT !.rc = TRUE])
    /\ pc' = "ksync"
    /\ UNCHANGED <<h, call, ver, nextB, promises, refused>>

KeysSync ==
    /\ pc = "ksync"
    /\ SyncDir
    /\ pc' = "open"
    /\ okPw' = {InDir(KeysFile).pw}
    /\ okRc' = InDir(KeysFile).rc
    /\ UNCHANGED <<h, call, ver, nextB, promise, keyed, refused>>

\* The handle is dropped.
Close ==
    /\ pc = "open"
    /\ pc' = "closed" /\ h' = NoHandle
    /\ UNCHANGED <<disk, call, ver, nextB, promises, refused>>

-----------------------------------------------------------------------------
(* rekey. *)

\* Mutant: the phrase is not asked for again.
RekeyWithoutPhrase(phrase) ==
    /\ pc = "open"
    /\ h.u # Recovery /\ h.derived /\ ~h.poisoned
    /\ nextB < MaxBundle
    /\ nextB' = nextB + 1
    /\ Touch([WithoutStaging(fs) EXCEPT ![Staging].dir = nextB + 1])
    /\ h' = [h EXCEPT !.imported = phrase]
    /\ pc' = "stage"
    /\ UNCHANGED <<call, ver, promises, refused>>

\* A store with a recovery slot needs the phrase again.
Rekey(phrase) ==
    /\ pc = "open"
    /\ h.u # Recovery /\ h.derived /\ ~h.poisoned
    /\ InDir(KeysFile).rc => phrase
    /\ nextB < MaxBundle
    /\ nextB' = nextB + 1
    /\ Touch([WithoutStaging(fs) EXCEPT ![Staging].dir = nextB + 1])
    /\ h' = [h EXCEPT !.imported = phrase]
    /\ pc' = "stage"
    /\ UNCHANGED <<call, ver, promises, refused>>

\* stage: a complete store under a fresh bundle.  The fsync of the new
\* directory keeps its own entry as well.
\* The marker comes along, or with the first record.
StagedRecords ==
    [n \in Names |->
        CASE n = LATCH -> 0
          [] n = MARKER -> IF MARKER \in h.idx \/ h.idx \cap UserNames # {} THEN 0 ELSE None
          [] OTHER -> h.man.e[n]]

StagedManifest == [b |-> nextB, e |-> StagedRecords, p |-> None]

Stage ==
    /\ pc = "stage"
    /\ LET staged(f) ==
             CASE f \in {Tag(nextB, n) : n \in Names} -> StagedRecords[f[3]]
               [] f = ManifestFile -> StagedManifest
               [] f = KeysFile -> [b |-> nextB, pw |-> h.u, rc |-> h.imported]
               [] OTHER -> None IN
       /\ fs' = [f \in Files |-> [fs[f] EXCEPT !.stg = staged(f)]]
       /\ dur' = [f \in Files |-> IF f = Staging THEN {fs[f]}
                                  ELSE {[x EXCEPT !.stg = staged(f)] : x \in dur[f]}]
       /\ stale' = [f \in Files |-> IF f = Staging THEN {}
                                    ELSE {[x EXCEPT !.stg = staged(f)] : x \in stale[f]}]
       /\ UNCHANGED <<lost, torn>>
    /\ Goto("journal")

\* write_journal, the commit point.
WriteJournal ==
    /\ pc = "journal"
    /\ Rename(Journal, [b |-> nextB, new |-> StagedRecords, man |-> StagedManifest,
                        old |-> {t \in Tags : InDir(t) # None}])
    /\ Goto("jsync")

\* The handle is dropped and the store reopened, which rolls the switch forward.
WriteJournalSync ==
    /\ pc = "jsync"
    /\ SyncDir
    /\ pc' = "recover"
    /\ h' = [NoHandle EXCEPT !.u = h.u]
    /\ UNCHANGED <<call, ver, nextB, promises, refused>>

-----------------------------------------------------------------------------
(* Failures. *)

\* A mutation whose first manifest write fails changed nothing it knows of.
PendingFails ==
    /\ pc = "pend" /\ ~h.poisoned
    /\ CallFails
    /\ UNCHANGED <<disk, h, ver, nextB, promises, refused>>

\* Its directory fsync fails: the pending manifest is in place, the handle keeps the
\* one before it.
PendingSyncFails ==
    /\ pc = "psync"
    /\ LoseSync
    /\ CallFails
    /\ UNCHANGED <<h, ver, nextB, promises, refused>>

ApplyFails ==
    /\ pc = "apply"
    /\ err' = TRUE /\ pc' = "settle"
    /\ UNCHANGED <<disk, h, todo, ret, ver, nextB, promises, refused>>

\* The record is renamed or removed, and only the directory fsync fails: the call
\* fails, and the new state is settled all the same.
ApplySyncFails ==
    /\ pc = "async"
    /\ LoseSync
    /\ err' = TRUE /\ pc' = "settle"
    /\ UNCHANGED <<h, todo, ret, ver, nextB, promises, refused>>

\* write_keyfile fails at its fsync: the new key file is in place, not acknowledged.
KeysSyncFails ==
    /\ pc = "ksync"
    /\ LoseSync
    /\ pc' = "open"
    /\ UNCHANGED <<h, call, ver, nextB, promises, refused>>

\* The record cannot be read back: the handle refuses further writes.
ReadBackFails ==
    /\ pc = "settle"
    /\ h' = [h EXCEPT !.poisoned = TRUE]
    /\ CallFails
    /\ UNCHANGED <<disk, ver, nextB, promises, refused>>

\* The settling write fails: memory holds the truth, the disk the pending manifest.
SettleFails ==
    /\ pc = "settle" /\ SettleAllowed
    /\ Settle
    /\ CallFails
    /\ UNCHANGED <<disk, ver, nextB, promises, refused>>

\* A failed staging is removed; the handle is gone.
StageFails ==
    /\ pc = "stage"
    /\ Touch(WithoutStaging(fs))
    /\ pc' = "closed" /\ h' = NoHandle
    /\ UNCHANGED <<call, ver, nextB, promises, refused>>

Stop == /\ pc' = "closed" /\ h' = NoHandle
        /\ todo' = <<>> /\ ret' = "closed" /\ err' = FALSE

\* The process dies, or a step of open or of write_journal fails, an fsync among
\* them.  The next open sees what was renamed, whether the disk has it or not.
Kill ==
    /\ pc \notin {"closed", "down"}
    /\ LoseSync
    /\ Stop
    /\ UNCHANGED <<ver, nextB, promises, refused>>

\* The power goes; every entry falls back on its own to a value the disk may
\* hold, one after the other.
PowerLoss ==
    /\ pc # "down"
    /\ pc' = "down" /\ h' = NoHandle
    /\ todo' = <<>> /\ ret' = "closed" /\ err' = FALSE
    /\ UNCHANGED <<disk, ver, nextB, promises, refused>>

Unsynced == {f \in Files : Cardinality(MayBe(f)) > 1}

FallsBack ==
    /\ pc = "down" /\ Unsynced # {}
    /\ LET f == CHOOSE f \in Unsynced : TRUE IN
       \E x \in MayBe(f) : /\ fs' = [fs EXCEPT ![f] = x]
                            /\ dur' = [dur EXCEPT ![f] = {x}]
                            /\ stale' = [stale EXCEPT ![f] = {}]
                            /\ torn' = (torn \/ x \notin dur[f])
    /\ UNCHANGED lost
    /\ Goto("down")

PowerReturns ==
    /\ pc = "down" /\ Unsynced = {}
    /\ fs' = Settled(fs)
    /\ dur' = [f \in Files |-> {Settled(fs)[f]}]
    /\ stale' = [f \in Files |-> {}]
    /\ UNCHANGED <<lost, torn>>
    /\ Goto("closed")

-----------------------------------------------------------------------------
Next ==
    \/ \E u \in Passwords \cup {Recovery}, upgrade \in BOOLEAN : Open(u, upgrade)
    \/ RecoverDiscards \/ RecoverFinished \/ RecoverVerify
    \/ \E n \in Names : RecoverMovesRecord(n)
    \/ RecoverMovesManifest \/ RecoverMovesKeys \/ RecoverMovesSync
    \/ \E t \in Tags : RecoverDrops(t)
    \/ RecoverDropsSync \/ RecoverRemovesStaging \/ RecoverRemovesStagingSync
    \/ RecoverRemovesJournal \/ RecoverEnds
    \/ UnlockKeyed \/ UnlockUpgrade \/ UnlockFresh
    \/ FreshKeys \/ FreshKeysSync \/ LoadManifest \/ AdoptSync
    \/ SettleDeletes \/ SettleDeletesSync \/ SettleWrites
    \/ \E n \in UserNames : MigrateImports(n) \/ MigrateDeletes(n)
    \/ MigrateDeletesSync \/ MigrateEnds \/ UpgradeKeys \/ UpgradeKeysSync \/ Opened
    \/ \E n \in UserNames : Put(n) \/ Remove(n)
    \/ MutatePending \/ MutatePoisoned \/ MutatePendingSync
    \/ MutateApply \/ MutateApplySync \/ MutateSettle
    \/ \E p \in Passwords : RewrapPassword(p)
    \/ AddRecoveryWrap \/ KeysSync \/ Close
    \/ \E phrase \in BOOLEAN : Rekey(phrase)
    \/ Stage \/ WriteJournal \/ WriteJournalSync
    \/ PendingFails \/ PendingSyncFails \/ ApplyFails \/ ApplySyncFails
    \/ ReadBackFails \/ SettleFails \/ KeysSyncFails
    \/ StageFails \/ Kill \/ PowerLoss \/ FallsBack \/ PowerReturns

Spec == Init /\ [][Next]_vars

-----------------------------------------------------------------------------
\* An open with the store's credentials succeeds after kills, failed writes and
\* power losses in any order: no sequence of file operations leaves a manifest, key
\* file or journal that the files do not match.  What can is a power loss that
\* undoes a rename whose fsync failed or was never reached, once a process has gone
\* on from what the rename left: open trusts what it reads (load_manifest, recover)
\* and fsyncs nothing it has not written.
NeverRefused == refused => torn

\* Does not hold (README, 6): no power loss ever has the store refused.
NeverRefusedAtAll == ~refused

\* A record whose put or remove was acknowledged is read back; one whose call
\* failed or was cut short is read in its old or its new state.  Again up to a power
\* loss that undoes what a process had already read and gone on from.
AckedIsKept ==
    pc \in {"opened", "open"} /\ ~torn =>
        \A n \in UserNames :
            /\ InDir(Tag(h.b, n)) \in promise[n]
            /\ h.poisoned \/ h.man.e[n] = InDir(Tag(h.b, n))

\* Once a password change is acknowledged, nothing the disk holds or may fall
\* back to opens with the old password: no key file in either directory, and,
\* if the old keys were derived from it, no record either (rewrap_password
\* refuses a store that was not rekeyed; recover deletes the old records).
OldPasswordRetired ==
    \A p \in Passwords \ okPw :
        /\ \A x \in MayBe(KeysFile) : \A k \in {x.dir, x.stg} : k # None => k.pw # p
        /\ p = FirstPw => \A n \in Names : MayBe(Tag(Derived, n)) = {Absent}

\* An acknowledged recovery slot survives password changes and rekeys: every
\* key file the store may be left with has one.
RecoverySlotKept ==
    okRc => \A x \in MayBe(KeysFile) : /\ x.dir # None /\ x.dir.rc
                                     /\ x.stg # None => x.stg.rc
=============================================================================
