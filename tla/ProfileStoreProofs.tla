------------------------- MODULE ProfileStoreProofs -------------------------
(***************************************************************************)
(* Proofs about ProfileStore: the recovery slot survives password changes  *)
(* and rekeys, a retired password opens nothing the disk may hold, the     *)
(* right credentials are never refused, and every record whose change was  *)
(* acknowledged can be read back.                                          *)
(*                                                                         *)
(* All are about every value a directory entry may fall back to, so the    *)
(* inductive invariants speak of dur as well as of fs.  The first one's    *)
(* layers:                                                                 *)
(*   TypeOK      what each file may hold, and what the handle is;          *)
(*   CallInv     what the running call knows: its handle has a manifest,   *)
(*               and where it goes on;                                     *)
(*   DeleteInv   a deleted store file is durably deleted before the next   *)
(*               step relies on it;                                        *)
(*   StagingInv  a staged key file is only there while a rekey is;         *)
(*   KeyInv      every key file the disk may show is the store's;          *)
(*   HandleInv   the bundle in hand is the key file's, or derived from the *)
(*               password of a store that has none yet.                    *)
(* On it rests the second, KeptInv:                                        *)
(*   StoreInv    without a journal every store the disk may show opens to  *)
(*               the acknowledged records (PlainStore), with one the       *)
(*               journal restores them (JournalStore);                     *)
(*   StableInv, RollInv, StagedInv                                         *)
(*               what is durable before and while a journal is rolled      *)
(*               forward, and what a rekey has staged;                     *)
(*   OpenInv, MutateInv, MigrateInv                                        *)
(*               what the running call has read or has already written.    *)
(* Both hold until a power loss brings back a value that a process had     *)
(* gone on from (torn).  StaleInv, the last layer, is about those values.  *)
(***************************************************************************)
EXTENDS ProfileStore, SequenceTheorems, TLAPS

\* The files with the caller's data: a store without a key file is fresh when
\* it has none of them.
StoreFiles == Files \ {KeysFile, Journal, Staging}

Bytes(f) ==
    CASE f = ManifestFile -> Manifest
      [] f = KeysFile -> KeyFile
      [] f = Journal -> JournalFile
      [] f = Staging -> Bundles
      [] OTHER -> Contents
StgBytes(f) == IF f = Staging THEN {} ELSE Bytes(f)
Entry(f) == [dir : Bytes(f) \cup {None}, stg : StgBytes(f) \cup {None}]

Handle == [b : Bundles, u : Passwords \cup {Recovery}, upgrade : BOOLEAN,
           flow : {"keyed", "upgrade", "fresh"}, derived : BOOLEAN,
           man : Manifest \cup {None}, idx : SUBSET Names, poisoned : BOOLEAN,
           imported : BOOLEAN]
Mutation == [n : Names, v : Contents \cup {None}]

DiskOK ==
    /\ fs = [f \in Files |-> fs[f]]
    /\ dur = [f \in Files |-> dur[f]]
    /\ \A f \in Files : fs[f] \in dur[f] /\ dur[f] \subseteq Entry(f)

TypeOK ==
    /\ DiskOK
    /\ h \in Handle
    /\ todo \in Seq(Mutation)
    /\ ret \in {"closed", "migrate", "ukeys", "opened", "open"}
    /\ ver \in Contents
    /\ nextB \in Bundles

-----------------------------------------------------------------------------
\* The steps of an open that has the key bundle, of a mutation, of an open store.
Loading == {"load", "adopt", "settledel", "settledsync", "settle1", "migrate",
            "migsync"}
Mutating == {"pend", "psync", "apply", "async", "settle"}
Keyed == {"usync", "opened", "open", "ksync", "stage"}
InStore == Loading \cup Mutating \cup Keyed \cup {"ukeys"}

\* The handle converts a store that has no key file yet.
Upgrading ==
    /\ h.flow = "upgrade"
    /\ pc \in Loading \cup {"ukeys"} \/ (pc \in Mutating /\ ret # "open")

CallInv ==
    /\ pc \in Mutating => todo # <<>> /\ ret # "closed"
    /\ pc \in Mutating \cup Keyed \cup {"settledel", "migrate", "migsync", "ukeys",
                                        "journal"} => h.man # None
    /\ pc = "settledel" => h.man.p # None
    /\ pc \in {"adopt", "psync"} => InDir(ManifestFile) # None
    /\ pc \in Mutating => /\ ret = "ukeys" => h.flow = "upgrade"
                          /\ ret = "opened" => h.flow # "upgrade"
    /\ pc = "ukeys" => h.flow = "upgrade"

\* Steps between the delete of a store file and the fsync that keeps it.
Deleting == {"drop", "async", "settledsync", "migsync", "down"}

DeleteInv ==
    pc \notin Deleting =>
        \A f \in StoreFiles : InDir(f) = None => \A x \in dur[f] : x.dir = None

\* Steps at which the profile may have a staged key file.
Rolling == {"closed", "down", "recover", "move", "movekeys", "movesync", "drop",
            "rmdir", "journal", "jsync"}

StagingInv ==
    /\ pc # "down" /\ InDir(Staging) = None => fs[KeysFile].stg = None
    /\ pc \notin Rolling => fs[KeysFile].stg = None
    /\ pc = "stage" => InDir(Staging) # None /\ nextB # Derived
    /\ \A n \in Names : \A x \in dur[Tag(Derived, n)] : x.stg = None

\* A key file the store may be left with.
KeyOK(k) ==
    /\ k.pw \in okPw
    /\ k.b = Derived => k.pw = FirstPw
    /\ okRc => k.rc

KeyInv ==
    /\ \A x \in dur[KeysFile] : /\ x.dir # None => KeyOK(x.dir)
                                /\ x.stg # None => KeyOK(x.stg) /\ x.dir # None
                                /\ okRc => x.dir # None
    /\ pc \notin {"fsync", "usync", "down"} =>
           \A x \in dur[KeysFile] : x.dir = None <=> InDir(KeysFile) = None

\* A fresh store whose key file may be lost has nothing else; once FirstPw is
\* retired no record keyed with it may come back.
RetiredInv ==
    FirstPw \notin okPw =>
        /\ (\E x \in dur[KeysFile] : x.dir = None) =>
               \A f \in StoreFiles : \A x \in dur[f] : x.dir = None
        /\ \A n \in Names : \A x \in dur[Tag(Derived, n)] : x.dir = None

\* Steps of an open before it has a bundle.
Recovering == {"recover", "move", "movekeys", "movesync", "drop", "rmdir", "jdrop",
               "jremove", "jremoved", "unlock"}

HandleInv ==
    /\ pc \in Recovering => ~h.derived
    /\ pc = "move" => InDir(KeysFile) # None /\ InDir(Journal) # None
    /\ pc = "fkeys" => /\ InDir(KeysFile) = None
                       /\ \A f \in StoreFiles : InDir(f) = None
                       /\ h.u # Recovery
    /\ pc \in {"fkeys", "fsync"} => h.b # Derived /\ ~h.derived /\ h.flow = "fresh"
    /\ pc \in InStore =>
           /\ h.derived => h.u = FirstPw /\ h.b = Derived
           /\ h.b = Derived => FirstPw \in okPw /\ (h.u # Recovery => h.derived)
    /\ Upgrading => InDir(KeysFile) = None /\ h.derived
    /\ pc = "fsync" \/ (pc \in InStore /\ ~Upgrading) =>
           InDir(KeysFile) # None /\ InDir(KeysFile).b = h.b
    /\ pc \in InStore \ {"load"} /\ h.b # Derived =>
           \A n \in Names : InDir(Tag(Derived, n)) = None
    /\ pc = "stage" => h.derived /\ (okRc => h.imported)

IInv == TypeOK /\ CallInv /\ DeleteInv /\ StagingInv /\ KeyInv /\ RetiredInv /\ HandleInv

-----------------------------------------------------------------------------
(* Files. *)

LEMMA FileFacts ==
    /\ {KeysFile, Journal, Staging, ManifestFile} \subseteq Files
    /\ StoreFiles \subseteq Files /\ ManifestFile \in StoreFiles
    /\ \A b \in Bundles, n \in Names : Tag(b, n) \in Tags /\ Tag(b, n)[2] = b
    /\ Tags \subseteq StoreFiles
    /\ \A n \in UserNames : Legacy(n) \in StoreFiles \ Tags
    /\ KeysFile \notin StoreFiles /\ Journal \notin StoreFiles /\ Staging \notin StoreFiles
    /\ ManifestFile \notin Tags /\ KeysFile \notin Tags /\ Staging \notin Tags
    /\ KeysFile # Journal /\ KeysFile # Staging /\ Journal # Staging
    /\ KeysFile # ManifestFile
    /\ Files = StoreFiles \cup {KeysFile, Journal, Staging}
    /\ StoreFiles = Tags \cup {Legacy(n) : n \in UserNames} \cup {ManifestFile}
<1>1. \A t \in Tags : t[1] = "rc2"
  BY DEF Tags, Tag
<1>2. \A n \in UserNames : Legacy(n)[1] = "rec"
  BY DEF Legacy
<1>3. /\ ManifestFile[1] = "manifest" /\ KeysFile[1] = "keys"
      /\ Journal[1] = "journal" /\ Staging[1] = "staging"
  BY DEF ManifestFile, KeysFile, Journal, Staging
<1>4. \A b \in Bundles, n \in Names : Tag(b, n) \in Tags /\ Tag(b, n)[2] = b
  BY DEF Tags, Tag
<1>5. KeysFile # Journal /\ KeysFile # Staging /\ Journal # Staging /\ KeysFile # ManifestFile
      /\ ManifestFile # Journal /\ ManifestFile # Staging
  BY <1>3
<1>6. \A t \in Tags : t \notin {ManifestFile, KeysFile, Journal, Staging}
  BY <1>1, <1>3
<1>7. \A n \in UserNames : Legacy(n) \notin Tags \cup {ManifestFile, KeysFile, Journal, Staging}
  BY <1>1, <1>2, <1>3
<1> QED BY <1>4, <1>5, <1>6, <1>7 DEF Files, StoreFiles

LEMMA BytesFacts ==
    /\ Bytes(ManifestFile) = Manifest /\ Bytes(KeysFile) = KeyFile
    /\ Bytes(Journal) = JournalFile /\ Bytes(Staging) = Bundles
    /\ \A t \in Tags : Bytes(t) = Contents
    /\ \A n \in UserNames : Bytes(Legacy(n)) = Contents
<1>1. /\ ManifestFile # Journal /\ ManifestFile # Staging
      /\ \A n \in UserNames : Legacy(n) \notin {ManifestFile, KeysFile, Journal, Staging}
      /\ \A t \in Tags : t \notin {ManifestFile, KeysFile, Journal, Staging}
  <2>1. \A n \in UserNames : Legacy(n) # ManifestFile
    BY DEF Legacy, ManifestFile
  <2> QED BY <2>1, FileFacts
<1> QED BY <1>1, FileFacts DEF Bytes

LEMMA EntryFacts ==
    ASSUME NEW f \in Files, NEW x \in Entry(f)
    PROVE  /\ x.dir \in Bytes(f) \cup {None} /\ x.stg \in StgBytes(f) \cup {None}
           /\ StgBytes(f) \subseteq Bytes(f)
           /\ x = [dir |-> x.dir, stg |-> x.stg]
           /\ \A v : [x EXCEPT !.dir = v] = [dir |-> v, stg |-> x.stg]
           /\ \A v : [x EXCEPT !.stg = v] = [dir |-> x.dir, stg |-> v]
BY DEF Entry, StgBytes

LEMMA AbsentFacts ==
    /\ Absent.dir = None /\ Absent.stg = None
    /\ \A f : Absent \in Entry(f)
BY DEF Absent, Entry

-----------------------------------------------------------------------------
(* What the disk is after each kind of step. *)

LEMMA TouchFacts ==
    ASSUME DiskOK, NEW new, Touch(new), new = [f \in Files |-> new[f]],
           \A f \in Files : new[f] \in Entry(f)
    PROVE  /\ DiskOK'
           /\ \A g \in Files : fs'[g] = new[g] /\ dur'[g] = dur[g] \cup {new[g]}
BY DEF DiskOK, Touch

LEMMA RenameFacts ==
    ASSUME DiskOK, NEW f \in Files, NEW v \in Bytes(f) \cup {None}, Rename(f, v)
    PROVE  /\ DiskOK'
           /\ fs'[f] = [dir |-> v, stg |-> fs[f].stg]
           /\ \A g \in Files \ {f} : fs'[g] = fs[g] /\ dur'[g] = dur[g]
           /\ dur'[f] = dur[f] \cup {fs'[f]}
<1> DEFINE new == [fs EXCEPT ![f].dir = v]
<1>1. \A g \in Files : fs[g] \in Entry(g) /\ fs[g] \in dur[g]
  BY DEF DiskOK
<1>2. new[f] = [dir |-> v, stg |-> fs[f].stg] /\ new = [g \in Files |-> new[g]]
      /\ \A g \in Files \ {f} : new[g] = fs[g]
  <2>1. [fs[f] EXCEPT !.dir = v] = [dir |-> v, stg |-> fs[f].stg]
    BY <1>1, EntryFacts
  <2>2. fs = [g \in Files |-> fs[g]]
    BY DEF DiskOK
  <2> QED BY <2>1, <2>2
<1>3. new[f] \in Entry(f)
  <2>1. fs[f].stg \in StgBytes(f) \cup {None} /\ StgBytes(f) \subseteq Bytes(f)
    BY <1>1, EntryFacts
  <2> QED BY <1>2, <2>1 DEF Entry
<1>4. Touch(new)
  BY DEF Rename
<1> HIDE DEF new
<1>5. DiskOK' /\ \A g \in Files : fs'[g] = new[g] /\ dur'[g] = dur[g] \cup {new[g]}
  <2>1. \A g \in Files : new[g] \in Entry(g)
    BY <1>1, <1>2, <1>3
  <2> QED BY <1>2, <1>4, <2>1, TouchFacts
<1> QED BY <1>1, <1>2, <1>5

LEMMA SyncFacts ==
    ASSUME DiskOK, Flush
    PROVE  DiskOK' /\ \A g \in Files : fs'[g] = fs[g] /\ dur'[g] = {fs[g]}
BY DEF DiskOK, Flush

LEMMA WithoutFacts ==
    ASSUME DiskOK
    PROVE  LET w == WithoutStaging(fs) IN
           /\ w = [f \in Files |-> w[f]]
           /\ \A g \in Files : w[g] \in Entry(g)
           /\ w[Staging] = Absent
           /\ \A g \in Files \ {Staging} : w[g] = [dir |-> fs[g].dir, stg |-> None]
<1>1. \A g \in Files : fs[g] \in Entry(g)
  BY DEF DiskOK
<1>2. \A g \in Files \ {Staging} :
         [fs[g] EXCEPT !.stg = None] = [dir |-> fs[g].dir, stg |-> None]
  BY <1>1, EntryFacts
<1>3. \A g \in Files : [dir |-> fs[g].dir, stg |-> None] \in Entry(g)
  BY <1>1, EntryFacts DEF Entry
<1> QED BY <1>2, <1>3, AbsentFacts, FileFacts DEF WithoutStaging

LEMMA MoveFacts ==
    ASSUME DiskOK, NEW f \in Files, MoveIn(f)
    PROVE  /\ DiskOK'
           /\ fs'[f] = [dir |-> fs[f].stg, stg |-> None]
           /\ \A g \in Files \ {f} : fs'[g] = fs[g] /\ dur'[g] = dur[g]
           /\ dur'[f] = dur[f] \cup {fs'[f]}
<1> DEFINE new == [fs EXCEPT ![f] = [dir |-> fs[f].stg, stg |-> None]]
<1>1. \A g \in Files : fs[g] \in Entry(g) /\ fs[g] \in dur[g]
  BY DEF DiskOK
<1>2. new[f] = [dir |-> fs[f].stg, stg |-> None] /\ new = [g \in Files |-> new[g]]
      /\ \A g \in Files \ {f} : new[g] = fs[g]
  BY DEF DiskOK
<1>3. new[f] \in Entry(f)
  <2>1. fs[f].stg \in StgBytes(f) \cup {None} /\ StgBytes(f) \subseteq Bytes(f)
    BY <1>1, EntryFacts
  <2> QED BY <1>2, <2>1 DEF Entry
<1>4. Touch(new)
  BY DEF MoveIn
<1> HIDE DEF new
<1>5. DiskOK' /\ \A g \in Files : fs'[g] = new[g] /\ dur'[g] = dur[g] \cup {new[g]}
  <2>1. \A g \in Files : new[g] \in Entry(g)
    BY <1>1, <1>2, <1>3
  <2> QED BY <1>2, <1>4, <2>1, TouchFacts
<1>6. \A g \in Files \ {f} : fs'[g] = fs[g] /\ dur'[g] = dur[g]
  <2>1. \A g \in Files \ {f} : fs'[g] = fs[g] /\ dur'[g] = dur[g] \cup {fs[g]}
    BY <1>2, <1>5
  <2> QED BY <1>1, <2>1
<1> QED BY <1>2, <1>5, <1>6

LEMMA DropFacts ==
    ASSUME DiskOK, Touch(WithoutStaging(fs))
    PROVE  /\ DiskOK'
           /\ fs'[Staging] = Absent
           /\ \A g \in Files \ {Staging} :
                  /\ fs'[g] = [dir |-> fs[g].dir, stg |-> None]
                  /\ dur'[g] = dur[g] \cup {[dir |-> fs[g].dir, stg |-> None]}
<1> DEFINE w == WithoutStaging(fs)
<1>1. /\ w = [f \in Files |-> w[f]] /\ \A g \in Files : w[g] \in Entry(g)
      /\ w[Staging] = Absent
      /\ \A g \in Files \ {Staging} : w[g] = [dir |-> fs[g].dir, stg |-> None]
  BY WithoutFacts
<1>2. Touch(w)
  OBVIOUS
<1> HIDE DEF w
<1>3. DiskOK' /\ \A g \in Files : fs'[g] = w[g] /\ dur'[g] = dur[g] \cup {w[g]}
  BY <1>1, <1>2, TouchFacts
<1> QED BY <1>1, <1>3, FileFacts

LEMMA MakeFacts ==
    ASSUME DiskOK, NEW b \in Bundles, Touch([WithoutStaging(fs) EXCEPT ![Staging].dir = b])
    PROVE  /\ DiskOK'
           /\ fs'[Staging].dir = b
           /\ \A g \in Files \ {Staging} :
                  /\ fs'[g] = [dir |-> fs[g].dir, stg |-> None]
                  /\ dur'[g] = dur[g] \cup {[dir |-> fs[g].dir, stg |-> None]}
<1> DEFINE w == WithoutStaging(fs)
           new == [w EXCEPT ![Staging].dir = b]
<1>1. /\ w = [f \in Files |-> w[f]] /\ \A g \in Files : w[g] \in Entry(g)
      /\ w[Staging] = Absent
      /\ \A g \in Files \ {Staging} : w[g] = [dir |-> fs[g].dir, stg |-> None]
  BY WithoutFacts
<1>2. Touch(new)
  OBVIOUS
<1> HIDE DEF w
<1>3. [w[Staging] EXCEPT !.dir = b] = [dir |-> b, stg |-> None]
  BY <1>1 DEF Absent
<1>4. /\ new = [f \in Files |-> new[f]]
      /\ new[Staging] = [dir |-> b, stg |-> None]
      /\ \A g \in Files \ {Staging} : new[g] = w[g]
  BY <1>1, <1>3, FileFacts
<1> HIDE DEF new
<1>5. \A g \in Files : new[g] \in Entry(g)
  <2>1. new[Staging] \in Entry(Staging)
    BY <1>4, BytesFacts DEF Entry
  <2> QED BY <1>1, <1>4, <2>1
<1>6. DiskOK' /\ \A g \in Files : fs'[g] = new[g] /\ dur'[g] = dur[g] \cup {new[g]}
  BY <1>2, <1>4, <1>5, TouchFacts
<1>7. \A g \in Files \ {Staging} : new[g] = [dir |-> fs[g].dir, stg |-> None]
  BY <1>1, <1>4
<1>8. fs'[Staging] = [dir |-> b, stg |-> None]
  BY <1>4, <1>6, FileFacts
<1> QED BY <1>6, <1>7, <1>8

\* After a power loss that undoes nothing a process went on from, an entry is one of the
\* values it had since.
LEMMA FallFacts ==
    ASSUME DiskOK, FallsBack, ~torn'
    PROVE  /\ DiskOK'
           /\ \A g \in Files : \/ fs'[g] = fs[g] /\ dur'[g] = dur[g]
                               \/ fs'[g] \in dur[g] /\ dur'[g] = {fs'[g]}
<1> DEFINE f == CHOOSE f \in Unsynced : TRUE
<1>1. f \in Files
  BY DEF FallsBack, Unsynced
<1> HIDE DEF f
<1>2. PICK x \in dur[f] : fs' = [fs EXCEPT ![f] = x] /\ dur' = [dur EXCEPT ![f] = {x}]
  BY DEF FallsBack, MayBe, f
<1>3. /\ fs'[f] = x /\ dur'[f] = {x} /\ \A g \in Files \ {f} : fs'[g] = fs[g] /\ dur'[g] = dur[g]
      /\ fs' = [g \in Files |-> fs'[g]] /\ dur' = [g \in Files |-> dur'[g]]
  BY <1>1, <1>2 DEF DiskOK
<1>4. \A g \in Files : \/ fs'[g] = fs[g] /\ dur'[g] = dur[g]
                       \/ fs'[g] \in dur[g] /\ dur'[g] = {fs'[g]}
  BY <1>1, <1>3
<1> QED BY <1>3, <1>4 DEF DiskOK

LEMMA PowerFacts ==
    ASSUME DiskOK, PowerReturns
    PROVE  /\ DiskOK'
           /\ \A g \in Files : /\ dur'[g] = {fs'[g]}
                               /\ fs'[g].dir = fs[g].dir
                               /\ fs'[g].stg \in {fs[g].stg, None}
           /\ fs[Staging].dir # fs[KeysFile].stg.b => fs'[KeysFile].stg = None
<1>1. \A g \in Files : fs[g] \in Entry(g)
  BY DEF DiskOK
<1>2. \A g \in Files : [fs[g] EXCEPT !.stg = None] = [dir |-> fs[g].dir, stg |-> None]
  BY <1>1, EntryFacts
<1>3. \A g \in Files : fs[g].dir \in Bytes(g) \cup {None}
  BY <1>1, EntryFacts
<1>4. \A g \in Files : [fs[g] EXCEPT !.stg = None] \in Entry(g)
  BY <1>2, <1>3 DEF Entry
<1>5. /\ Settled(fs) = [g \in Files |-> Settled(fs)[g]]
      /\ \A g \in Files : Settled(fs)[g] \in {fs[g], [fs[g] EXCEPT !.stg = None]}
  BY DEF Settled
<1>6. \A g \in Files : /\ Settled(fs)[g] \in Entry(g)
                       /\ Settled(fs)[g].dir = fs[g].dir
                       /\ Settled(fs)[g].stg \in {fs[g].stg, None}
  BY <1>1, <1>2, <1>4, <1>5
<1>7. /\ fs' = Settled(fs) /\ dur' = [g \in Files |-> {Settled(fs)[g]}]
  BY DEF PowerReturns
<1>8. fs[Staging].dir # fs[KeysFile].stg.b => Settled(fs)[KeysFile].stg = None
  <2>1. fs[Staging].dir # fs[KeysFile].stg.b /\ fs[KeysFile].stg # None
        => Settled(fs)[KeysFile] = [fs[KeysFile] EXCEPT !.stg = None]
    BY FileFacts DEF Settled
  <2>2. fs[KeysFile].stg = None => Settled(fs)[KeysFile].stg = None
    BY <1>6, FileFacts
  <2>3. [fs[KeysFile] EXCEPT !.stg = None].stg = None
    BY <1>2, FileFacts
  <2> QED BY <2>1, <2>2, <2>3
<1>9. DiskOK'
  <2>1. \A g \in Files : fs'[g] = Settled(fs)[g] /\ dur'[g] = {Settled(fs)[g]}
    BY <1>7
  <2> QED BY <1>5, <1>6, <1>7, <2>1 DEF DiskOK
<1> QED BY <1>6, <1>7, <1>8, <1>9

\* The staged key file.
NewKeys == [b |-> nextB, pw |-> h.u, rc |-> h.imported]

LEMMA StagedTypes ==
    ASSUME TypeOK, h.man # None
    PROVE  /\ StagedRecords \in [Names -> Contents \cup {None}]
           /\ StagedManifest \in Manifest
<1>1. h.man \in Manifest
  BY DEF TypeOK, Handle
<1>2. h.man.e \in [Names -> Contents \cup {None}]
  BY <1>1 DEF Manifest
<1>3. 0 \in Contents
  BY StoreAssumption DEF Contents
<1>4. \A n \in Names : StagedRecords[n] \in {0, None, h.man.e[n]}
  BY DEF StagedRecords
<1>5. StagedRecords = [n \in Names |-> StagedRecords[n]]
  BY DEF StagedRecords
<1>6. StagedRecords \in [Names -> Contents \cup {None}]
  BY <1>2, <1>3, <1>4, <1>5
<1>7. nextB \in Bundles
  BY DEF TypeOK
<1> QED BY <1>6, <1>7 DEF StagedManifest, Manifest

LEMMA StageFacts ==
    ASSUME TypeOK, h.man # None, h.u \in Passwords, nextB # Derived, Stage
    PROVE  /\ DiskOK'
           /\ \A g \in Files : /\ fs'[g].dir = fs[g].dir
                               /\ \A x \in dur'[g] : \E y \in dur[g] : x.dir = y.dir
           /\ fs'[KeysFile].stg = NewKeys /\ NewKeys \in KeyFile
           /\ \A x \in dur'[KeysFile] : x.stg = NewKeys
           /\ \A n \in Names : \A x \in dur'[Tag(Derived, n)] : x.stg = None
<1> DEFINE new == {Tag(nextB, n) : n \in Names}
           st(f) == CASE f \in new -> StagedRecords[f[3]]
                      [] f = ManifestFile -> StagedManifest
                      [] f = KeysFile -> [b |-> nextB, pw |-> h.u, rc |-> h.imported]
                      [] OTHER -> None
           to(x, f) == [x EXCEPT !.stg = st(f)]
<1>1. /\ fs' = [f \in Files |-> to(fs[f], f)]
      /\ dur' = [f \in Files |-> IF f = Staging THEN {fs[f]} ELSE {to(x, f) : x \in dur[f]}]
  BY DEF Stage
<1>2. new \subseteq Tags /\ \A f \in new : f[3] \in Names
  BY DEF TypeOK, Tags, Tag
<1>3. NewKeys \in KeyFile
  BY DEF TypeOK, Handle, KeyFile, NewKeys
<1>4. st(KeysFile) = NewKeys
  BY <1>2, FileFacts DEF NewKeys
<1>5. \A n \in Names : st(Tag(Derived, n)) = None
  <2> SUFFICES ASSUME NEW n \in Names PROVE st(Tag(Derived, n)) = None
    OBVIOUS
  <2>1. Derived \in Bundles /\ nextB \in Bundles
    BY StoreAssumption DEF Bundles, Derived, TypeOK
  <2>2. Tag(Derived, n) \notin new
    <3>1. \A f \in new : f[2] = nextB
      BY <2>1, FileFacts
    <3> QED BY <2>1, <3>1, FileFacts
  <2>3. Tag(Derived, n) \in Tags
    BY <2>1, FileFacts
  <2> QED BY <2>2, <2>3, FileFacts
<1>6. \A f \in Files : st(f) \in StgBytes(f) \cup {None}
  <2> SUFFICES ASSUME NEW f \in Files PROVE st(f) \in StgBytes(f) \cup {None}
    OBVIOUS
  <2>1. CASE f \in new
    <3>1. st(f) = StagedRecords[f[3]]
      BY <1>2, <2>1, FileFacts
    <3>2. f[3] \in Names /\ Bytes(f) = Contents
      BY <1>2, <2>1, BytesFacts
    <3>3. f # Staging
      BY <1>2, <2>1, FileFacts
    <3> QED BY <3>1, <3>2, <3>3, StagedTypes DEF StgBytes
  <2>2. CASE f \notin new /\ f = ManifestFile
    BY <2>2, StagedTypes, BytesFacts, FileFacts DEF StgBytes
  <2>3. CASE f = KeysFile
    BY <1>3, <1>4, <2>3, BytesFacts, FileFacts DEF StgBytes
  <2>4. CASE f \notin new \cup {ManifestFile, KeysFile}
    BY <2>4
  <2> QED BY <2>1, <2>2, <2>3, <2>4
<1> HIDE DEF st
<1>7. ASSUME NEW f \in Files, NEW x \in Entry(f)
      PROVE  to(x, f) = [dir |-> x.dir, stg |-> st(f)] /\ to(x, f) \in Entry(f)
  BY <1>6, <1>7, EntryFacts DEF Entry
<1> HIDE DEF to
<1>8. \A f \in Files : fs[f] \in dur[f] /\ dur[f] \subseteq Entry(f)
  BY DEF TypeOK, DiskOK
<1>9. st(Staging) = None
  BY <1>2, FileFacts DEF st
<1>10. \A f \in Files \ {Staging} :
         /\ fs'[f] = to(fs[f], f)
         /\ \A x \in dur'[f] : \E y \in dur[f] : x = to(y, f)
         /\ fs'[f] \in dur'[f]
  BY <1>1, <1>8
<1>11. fs'[Staging] = to(fs[Staging], Staging) /\ dur'[Staging] = {fs[Staging]}
  BY <1>1, FileFacts
<1>12. to(fs[Staging], Staging) = fs[Staging]
  <2>1. fs[Staging] \in Entry(Staging)
    BY <1>8, FileFacts
  <2>2. fs[Staging].stg = None /\ fs[Staging] = [dir |-> fs[Staging].dir, stg |-> fs[Staging].stg]
    BY <2>1, EntryFacts, FileFacts DEF StgBytes
  <2> QED BY <1>7, <1>9, <2>1, <2>2, FileFacts
<1>13. DiskOK'
  <2>1. \A f \in Files : fs'[f] \in dur'[f] /\ dur'[f] \subseteq Entry(f)
    BY <1>7, <1>8, <1>10, <1>11, <1>12, FileFacts
  <2> QED BY <1>1, <2>1 DEF DiskOK
<1>14. \A g \in Files : /\ fs'[g].dir = fs[g].dir
                        /\ \A x \in dur'[g] : \E y \in dur[g] : x.dir = y.dir
  <2>1. \A g \in Files \ {Staging} : \A x \in dur[g] : to(x, g).dir = x.dir
    BY <1>7, <1>8
  <2> QED BY <1>8, <1>10, <1>11, <1>12, <2>1
<1>15. \A g \in Files \ {Staging} : \A x \in dur'[g] : x.stg = st(g)
  <2>1. \A g \in Files \ {Staging} : \A x \in dur[g] : to(x, g).stg = st(g)
    BY <1>7, <1>8
  <2> QED BY <1>10, <2>1
<1>16. \A n \in Names : Tag(Derived, n) \in Files \ {Staging}
  BY StoreAssumption, FileFacts DEF Bundles, Derived
<1>17. fs'[KeysFile].stg = NewKeys /\ \A x \in dur'[KeysFile] : x.stg = NewKeys
  BY <1>4, <1>10, <1>15, FileFacts
<1> QED BY <1>3, <1>5, <1>13, <1>14, <1>15, <1>16, <1>17

-----------------------------------------------------------------------------
(* The invariants about what the disk may show, by kind of step. *)

DiskInv == DeleteInv /\ StagingInv /\ KeyInv /\ RetiredInv

LEMMA Derivations ==
    /\ Derived \in Bundles
    /\ \A n \in Names : Tag(Derived, n) \in StoreFiles /\ Tag(Derived, n) \in Tags
    /\ Recovery \notin Passwords /\ FirstPw \in Passwords
BY StoreAssumption, NoneAssumption, FileFacts DEF Derived, Bundles

\* Nothing moves; what the disk may fall back to stays, or all of it is synced.
LEMMA KeptDisk ==
    ASSUME TypeOK, DiskInv, DiskOK', UNCHANGED <<okPw, okRc>>, pc' # "stage",
           \A g \in Files : fs'[g] = fs[g],
           \/ \A g \in Files : dur'[g] = {fs[g]}
           \/ /\ \A g \in Files : dur'[g] = dur[g]
              /\ pc \in Deleting => pc' \in Deleting
              /\ pc \in {"fsync", "usync", "down"} => pc' \in {"fsync", "usync", "down"},
           pc = "down" => pc' = "down",
           pc' \notin Rolling => fs[KeysFile].stg = None
    PROVE  DiskInv'
<1>1. \A g \in Files : fs[g] \in dur[g] /\ dur'[g] \subseteq dur[g]
  BY DEF TypeOK, DiskOK
<1>2. DeleteInv'
  BY FileFacts DEF DiskInv, DeleteInv, InDir
<1>3. StagingInv'
  <2>1. \A n \in Names : \A x \in dur'[Tag(Derived, n)] : x.stg = None
    BY <1>1, FileFacts, Derivations DEF DiskInv, StagingInv
  <2> QED BY <2>1, FileFacts DEF DiskInv, StagingInv, InDir
<1>4. KeyInv'
  <2>1. \A x \in dur'[KeysFile] : /\ x.dir # None => KeyOK(x.dir)'
                                  /\ x.stg # None => KeyOK(x.stg)' /\ x.dir # None
                                  /\ okRc' => x.dir # None
    BY <1>1, FileFacts DEF DiskInv, KeyInv, KeyOK
  <2>2. pc' \notin {"fsync", "usync", "down"} =>
           \A x \in dur'[KeysFile] : x.dir = None <=> InDir(KeysFile)' = None
    BY <1>1, FileFacts DEF DiskInv, KeyInv, InDir
  <2> QED BY <2>1, <2>2 DEF KeyInv, KeyOK
<1>5. RetiredInv'
  BY <1>1, FileFacts, Derivations DEF DiskInv, RetiredInv
<1> QED BY <1>2, <1>3, <1>4, <1>5 DEF DiskInv

\* A store file or the journal is written or deleted.
LEMMA RenamedDisk ==
    ASSUME TypeOK, DiskInv, UNCHANGED <<okPw, okRc>>,
           NEW f \in StoreFiles \cup {Journal}, NEW v \in Bytes(f) \cup {None}, Rename(f, v),
           pc \notin Deleting \ {"drop"}, pc = "drop" => pc' = "drop",
           f \in StoreFiles /\ v = None => pc' \in Deleting,
           f \in StoreFiles /\ v # None => FirstPw \in okPw \/ InDir(KeysFile) # None,
           f \in {Tag(Derived, n) : n \in Names} /\ v # None => FirstPw \in okPw,
           {pc, pc'} \cap {"fsync", "usync", "stage", "down"} = {},
           pc' \notin Rolling => pc \notin Rolling
    PROVE  DiskInv' /\ DiskOK'
<1>1. /\ DiskOK'
      /\ fs'[f] = [dir |-> v, stg |-> fs[f].stg]
      /\ \A g \in Files \ {f} : fs'[g] = fs[g] /\ dur'[g] = dur[g]
      /\ dur'[f] = dur[f] \cup {fs'[f]}
  BY RenameFacts, FileFacts DEF TypeOK
<1>2. /\ fs'[KeysFile] = fs[KeysFile] /\ dur'[KeysFile] = dur[KeysFile]
      /\ fs'[Staging] = fs[Staging]
  BY <1>1, FileFacts
<1>3. fs'[f].dir = v /\ fs'[f].stg = fs[f].stg /\ fs[f] \in dur[f]
  <2>1. fs[f] \in dur[f]
    BY FileFacts DEF TypeOK, DiskOK
  <2> QED BY <1>1, <2>1
<1>4. DeleteInv'
  <2> SUFFICES ASSUME pc' \notin Deleting, NEW g \in StoreFiles, fs'[g].dir = None,
                      NEW x \in dur'[g]
               PROVE  x.dir = None
    BY DEF DeleteInv, InDir
  <2>1. g # f /\ pc \notin Deleting
    BY <1>3 DEF Deleting
  <2>2. fs[g].dir = None /\ x \in dur[g]
    BY <1>1, <2>1, FileFacts
  <2> QED BY <2>1, <2>2 DEF DiskInv, DeleteInv, InDir
<1>5. StagingInv'
  <2>1. ASSUME NEW n \in Names, NEW x \in dur'[Tag(Derived, n)] PROVE x.stg = None
    <3>1. Tag(Derived, n) \in Files
      BY Derivations, FileFacts
    <3>2. CASE Tag(Derived, n) = f
      BY <1>1, <1>3, <3>2 DEF DiskInv, StagingInv
    <3>3. CASE Tag(Derived, n) # f
      BY <1>1, <3>1, <3>3 DEF DiskInv, StagingInv
    <3> QED BY <3>2, <3>3
  <2>2. pc' # "stage" /\ pc' # "down"
    OBVIOUS
  <2>3. pc # "down"
    OBVIOUS
  <2> QED BY <1>2, <2>1, <2>2, <2>3 DEF DiskInv, StagingInv, InDir
<1>6. KeyInv'
  BY <1>2 DEF DiskInv, KeyInv, KeyOK, InDir
<1>7. RetiredInv'
  <2> SUFFICES ASSUME FirstPw \notin okPw PROVE RetiredInv'
    BY DEF RetiredInv
  <2>1. (\E x \in dur[KeysFile] : x.dir = None) => v = None \/ f = Journal
    BY DEF DiskInv, KeyInv
  <2>2. ASSUME \E x \in dur[KeysFile] : x.dir = None, NEW g \in StoreFiles, NEW x \in dur'[g]
        PROVE  x.dir = None
    <3>1. CASE x \in dur[g]
      BY <2>2, <3>1 DEF DiskInv, RetiredInv
    <3>2. CASE x \notin dur[g]
      <4>1. g = f /\ x = fs'[f]
        BY <1>1, <2>2, <3>2, FileFacts
      <4> QED BY <1>3, <2>1, <2>2, <4>1, FileFacts
    <3> QED BY <3>1, <3>2
  <2>3. ASSUME NEW n \in Names, NEW x \in dur'[Tag(Derived, n)] PROVE x.dir = None
    <3>1. CASE x \in dur[Tag(Derived, n)]
      BY <3>1 DEF DiskInv, RetiredInv
    <3>2. CASE x \notin dur[Tag(Derived, n)]
      <4>1. Tag(Derived, n) = f /\ x = fs'[f]
        BY <1>1, <2>3, <3>2, FileFacts, Derivations
      <4> QED BY <1>3, <4>1
    <3> QED BY <3>1, <3>2
  <2> QED BY <1>2, <2>2, <2>3 DEF RetiredInv
<1> QED BY <1>1, <1>4, <1>5, <1>6, <1>7 DEF DiskInv

-----------------------------------------------------------------------------
(* Steps that only sync. *)

\* What a step that leaves every profile entry alone keeps of what the call knows.
LEMMA SameFiles ==
    ASSUME \A g \in Files : fs'[g].dir = fs[g].dir
    PROVE  /\ InDir(KeysFile)' = InDir(KeysFile) /\ InDir(Staging)' = InDir(Staging)
           /\ InDir(Journal)' = InDir(Journal)
           /\ InDir(ManifestFile)' = InDir(ManifestFile)
           /\ \A f \in StoreFiles : InDir(f)' = InDir(f)
           /\ \A n \in Names : InDir(Tag(Derived, n))' = InDir(Tag(Derived, n))
BY FileFacts, Derivations DEF InDir

SyncAndGo ==
    \/ RecoverMovesSync \/ RecoverDropsSync \/ RecoverRemovesStagingSync \/ RecoverEnds
    \/ FreshKeysSync \/ SettleDeletesSync \/ MigrateDeletesSync \/ UpgradeKeysSync
    \/ MutateApplySync \/ ApplySyncFails

LEMMA SyncAndGoSteps == IInv /\ SyncAndGo => IInv'
<1> SUFFICES ASSUME IInv, SyncAndGo PROVE IInv'
  OBVIOUS
<1>1. /\ Flush
      /\ UNCHANGED <<h, todo, ret, ver, nextB, okPw, okRc>>
      /\ <<pc, pc'>> \in {<<"movesync", "drop">>, <<"drop", "rmdir">>, <<"jdrop", "jremove">>,
                          <<"jremoved", "unlock">>, <<"fsync", "load">>,
                          <<"settledsync", "settle1">>, <<"migsync", "migrate">>,
                          <<"usync", "opened">>, <<"async", "settle">>}
  BY DEF SyncAndGo, RecoverMovesSync, RecoverDropsSync, RecoverRemovesStagingSync, RecoverEnds,
         FreshKeysSync, SettleDeletesSync, MigrateDeletesSync, UpgradeKeysSync, MutateApplySync,
         ApplySyncFails, SyncDir, LoseSync, Goto, promises
<1>2. DiskOK' /\ \A g \in Files : fs'[g] = fs[g] /\ dur'[g] = {fs[g]}
  BY <1>1, SyncFacts DEF IInv, TypeOK
<1>3. TypeOK'
  BY <1>1, <1>2 DEF IInv, TypeOK
<1>4. DiskInv'
  <2>1. pc' \notin Rolling => fs[KeysFile].stg = None
    BY <1>1 DEF IInv, StagingInv, Rolling
  <2>2. pc' # "stage" /\ (pc = "down" => pc' = "down")
    BY <1>1
  <2> QED BY <1>1, <1>2, <2>1, <2>2, KeptDisk DEF IInv, DiskInv
<1>5. CallInv'
  BY <1>1 DEF IInv, CallInv, Mutating, Keyed
<1>6. HandleInv'
  <2>1. /\ InDir(KeysFile)' = InDir(KeysFile)
        /\ \A f \in StoreFiles : InDir(f)' = InDir(f)
        /\ \A n \in Names : InDir(Tag(Derived, n))' = InDir(Tag(Derived, n))
    BY <1>2, SameFiles
  <2> HIDE <1>2
  <2> QED BY <1>1, <2>1
          DEF IInv, HandleInv, InStore, Loading, Mutating, Keyed, Upgrading, Recovering
<1> QED BY <1>3, <1>4, <1>5, <1>6 DEF IInv, DiskInv

LEMMA QuietFacts ==
    ASSUME DiskOK, UNCHANGED disk
    PROVE  DiskOK' /\ \A g \in Files : fs'[g] = fs[g] /\ dur'[g] = dur[g]
BY DEF DiskOK, disk

Returns == {"closed", "migrate", "ukeys", "opened", "open"}

LEMMA NoCall == NoHandle \in Handle /\ <<>> \in Seq(Mutation) /\ "closed" \in Returns
<1>1. Derived \in Bundles /\ FirstPw \in Passwords
  BY Derivations
<1> QED BY <1>1 DEF NoHandle, Handle, Returns

\* The handle is gone: closed, or without power.
LEMMA Ends ==
    ASSUME IInv, UNCHANGED <<ver, nextB, okPw, okRc>>, h' \in Handle,
           todo' \in Seq(Mutation), ret' \in Returns,
           \/ Flush /\ pc' = "closed" /\ pc # "down"
           \/ UNCHANGED disk /\ pc' = "down"
           \/ UNCHANGED disk /\ pc' = "closed" /\ pc \notin Deleting \cup {"fsync", "usync"}
    PROVE  IInv'
<1>1. DiskOK' /\ \A g \in Files : fs'[g] = fs[g] /\ dur'[g] \in {dur[g], {fs[g]}}
  BY SyncFacts, QuietFacts DEF IInv, TypeOK
<1>2. TypeOK'
  BY <1>1 DEF IInv, TypeOK, Returns
<1>3. DiskInv'
  <2>1. pc' \in Rolling /\ pc' # "stage" /\ (pc = "down" => pc' = "down")
    BY DEF Rolling, Deleting
  <2>2. CASE Flush
    <3>1. \A g \in Files : dur'[g] = {fs[g]}
      BY <2>2, SyncFacts DEF IInv, TypeOK
    <3> QED BY <1>1, <2>1, <3>1, KeptDisk DEF IInv, DiskInv
  <2>3. CASE UNCHANGED disk
    <3>1. \A g \in Files : dur'[g] = dur[g]
      BY <2>3, QuietFacts DEF IInv, TypeOK
    <3>2. CASE pc' = "down"
      BY <1>1, <2>1, <3>1, <3>2, KeptDisk DEF IInv, DiskInv, Deleting
    <3>3. CASE pc \notin Deleting \cup {"fsync", "usync"}
      BY <1>1, <2>1, <3>1, <3>3, KeptDisk DEF IInv, DiskInv, Deleting
    <3>4. pc' = "down" \/ pc \notin Deleting \cup {"fsync", "usync"} \/ Flush
      OBVIOUS
    <3> QED BY <2>2, <3>2, <3>3, <3>4
  <2> QED BY <2>2, <2>3
<1>4. CallInv' /\ HandleInv'
  <2>1. pc' \in {"closed", "down"}
    OBVIOUS
  <2> QED BY <2>1 DEF CallInv, HandleInv, InStore, Loading, Mutating, Keyed, Upgrading,
                      Recovering
<1> QED BY <1>2, <1>3, <1>4 DEF IInv, DiskInv

LEMMA RefuseEnds ==
    ASSUME IInv, NEW w, Refuse(w), pc \notin Deleting \cup {"fsync", "usync"}
    PROVE  IInv'
<1>1. /\ UNCHANGED disk /\ UNCHANGED <<ver, nextB, okPw, okRc>>
      /\ pc' = "closed" /\ h' = NoHandle /\ todo' = <<>> /\ ret' = "closed"
  BY DEF Refuse, promises
<1> QED BY <1>1, NoCall, Ends

LEMMA EndSteps == IInv /\ (Close \/ Kill \/ PowerLoss) => IInv'
<1>1. ASSUME IInv, Close PROVE IInv'
  <2>1. /\ UNCHANGED disk /\ UNCHANGED <<ver, nextB, okPw, okRc, todo, ret>>
        /\ pc = "open" /\ pc' = "closed" /\ h' = NoHandle
    BY <1>1 DEF Close, promises, call
  <2>2. todo' \in Seq(Mutation) /\ ret' \in Returns
    BY <1>1, <2>1 DEF IInv, TypeOK, Returns
  <2> QED BY <1>1, <2>1, <2>2, NoCall, Ends DEF Deleting
<1>2. ASSUME IInv, Kill PROVE IInv'
  <2>1. /\ Flush /\ UNCHANGED <<ver, nextB, okPw, okRc>> /\ pc # "down"
        /\ pc' = "closed" /\ h' = NoHandle /\ todo' = <<>> /\ ret' = "closed"
    BY <1>2 DEF Kill, LoseSync, Stop, promises
  <2> QED BY <1>2, <2>1, NoCall, Ends
<1>3. ASSUME IInv, PowerLoss PROVE IInv'
  <2>1. /\ UNCHANGED disk /\ UNCHANGED <<ver, nextB, okPw, okRc>>
        /\ pc' = "down" /\ h' = NoHandle /\ todo' = <<>> /\ ret' = "closed"
    BY <1>3 DEF PowerLoss, promises
  <2> QED BY <1>3, <2>1, NoCall, Ends
<1> QED BY <1>1, <1>2, <1>3

-----------------------------------------------------------------------------
(* Steps that leave the disk alone. *)

\* The parts about the disk, for a step between two places where it is quiet.
LEMMA QuietDisk ==
    ASSUME IInv, UNCHANGED disk, UNCHANGED <<okPw, okRc>>,
           pc \notin Deleting \cup {"fsync", "usync"}, pc' # "stage",
           pc' \notin Rolling => fs[KeysFile].stg = None
    PROVE  /\ DiskOK' /\ DiskInv'
           /\ InDir(KeysFile)' = InDir(KeysFile) /\ InDir(Journal)' = InDir(Journal)
           /\ \A f \in StoreFiles : InDir(f)' = InDir(f)
           /\ \A n \in Names : InDir(Tag(Derived, n))' = InDir(Tag(Derived, n))
<1>1. DiskOK' /\ \A g \in Files : fs'[g] = fs[g] /\ dur'[g] = dur[g]
  BY QuietFacts DEF IInv, TypeOK
<1>2. DiskInv'
  BY <1>1, KeptDisk DEF IInv, DiskInv, Deleting
<1> QED BY <1>1, <1>2, SameFiles

LEMMA OpenStep ==
    ASSUME IInv, NEW u \in Passwords \cup {Recovery}, NEW upgrade \in BOOLEAN, Open(u, upgrade)
    PROVE  IInv'
<1>1. /\ pc = "closed" /\ pc' = "recover" /\ h' = [NoHandle EXCEPT !.u = u, !.upgrade = upgrade]
      /\ UNCHANGED disk /\ UNCHANGED <<todo, ret, ver, nextB, okPw, okRc>>
  BY DEF Open, call, promises
<1>2. DiskOK' /\ DiskInv'
  BY <1>1, QuietDisk DEF Deleting, Rolling
<1>3. h' \in Handle /\ ~h'.derived
  BY <1>1, NoCall DEF NoHandle, Handle
<1>4. TypeOK'
  BY <1>1, <1>2, <1>3 DEF IInv, TypeOK
<1>5. CallInv' /\ HandleInv'
  BY <1>1, <1>3 DEF CallInv, HandleInv, InStore, Loading, Mutating, Keyed, Upgrading, Recovering
<1> QED BY <1>2, <1>4, <1>5 DEF IInv, DiskInv

\* The first switch of recover.
LEMMA RecoverChecks == IInv /\ (RecoverFinished \/ RecoverVerify) => IInv'
<1>1. ASSUME IInv, RecoverFinished PROVE IInv'
  <2>1. /\ pc = "recover" /\ pc' = "jdrop" /\ UNCHANGED disk
        /\ UNCHANGED <<h, todo, ret, ver, nextB, okPw, okRc>>
        /\ InDir(Staging) = None
    BY <1>1 DEF RecoverFinished, Goto
  <2>2. fs[KeysFile].stg = None
    BY <1>1, <2>1 DEF IInv, StagingInv
  <2>3. DiskOK' /\ DiskInv'
    BY <1>1, <2>1, <2>2, QuietDisk DEF Deleting
  <2>4. TypeOK'
    BY <1>1, <2>1, <2>3 DEF IInv, TypeOK
  <2>5. CallInv' /\ HandleInv'
    BY <1>1, <2>1 DEF IInv, CallInv, HandleInv, InStore, Loading, Mutating, Keyed, Upgrading,
                      Recovering
  <2> QED BY <2>3, <2>4, <2>5 DEF IInv, DiskInv
<1>2. ASSUME IInv, RecoverVerify PROVE IInv'
  <2>1. pc = "recover"
    BY <1>2 DEF RecoverVerify
  <2>2. CASE Refuse(RightCredentials) \/ Refuse(TRUE)
    BY <1>2, <2>1, <2>2, RefuseEnds DEF Deleting
  <2>3. CASE /\ StagedKeys # None /\ InDir(Journal) # None /\ pc' = "move" /\ UNCHANGED disk
             /\ UNCHANGED <<h, todo, ret, ver, nextB, okPw, okRc>>
    <3>1. /\ DiskOK' /\ DiskInv' /\ InDir(KeysFile)' = InDir(KeysFile)
          /\ InDir(Journal)' = InDir(Journal)
      BY <1>2, <2>1, <2>3, QuietDisk DEF Deleting, Rolling
    <3>2. InDir(KeysFile) # None
      <4>1. fs[KeysFile] \in dur[KeysFile]
        BY <1>2, FileFacts DEF IInv, TypeOK, DiskOK
      <4>2. InDir(KeysFile) # None \/ fs[KeysFile].stg # None
        BY <2>3 DEF StagedKeys, Staged
      <4> QED BY <1>2, <4>1, <4>2 DEF IInv, KeyInv, InDir
    <3>3. TypeOK'
      BY <1>2, <2>3, <3>1 DEF IInv, TypeOK
    <3>4. CallInv' /\ HandleInv'
      BY <1>2, <2>1, <2>3, <3>1, <3>2
      DEF IInv, CallInv, HandleInv, InStore, Loading, Mutating, Keyed, Upgrading, Recovering
    <3> QED BY <3>1, <3>3, <3>4 DEF IInv, DiskInv
  <2> QED BY <1>2, <2>2, <2>3 DEF RecoverVerify, Goto
<1> QED BY <1>1, <1>2

LEMMA UnlockKeyedStep == IInv /\ UnlockKeyed => IInv'
<1> SUFFICES ASSUME IInv, UnlockKeyed PROVE IInv'
  OBVIOUS
<1> DEFINE k == InDir(KeysFile)
<1>1. pc = "unlock" /\ k # None
  BY DEF UnlockKeyed
<1>2. CASE Refuse(RightCredentials)
  BY <1>1, <1>2, RefuseEnds DEF Deleting
<1>3. CASE Unlocks(k, h.u)
  <2>1. /\ h' = [h EXCEPT !.b = k.b, !.flow = "keyed",
                          !.derived = h.u # Recovery /\ k.b = Derived /\ h.u = FirstPw]
        /\ pc' = "load" /\ UNCHANGED disk
        /\ UNCHANGED <<todo, ret, ver, nextB, okPw, okRc>>
    BY <1>3 DEF UnlockKeyed, call, promises
  <2>2. DiskOK' /\ DiskInv' /\ InDir(KeysFile)' = k
    <3>1. fs[KeysFile].stg = None
      BY <1>1 DEF IInv, StagingInv, Rolling
    <3> QED BY <1>1, <2>1, <3>1, QuietDisk DEF Deleting
  <2>3. fs[KeysFile] \in dur[KeysFile] /\ fs[KeysFile] \in Entry(KeysFile)
    BY FileFacts DEF IInv, TypeOK, DiskOK
  <2>4. k \in KeyFile
    BY <1>1, <2>3, EntryFacts, BytesFacts, FileFacts DEF InDir
  <2>5. KeyOK(k)
    BY <1>1, <2>3 DEF IInv, KeyInv, InDir
  <2>6. /\ h' \in Handle /\ h'.b = k.b /\ h'.u = h.u /\ h'.flow = "keyed"
        /\ h'.derived = (h.u # Recovery /\ k.b = Derived /\ h.u = FirstPw)
    BY <2>1, <2>4 DEF IInv, TypeOK, Handle, KeyFile
  <2>7. TypeOK'
    BY <2>1, <2>2, <2>6 DEF IInv, TypeOK
  <2>8. CallInv'
    BY <2>1 DEF CallInv, Mutating, Keyed
  <2>9. k.b = Derived /\ h.u # Recovery => h.u = FirstPw
    BY <1>3, <2>5 DEF Unlocks, KeyOK
  <2>10. k.b = Derived => FirstPw \in okPw
    BY <2>5 DEF KeyOK
  <2> HIDE DEF k
  <2>11. HandleInv'
    BY <1>1, <2>1, <2>2, <2>6, <2>9, <2>10
    DEF HandleInv, InStore, Loading, Mutating, Keyed, Upgrading, Recovering
  <2> QED BY <2>2, <2>7, <2>8, <2>11 DEF IInv, DiskInv
<1> QED BY <1>2, <1>3 DEF UnlockKeyed

LEMMA UnlockUpgradeStep == IInv /\ UnlockUpgrade => IInv'
<1> SUFFICES ASSUME IInv, UnlockUpgrade PROVE IInv'
  OBVIOUS
<1>1. pc = "unlock" /\ InDir(KeysFile) = None /\ (HasStoreFiles \/ h.u = Recovery)
  BY DEF UnlockUpgrade
<1>2. CASE Refuse(keyed)
  BY <1>1, <1>2, RefuseEnds DEF Deleting
<1>3. CASE h.u = FirstPw /\ h.upgrade
  <2>1. /\ h' = [h EXCEPT !.b = Derived, !.flow = "upgrade", !.derived = TRUE]
        /\ pc' = "load" /\ UNCHANGED disk
        /\ UNCHANGED <<todo, ret, ver, nextB, okPw, okRc>>
    BY <1>3 DEF UnlockUpgrade, call, promises
  <2>2. DiskOK' /\ DiskInv' /\ InDir(KeysFile)' = InDir(KeysFile)
    <3>1. fs[KeysFile].stg = None
      BY <1>1 DEF IInv, StagingInv, Rolling
    <3> QED BY <1>1, <2>1, <3>1, QuietDisk DEF Deleting
  <2>3. /\ h' \in Handle /\ h'.b = Derived /\ h'.u = FirstPw /\ h'.flow = "upgrade"
        /\ h'.derived
    BY <1>3, <2>1, Derivations DEF IInv, TypeOK, Handle
  <2>4. FirstPw \in okPw
    <3>1. \A f \in Files : fs[f] \in dur[f]
      BY DEF IInv, TypeOK, DiskOK
    <3>2. h.u # Recovery
      BY <1>3, Derivations
    <3>3. PICK f \in StoreFiles : InDir(f) # None
      BY <1>1, <3>2, FileFacts DEF HasStoreFiles
    <3>4. \E x \in dur[KeysFile] : x.dir = None
      BY <1>1, <3>1, FileFacts DEF InDir
    <3> QED BY <3>1, <3>3, <3>4, FileFacts DEF IInv, RetiredInv, InDir
  <2>5. TypeOK'
    BY <2>1, <2>2, <2>3 DEF IInv, TypeOK
  <2>6. CallInv'
    BY <2>1 DEF CallInv, Mutating, Keyed
  <2>7. HandleInv'
    BY <1>1, <2>1, <2>2, <2>3, <2>4
    DEF HandleInv, InStore, Loading, Mutating, Keyed, Upgrading, Recovering
  <2> QED BY <2>2, <2>5, <2>6, <2>7 DEF IInv, DiskInv
<1> QED BY <1>2, <1>3 DEF UnlockUpgrade

LEMMA UnlockFreshStep == IInv /\ UnlockFresh => IInv'
<1> SUFFICES ASSUME IInv, UnlockFresh PROVE IInv'
  OBVIOUS
<1>1. /\ pc = "unlock" /\ InDir(KeysFile) = None /\ ~HasStoreFiles /\ h.u # Recovery
      /\ nextB < MaxBundle /\ nextB' = nextB + 1
      /\ h' = [h EXCEPT !.b = nextB + 1, !.flow = "fresh"] /\ pc' = "fkeys"
      /\ UNCHANGED disk /\ UNCHANGED <<todo, ret, ver, okPw, okRc>>
  BY DEF UnlockFresh, call, promises
<1>2. /\ DiskOK' /\ DiskInv' /\ InDir(KeysFile)' = InDir(KeysFile)
      /\ \A f \in StoreFiles : InDir(f)' = InDir(f)
  <2>1. fs[KeysFile].stg = None
    BY <1>1 DEF IInv, StagingInv, Rolling
  <2> QED BY <1>1, <2>1, QuietDisk DEF Deleting
<1>3. nextB' \in Bundles /\ nextB' # Derived
  BY <1>1, StoreAssumption DEF IInv, TypeOK, Bundles, Derived
<1>4. /\ h' \in Handle /\ h'.b = nextB' /\ h'.u = h.u /\ h'.derived = h.derived
      /\ h'.flow = "fresh"
  BY <1>1, <1>3 DEF IInv, TypeOK, Handle
<1>5. \A f \in StoreFiles : InDir(f) = None
  BY <1>1, FileFacts DEF HasStoreFiles, StoreFiles
<1>6. TypeOK'
  BY <1>1, <1>2, <1>3, <1>4 DEF IInv, TypeOK
<1>7. CallInv'
  BY <1>1 DEF CallInv, Mutating, Keyed
<1>8. HandleInv'
  BY <1>1, <1>2, <1>3, <1>4, <1>5
  DEF IInv, HandleInv, InStore, Loading, Mutating, Keyed, Upgrading, Recovering
<1> QED BY <1>2, <1>6, <1>7, <1>8 DEF IInv, DiskInv

-----------------------------------------------------------------------------
(* Steps of a handle that has its bundle. *)

SameBundle == h'.b = h.b /\ h'.u = h.u /\ h'.flow = h.flow /\ h'.derived = h.derived

\* Such a step keeps what the handle stands on when it leaves the key file alone.
LEMMA InStoreStep ==
    ASSUME IInv, DiskOK', DiskInv', UNCHANGED <<okPw, okRc, nextB>>,
           InDir(KeysFile)' = InDir(KeysFile),
           h.b # Derived => \A n \in Names : InDir(Tag(Derived, n))' = None,
           ver' \in Contents, h' \in Handle, SameBundle,
           todo' \in Seq(Mutation), ret' \in Returns,
           pc \in InStore \ {"stage"}, pc' \in InStore \ {"load", "stage"},
           Upgrading' <=> Upgrading, CallInv'
    PROVE  IInv'
<1>1. TypeOK'
  BY DEF IInv, TypeOK, Returns
<1>2. pc' \notin {"move", "fkeys", "fsync", "stage"} \cup Recovering
  BY DEF InStore, Loading, Mutating, Keyed, Recovering
<1>3. HandleInv'
  <2>1. pc' \in InStore /\ pc \in InStore
    OBVIOUS
  <2> HIDE DEF Upgrading, InStore
  <2> QED BY <1>2, <2>1 DEF IInv, HandleInv, SameBundle
<1> QED BY <1>1, <1>3 DEF IInv, DiskInv

\* The records of the derived bundle are not there for a handle of another.
LEMMA OthersGone ==
    ASSUME IInv, pc \in InStore \ {"load"}, h.b # Derived
    PROVE  \A n \in Names : InDir(Tag(Derived, n)) = None
BY DEF IInv, HandleInv

LEMMA InStoreQuiet ==
    ASSUME IInv, UNCHANGED disk, UNCHANGED <<okPw, okRc, nextB>>,
           ver' \in Contents, h' \in Handle, SameBundle,
           todo' \in Seq(Mutation), ret' \in Returns,
           pc \in InStore \ {"load", "stage", "usync"}, pc \notin Deleting,
           pc' \in InStore \ {"load", "stage"},
           Upgrading' <=> Upgrading, CallInv'
    PROVE  IInv'
<1>1. pc \notin Rolling /\ pc # "fsync"
  BY DEF InStore, Loading, Mutating, Keyed, Rolling
<1>2. fs[KeysFile].stg = None
  BY <1>1 DEF IInv, StagingInv
<1>3. /\ DiskOK' /\ DiskInv' /\ InDir(KeysFile)' = InDir(KeysFile)
      /\ \A n \in Names : InDir(Tag(Derived, n))' = InDir(Tag(Derived, n))
  BY <1>1, <1>2, QuietDisk
<1>4. h.b # Derived => \A n \in Names : InDir(Tag(Derived, n))' = None
  BY <1>3, OthersGone
<1> QED BY <1>3, <1>4, InStoreStep

LEMMA MutationTypes ==
    ASSUME IInv, pc \in Mutating
    PROVE  /\ Doing \in Mutation /\ DoingTag \in Tags /\ DoingTag[2] = h.b
           /\ h.man \in Manifest /\ Tail(todo) \in Seq(Mutation)
           /\ InDir(DoingTag) \in Contents \cup {None}
           /\ SettledManifest \in Manifest
<1>1. todo \in Seq(Mutation) /\ todo # <<>>
  BY DEF IInv, TypeOK, CallInv
<1>2. Doing \in Mutation /\ Tail(todo) \in Seq(Mutation)
  BY <1>1 DEF Doing
<1>3. h.man \in Manifest /\ h.b \in Bundles
  BY DEF IInv, TypeOK, CallInv, Handle
<1>4. DoingTag \in Tags /\ DoingTag[2] = h.b /\ Doing.n \in Names
  BY <1>2, <1>3, FileFacts DEF DoingTag, Mutation
<1>5. fs[DoingTag] \in Entry(DoingTag)
  BY <1>4, FileFacts DEF IInv, TypeOK, DiskOK
<1>6. InDir(DoingTag) \in Contents \cup {None}
  BY <1>4, <1>5, EntryFacts, BytesFacts, FileFacts DEF InDir
<1>7. SettledManifest \in Manifest
  BY <1>3, <1>4, <1>6 DEF SettledManifest, Manifest
<1> QED BY <1>2, <1>3, <1>4, <1>6, <1>7

\* A call that fails with the handle in the caller's hands leaves it open; one of an
\* open drops it.
LEMMA FailedCall ==
    ASSUME IInv, CallFails, UNCHANGED disk, UNCHANGED <<ver, nextB, okPw, okRc>>,
           pc \in {"pend", "settle"}, h' \in Handle, h'.man # None, SameBundle
    PROVE  IInv'
<1>1. todo' = <<>> /\ todo' \in Seq(Mutation) /\ ret' = "closed" /\ ret' \in Returns
  BY NoCall DEF CallFails
<1>2. CASE ret = "open"
  <2>1. pc' = "open"
    BY <1>2 DEF CallFails
  <2>2. Upgrading' <=> Upgrading
    BY <1>2, <2>1 DEF Upgrading, Loading, Mutating
  <2>3. CallInv'
    BY <2>1 DEF CallInv, Mutating, Keyed
  <2>4. /\ pc \in InStore \ {"load", "stage", "usync"} /\ pc \notin Deleting
        /\ pc' \in InStore \ {"load", "stage"}
    BY <2>1 DEF InStore, Loading, Mutating, Keyed, Deleting
  <2>5. ver' \in Contents
    BY DEF IInv, TypeOK
  <2> QED BY <1>1, <2>2, <2>3, <2>4, <2>5, InStoreQuiet
<1>3. CASE ret # "open"
  <2>1. pc' = "closed" /\ pc \notin Deleting \cup {"fsync", "usync"}
    BY <1>3 DEF CallFails, Deleting
  <2> QED BY <1>1, <2>1, Ends
<1> QED BY <1>2, <1>3

LEMMA FailureSteps ==
    IInv /\ (MutatePoisoned \/ PendingFails \/ ReadBackFails \/ SettleFails) => IInv'
<1> SUFFICES ASSUME IInv, MutatePoisoned \/ PendingFails \/ ReadBackFails \/ SettleFails
             PROVE  IInv'
  OBVIOUS
<1>1. /\ CallFails /\ UNCHANGED disk /\ UNCHANGED <<ver, nextB, okPw, okRc>>
      /\ pc \in {"pend", "settle"}
      /\ h' = h \/ h' = [h EXCEPT !.poisoned = TRUE] \/ (pc = "settle" /\ Settle)
  BY DEF MutatePoisoned, PendingFails, ReadBackFails, SettleFails, promises
<1>2. /\ h \in Handle /\ h.man \in Manifest /\ SettledManifest \in Manifest
      /\ Doing.n \in Names /\ None \notin Manifest
  <2>1. pc \in Mutating
    BY <1>1 DEF Mutating
  <2> QED BY <2>1, MutationTypes, NoneAssumption DEF IInv, TypeOK, Mutation
<1>3. h' \in Handle /\ h'.man # None /\ SameBundle
  <2>1. CASE h' = h
    BY <1>2, <2>1 DEF SameBundle
  <2>2. CASE h' = [h EXCEPT !.poisoned = TRUE]
    BY <1>2, <2>2 DEF SameBundle, Handle
  <2>3. CASE Settle
    BY <1>2, <2>3 DEF SameBundle, Handle, Settle
  <2> QED BY <1>1, <2>1, <2>2, <2>3
<1> QED BY <1>1, <1>3, FailedCall

LEMMA ApplyFailsStep == IInv /\ ApplyFails => IInv'
<1> SUFFICES ASSUME IInv, ApplyFails PROVE IInv'
  OBVIOUS
<1>1. /\ pc = "apply" /\ pc' = "settle" /\ UNCHANGED disk
      /\ UNCHANGED <<h, todo, ret, ver, nextB, okPw, okRc>>
  BY DEF ApplyFails, promises
<1>2. ver' \in Contents /\ h' \in Handle /\ todo' \in Seq(Mutation) /\ ret' \in Returns
  BY <1>1 DEF IInv, TypeOK, Returns
<1>3. SameBundle /\ CallInv' /\ (Upgrading' <=> Upgrading)
  BY <1>1 DEF IInv, CallInv, SameBundle, Upgrading, Loading, Mutating, Keyed
<1>4. /\ pc \in InStore \ {"load", "stage", "usync"} /\ pc \notin Deleting
      /\ pc' \in InStore \ {"load", "stage"}
  BY <1>1 DEF InStore, Loading, Mutating, Keyed, Deleting
<1> QED BY <1>1, <1>2, <1>3, <1>4, InStoreQuiet

LEMMA CallTypes ==
    /\ 0 \in Contents /\ MARKER \in Names /\ LATCH \in Names /\ UserNames \subseteq Names
    /\ \A n \in Names, v \in Contents \cup {None} :
           <<[n |-> n, v |-> v]>> \in Seq(Mutation) /\ <<[n |-> n, v |-> v]>> # <<>>
<1>1. 0 \in Contents /\ MARKER \in Names /\ LATCH \in Names /\ UserNames \subseteq Names
  BY StoreAssumption DEF Contents, Names
<1>2. \A n \in Names, v \in Contents \cup {None} : [n |-> n, v |-> v] \in Mutation
  BY DEF Mutation
<1>3. \A x \in Mutation : <<x>> \in Seq(Mutation) /\ <<x>> # <<>>
  OBVIOUS
<1> QED BY <1>1, <1>2, <1>3

\* put and remove, the imports, the end of the migration and of the open.
LEMMA CallSteps ==
    ASSUME IInv,
           \/ Opened \/ MigrateEnds
           \/ \E n \in UserNames : MigrateImports(n) \/ Put(n) \/ Remove(n)
    PROVE  IInv'
<1>1. ASSUME Opened PROVE IInv'
  <2>1. /\ pc = "opened" /\ pc' = "open" /\ UNCHANGED disk
        /\ UNCHANGED <<h, todo, ret, ver, nextB, okPw, okRc>>
    BY <1>1 DEF Opened, call
  <2>2. ver' \in Contents /\ h' \in Handle /\ todo' \in Seq(Mutation) /\ ret' \in Returns
    BY <2>1 DEF IInv, TypeOK, Returns
  <2>3. SameBundle /\ CallInv' /\ (Upgrading' <=> Upgrading)
    BY <2>1 DEF IInv, CallInv, SameBundle, Upgrading, Loading, Mutating, Keyed
  <2>4. /\ pc \in InStore \ {"load", "stage", "usync"} /\ pc \notin Deleting
        /\ pc' \in InStore \ {"load", "stage"}
    BY <2>1 DEF InStore, Loading, Mutating, Keyed, Deleting
  <2> QED BY <2>1, <2>2, <2>3, <2>4, InStoreQuiet
<1>2. ASSUME MigrateEnds PROVE IInv'
  <2> DEFINE mark == h.imported /\ MARKER \notin h.idx
             after == IF h.flow = "upgrade" THEN "ukeys" ELSE "opened"
  <2>1. /\ pc = "migrate" /\ UNCHANGED disk /\ UNCHANGED <<h, ver, nextB, okPw, okRc>>
        /\ todo' = IF mark THEN <<[n |-> MARKER, v |-> 0]>> ELSE <<>>
        /\ ret' = after /\ pc' = IF mark THEN "pend" ELSE after
    BY <1>2 DEF MigrateEnds, promises
  <2>2. ver' \in Contents /\ h' \in Handle /\ todo' \in Seq(Mutation) /\ ret' \in Returns
    BY <2>1, CallTypes DEF IInv, TypeOK, Returns
  <2>3. pc' = "pend" => todo' # <<>>
    BY <2>1, CallTypes
  <2>4. SameBundle /\ CallInv' /\ (Upgrading' <=> Upgrading)
    BY <2>1, <2>3 DEF IInv, CallInv, SameBundle, Upgrading, Loading, Mutating, Keyed
  <2>5. /\ pc \in InStore \ {"load", "stage", "usync"} /\ pc \notin Deleting
        /\ pc' \in InStore \ {"load", "stage"}
    BY <2>1 DEF InStore, Loading, Mutating, Keyed, Deleting
  <2> QED BY <2>1, <2>2, <2>4, <2>5, InStoreQuiet
<1>3. ASSUME NEW n \in UserNames, MigrateImports(n) PROVE IInv'
  <2>1. /\ pc = "migrate" /\ pc' = "pend" /\ ret' = "migrate" /\ UNCHANGED disk
        /\ todo' = <<[n |-> n, v |-> InDir(Legacy(n))]>>
        /\ UNCHANGED <<h, ver, nextB, okPw, okRc>>
    BY <1>3 DEF MigrateImports, promises
  <2>2. InDir(Legacy(n)) \in Contents \cup {None}
    <3>1. Legacy(n) \in Files /\ fs[Legacy(n)] \in Entry(Legacy(n))
      BY FileFacts DEF IInv, TypeOK, DiskOK
    <3> QED BY <3>1, EntryFacts, BytesFacts DEF InDir
  <2>3. todo' \in Seq(Mutation) /\ todo' # <<>>
    BY <2>1, <2>2, CallTypes
  <2>4. ver' \in Contents /\ h' \in Handle /\ ret' \in Returns
    BY <2>1 DEF IInv, TypeOK, Returns
  <2>5. SameBundle /\ CallInv' /\ (Upgrading' <=> Upgrading)
    BY <2>1, <2>3 DEF IInv, CallInv, SameBundle, Upgrading, Loading, Mutating, Keyed
  <2>6. /\ pc \in InStore \ {"load", "stage", "usync"} /\ pc \notin Deleting
        /\ pc' \in InStore \ {"load", "stage"}
    BY <2>1 DEF InStore, Loading, Mutating, Keyed, Deleting
  <2> QED BY <2>1, <2>3, <2>4, <2>5, <2>6, InStoreQuiet
<1>4. ASSUME NEW n \in UserNames, Put(n) \/ Remove(n) PROVE IInv'
  <2>1. /\ pc = "open" /\ pc' = "pend" /\ ret' = "open" /\ UNCHANGED disk
        /\ UNCHANGED <<h, nextB, okPw, okRc>>
    BY <1>4 DEF Put, Remove
  <2>2. ver' \in Contents
    BY <1>4, StoreAssumption DEF Put, Remove, IInv, TypeOK, Contents
  <2>3. todo' \in Seq(Mutation) /\ todo' # <<>>
    <3>1. CASE Remove(n)
      BY <3>1, CallTypes DEF Remove
    <3>2. CASE Put(n)
      <4> DEFINE one == <<[n |-> n, v |-> ver']>>
                 mark == <<[n |-> MARKER, v |-> 0]>>
      <4>1. todo' = (IF MARKER \in h.idx THEN <<>> ELSE mark) \o one
        BY <3>2 DEF Put
      <4>2. /\ one \in Seq(Mutation) /\ mark \in Seq(Mutation) /\ <<>> \in Seq(Mutation)
            /\ Len(one) = 1
        BY <2>2, CallTypes
      <4> HIDE DEF one, mark
      <4>3. PICK s \in Seq(Mutation) : todo' = s \o one
        BY <4>1, <4>2
      <4>4. todo' \in Seq(Mutation) /\ Len(todo') = Len(s) + 1 /\ Len(s) \in Nat
        <5>1. s \o one \in Seq(Mutation) /\ Len(s \o one) = Len(s) + Len(one) /\ Len(s) \in Nat
          BY <4>2, ConcatProperties
        <5> QED BY <4>2, <4>3, <5>1
      <4>5. Len(<<>>) = 0 /\ Len(todo') # 0
        BY <4>4
      <4> QED BY <4>4, <4>5
    <3> QED BY <1>4, <3>1, <3>2
  <2>4. h' \in Handle /\ ret' \in Returns
    BY <2>1 DEF IInv, TypeOK, Returns
  <2>5. SameBundle /\ CallInv' /\ (Upgrading' <=> Upgrading)
    BY <2>1, <2>3 DEF IInv, CallInv, SameBundle, Upgrading, Loading, Mutating, Keyed
  <2>6. /\ pc \in InStore \ {"load", "stage", "usync"} /\ pc \notin Deleting
        /\ pc' \in InStore \ {"load", "stage"}
    BY <2>1 DEF InStore, Loading, Mutating, Keyed, Deleting
  <2> QED BY <2>1, <2>2, <2>3, <2>4, <2>5, <2>6, InStoreQuiet
<1> QED BY <1>1, <1>2, <1>3, <1>4

LEMMA InStoreSync ==
    ASSUME IInv, Flush, UNCHANGED <<okPw, okRc, nextB>>,
           ver' \in Contents, h' \in Handle, SameBundle,
           todo' \in Seq(Mutation), ret' \in Returns,
           pc \in InStore \ {"load", "stage"}, pc' \in InStore \ {"load", "stage"},
           Upgrading' <=> Upgrading, CallInv'
    PROVE  IInv'
<1>1. pc \notin Rolling /\ pc # "down"
  BY DEF InStore, Loading, Mutating, Keyed, Rolling
<1>2. fs[KeysFile].stg = None
  BY <1>1 DEF IInv, StagingInv
<1>3. DiskOK' /\ \A g \in Files : fs'[g] = fs[g] /\ dur'[g] = {fs[g]}
  BY SyncFacts DEF IInv, TypeOK
<1>4. DiskInv'
  BY <1>1, <1>2, <1>3, KeptDisk DEF IInv, DiskInv
<1>5. /\ InDir(KeysFile)' = InDir(KeysFile)
      /\ \A n \in Names : InDir(Tag(Derived, n))' = InDir(Tag(Derived, n))
  BY <1>3, SameFiles
<1>6. h.b # Derived => \A n \in Names : InDir(Tag(Derived, n))' = None
  BY <1>5, OthersGone
<1> QED BY <1>3, <1>4, <1>5, <1>6, InStoreStep

\* What a profile entry holds.
LEMMA InDirType ==
    ASSUME IInv, NEW f \in Files
    PROVE  InDir(f) \in Bytes(f) \cup {None}
<1>1. fs[f] \in Entry(f)
  BY DEF IInv, TypeOK, DiskOK
<1> QED BY <1>1, EntryFacts DEF InDir

\* The latch goes before the migration, and only a handle with a manifest gets there.
LEMMA LatchSteps ==
    ASSUME IInv, NEW idx \in SUBSET Names, LatchThen(idx), pc \in Loading,
           h'.man # None, SameBundle
    PROVE  /\ todo' \in Seq(Mutation) /\ ret' \in Returns
           /\ pc' \in InStore \ {"load", "stage"} /\ CallInv'
           /\ Upgrading' <=> Upgrading
<1>1. /\ ret' = "migrate" /\ pc' \in {"migrate", "pend"}
      /\ todo' = IF LATCH \in idx THEN <<>> ELSE <<[n |-> LATCH, v |-> 0]>>
      /\ pc' = "pend" => LATCH \notin idx
  BY DEF LatchThen
<1>2. todo' \in Seq(Mutation) /\ (pc' = "pend" => todo' # <<>>)
  BY <1>1, CallTypes, NoCall
<1>3. ret' \in Returns /\ pc' \in InStore \ {"load", "stage"}
  BY <1>1 DEF Returns, InStore, Loading, Mutating
<1>4. CallInv' /\ (Upgrading' <=> Upgrading)
  BY <1>1, <1>2 DEF CallInv, Upgrading, Loading, Mutating, Keyed, SameBundle
<1> QED BY <1>2, <1>3, <1>4

LEMMA AdoptStep == IInv /\ AdoptSync => IInv'
<1> SUFFICES ASSUME IInv, AdoptSync PROVE IInv'
  OBVIOUS
<1>1. /\ pc = "adopt" /\ Flush /\ h' = [h EXCEPT !.man = InDir(ManifestFile)]
      /\ LatchThen(h.idx) /\ UNCHANGED <<ver, nextB, okPw, okRc>>
  BY DEF AdoptSync, SyncDir, promises
<1>2. InDir(ManifestFile) \in Manifest
  <2>1. InDir(ManifestFile) \in Manifest \cup {None}
    BY InDirType, BytesFacts, FileFacts
  <2>2. InDir(ManifestFile) # None
    BY <1>1 DEF IInv, CallInv
  <2> QED BY <2>1, <2>2
<1>3. h' \in Handle /\ h'.man # None /\ SameBundle /\ h.idx \in SUBSET Names /\ ver' \in Contents
  BY <1>1, <1>2, NoneAssumption DEF IInv, TypeOK, Handle, SameBundle
<1>4. pc \in Loading /\ pc \in InStore \ {"load", "stage"}
  BY <1>1 DEF Loading, InStore
<1> QED BY <1>1, <1>3, <1>4, LatchSteps, InStoreSync

LEMMA PendingSyncStep == IInv /\ MutatePendingSync => IInv'
<1> SUFFICES ASSUME IInv, MutatePendingSync PROVE IInv'
  OBVIOUS
<1>1. /\ pc = "psync" /\ Flush /\ h' = [h EXCEPT !.man = InDir(ManifestFile)]
      /\ pc' = "apply" /\ UNCHANGED <<todo, ret, ver, nextB, okPw, okRc>>
  BY DEF MutatePendingSync, SyncDir, call, promises
<1>2. InDir(ManifestFile) \in Manifest
  <2>1. InDir(ManifestFile) \in Manifest \cup {None}
    BY InDirType, BytesFacts, FileFacts
  <2>2. InDir(ManifestFile) # None
    BY <1>1 DEF IInv, CallInv
  <2> QED BY <2>1, <2>2
<1>3. /\ h' \in Handle /\ h'.man # None /\ SameBundle /\ ver' \in Contents
      /\ todo' \in Seq(Mutation) /\ ret' \in Returns
  BY <1>1, <1>2, NoneAssumption DEF IInv, TypeOK, Handle, SameBundle, Returns
<1>4. CallInv' /\ (Upgrading' <=> Upgrading)
  BY <1>1, <1>3 DEF IInv, CallInv, Upgrading, Loading, Mutating, Keyed, SameBundle
<1>5. pc \in InStore \ {"load", "stage"} /\ pc' \in InStore \ {"load", "stage"}
  BY <1>1 DEF InStore, Loading, Mutating
<1> QED BY <1>1, <1>3, <1>4, <1>5, InStoreSync

\* The fsync of the pending manifest fails: the handle stays the caller's, or an open ends.
LEMMA PendingSyncFailsStep == IInv /\ PendingSyncFails => IInv'
<1> SUFFICES ASSUME IInv, PendingSyncFails PROVE IInv'
  OBVIOUS
<1>1. /\ pc = "psync" /\ Flush /\ CallFails /\ UNCHANGED <<h, ver, nextB, okPw, okRc>>
  BY DEF PendingSyncFails, LoseSync, promises
<1>2. /\ todo' = <<>> /\ todo' \in Seq(Mutation) /\ ret' = "closed" /\ ret' \in Returns
      /\ h' \in Handle /\ ver' \in Contents /\ h.man # None
  BY <1>1, NoCall DEF CallFails, IInv, TypeOK, CallInv, Mutating
<1>3. CASE ret = "open"
  <2>1. pc' = "open"
    BY <1>1, <1>3 DEF CallFails
  <2>2. SameBundle /\ CallInv' /\ (Upgrading' <=> Upgrading)
    BY <1>1, <1>2, <1>3, <2>1 DEF SameBundle, CallInv, Upgrading, Loading, Mutating, Keyed
  <2>3. pc \in InStore \ {"load", "stage"} /\ pc' \in InStore \ {"load", "stage"}
    BY <1>1, <2>1 DEF InStore, Mutating, Keyed
  <2> QED BY <1>1, <1>2, <2>2, <2>3, InStoreSync
<1>4. CASE ret # "open"
  <2>1. pc' = "closed" /\ pc # "down"
    BY <1>1, <1>4 DEF CallFails
  <2> QED BY <1>1, <1>2, <2>1, Ends
<1> QED BY <1>3, <1>4

LEMMA KeysSyncFailsStep == IInv /\ KeysSyncFails => IInv'
<1> SUFFICES ASSUME IInv, KeysSyncFails PROVE IInv'
  OBVIOUS
<1>1. /\ pc = "ksync" /\ pc' = "open" /\ Flush /\ UNCHANGED <<h, todo, ret, ver, nextB, okPw, okRc>>
  BY DEF KeysSyncFails, LoseSync, call, promises
<1>2. /\ todo' \in Seq(Mutation) /\ ret' \in Returns /\ h' \in Handle /\ ver' \in Contents
  BY <1>1 DEF IInv, TypeOK, Returns
<1>3. SameBundle /\ CallInv' /\ (Upgrading' <=> Upgrading)
  BY <1>1 DEF SameBundle, IInv, CallInv, Upgrading, Loading, Mutating, Keyed
<1>4. pc \in InStore \ {"load", "stage"} /\ pc' \in InStore \ {"load", "stage"}
  BY <1>1 DEF InStore, Keyed
<1> QED BY <1>1, <1>2, <1>3, <1>4, InStoreSync

\* The handle writes or deletes a store file: a record of its own bundle, the manifest,
\* or a legacy file.
LEMMA InStoreRename ==
    ASSUME IInv, NEW f \in StoreFiles, NEW v \in Bytes(f) \cup {None}, Rename(f, v),
           f \in Tags => f[2] = h.b, v = None => pc' \in Deleting,
           h.b # Derived => \A n \in Names : InDir(Tag(Derived, n)) = None,
           UNCHANGED <<okPw, okRc, nextB>>,
           ver' \in Contents, h' \in Handle, SameBundle,
           todo' \in Seq(Mutation), ret' \in Returns,
           pc \in InStore \ {"stage", "usync"}, pc \notin Deleting,
           pc' \in InStore \ {"load", "stage", "usync"},
           Upgrading' <=> Upgrading, CallInv'
    PROVE  IInv'
<1>1. /\ {pc, pc'} \cap {"fsync", "usync", "stage", "down", "drop"} = {}
      /\ pc \notin Rolling
  BY DEF InStore, Loading, Mutating, Keyed, Rolling
<1>2. FirstPw \in okPw \/ InDir(KeysFile) # None
  <2>1. CASE Upgrading
    BY <2>1 DEF IInv, HandleInv
  <2>2. CASE ~Upgrading
    BY <2>2 DEF IInv, HandleInv
  <2> QED BY <2>1, <2>2
<1>3. \A n \in Names : Tag(Derived, n) \in Tags /\ Tag(Derived, n)[2] = Derived
  BY Derivations, FileFacts
<1>4. f \in {Tag(Derived, n) : n \in Names} => FirstPw \in okPw
  <2> SUFFICES ASSUME f \in {Tag(Derived, n) : n \in Names} PROVE FirstPw \in okPw
    OBVIOUS
  <2>1. h.b = Derived
    BY <1>3
  <2> QED BY <2>1 DEF IInv, HandleInv
<1>5. DiskInv' /\ DiskOK'
  BY <1>1, <1>2, <1>4, RenamedDisk DEF IInv, DiskInv
<1>6. \A g \in Files \ {f} : fs'[g] = fs[g]
  BY RenameFacts, FileFacts DEF IInv, TypeOK
<1>7. InDir(KeysFile)' = InDir(KeysFile)
  BY <1>6, FileFacts DEF InDir
<1>8. h.b # Derived => \A n \in Names : InDir(Tag(Derived, n))' = None
  <2> SUFFICES ASSUME h.b # Derived, NEW n \in Names PROVE InDir(Tag(Derived, n))' = None
    OBVIOUS
  <2>1. Tag(Derived, n) # f /\ Tag(Derived, n) \in Files
    BY <1>3, FileFacts
  <2> QED BY <1>6, <2>1 DEF InDir
<1> QED BY <1>5, <1>7, <1>8, InStoreStep

LEMMA FoundType ==
    ASSUME IInv
    PROVE  \A b \in Bundles : /\ Found(b) \in [Names -> Contents \cup {None}]
                              /\ [b |-> b, e |-> Found(b), p |-> None] \in Manifest
<1> SUFFICES ASSUME NEW b \in Bundles
             PROVE  /\ Found(b) \in [Names -> Contents \cup {None}]
                    /\ [b |-> b, e |-> Found(b), p |-> None] \in Manifest
  OBVIOUS
<1>1. \A n \in Names : Tag(b, n) \in Files /\ Bytes(Tag(b, n)) = Contents
  BY FileFacts, BytesFacts
<1>2. \A n \in Names : InDir(Tag(b, n)) \in Contents \cup {None}
  BY <1>1, InDirType
<1>3. Found(b) \in [Names -> Contents \cup {None}]
  BY <1>2 DEF Found
<1> QED BY <1>3 DEF Manifest

LEMMA LoadStep == IInv /\ LoadManifest => IInv'
<1> SUFFICES ASSUME IInv, LoadManifest PROVE IInv'
  OBVIOUS
<1> DEFINE found == Found(h.b)
           idx == {n \in Names : found[n] # None}
           m == InDir(ManifestFile)
<1>1. pc = "load" /\ h \in Handle /\ h.b \in Bundles
  BY DEF LoadManifest, IInv, TypeOK, Handle
<1>2. CASE Refuse(TRUE)
  BY <1>1, <1>2, RefuseEnds DEF Deleting
<1>3. CASE ~Refuse(TRUE)
  <2>1. h.b # Derived => \A n \in Names : InDir(Tag(Derived, n)) = None
    <3>1. ~ \E b \in Bundles \ {h.b}, n \in Names : InDir(Tag(b, n)) # None
      BY <1>3 DEF LoadManifest
    <3> QED BY <3>1, Derivations
  <2>2. m \in Manifest \cup {None} /\ idx \in SUBSET Names
    BY InDirType, BytesFacts, FileFacts
  <2>3. CASE m = None
    <3>1. /\ h' = [h EXCEPT !.idx = idx] /\ pc' = "adopt"
          /\ Rename(ManifestFile, [b |-> h.b, e |-> found, p |-> None])
          /\ UNCHANGED <<todo, ret, ver, nextB, okPw, okRc>>
      BY <1>3, <2>3 DEF LoadManifest, call, promises
    <3> DEFINE v == [b |-> h.b, e |-> found, p |-> None]
    <3>2. v \in Manifest /\ v # None
      BY <1>1, FoundType, NoneAssumption
    <3> HIDE DEF v
    <3>3. v \in Bytes(ManifestFile) \cup {None} /\ Rename(ManifestFile, v)
      BY <3>1, <3>2, BytesFacts DEF v
    <3>4. InDir(ManifestFile)' # None
      <4>1. fs'[ManifestFile] = [dir |-> v, stg |-> fs[ManifestFile].stg]
        BY <3>3, RenameFacts, FileFacts DEF IInv, TypeOK
      <4> QED BY <3>2, <4>1 DEF InDir
    <3>5. /\ h' \in Handle /\ SameBundle /\ ver' \in Contents
          /\ todo' \in Seq(Mutation) /\ ret' \in Returns
      BY <1>1, <2>2, <3>1 DEF IInv, TypeOK, Handle, SameBundle, Returns
    <3>6. CallInv' /\ (Upgrading' <=> Upgrading)
      BY <1>1, <3>1, <3>4, <3>5 DEF CallInv, Upgrading, Loading, Mutating, Keyed, SameBundle
    <3>7. /\ pc \in InStore \ {"stage", "usync"} /\ pc \notin Deleting
          /\ pc' \in InStore \ {"load", "stage", "usync"}
          /\ UNCHANGED <<okPw, okRc, nextB>>
      BY <1>1, <3>1 DEF InStore, Loading, Deleting
    <3>8. ManifestFile \in StoreFiles /\ ManifestFile \notin Tags
      BY FileFacts
    <3> QED BY <2>1, <3>2, <3>3, <3>5, <3>6, <3>7, <3>8, InStoreRename
  <2>4. CASE m # None
    <3>1. /\ h' = [h EXCEPT !.idx = idx, !.man = m]
          /\ UNCHANGED disk /\ UNCHANGED <<ver, nextB, okPw, okRc>>
          /\ \/ LatchThen(idx)
             \/ m.p # None /\ pc' = "settledel" /\ UNCHANGED <<todo, ret>>
      BY <1>3, <2>4 DEF LoadManifest, call, promises
    <3>2. h' \in Handle /\ h'.man = m /\ SameBundle /\ ver' \in Contents
      BY <1>1, <2>2, <2>4, <3>1 DEF IInv, TypeOK, Handle, SameBundle
    <3>3. /\ pc' \in InStore \ {"load", "stage"}
          /\ todo' \in Seq(Mutation) /\ ret' \in Returns
          /\ CallInv' /\ (Upgrading' <=> Upgrading)
      <4>1. CASE LatchThen(idx)
        <5>1. pc \in Loading
          BY <1>1 DEF Loading
        <5> QED BY <2>2, <2>4, <3>2, <4>1, <5>1, LatchSteps
      <4>2. CASE m.p # None /\ pc' = "settledel" /\ UNCHANGED <<todo, ret>>
        BY <1>1, <2>4, <3>2, <4>2
        DEF IInv, TypeOK, Returns, CallInv, Upgrading, InStore, Loading, Mutating, Keyed,
            SameBundle
      <4> QED BY <3>1, <4>1, <4>2
    <3>4. fs[KeysFile].stg = None
      BY <1>1 DEF IInv, StagingInv, Rolling
    <3>5. /\ DiskOK' /\ DiskInv' /\ InDir(KeysFile)' = InDir(KeysFile)
          /\ \A n \in Names : InDir(Tag(Derived, n))' = InDir(Tag(Derived, n))
      BY <1>1, <3>1, <3>3, <3>4, QuietDisk DEF Deleting
    <3>6. h.b # Derived => \A n \in Names : InDir(Tag(Derived, n))' = None
      BY <2>1, <3>5
    <3>7. pc \in InStore \ {"stage"} /\ UNCHANGED <<okPw, okRc, nextB>>
      BY <1>1, <3>1 DEF InStore, Loading
    <3> QED BY <3>2, <3>3, <3>5, <3>6, <3>7, InStoreStep
  <2> QED BY <2>3, <2>4
<1> QED BY <1>2, <1>3

\* The manifest is written.
LEMMA ManifestStep ==
    ASSUME IInv, NEW v \in Manifest, Rename(ManifestFile, v),
           UNCHANGED <<okPw, okRc, nextB>>,
           ver' \in Contents, h' \in Handle, SameBundle,
           todo' \in Seq(Mutation), ret' \in Returns,
           pc \in InStore \ {"load", "stage", "usync"}, pc \notin Deleting,
           pc' \in InStore \ {"load", "stage", "usync"},
           Upgrading' <=> Upgrading, InDir(ManifestFile)' # None => CallInv'
    PROVE  IInv'
<1>1. v # None /\ v \in Bytes(ManifestFile) \cup {None}
  BY NoneAssumption, BytesFacts
<1>2. InDir(ManifestFile)' # None
  <2>1. fs'[ManifestFile] = [dir |-> v, stg |-> fs[ManifestFile].stg]
    BY <1>1, RenameFacts, FileFacts DEF IInv, TypeOK
  <2> QED BY <1>1, <2>1 DEF InDir
<1>3. h.b # Derived => \A n \in Names : InDir(Tag(Derived, n)) = None
  BY OthersGone
<1>4. ManifestFile \in StoreFiles /\ ManifestFile \notin Tags
  BY FileFacts
<1> QED BY <1>1, <1>2, <1>3, <1>4, InStoreRename

LEMMA SettleWritesStep == IInv /\ SettleWrites => IInv'
<1> SUFFICES ASSUME IInv, SettleWrites PROVE IInv'
  OBVIOUS
<1> DEFINE v == [b |-> h.b, e |-> Found(h.b), p |-> None]
<1>1. /\ pc = "settle1" /\ pc' = "adopt" /\ Rename(ManifestFile, v)
      /\ UNCHANGED <<h, todo, ret, ver, nextB, okPw, okRc>>
  BY DEF SettleWrites, Goto
<1>2. v \in Manifest
  BY FoundType DEF IInv, TypeOK, Handle
<1> HIDE DEF v
<1>3. /\ ver' \in Contents /\ h' \in Handle /\ SameBundle
      /\ todo' \in Seq(Mutation) /\ ret' \in Returns
  BY <1>1 DEF IInv, TypeOK, Returns, SameBundle
<1>4. /\ pc \in InStore \ {"load", "stage", "usync"} /\ pc \notin Deleting
      /\ pc' \in InStore \ {"load", "stage", "usync"}
      /\ Upgrading' <=> Upgrading
      /\ InDir(ManifestFile)' # None => CallInv'
  BY <1>1 DEF InStore, Loading, Mutating, Keyed, Deleting, Upgrading, CallInv
<1> QED BY <1>1, <1>2, <1>3, <1>4, ManifestStep

LEMMA MutatePendingStep == IInv /\ MutatePending => IInv'
<1> SUFFICES ASSUME IInv, MutatePending PROVE IInv'
  OBVIOUS
<1> DEFINE v == [h.man EXCEPT !.e[Doing.n] = Doing.v,
                              !.p = [n |-> Doing.n, old |-> h.man.e[Doing.n]]]
<1>1. /\ pc = "pend" /\ pc' = "psync" /\ Rename(ManifestFile, v)
      /\ UNCHANGED <<h, todo, ret, ver, nextB, okPw, okRc>>
  BY DEF MutatePending, Goto
<1>2. v \in Manifest
  <2>1. Doing \in Mutation /\ h.man \in Manifest
    BY <1>1, MutationTypes DEF Mutating
  <2> QED BY <2>1 DEF Manifest, Mutation
<1> HIDE DEF v
<1>3. /\ ver' \in Contents /\ h' \in Handle /\ SameBundle
      /\ todo' \in Seq(Mutation) /\ ret' \in Returns
  BY <1>1 DEF IInv, TypeOK, Returns, SameBundle
<1>4. /\ pc \in InStore \ {"load", "stage", "usync"} /\ pc \notin Deleting
      /\ pc' \in InStore \ {"load", "stage", "usync"}
      /\ Upgrading' <=> Upgrading
      /\ InDir(ManifestFile)' # None => CallInv'
  BY <1>1 DEF IInv, InStore, Loading, Mutating, Keyed, Deleting, Upgrading, CallInv
<1> QED BY <1>1, <1>2, <1>3, <1>4, ManifestStep

LEMMA MutateApplyStep == IInv /\ MutateApply => IInv'
<1> SUFFICES ASSUME IInv, MutateApply PROVE IInv'
  OBVIOUS
<1>1. /\ pc = "apply" /\ pc' = "async" /\ Rename(DoingTag, Doing.v)
      /\ h' = [h EXCEPT !.idx = IF Doing.v = None THEN @ ELSE @ \cup {Doing.n}]
      /\ UNCHANGED <<todo, ret, ver, nextB, okPw, okRc>>
  BY DEF MutateApply, call, promises
<1>2. /\ Doing \in Mutation /\ DoingTag \in Tags /\ DoingTag[2] = h.b
  BY <1>1, MutationTypes DEF Mutating
<1>3. /\ Doing.v \in Bytes(DoingTag) \cup {None} /\ Doing.n \in Names
      /\ DoingTag \in StoreFiles
  BY <1>2, BytesFacts, FileFacts DEF Mutation
<1>4. /\ ver' \in Contents /\ h' \in Handle /\ SameBundle /\ h'.man = h.man
      /\ todo' \in Seq(Mutation) /\ ret' \in Returns
  BY <1>1, <1>3 DEF IInv, TypeOK, Returns, SameBundle, Handle
<1>5. /\ pc \in InStore \ {"load", "stage", "usync"} /\ pc \notin Deleting
      /\ pc' \in InStore \ {"load", "stage", "usync"} /\ pc' \in Deleting
      /\ Upgrading' <=> Upgrading
      /\ CallInv'
  BY <1>1, <1>4 DEF IInv, InStore, Loading, Mutating, Keyed, Deleting, Upgrading, CallInv,
                    SameBundle
<1>6. h.b # Derived => \A n \in Names : InDir(Tag(Derived, n)) = None
  BY <1>5, OthersGone
<1> QED BY <1>1, <1>2, <1>3, <1>4, <1>5, <1>6, InStoreRename

LEMMA MutateSettleStep == IInv /\ MutateSettle => IInv'
<1> SUFFICES ASSUME IInv, MutateSettle PROVE IInv'
  OBVIOUS
<1>1. /\ pc = "settle" /\ Rename(ManifestFile, SettledManifest) /\ Settle
      /\ UNCHANGED <<ver, nextB, okPw, okRc>>
      /\ \/ CallFails
         \/ /\ todo' = Tail(todo) /\ pc' = IF Tail(todo) = <<>> THEN ret ELSE "pend"
            /\ ret' = ret
  BY DEF MutateSettle
<1>2. /\ SettledManifest \in Manifest /\ Doing.n \in Names /\ Tail(todo) \in Seq(Mutation)
      /\ None \notin Manifest
  BY <1>1, MutationTypes, NoneAssumption DEF Mutating, Mutation
<1>3. h' \in Handle /\ SameBundle /\ ver' \in Contents /\ h'.man = SettledManifest
  BY <1>1, <1>2 DEF IInv, TypeOK, Handle, Settle, SameBundle
<1>4. todo' \in Seq(Mutation) /\ ret' \in Returns
  BY <1>1, <1>2, NoCall DEF CallFails, IInv, TypeOK, Returns
<1>5. CASE pc' \in InStore
  <2>1. /\ pc' \in {"open", "pend", "migrate", "ukeys", "opened"}
        /\ pc' = "open" => ret = "open"
        /\ pc' = "ukeys" => ret = "ukeys"
        /\ pc' = "opened" => ret = "opened"
        /\ pc' = "pend" => ret' = ret /\ todo' # <<>>
        /\ pc' = "migrate" => ret = "migrate"
    BY <1>1, <1>5 DEF CallFails, IInv, TypeOK, CallInv, InStore, Loading, Mutating, Keyed
  <2>2. /\ pc \in InStore \ {"load", "stage", "usync"} /\ pc \notin Deleting
        /\ pc' \in InStore \ {"load", "stage", "usync"}
    BY <1>1, <2>1 DEF InStore, Loading, Mutating, Keyed, Deleting
  <2>3. CallInv'
    BY <1>1, <1>2, <1>3, <2>1 DEF IInv, CallInv, Mutating, Keyed, SameBundle
  <2>4. Upgrading' <=> Upgrading
    BY <1>1, <1>3, <2>1 DEF IInv, CallInv, Upgrading, Loading, Mutating, SameBundle
  <2> QED BY <1>1, <1>2, <1>3, <1>4, <2>2, <2>3, <2>4, ManifestStep
<1>6. CASE pc' \notin InStore
  <2>1. pc' = "closed"
    BY <1>1, <1>6 DEF CallFails, IInv, TypeOK, CallInv, InStore, Loading, Mutating, Keyed
  <2>2. SettledManifest \in Bytes(ManifestFile) \cup {None} /\ SettledManifest # None
    BY <1>2, BytesFacts
  <2>3. /\ ManifestFile \in StoreFiles
        /\ ManifestFile \notin {Tag(Derived, n) : n \in Names}
    BY FileFacts, Derivations
  <2>4. FirstPw \in okPw \/ InDir(KeysFile) # None
    <3>1. pc \in InStore
      BY <1>1 DEF InStore, Mutating
    <3>2. CASE Upgrading
      BY <3>1, <3>2 DEF IInv, HandleInv
    <3>3. CASE ~Upgrading
      BY <3>1, <3>3 DEF IInv, HandleInv
    <3> QED BY <3>2, <3>3
  <2>5. DiskInv' /\ DiskOK'
    <3>1. /\ pc \notin Deleting \ {"drop"} /\ pc # "drop" /\ pc \notin Rolling
          /\ {pc, pc'} \cap {"fsync", "usync", "stage", "down"} = {}
      BY <1>1, <2>1 DEF Deleting, Rolling
    <3> QED BY <1>1, <2>2, <2>3, <2>4, <3>1, RenamedDisk DEF IInv, DiskInv
  <2>6. TypeOK'
    BY <1>1, <1>3, <1>4, <2>5 DEF IInv, TypeOK, Returns
  <2>7. CallInv' /\ HandleInv'
    BY <2>1 DEF CallInv, HandleInv, InStore, Loading, Mutating, Keyed, Upgrading, Recovering
  <2> QED BY <2>5, <2>6, <2>7 DEF IInv, DiskInv
<1> QED BY <1>5, <1>6

LEMMA SettleDeletesStep == IInv /\ SettleDeletes => IInv'
<1> SUFFICES ASSUME IInv, SettleDeletes PROVE IInv'
  OBVIOUS
<1> DEFINE n == h.man.p.n
           again == h.man.e[n] = None /\ InDir(Tag(h.b, n)) # None
<1>1. /\ pc = "settledel"
      /\ IF again THEN Rename(Tag(h.b, n), None) ELSE UNCHANGED disk
      /\ h' = [h EXCEPT !.idx = IF again THEN @ \ {n} ELSE @]
      /\ pc' = IF again THEN "settledsync" ELSE "settle1"
      /\ UNCHANGED <<todo, ret, ver, nextB, okPw, okRc>>
  BY DEF SettleDeletes, call, promises
<1>2. n \in Names /\ h.b \in Bundles
  <2>1. h.man \in Manifest /\ h.man.p # None /\ h.b \in Bundles
    BY <1>1 DEF IInv, TypeOK, Handle, CallInv
  <2> QED BY <2>1 DEF Manifest
<1>3. Tag(h.b, n) \in Tags /\ Tag(h.b, n)[2] = h.b /\ Tag(h.b, n) \in StoreFiles
  BY <1>2, FileFacts
<1> HIDE DEF again
<1>4. /\ ver' \in Contents /\ h' \in Handle /\ SameBundle /\ h'.man = h.man
      /\ todo' \in Seq(Mutation) /\ ret' \in Returns
  BY <1>1, <1>2 DEF IInv, TypeOK, Returns, SameBundle, Handle
<1>5. /\ pc \in InStore \ {"load", "stage", "usync"} /\ pc \notin Deleting
      /\ pc' \in InStore \ {"load", "stage", "usync"}
      /\ again => pc' \in Deleting
      /\ Upgrading' <=> Upgrading
      /\ CallInv'
  BY <1>1, <1>4 DEF IInv, InStore, Loading, Mutating, Keyed, Deleting, Upgrading, CallInv,
                    SameBundle
<1>6. h.b # Derived => \A m \in Names : InDir(Tag(Derived, m)) = None
  BY <1>5, OthersGone
<1>7. CASE again
  BY <1>1, <1>3, <1>4, <1>5, <1>6, <1>7, InStoreRename
<1>8. CASE ~again
  BY <1>1, <1>4, <1>5, <1>8, InStoreQuiet
<1> QED BY <1>7, <1>8

LEMMA MigrateDeletesStep ==
    ASSUME IInv, NEW n \in UserNames, MigrateDeletes(n)
    PROVE  IInv'
<1>1. /\ pc = "migrate" /\ pc' = "migsync" /\ Rename(Legacy(n), None)
      /\ h' = [h EXCEPT !.imported = @ \/ ~ImportClosed]
      /\ UNCHANGED <<todo, ret, ver, nextB, okPw, okRc>>
  BY DEF MigrateDeletes, call, promises
<1>2. Legacy(n) \in StoreFiles /\ Legacy(n) \notin Tags
  BY FileFacts
<1>3. /\ ver' \in Contents /\ h' \in Handle /\ SameBundle /\ h'.man = h.man
      /\ todo' \in Seq(Mutation) /\ ret' \in Returns
  BY <1>1 DEF IInv, TypeOK, Returns, SameBundle, Handle, ImportClosed
<1>4. /\ pc \in InStore \ {"load", "stage", "usync"} /\ pc \notin Deleting
      /\ pc' \in InStore \ {"load", "stage", "usync"} /\ pc' \in Deleting
      /\ Upgrading' <=> Upgrading
      /\ CallInv'
  BY <1>1, <1>3 DEF IInv, InStore, Loading, Mutating, Keyed, Deleting, Upgrading, CallInv,
                    SameBundle
<1>5. h.b # Derived => \A m \in Names : InDir(Tag(Derived, m)) = None
  BY <1>4, OthersGone
<1> QED BY <1>1, <1>2, <1>3, <1>4, <1>5, InStoreRename

-----------------------------------------------------------------------------
(* The journal, and the old records it lists. *)

LEMMA RecoverDropsStep ==
    ASSUME IInv, NEW t \in Tags, RecoverDrops(t)
    PROVE  IInv'
<1>1. /\ pc = "drop" /\ pc' = "drop" /\ Rename(t, None)
      /\ UNCHANGED <<h, todo, ret, ver, nextB, okPw, okRc>>
  BY DEF RecoverDrops, Goto
<1>2. t \in StoreFiles \cup {Journal}
  BY FileFacts
<1>3. DiskInv' /\ DiskOK'
  BY <1>1, <1>2, RenamedDisk DEF IInv, DiskInv, Deleting, Rolling
<1>4. TypeOK'
  BY <1>1, <1>3 DEF IInv, TypeOK
<1>5. CallInv' /\ HandleInv'
  BY <1>1 DEF IInv, CallInv, HandleInv, InStore, Loading, Mutating, Keyed, Upgrading, Recovering
<1> QED BY <1>3, <1>4, <1>5 DEF IInv, DiskInv

LEMMA JournalSteps == IInv /\ (RecoverRemovesJournal \/ WriteJournal) => IInv'
<1>1. ASSUME IInv, RecoverRemovesJournal PROVE IInv'
  <2>1. /\ pc = "jremove" /\ pc' = "jremoved" /\ Rename(Journal, None)
        /\ UNCHANGED <<h, todo, ret, ver, nextB, okPw, okRc>>
    BY <1>1 DEF RecoverRemovesJournal, Goto
  <2>2. Journal \notin StoreFiles /\ Journal \notin {Tag(Derived, n) : n \in Names}
    BY FileFacts, Derivations
  <2>3. DiskInv' /\ DiskOK'
    BY <1>1, <2>1, <2>2, RenamedDisk DEF IInv, DiskInv, Deleting, Rolling
  <2>4. TypeOK'
    BY <1>1, <2>1, <2>3 DEF IInv, TypeOK
  <2>5. CallInv' /\ HandleInv'
    BY <1>1, <2>1
    DEF IInv, CallInv, HandleInv, InStore, Loading, Mutating, Keyed, Upgrading, Recovering
  <2> QED BY <2>3, <2>4, <2>5 DEF IInv, DiskInv
<1>2. ASSUME IInv, WriteJournal PROVE IInv'
  <2> DEFINE j == [b |-> nextB, new |-> StagedRecords, man |-> StagedManifest,
                   old |-> {t \in Tags : InDir(t) # None}]
  <2>1. /\ pc = "journal" /\ pc' = "jsync" /\ Rename(Journal, j)
        /\ UNCHANGED <<h, todo, ret, ver, nextB, okPw, okRc>>
    BY <1>2 DEF WriteJournal, Goto
  <2>2. j \in JournalFile
    <3>1. h.man # None
      BY <1>2, <2>1 DEF IInv, CallInv
    <3>2. /\ StagedRecords \in [Names -> Contents \cup {None}] /\ StagedManifest \in Manifest
          /\ nextB \in Bundles
      BY <1>2, <3>1, StagedTypes DEF IInv, TypeOK
    <3> QED BY <3>2 DEF JournalFile
  <2> HIDE DEF j
  <2>3. /\ Journal \notin StoreFiles /\ Journal \notin {Tag(Derived, n) : n \in Names}
        /\ j \in Bytes(Journal) \cup {None}
    BY <2>2, FileFacts, BytesFacts, Derivations
  <2>4. DiskInv' /\ DiskOK'
    BY <1>2, <2>1, <2>3, RenamedDisk DEF IInv, DiskInv, Deleting, Rolling
  <2>5. TypeOK'
    BY <1>2, <2>1, <2>4 DEF IInv, TypeOK
  <2>6. CallInv' /\ HandleInv'
    BY <1>2, <2>1
    DEF IInv, CallInv, HandleInv, InStore, Loading, Mutating, Keyed, Upgrading, Recovering
  <2> QED BY <2>4, <2>5, <2>6 DEF IInv, DiskInv
<1> QED BY <1>1, <1>2

LEMMA WriteJournalSyncStep == IInv /\ WriteJournalSync => IInv'
<1> SUFFICES ASSUME IInv, WriteJournalSync PROVE IInv'
  OBVIOUS
<1>1. /\ pc = "jsync" /\ pc' = "recover" /\ Flush /\ h' = [NoHandle EXCEPT !.u = h.u]
      /\ UNCHANGED <<todo, ret, ver, nextB, okPw, okRc>>
  BY DEF WriteJournalSync, SyncDir, call, promises
<1>2. DiskOK' /\ \A g \in Files : fs'[g] = fs[g] /\ dur'[g] = {fs[g]}
  BY <1>1, SyncFacts DEF IInv, TypeOK
<1>3. DiskInv'
  BY <1>1, <1>2, KeptDisk DEF IInv, DiskInv, Rolling
<1>4. h' \in Handle /\ ~h'.derived
  BY <1>1, NoCall DEF NoHandle, Handle, IInv, TypeOK
<1>5. TypeOK'
  BY <1>1, <1>2, <1>4 DEF IInv, TypeOK
<1>6. CallInv' /\ HandleInv'
  BY <1>1, <1>4 DEF CallInv, HandleInv, InStore, Loading, Mutating, Keyed, Upgrading, Recovering
<1> QED BY <1>3, <1>5, <1>6 DEF IInv, DiskInv

-----------------------------------------------------------------------------
(* The key file. *)

\* A key file is written that the passwords and the slot allow.
LEMMA KeysWritten ==
    ASSUME TypeOK, DiskInv, NEW k \in KeyFile, Rename(KeysFile, k),
           k.pw \in okPw', k.b = Derived => k.pw = FirstPw, okRc => k.rc,
           okRc' = okRc, pc \notin Deleting \cup {"fsync", "usync"} \cup Rolling,
           pc' \notin Deleting \cup Rolling \cup {"stage"},
           fs[KeysFile].stg = None,
           InDir(KeysFile) = None => pc' \in {"fsync", "usync"},
           InDir(KeysFile) # None => okPw \subseteq okPw',
           FirstPw \notin okPw' /\ FirstPw \in okPw =>
              \A f \in StoreFiles : \A x \in dur[f] : x.dir = None
    PROVE  /\ DiskOK' /\ DiskInv'
           /\ InDir(KeysFile)' = k
           /\ \A f \in StoreFiles : InDir(f)' = InDir(f)
           /\ \A n \in Names : InDir(Tag(Derived, n))' = InDir(Tag(Derived, n))
<1>1. /\ DiskOK'
      /\ fs'[KeysFile] = [dir |-> k, stg |-> None]
      /\ \A g \in Files \ {KeysFile} : fs'[g] = fs[g] /\ dur'[g] = dur[g]
      /\ dur'[KeysFile] = dur[KeysFile] \cup {fs'[KeysFile]}
  <2>1. k \in Bytes(KeysFile) \cup {None} /\ KeysFile \in Files
    BY BytesFacts, FileFacts
  <2> QED BY <2>1, RenameFacts DEF TypeOK
<1>2. k # None
  BY NoneAssumption
<1>3. fs'[KeysFile].dir = k /\ fs'[KeysFile].stg = None
  BY <1>1
<1>4. /\ \A f \in StoreFiles : fs'[f] = fs[f] /\ dur'[f] = dur[f]
      /\ fs'[Staging] = fs[Staging]
      /\ \A n \in Names : /\ fs'[Tag(Derived, n)] = fs[Tag(Derived, n)]
                          /\ dur'[Tag(Derived, n)] = dur[Tag(Derived, n)]
  BY <1>1, FileFacts, Derivations
<1>5. InDir(KeysFile) = None => \A x \in dur[KeysFile] : x.dir = None
  BY DEF DiskInv, KeyInv, Deleting
<1>6. InDir(KeysFile) # None => \A x \in dur[KeysFile] : x.dir # None
  BY DEF DiskInv, KeyInv, Deleting
<1>7. DeleteInv'
  BY <1>4 DEF DiskInv, DeleteInv, InDir, Deleting
<1>8. StagingInv'
  BY <1>3, <1>4 DEF DiskInv, StagingInv, InDir
<1>9. KeyInv'
  <2>1. ASSUME NEW x \in dur'[KeysFile]
        PROVE  /\ x.dir # None => KeyOK(x.dir)'
               /\ x.stg # None => KeyOK(x.stg)' /\ x.dir # None
               /\ okRc' => x.dir # None
    <3>1. CASE x = fs'[KeysFile]
      BY <1>2, <1>3, <3>1 DEF KeyOK
    <3>2. CASE x \in dur[KeysFile]
      <4>1. CASE InDir(KeysFile) = None
        BY <1>5, <3>2, <4>1 DEF DiskInv, KeyInv
      <4>2. CASE InDir(KeysFile) # None
        BY <3>2, <4>2 DEF DiskInv, KeyInv, KeyOK
      <4> QED BY <4>1, <4>2
    <3> QED BY <1>1, <2>1, <3>1, <3>2
  <2>2. pc' \notin {"fsync", "usync", "down"} =>
           \A x \in dur'[KeysFile] : x.dir = None <=> InDir(KeysFile)' = None
    BY <1>1, <1>2, <1>3, <1>6 DEF InDir
  <2> QED BY <2>1, <2>2 DEF KeyInv, KeyOK
<1>10. RetiredInv'
  <2> SUFFICES ASSUME FirstPw \notin okPw' PROVE RetiredInv'
    BY DEF RetiredInv
  <2>1. CASE FirstPw \in okPw
    BY <1>4, <2>1, Derivations DEF RetiredInv
  <2>2. CASE FirstPw \notin okPw
    <3>1. (\E x \in dur'[KeysFile] : x.dir = None) => \E x \in dur[KeysFile] : x.dir = None
      BY <1>1, <1>2, <1>3
    <3> QED BY <1>4, <2>2, <3>1 DEF DiskInv, RetiredInv
  <2> QED BY <2>1, <2>2
<1> QED BY <1>1, <1>3, <1>4, <1>7, <1>8, <1>9, <1>10 DEF InDir, DiskInv

LEMMA KeyFacts ==
    ASSUME IInv
    PROVE  /\ fs[KeysFile] \in dur[KeysFile]
           /\ InDir(KeysFile) # None => InDir(KeysFile) \in KeyFile /\ KeyOK(InDir(KeysFile))
           /\ okRc => InDir(KeysFile) # None
<1>1. fs[KeysFile] \in dur[KeysFile]
  BY FileFacts DEF IInv, TypeOK, DiskOK
<1>2. InDir(KeysFile) \in KeyFile \cup {None}
  BY InDirType, BytesFacts, FileFacts
<1> QED BY <1>1, <1>2 DEF IInv, KeyInv, InDir

LEMMA FreshKeysStep == IInv /\ FreshKeys => IInv'
<1> SUFFICES ASSUME IInv, FreshKeys PROVE IInv'
  OBVIOUS
<1> DEFINE k == [b |-> h.b, pw |-> h.u, rc |-> FALSE]
<1>1. /\ pc = "fkeys" /\ pc' = "fsync" /\ Rename(KeysFile, k) /\ okPw' = {h.u}
      /\ UNCHANGED <<h, todo, ret, ver, nextB, okRc>>
  BY DEF FreshKeys, call
<1>2. /\ InDir(KeysFile) = None /\ h.b # Derived /\ h.u # Recovery /\ ~h.derived
      /\ h.flow = "fresh" /\ \A f \in StoreFiles : InDir(f) = None
  BY <1>1 DEF IInv, HandleInv
<1>3. k \in KeyFile /\ k.pw = h.u /\ k.b = h.b
  BY <1>2 DEF KeyFile, IInv, TypeOK, Handle
<1>4. ~okRc
  BY <1>2, KeyFacts
<1>5. \A f \in StoreFiles : \A x \in dur[f] : x.dir = None
  BY <1>1, <1>2 DEF IInv, DeleteInv, Deleting
<1>6. fs[KeysFile].stg = None
  BY <1>1 DEF IInv, StagingInv, Rolling
<1> HIDE DEF k
<1>7. DiskOK' /\ DiskInv' /\ InDir(KeysFile)' = k
  BY <1>1, <1>2, <1>3, <1>4, <1>5, <1>6, KeysWritten DEF IInv, DiskInv, Deleting, Rolling
<1>8. TypeOK'
  BY <1>1, <1>7 DEF IInv, TypeOK
<1>9. CallInv' /\ HandleInv'
  <2>1. k # None
    BY <1>3, NoneAssumption
  <2> QED BY <1>1, <1>2, <1>3, <1>7, <2>1
          DEF CallInv, HandleInv, InStore, Loading, Mutating, Keyed, Upgrading, Recovering
<1> QED BY <1>7, <1>8, <1>9 DEF IInv, DiskInv

LEMMA UpgradeKeysStep == IInv /\ UpgradeKeys => IInv'
<1> SUFFICES ASSUME IInv, UpgradeKeys PROVE IInv'
  OBVIOUS
<1> DEFINE k == [b |-> h.b, pw |-> h.u, rc |-> FALSE]
<1>1. /\ pc = "ukeys" /\ pc' = "usync" /\ Rename(KeysFile, k)
      /\ UNCHANGED <<h, todo, ret, ver, nextB, okPw, okRc>>
  BY DEF UpgradeKeys, Goto
<1>2. Upgrading
  BY <1>1 DEF IInv, CallInv, Upgrading
<1>3. /\ InDir(KeysFile) = None /\ h.b = Derived /\ h.u = FirstPw /\ h.derived
      /\ FirstPw \in okPw
  <2>1. pc \in InStore
    BY <1>1 DEF InStore
  <2> QED BY <1>2, <2>1 DEF IInv, HandleInv
<1>4. k \in KeyFile /\ k.pw = h.u /\ k.b = h.b
  BY <1>3, Derivations DEF KeyFile
<1>5. ~okRc
  BY <1>3, KeyFacts
<1>6. fs[KeysFile].stg = None
  BY <1>1 DEF IInv, StagingInv, Rolling
<1> HIDE DEF k
<1>7. /\ DiskOK' /\ DiskInv' /\ InDir(KeysFile)' = k
  BY <1>1, <1>3, <1>4, <1>5, <1>6, KeysWritten DEF IInv, DiskInv, Deleting, Rolling
<1>8. TypeOK'
  BY <1>1, <1>7 DEF IInv, TypeOK
<1>9. CallInv' /\ HandleInv'
  <2>1. k # None
    BY <1>4, NoneAssumption
  <2> QED BY <1>1, <1>3, <1>4, <1>7, <2>1
          DEF IInv, CallInv, HandleInv, InStore, Loading, Mutating, Keyed, Upgrading, Recovering
<1> QED BY <1>7, <1>8, <1>9 DEF IInv, DiskInv

\* rewrap_password and add_recovery_wrap.
LEMMA RewrapSteps ==
    ASSUME IInv, AddRecoveryWrap \/ \E p \in Passwords : RewrapPassword(p)
    PROVE  IInv'
<1> DEFINE old == InDir(KeysFile)
<1>1. pc = "open" /\ pc' = "ksync" /\ UNCHANGED <<h, todo, ret, ver, nextB, okRc>>
  BY DEF AddRecoveryWrap, RewrapPassword, call, promises
<1>2. /\ old # None /\ old.b = h.b
      /\ h.b = Derived => FirstPw \in okPw /\ (h.u # Recovery => h.derived)
      /\ h.derived => h.u = FirstPw /\ h.b = Derived
      /\ h.b # Derived => \A n \in Names : InDir(Tag(Derived, n)) = None
  BY <1>1 DEF IInv, HandleInv, InStore, Keyed, Upgrading, Loading, Mutating
<1>3. old \in KeyFile /\ KeyOK(old)
  BY <1>2, KeyFacts
<1>4. PICK k \in KeyFile : /\ Rename(KeysFile, k) /\ k.b = old.b
                           /\ k.pw \in okPw' /\ (k.b = Derived => k.pw = FirstPw)
                           /\ okRc => k.rc
                           /\ okPw \subseteq okPw'
  <2>1. CASE AddRecoveryWrap
    <3> DEFINE k == [old EXCEPT !.rc = TRUE]
    <3>1. k \in KeyFile /\ k.b = old.b /\ k.pw = old.pw /\ k.rc
      BY <1>3 DEF KeyFile
    <3>2. Rename(KeysFile, k) /\ okPw' = okPw
      BY <2>1 DEF AddRecoveryWrap, promises
    <3> HIDE DEF k
    <3> QED BY <1>3, <3>1, <3>2 DEF KeyOK
  <2>2. CASE \E p \in Passwords : RewrapPassword(p)
    <3>1. PICK p \in Passwords : RewrapPassword(p)
      BY <2>2
    <3> DEFINE k == [old EXCEPT !.pw = p]
    <3>2. k \in KeyFile /\ k.b = old.b /\ k.pw = p /\ k.rc = old.rc
      BY <1>3 DEF KeyFile
    <3>3. Rename(KeysFile, k) /\ okPw' = okPw \cup {p} /\ ~h.derived /\ h.u # Recovery
      BY <3>1 DEF RewrapPassword
    <3>4. old.b # Derived
      BY <1>2, <3>3
    <3> HIDE DEF k
    <3> QED BY <1>3, <3>2, <3>3, <3>4 DEF KeyOK
  <2> QED BY <2>1, <2>2
<1>5. fs[KeysFile].stg = None
  BY <1>1 DEF IInv, StagingInv, Rolling
<1>6. /\ DiskOK' /\ DiskInv' /\ InDir(KeysFile)' = k
      /\ \A n \in Names : InDir(Tag(Derived, n))' = InDir(Tag(Derived, n))
  BY <1>1, <1>2, <1>4, <1>5, KeysWritten DEF IInv, DiskInv, Deleting, Rolling
<1>7. TypeOK'
  BY <1>1, <1>6 DEF IInv, TypeOK
<1>8. CallInv' /\ HandleInv'
  <2>1. k # None
    BY <1>4, NoneAssumption
  <2>2. CallInv'
    BY <1>1 DEF IInv, CallInv, Mutating, Keyed
  <2> HIDE DEF old
  <2>3. HandleInv'
    BY <1>1, <1>2, <1>4, <1>6, <2>1
    DEF HandleInv, InStore, Loading, Mutating, Keyed, Upgrading, Recovering
  <2> QED BY <2>2, <2>3
<1> QED BY <1>6, <1>7, <1>8 DEF IInv, DiskInv

\* The password and the slot are the store's once the key file is synced.
LEMMA KeysSyncStep == IInv /\ KeysSync => IInv'
<1> SUFFICES ASSUME IInv, KeysSync PROVE IInv'
  OBVIOUS
<1> DEFINE k == InDir(KeysFile)
<1>1. /\ pc = "ksync" /\ pc' = "open" /\ Flush /\ okPw' = {k.pw} /\ okRc' = k.rc
      /\ UNCHANGED <<h, todo, ret, ver, nextB>>
  BY DEF KeysSync, SyncDir, call
<1>2. /\ k # None /\ k.b = h.b
      /\ h.b = Derived => FirstPw \in okPw /\ (h.u # Recovery => h.derived)
      /\ h.derived => h.u = FirstPw /\ h.b = Derived
      /\ h.b # Derived => \A n \in Names : InDir(Tag(Derived, n)) = None
  BY <1>1 DEF IInv, HandleInv, InStore, Keyed, Upgrading, Loading, Mutating
<1>3. KeyOK(k) /\ fs[KeysFile] \in dur[KeysFile]
  BY <1>2, KeyFacts
<1>4. DiskOK' /\ \A g \in Files : fs'[g] = fs[g] /\ dur'[g] = {fs[g]}
  BY <1>1, SyncFacts DEF IInv, TypeOK
<1>5. /\ InDir(KeysFile)' = k /\ dur'[KeysFile] = {fs[KeysFile]} /\ fs[KeysFile].stg = None
      /\ fs[KeysFile].dir = k
      /\ \A n \in Names : /\ InDir(Tag(Derived, n))' = InDir(Tag(Derived, n))
                          /\ dur'[Tag(Derived, n)] = {fs[Tag(Derived, n)]}
                          /\ fs[Tag(Derived, n)] \in dur[Tag(Derived, n)]
      /\ fs'[KeysFile] = fs[KeysFile]
  <2>1. fs[KeysFile].stg = None
    BY <1>1 DEF IInv, StagingInv, Rolling
  <2>2. \A g \in Files : fs[g] \in dur[g]
    BY DEF IInv, TypeOK, DiskOK
  <2> QED BY <1>4, <2>1, <2>2, SameFiles, FileFacts, Derivations DEF InDir
<1>6. TypeOK'
  BY <1>1, <1>4 DEF IInv, TypeOK
<1>7. DeleteInv'
  BY <1>4, FileFacts DEF DeleteInv, InDir
<1>8. StagingInv'
  <2>1. \A n \in Names : \A x \in dur'[Tag(Derived, n)] : x.stg = None
    BY <1>5 DEF IInv, StagingInv
  <2> QED BY <1>1, <1>5, <2>1 DEF StagingInv
<1>9. k.b = Derived => k.pw = FirstPw
  BY <1>3 DEF KeyOK
<1>10. KeyInv'
  <2> HIDE DEF k
  <2> QED BY <1>1, <1>2, <1>5, <1>9 DEF KeyInv, KeyOK
<1>11. RetiredInv'
  <2> SUFFICES ASSUME FirstPw \notin okPw' PROVE RetiredInv'
    BY DEF RetiredInv
  <2>1. h.b # Derived
    BY <1>1, <1>2, <1>9
  <2>2. \A n \in Names : \A x \in dur'[Tag(Derived, n)] : x.dir = None
    BY <1>2, <1>5, <2>1 DEF InDir
  <2>3. ~ \E x \in dur'[KeysFile] : x.dir = None
    BY <1>2, <1>5
  <2> QED BY <2>2, <2>3 DEF RetiredInv
<1>12. CallInv'
  BY <1>1 DEF IInv, CallInv, Mutating, Keyed
<1>13. HandleInv'
  <2>1. h.b = Derived => FirstPw \in okPw'
    BY <1>1, <1>2, <1>9
  <2> HIDE DEF k
  <2> QED BY <1>1, <1>2, <1>5, <2>1
          DEF HandleInv, InStore, Loading, Mutating, Keyed, Upgrading, Recovering
<1> QED BY <1>6, <1>7, <1>8, <1>10, <1>11, <1>12, <1>13 DEF IInv

-----------------------------------------------------------------------------
(* The staging directory. *)

\* It goes, or is made anew: the profile's own entries stay.
LEMMA CleanedDisk ==
    ASSUME TypeOK, DiskInv, UNCHANGED <<okPw, okRc>>,
           \A g \in Files \ {Staging} :
               /\ fs'[g] = [dir |-> fs[g].dir, stg |-> None]
               /\ dur'[g] = dur[g] \cup {[dir |-> fs[g].dir, stg |-> None]},
           pc \notin Deleting \cup {"fsync", "usync"},
           pc' = "stage" => InDir(Staging)' # None /\ nextB' # Derived
    PROVE  /\ DiskInv'
           /\ InDir(KeysFile)' = InDir(KeysFile)
           /\ \A f \in StoreFiles : InDir(f)' = InDir(f)
           /\ \A n \in Names : InDir(Tag(Derived, n))' = InDir(Tag(Derived, n))
<1>1. \A g \in Files \ {Staging} :
         /\ fs'[g].dir = fs[g].dir /\ fs'[g].stg = None
         /\ \A x \in dur'[g] : \/ x \in dur[g]
                               \/ x.dir = fs[g].dir /\ x.stg = None
         /\ fs[g] \in dur[g]
  <2>1. \A g \in Files : fs[g] \in dur[g]
    BY DEF TypeOK, DiskOK
  <2> SUFFICES ASSUME NEW g \in Files \ {Staging}
               PROVE  /\ fs'[g].dir = fs[g].dir /\ fs'[g].stg = None
                      /\ \A x \in dur'[g] : \/ x \in dur[g]
                                            \/ x.dir = fs[g].dir /\ x.stg = None
    BY <2>1
  <2> DEFINE y == [dir |-> fs[g].dir, stg |-> None]
  <2>2. y.dir = fs[g].dir /\ y.stg = None
    OBVIOUS
  <2>3. fs'[g] = y /\ dur'[g] = dur[g] \cup {y}
    OBVIOUS
  <2> QED BY <2>2, <2>3
<1>2. KeysFile \in Files \ {Staging} /\ StoreFiles \subseteq Files \ {Staging}
      /\ \A n \in Names : Tag(Derived, n) \in Files \ {Staging}
  BY FileFacts, Derivations
<1>3. DeleteInv'
  BY <1>1, <1>2 DEF DiskInv, DeleteInv, InDir
<1>4. StagingInv'
  <2>1. \A n \in Names : \A x \in dur'[Tag(Derived, n)] : x.stg = None
    BY <1>1, <1>2 DEF DiskInv, StagingInv
  <2> QED BY <1>1, <1>2, <2>1 DEF StagingInv
<1>5. KeyInv'
  <2>1. ASSUME NEW x \in dur'[KeysFile]
        PROVE  /\ x.dir # None => KeyOK(x.dir)'
               /\ x.stg # None => KeyOK(x.stg)' /\ x.dir # None
               /\ okRc' => x.dir # None
    BY <1>1, <1>2, <2>1 DEF DiskInv, KeyInv, KeyOK
  <2>2. \A x \in dur'[KeysFile] : x.dir = None <=> InDir(KeysFile)' = None
    BY <1>1, <1>2 DEF DiskInv, KeyInv, InDir, Deleting
  <2> QED BY <2>1, <2>2 DEF KeyInv, KeyOK
<1>6. RetiredInv'
  <2> SUFFICES ASSUME FirstPw \notin okPw PROVE RetiredInv'
    BY DEF RetiredInv
  <2>1. (\E x \in dur'[KeysFile] : x.dir = None) => \E x \in dur[KeysFile] : x.dir = None
    BY <1>1, <1>2
  <2>2. \A n \in Names : \A x \in dur'[Tag(Derived, n)] : x.dir = None
    BY <1>1, <1>2 DEF DiskInv, RetiredInv
  <2>3. (\E x \in dur[KeysFile] : x.dir = None) =>
           \A f \in StoreFiles : \A x \in dur'[f] : x.dir = None
    BY <1>1, <1>2 DEF DiskInv, RetiredInv
  <2> QED BY <2>1, <2>2, <2>3 DEF RetiredInv
<1> QED BY <1>1, <1>2, <1>3, <1>4, <1>5, <1>6 DEF DiskInv, InDir

LEMMA CleaningSteps ==
    IInv /\ (RecoverDiscards \/ RecoverRemovesStaging \/ StageFails) => IInv'
<1> SUFFICES ASSUME IInv, RecoverDiscards \/ RecoverRemovesStaging \/ StageFails PROVE IInv'
  OBVIOUS
<1>1. /\ Touch(WithoutStaging(fs)) /\ UNCHANGED <<todo, ret, ver, nextB, okPw, okRc>>
      /\ \/ pc = "recover" /\ pc' = "unlock" /\ h' = h
         \/ pc = "rmdir" /\ pc' = "jdrop" /\ h' = h
         \/ pc = "stage" /\ pc' = "closed" /\ h' = NoHandle
  BY DEF RecoverDiscards, RecoverRemovesStaging, StageFails, Goto, call, promises
<1>2. /\ DiskOK'
      /\ \A g \in Files \ {Staging} :
             /\ fs'[g] = [dir |-> fs[g].dir, stg |-> None]
             /\ dur'[g] = dur[g] \cup {[dir |-> fs[g].dir, stg |-> None]}
  BY <1>1, DropFacts DEF IInv, TypeOK
<1>3. DiskInv'
  BY <1>1, <1>2, CleanedDisk DEF IInv, DiskInv, Deleting
<1>4. TypeOK'
  BY <1>1, <1>2, NoCall DEF IInv, TypeOK
<1>5. CallInv' /\ HandleInv'
  BY <1>1 DEF IInv, CallInv, HandleInv, InStore, Loading, Mutating, Keyed, Upgrading, Recovering
<1> QED BY <1>3, <1>4, <1>5 DEF IInv, DiskInv

LEMMA RekeyStep ==
    ASSUME IInv, NEW phrase \in BOOLEAN, Rekey(phrase)
    PROVE  IInv'
<1>1. /\ pc = "open" /\ pc' = "stage" /\ h.derived /\ (InDir(KeysFile).rc => phrase)
      /\ nextB < MaxBundle /\ nextB' = nextB + 1
      /\ Touch([WithoutStaging(fs) EXCEPT ![Staging].dir = nextB + 1])
      /\ h' = [h EXCEPT !.imported = phrase]
      /\ UNCHANGED <<todo, ret, ver, okPw, okRc>>
  BY DEF Rekey, call, promises
<1>2. nextB' \in Bundles /\ nextB' # Derived /\ nextB' # None
  BY <1>1, StoreAssumption, NoneAssumption DEF IInv, TypeOK, Bundles, Derived
<1>3. /\ DiskOK' /\ fs'[Staging].dir = nextB'
      /\ \A g \in Files \ {Staging} :
             /\ fs'[g] = [dir |-> fs[g].dir, stg |-> None]
             /\ dur'[g] = dur[g] \cup {[dir |-> fs[g].dir, stg |-> None]}
  BY <1>1, <1>2, MakeFacts DEF IInv, TypeOK
<1>4. InDir(Staging)' # None
  BY <1>2, <1>3 DEF InDir
<1>5. /\ DiskInv' /\ InDir(KeysFile)' = InDir(KeysFile)
      /\ \A n \in Names : InDir(Tag(Derived, n))' = InDir(Tag(Derived, n))
  BY <1>1, <1>2, <1>3, <1>4, CleanedDisk DEF IInv, DiskInv, Deleting
<1>6. h' \in Handle /\ SameBundle /\ h'.man = h.man /\ h'.imported = phrase
  BY <1>1 DEF IInv, TypeOK, Handle, SameBundle
<1>7. TypeOK'
  BY <1>1, <1>2, <1>3, <1>6 DEF IInv, TypeOK
<1>8. CallInv'
  BY <1>1, <1>6 DEF IInv, CallInv, Mutating, Keyed
<1>9. okRc => phrase
  BY <1>1, KeyFacts DEF KeyOK
<1>10. HandleInv'
  BY <1>1, <1>5, <1>6, <1>9
  DEF IInv, HandleInv, InStore, Loading, Mutating, Keyed, Upgrading, Recovering, SameBundle
<1> QED BY <1>5, <1>7, <1>8, <1>10 DEF IInv, DiskInv

LEMMA StageStep == IInv /\ Stage => IInv'
<1> SUFFICES ASSUME IInv, Stage PROVE IInv'
  OBVIOUS
<1>1. /\ pc = "stage" /\ pc' = "journal"
      /\ UNCHANGED <<h, todo, ret, ver, nextB, okPw, okRc>>
  BY DEF Stage, Goto
<1>2. /\ h.man # None /\ nextB # Derived /\ InDir(Staging) # None
      /\ h.derived /\ h.u = FirstPw /\ FirstPw \in okPw /\ (okRc => h.imported)
      /\ InDir(KeysFile) # None
  BY <1>1 DEF IInv, CallInv, StagingInv, HandleInv, InStore, Keyed, Upgrading, Loading, Mutating
<1>3. /\ DiskOK'
      /\ \A g \in Files : /\ fs'[g].dir = fs[g].dir
                          /\ \A x \in dur'[g] : \E y \in dur[g] : x.dir = y.dir
      /\ fs'[KeysFile].stg = NewKeys /\ NewKeys \in KeyFile
      /\ \A x \in dur'[KeysFile] : x.stg = NewKeys
      /\ \A n \in Names : \A x \in dur'[Tag(Derived, n)] : x.stg = None
  BY <1>2, StageFacts, Derivations DEF IInv
<1>4. NewKeys.pw = FirstPw /\ NewKeys.b = nextB /\ NewKeys.rc = h.imported
  BY <1>2 DEF NewKeys
<1>5. TypeOK'
  BY <1>1, <1>3 DEF IInv, TypeOK
<1>6. DeleteInv'
  BY <1>1, <1>3, FileFacts DEF IInv, DeleteInv, InDir, Deleting
<1>7. StagingInv'
  BY <1>1, <1>2, <1>3, FileFacts DEF StagingInv, InDir, Rolling
<1>8. \A x \in dur[KeysFile] : x.dir # None /\ KeyOK(x.dir)
  BY <1>1, <1>2 DEF IInv, KeyInv
<1>9. KeyInv'
  <2>1. ASSUME NEW x \in dur'[KeysFile]
        PROVE  KeyOK(x.dir)' /\ KeyOK(x.stg)' /\ x.dir # None
    <3>1. PICK y \in dur[KeysFile] : x.dir = y.dir
      BY <1>3, FileFacts
    <3>2. KeyOK(x.dir)' /\ x.dir # None
      BY <1>1, <1>8, <3>1 DEF KeyOK
    <3>3. KeyOK(x.stg)'
      BY <1>1, <1>2, <1>3, <1>4 DEF KeyOK
    <3> QED BY <3>2, <3>3
  <2>2. InDir(KeysFile)' # None
    BY <1>2, <1>3, FileFacts DEF InDir
  <2> QED BY <2>1, <2>2 DEF KeyInv, KeyOK
<1>10. RetiredInv'
  BY <1>1, <1>2 DEF RetiredInv
<1>11. CallInv' /\ HandleInv'
  BY <1>1, <1>2 DEF CallInv, HandleInv, InStore, Loading, Mutating, Keyed, Upgrading, Recovering
<1> QED BY <1>5, <1>6, <1>7, <1>9, <1>10, <1>11 DEF IInv

\* A staged record or manifest moves into the profile.
LEMMA MovedDisk ==
    ASSUME TypeOK, DiskInv, UNCHANGED <<okPw, okRc>>,
           NEW f \in StoreFiles, MoveIn(f), fs[f].stg # None,
           pc = "move", pc' \in {"move", "movekeys"}, InDir(KeysFile) # None
    PROVE  /\ DiskInv' /\ DiskOK'
           /\ InDir(KeysFile)' = InDir(KeysFile) /\ InDir(Journal)' = InDir(Journal)
<1>1. /\ DiskOK'
      /\ fs'[f] = [dir |-> fs[f].stg, stg |-> None]
      /\ \A g \in Files \ {f} : fs'[g] = fs[g] /\ dur'[g] = dur[g]
      /\ dur'[f] = dur[f] \cup {fs'[f]}
  BY MoveFacts, FileFacts DEF TypeOK
<1>2. /\ fs'[KeysFile] = fs[KeysFile] /\ dur'[KeysFile] = dur[KeysFile]
      /\ fs'[Staging] = fs[Staging] /\ fs'[Journal] = fs[Journal]
  BY <1>1, FileFacts
<1>3. fs'[f].dir # None
  BY <1>1
<1>4. \A n \in Names : Tag(Derived, n) # f /\ Tag(Derived, n) \in Files
  <2>1. fs[f] \in dur[f]
    BY FileFacts DEF TypeOK, DiskOK
  <2>2. \A n \in Names : Tag(Derived, n) # f
    BY <2>1 DEF DiskInv, StagingInv
  <2> QED BY <2>2, FileFacts, Derivations
<1>5. DeleteInv'
  BY <1>1, <1>3, FileFacts DEF DiskInv, DeleteInv, InDir, Deleting
<1>6. StagingInv'
  BY <1>1, <1>2, <1>4 DEF DiskInv, StagingInv, InDir, Rolling
<1>7. KeyInv'
  BY <1>2 DEF DiskInv, KeyInv, KeyOK, InDir
<1>8. RetiredInv'
  <2>1. ~ \E x \in dur[KeysFile] : x.dir = None
    BY DEF DiskInv, KeyInv
  <2> QED BY <1>1, <1>2, <1>4, <2>1 DEF DiskInv, RetiredInv
<1> QED BY <1>1, <1>2, <1>5, <1>6, <1>7, <1>8 DEF DiskInv, InDir

\* What is left of a move that leaves the key file's profile entry alone.
LEMMA MoveEnds ==
    ASSUME IInv, DiskInv', DiskOK',
           InDir(KeysFile)' = InDir(KeysFile), InDir(Journal)' = InDir(Journal),
           pc = "move", pc' \in {"move", "movekeys"},
           UNCHANGED <<h, todo, ret, ver, nextB, okPw, okRc>>
    PROVE  IInv'
<1>1. TypeOK'
  BY DEF IInv, TypeOK
<1>2. CallInv' /\ HandleInv'
  BY DEF IInv, CallInv, HandleInv, InStore, Loading, Mutating, Keyed, Upgrading, Recovering
<1> QED BY <1>1, <1>2 DEF IInv, DiskInv

LEMMA MoveSteps ==
    ASSUME IInv, RecoverMovesManifest \/ \E n \in Names : RecoverMovesRecord(n)
    PROVE  IInv'
<1>1. /\ pc = "move" /\ pc' \in {"move", "movekeys"}
      /\ UNCHANGED <<h, todo, ret, ver, nextB, okPw, okRc>>
  BY DEF RecoverMovesManifest, RecoverMovesRecord, Goto
<1>2. InDir(KeysFile) # None
  BY <1>1 DEF IInv, HandleInv
<1>3. CASE \E n \in Names : RecoverMovesRecord(n)
  <2>1. PICK n \in Names : RecoverMovesRecord(n)
    BY <1>3
  <2> DEFINE f == Tag(InDir(Journal).b, n)
  <2>2. MoveIn(f) /\ InDir(Journal).new[n] # None /\ Staged(f) # None
    BY <2>1 DEF RecoverMovesRecord, Unmoved
  <2>3. f \in StoreFiles
    <3>1. InDir(Journal) \in JournalFile \cup {None}
      BY InDirType, BytesFacts, FileFacts
    <3>2. InDir(Journal) # None
      BY <1>1 DEF IInv, HandleInv
    <3>3. InDir(Journal).b \in Bundles
      BY <3>1, <3>2 DEF JournalFile
    <3> QED BY <3>3, FileFacts
  <2>4. fs[f].stg # None
    BY <2>2 DEF Staged
  <2> HIDE DEF f
  <2>5. /\ DiskInv' /\ DiskOK' /\ InDir(KeysFile)' = InDir(KeysFile)
        /\ InDir(Journal)' = InDir(Journal)
    BY <1>1, <1>2, <2>2, <2>3, <2>4, MovedDisk DEF IInv, DiskInv
  <2> QED BY <1>1, <2>5, MoveEnds
<1>4. CASE RecoverMovesManifest /\ Staged(ManifestFile) # None
  <2>1. MoveIn(ManifestFile) /\ fs[ManifestFile].stg # None /\ ManifestFile \in StoreFiles
    BY <1>4, FileFacts DEF RecoverMovesManifest, Staged
  <2>2. /\ DiskInv' /\ DiskOK' /\ InDir(KeysFile)' = InDir(KeysFile)
        /\ InDir(Journal)' = InDir(Journal)
    BY <1>1, <1>2, <2>1, MovedDisk DEF IInv, DiskInv
  <2> QED BY <1>1, <2>2, MoveEnds
<1>5. CASE RecoverMovesManifest /\ Staged(ManifestFile) = None
  <2>1. UNCHANGED disk
    BY <1>5 DEF RecoverMovesManifest
  <2>2. /\ DiskInv' /\ DiskOK' /\ InDir(KeysFile)' = InDir(KeysFile)
        /\ InDir(Journal)' = InDir(Journal)
    BY <1>1, <2>1, QuietDisk DEF Deleting, Rolling
  <2> QED BY <1>1, <2>2, MoveEnds
<1> QED BY <1>3, <1>4, <1>5

LEMMA MoveKeysStep == IInv /\ RecoverMovesKeys => IInv'
<1> SUFFICES ASSUME IInv, RecoverMovesKeys PROVE IInv'
  OBVIOUS
<1>1. /\ pc = "movekeys" /\ pc' = "movesync"
      /\ UNCHANGED <<h, todo, ret, ver, nextB, okPw, okRc>>
  BY DEF RecoverMovesKeys, Goto
<1>2. CallInv' /\ HandleInv'
  BY <1>1
  DEF IInv, CallInv, HandleInv, InStore, Loading, Mutating, Keyed, Upgrading, Recovering
<1>3. DiskOK' /\ DiskInv'
  <2>1. CASE Staged(KeysFile) = None
    BY <1>1, <2>1, QuietDisk DEF RecoverMovesKeys, Deleting, Rolling
  <2>2. CASE Staged(KeysFile) # None
    <3>1. MoveIn(KeysFile) /\ fs[KeysFile].stg # None
      BY <2>2 DEF RecoverMovesKeys, Staged
    <3>2. /\ DiskOK'
          /\ fs'[KeysFile] = [dir |-> fs[KeysFile].stg, stg |-> None]
          /\ \A g \in Files \ {KeysFile} : fs'[g] = fs[g] /\ dur'[g] = dur[g]
          /\ dur'[KeysFile] = dur[KeysFile] \cup {fs'[KeysFile]}
      BY <3>1, MoveFacts, FileFacts DEF IInv, TypeOK
    <3>3. fs'[KeysFile].dir = fs[KeysFile].stg /\ fs'[KeysFile].stg = None
      BY <3>2
    <3>4. /\ \A f \in StoreFiles : fs'[f] = fs[f] /\ dur'[f] = dur[f]
          /\ fs'[Staging] = fs[Staging]
          /\ \A n \in Names : dur'[Tag(Derived, n)] = dur[Tag(Derived, n)]
      BY <3>2, FileFacts, Derivations
    <3>5. /\ KeyOK(fs[KeysFile].stg) /\ InDir(KeysFile) # None
          /\ \A x \in dur[KeysFile] : x.dir # None
      BY <1>1, <3>1, KeyFacts DEF IInv, KeyInv, InDir
    <3>6. DeleteInv'
      BY <1>1, <3>4 DEF IInv, DeleteInv, InDir, Deleting
    <3>7. StagingInv'
      BY <1>1, <3>3, <3>4 DEF IInv, StagingInv, InDir
    <3>8. KeyInv'
      <4>1. ASSUME NEW x \in dur'[KeysFile]
            PROVE  /\ x.dir # None /\ KeyOK(x.dir)'
                   /\ x.stg # None => KeyOK(x.stg)'
        <5>1. CASE x \in dur[KeysFile]
          BY <1>1, <3>5, <5>1 DEF IInv, KeyInv, KeyOK
        <5>2. CASE x = fs'[KeysFile]
          BY <1>1, <3>1, <3>3, <3>5, <5>2 DEF KeyOK
        <5> QED BY <3>2, <4>1, <5>1, <5>2
      <4>2. InDir(KeysFile)' # None
        BY <3>1, <3>3 DEF InDir
      <4> QED BY <4>1, <4>2 DEF KeyInv, KeyOK
    <3>9. RetiredInv'
      <4>1. \A x \in dur'[KeysFile] : x.dir # None
        BY <3>1, <3>2, <3>3, <3>5
      <4> QED BY <1>1, <3>4, <4>1 DEF IInv, RetiredInv
    <3> QED BY <3>2, <3>6, <3>7, <3>8, <3>9 DEF DiskInv
  <2> QED BY <2>1, <2>2
<1>4. TypeOK'
  BY <1>1, <1>3 DEF IInv, TypeOK
<1> QED BY <1>2, <1>3, <1>4 DEF IInv, DiskInv

-----------------------------------------------------------------------------
(* Power losses. *)

LEMMA FallStep == IInv /\ FallsBack /\ ~torn' => IInv'
<1> SUFFICES ASSUME IInv, FallsBack, ~torn' PROVE IInv'
  OBVIOUS
<1>1. /\ pc = "down" /\ pc' = "down" /\ UNCHANGED <<h, todo, ret, ver, nextB, okPw, okRc>>
  BY DEF FallsBack, Goto
<1>2. DiskOK' /\ \A g \in Files : dur'[g] \subseteq dur[g]
  <2>1. \A g \in Files : \/ fs'[g] = fs[g] /\ dur'[g] = dur[g]
                         \/ fs'[g] \in dur[g] /\ dur'[g] = {fs'[g]}
    BY FallFacts DEF IInv, TypeOK
  <2>2. DiskOK'
    BY FallFacts DEF IInv, TypeOK
  <2> QED BY <2>1, <2>2
<1>3. TypeOK'
  BY <1>1, <1>2 DEF IInv, TypeOK
<1>4. DeleteInv'
  BY <1>1 DEF DeleteInv, Deleting
<1>5. StagingInv'
  <2>1. \A n \in Names : \A x \in dur'[Tag(Derived, n)] : x.stg = None
    BY <1>2, FileFacts, Derivations DEF IInv, StagingInv
  <2> QED BY <1>1, <2>1 DEF StagingInv, Rolling
<1>6. KeyInv'
  BY <1>1, <1>2, FileFacts DEF IInv, KeyInv, KeyOK
<1>7. RetiredInv'
  BY <1>1, <1>2, FileFacts, Derivations DEF IInv, RetiredInv
<1>8. CallInv' /\ HandleInv'
  BY <1>1 DEF CallInv, HandleInv, InStore, Loading, Mutating, Keyed, Upgrading, Recovering
<1> QED BY <1>3, <1>4, <1>5, <1>6, <1>7, <1>8 DEF IInv

LEMMA PowerStep == IInv /\ PowerReturns => IInv'
<1> SUFFICES ASSUME IInv, PowerReturns PROVE IInv'
  OBVIOUS
<1>1. /\ pc = "down" /\ pc' = "closed" /\ UNCHANGED <<h, todo, ret, ver, nextB, okPw, okRc>>
  BY DEF PowerReturns, Goto
<1>2. /\ DiskOK'
      /\ \A g \in Files : /\ dur'[g] = {fs'[g]}
                          /\ fs'[g].dir = fs[g].dir
                          /\ fs'[g].stg \in {fs[g].stg, None}
      /\ fs[Staging].dir # fs[KeysFile].stg.b => fs'[KeysFile].stg = None
  BY PowerFacts DEF IInv, TypeOK
<1>3. \A g \in Files : fs[g] \in dur[g] /\ fs[g] \in Entry(g)
  BY DEF IInv, TypeOK, DiskOK
<1>4. TypeOK'
  BY <1>1, <1>2 DEF IInv, TypeOK
<1>5. DeleteInv'
  BY <1>2, FileFacts DEF DeleteInv, InDir
<1>6. StagingInv'
  <2>1. \A n \in Names : \A x \in dur'[Tag(Derived, n)] : x.stg = None
    <3> SUFFICES ASSUME NEW n \in Names PROVE fs'[Tag(Derived, n)].stg = None
      BY <1>2, FileFacts, Derivations
    <3>1. fs[Tag(Derived, n)] \in dur[Tag(Derived, n)] /\ Tag(Derived, n) \in Files
      BY <1>3, FileFacts, Derivations
    <3> QED BY <1>2, <3>1 DEF IInv, StagingInv
  <2>2. InDir(Staging)' = None => fs'[KeysFile].stg = None
    <3> SUFFICES ASSUME fs[Staging].dir = None, fs[KeysFile].stg # None
                 PROVE  fs'[KeysFile].stg = None
      BY <1>2, FileFacts DEF InDir
    <3>1. fs[KeysFile].stg \in KeyFile
      <4>1. fs[KeysFile].stg \in Bytes(KeysFile) \cup {None}
        BY <1>3, EntryFacts, FileFacts
      <4> QED BY <4>1, BytesFacts
    <3>2. fs[KeysFile].stg.b \in Bundles
      BY <3>1 DEF KeyFile
    <3> QED BY <1>2, <3>2, NoneAssumption
  <2> QED BY <1>1, <2>1, <2>2 DEF StagingInv, Rolling
<1>7. KeyInv'
  <2>1. /\ dur'[KeysFile] = {fs'[KeysFile]} /\ fs'[KeysFile].dir = fs[KeysFile].dir
        /\ fs'[KeysFile].stg \in {fs[KeysFile].stg, None} /\ fs[KeysFile] \in dur[KeysFile]
    BY <1>2, <1>3, FileFacts
  <2> QED BY <1>1, <2>1 DEF IInv, KeyInv, KeyOK, InDir
<1>8. RetiredInv'
  <2> SUFFICES ASSUME FirstPw \notin okPw PROVE RetiredInv'
    BY <1>1 DEF RetiredInv
  <2>1. \A n \in Names : \A x \in dur'[Tag(Derived, n)] : x.dir = None
    <3>1. \A n \in Names : Tag(Derived, n) \in Files
      BY FileFacts, Derivations
    <3> QED BY <1>2, <1>3, <3>1 DEF IInv, RetiredInv
  <2>2. (\E x \in dur'[KeysFile] : x.dir = None) => \E x \in dur[KeysFile] : x.dir = None
    BY <1>2, <1>3, FileFacts
  <2>3. (\E x \in dur[KeysFile] : x.dir = None) =>
           \A f \in StoreFiles : \A x \in dur'[f] : x.dir = None
    BY <1>2, <1>3, FileFacts DEF IInv, RetiredInv
  <2> QED BY <2>1, <2>2, <2>3 DEF RetiredInv
<1>9. CallInv' /\ HandleInv'
  BY <1>1 DEF CallInv, HandleInv, InStore, Loading, Mutating, Keyed, Upgrading, Recovering
<1> QED BY <1>4, <1>5, <1>6, <1>7, <1>8, <1>9 DEF IInv

-----------------------------------------------------------------------------
(* The theorems. *)

\* A profile directory this version has not opened has records at most.
LEMMA FirstDirFacts ==
    ASSUME Init
    PROVE  /\ fs = [f \in Files |-> fs[f]]
           /\ \A f \in StoreFiles : fs[f] \in {Absent, [dir |-> 0, stg |-> None]}
           /\ fs[ManifestFile] = Absent
           /\ \A f \in Files \ StoreFiles : fs[f] = Absent
<1> DEFINE old == [dir |-> 0, stg |-> None]
<1>1. CASE fs = [f \in Files |-> Absent]
  BY <1>1, FileFacts
<1>2. ASSUME NEW ns \in SUBSET UserNames,
             fs = [f \in Files |-> IF f \in {Legacy(n) : n \in ns} THEN old ELSE Absent]
      PROVE  /\ \A f \in Files : fs[f] \in {Absent, old}
             /\ fs[ManifestFile] = Absent
             /\ \A f \in Files \ StoreFiles : fs[f] = Absent
             /\ fs = [f \in Files |-> fs[f]]
  <2>1. {Legacy(n) : n \in ns} \subseteq StoreFiles
    BY FileFacts
  <2>2. ManifestFile \notin {Legacy(n) : n \in ns}
    BY DEF ManifestFile, Legacy
  <2> QED BY <1>2, <2>1, <2>2, FileFacts
<1>3. ASSUME NEW ns \in SUBSET UserNames,
             fs = [f \in Files |-> IF f \in {Tag(Derived, n) : n \in ns \cup {MARKER}}
                                   THEN old ELSE Absent]
      PROVE  /\ \A f \in Files : fs[f] \in {Absent, old}
             /\ fs[ManifestFile] = Absent
             /\ \A f \in Files \ StoreFiles : fs[f] = Absent
             /\ fs = [f \in Files |-> fs[f]]
  <2>1. {Tag(Derived, n) : n \in ns \cup {MARKER}} \subseteq Tags
    BY Derivations, CallTypes
  <2> QED BY <1>3, <2>1, FileFacts
<1> HIDE DEF old
<1> QED BY <1>1, <1>2, <1>3, FileFacts DEF Init, FirstDirs, old

LEMMA Initially == Init => IInv
<1> SUFFICES ASSUME Init PROVE IInv
  OBVIOUS
<1> DEFINE old == [dir |-> 0, stg |-> None]
<1>1. /\ pc = "closed" /\ h = NoHandle /\ todo = <<>> /\ ret = "closed" /\ ver = 0 /\ nextB = 0
      /\ okPw = {FirstPw} /\ okRc = FALSE /\ dur = [f \in Files |-> {fs[f]}]
  BY DEF Init
<1>2. /\ fs = [f \in Files |-> fs[f]] /\ fs[ManifestFile] = Absent
      /\ \A f \in StoreFiles : fs[f] \in {Absent, old}
      /\ \A f \in Files \ StoreFiles : fs[f] = Absent
  BY FirstDirFacts
<1>3. \A f \in Files : dur[f] = {fs[f]}
  BY <1>1
<1>4. DiskOK
  <2>1. \A f \in StoreFiles \ {ManifestFile} : old \in Entry(f)
    <3> SUFFICES ASSUME NEW f \in StoreFiles \ {ManifestFile} PROVE old \in Entry(f)
      OBVIOUS
    <3>1. Bytes(f) = Contents
      BY FileFacts, BytesFacts
    <3> QED BY <3>1, CallTypes DEF Entry
  <2>2. \A f \in Files : fs[f] \in Entry(f)
    BY <1>2, <2>1, AbsentFacts, FileFacts
  <2> QED BY <1>1, <1>2, <1>3, <2>2 DEF DiskOK
<1>5. TypeOK
  <2>1. 0 \in Bundles
    BY StoreAssumption DEF Bundles
  <2> QED BY <1>1, <1>4, <2>1, NoCall, CallTypes DEF TypeOK
<1>6. fs[KeysFile].dir = None /\ fs[KeysFile].stg = None
      /\ \A f \in StoreFiles : fs[f].stg = None
  <2>1. old.stg = None
    OBVIOUS
  <2>2. fs[KeysFile] = Absent
    BY <1>2, FileFacts
  <2> HIDE DEF old
  <2> QED BY <1>2, <2>1, <2>2, AbsentFacts
<1>7. DeleteInv
  BY <1>3, FileFacts DEF DeleteInv, InDir
<1>8. StagingInv
  BY <1>1, <1>3, <1>6, FileFacts, Derivations DEF StagingInv
<1>9. KeyInv
  BY <1>1, <1>3, <1>6, FileFacts DEF KeyInv, InDir
<1>10. RetiredInv
  BY <1>1 DEF RetiredInv
<1>11. CallInv /\ HandleInv
  BY <1>1 DEF CallInv, HandleInv, InStore, Loading, Mutating, Keyed, Upgrading, Recovering
<1> QED BY <1>5, <1>7, <1>8, <1>9, <1>10, <1>11 DEF IInv

LEMMA IInvSteps ==
    ASSUME IInv, [Next]_vars, ~torn'
    PROVE  IInv'
<1>1. CASE UNCHANGED vars
  <2>1. TypeOK' /\ CallInv'
    BY <1>1 DEF vars, IInv, TypeOK, DiskOK, CallInv, InDir
  <2>2. DeleteInv' /\ StagingInv' /\ RetiredInv'
    BY <1>1 DEF vars, IInv, DeleteInv, StagingInv, RetiredInv, InDir
  <2>3. KeyInv' /\ HandleInv'
    BY <1>1 DEF vars, IInv, KeyInv, KeyOK, HandleInv, Upgrading, InDir
  <2> QED BY <2>1, <2>2, <2>3 DEF IInv
<1>2. CASE Next
  BY <1>2, OpenStep, RecoverChecks, CleaningSteps, MoveSteps, MoveKeysStep, SyncAndGoSteps,
     RecoverDropsStep, JournalSteps, WriteJournalSyncStep, UnlockKeyedStep, UnlockUpgradeStep,
     UnlockFreshStep, FreshKeysStep, LoadStep, AdoptStep, SettleDeletesStep, SettleWritesStep,
     CallSteps, MigrateDeletesStep, UpgradeKeysStep, MutatePendingStep, PendingSyncStep,
     MutateApplyStep, MutateSettleStep, FailureSteps, ApplyFailsStep, RewrapSteps, KeysSyncStep,
     RekeyStep, StageStep, EndSteps, FallStep, PowerStep, PendingSyncFailsStep, KeysSyncFailsStep
  DEF Next, SyncAndGo
<1> QED BY <1>1, <1>2


-----------------------------------------------------------------------------
(***************************************************************************)
(* An open with the right credentials succeeds, and reads what was         *)
(* acknowledged.  The invariant says, of every value each entry may fall   *)
(* back to on its own, that together they are a store (PlainStore), or a   *)
(* switch that can be rolled forward (JournalStore).                       *)
(***************************************************************************)

\* What the profile may show under f, what is staged under f, and which of the
\* two a roll-forward takes.
shown == [f \in Files |-> {x.dir : x \in dur[f]}]
staged == [f \in Files |-> {x.stg : x \in dur[f]}]
latest == [f \in Files |-> {IF x.stg # None THEN x.stg ELSE x.dir : x \in dur[f]}]

\* A record in state v is the one the manifest lists, or its pending entry allows.
Allows(m, n, v) ==
    \/ v = m.e[n]
    \/ m.p # None /\ m.p.n = n /\ m.p.old = v

\* Records, key file and manifest are of one bundle.
OneBundle(b) ==
    /\ \A c \in Bundles \ {b}, n \in Names : shown[Tag(c, n)] \subseteq {None}
    /\ \A k \in shown[KeysFile] \ {None} : k.b = b
    /\ \A m \in shown[ManifestFile] \ {None} : m.b = b

\* Every manifest that may be there accepts every record that may be there.
ManifestFits(b) ==
    \A m \in shown[ManifestFile] \ {None}, n \in Names : \A v \in shown[Tag(b, n)] :
        Allows(m, n, v)

\* A store without a manifest has no latch, and no record unless it is an old one.
FirstManifest(b) ==
    None \in shown[ManifestFile] =>
        /\ shown[Tag(b, LATCH)] \subseteq {None}
        /\ \/ shown[KeysFile] \subseteq {None}
           \/ \A n \in Names : shown[Tag(b, n)] \subseteq {None}

\* Without a key file a store is an old one, or empty.
Unkeyed(b) ==
    None \in shown[KeysFile] =>
        b = Derived \/ \A f \in StoreFiles : shown[f] \subseteq {None}

\* Legacy files are there only while an old store is converted.
LegacyFits(b) ==
    \A n \in UserNames :
        /\ shown[Legacy(n)] \subseteq {0, None}
        /\ 0 \in shown[Legacy(n)] => /\ promise[n] = {0}
                                     /\ shown[KeysFile] \subseteq {None}
                                     /\ shown[Tag(b, MARKER)] \subseteq {None}

\* A record is in a state its readers were promised, or not yet imported.
RecordsKept(b) ==
    \A n \in UserNames : \A v \in shown[Tag(b, n)] :
        v \in promise[n] \/ (v = None /\ None \notin shown[Legacy(n)])

\* A pending mutation writes what the readers were promised.
PendingKept ==
    \A m \in shown[ManifestFile] \ {None} :
        m.p # None /\ m.p.n \in UserNames => m.e[m.p.n] \in promise[m.p.n]

PlainStore(b) ==
    /\ OneBundle(b) /\ ManifestFits(b) /\ FirstManifest(b) /\ Unkeyed(b)
    /\ LegacyFits(b) /\ RecordsKept(b) /\ PendingKept

NewFiles(b) == {Tag(b, n) : n \in Names} \cup {ManifestFile, KeysFile}
Moved(b) == \A f \in NewFiles(b) : staged[f] \subseteq {None}

NoLegacy == \A n \in UserNames : shown[Legacy(n)] \subseteq {None}

\* Staged or moved, the files are the journaled ones.
SwitchFits(j) ==
    /\ j.b # Derived /\ j.man = [b |-> j.b, e |-> j.new, p |-> None]
    /\ \A n \in Names : latest[Tag(j.b, n)] \subseteq {j.new[n]}
    /\ latest[ManifestFile] \subseteq {j.man} /\ None \notin shown[ManifestFile]
    /\ (\A k \in latest[KeysFile] : k.b = j.b) /\ None \notin shown[KeysFile]
    /\ NoLegacy /\ \A n \in UserNames : j.new[n] \in promise[n]

\* The records of the old bundle are on the journal's list.
OldListed(j) ==
    /\ \A c \in Bundles \ {j.b}, n \in Names :
           shown[Tag(c, n)] \subseteq {None} \/ (c = Derived /\ Tag(c, n) \in j.old)
    /\ \A t \in j.old : t[2] = Derived

\* The staging directory goes when all is moved and the old records are gone.
StagingLast(j) ==
    /\ shown[Staging] \subseteq {j.b, None}
    /\ None \in shown[Staging] => PlainStore(j.b) /\ Moved(j.b)

JournalStore(j) ==
    /\ shown[Journal] \subseteq {None, j}
    /\ SwitchFits(j) /\ OldListed(j) /\ StagingLast(j)

StoreInv ==
    /\ None \in shown[Journal] => \E b \in Bundles : PlainStore(b)
    /\ \A j \in shown[Journal] \ {None} : JournalStore(j)
    /\ keyed => None \notin shown[KeysFile]

-----------------------------------------------------------------------------
\* Steps before the fsync of a record, of a first manifest, of a pending one and of
\* the journal.
UnsyncedRecord == {"async", "settledsync", "move", "movekeys", "movesync", "drop", "down"}

StableInv ==
    /\ pc \notin UnsyncedRecord => \A t \in Tags : shown[t] = {InDir(t)}
    /\ pc \notin {"adopt", "down"} /\ InDir(ManifestFile) # None =>
           None \notin shown[ManifestFile]
    /\ /\ pc \notin {"psync", "down"}
       /\ InDir(ManifestFile) # None /\ InDir(ManifestFile).p # None
       => shown[ManifestFile] = {InDir(ManifestFile)}
    /\ pc \notin {"jsync", "jremoved", "down"} => shown[Journal] = {InDir(Journal)}

Rollforward == {"move", "movekeys", "movesync", "drop", "rmdir"}

RollInv ==
    /\ pc \in Rollforward => InDir(Journal) # None /\ InDir(Staging) # None
    /\ pc \in {"jdrop", "jremove"} => InDir(Journal) # None /\ InDir(Staging) = None
    /\ pc \in {"unlock", "fkeys", "fsync", "journal", "jremoved"} \cup InStore
           => InDir(Journal) = None
    /\ pc \in {"movekeys", "movesync"} =>
           \A f \in NewFiles(InDir(Journal).b) \ {KeysFile} : fs[f].stg = None
    /\ pc = "movesync" => fs[KeysFile].stg = None
    /\ pc \in {"drop", "rmdir"} => Moved(InDir(Journal).b)
    /\ pc = "rmdir" => \A n \in Names : shown[Tag(Derived, n)] \subseteq {None}

\* A complete store of the new bundle is staged.
StagedInv ==
    /\ pc = "stage" => ~h.poisoned /\ InDir(Staging) = nextB
    /\ pc = "journal" =>
           /\ h.b = Derived /\ ~h.poisoned /\ nextB # Derived
           /\ \A n \in Names : staged[Tag(nextB, n)] \subseteq {StagedRecords[n]}
           /\ staged[ManifestFile] \subseteq {StagedManifest}
           /\ \A k \in staged[KeysFile] : k # None /\ k.b = nextB
           /\ None \notin shown[KeysFile]
           /\ shown[Staging] \subseteq {nextB}

\* The manifest of a mutation that is not settled yet.
PendingManifest(m) ==
    /\ m.b = h.b /\ m.p # None
    /\ m.e[Doing.n] = Doing.v
    /\ \A n \in Names \ {Doing.n} : m.e[n] = InDir(Tag(h.b, n))

Agreeing == {"migrate", "migsync", "ukeys", "usync", "opened", "open", "ksync", "stage",
             "journal", "pend", "psync"}

\* The store in the handle's hands, and what its manifest says of it.
OpenInv ==
    /\ pc \in InStore \cup {"fsync", "journal"} => PlainStore(h.b)
    /\ pc \in (InStore \ {"load"}) \cup {"journal"} => InDir(ManifestFile) # None
    /\ pc = "settledel" => InDir(ManifestFile) = h.man
    /\ pc = "adopt" => InDir(ManifestFile) = [b |-> h.b, e |-> Found(h.b), p |-> None]
    /\ pc \in Agreeing /\ ~h.poisoned =>
           h.man.b = h.b /\ \A n \in Names : h.man.e[n] = InDir(Tag(h.b, n))

\* The running mutation.
MutateInv ==
    /\ pc \in {"psync", "apply", "async", "settle"} => ~h.poisoned
    /\ pc = "psync" => PendingManifest(InDir(ManifestFile))
    /\ pc \in {"apply", "async", "settle"} =>
           PendingManifest(h.man) /\ shown[ManifestFile] = {h.man}
    /\ pc \in Mutating =>
           /\ Len(todo) <= 2
           /\ Doing.n \in UserNames => Tail(todo) = <<>>
           /\ \A i \in DOMAIN todo :
                  todo[i].n \in UserNames => todo[i].v \in promise[todo[i].n]
           /\ ret = "migrate" => Doing.n # MARKER /\ Doing.v # None /\ Tail(todo) = <<>>

Indexing ==
    \/ pc \in {"adopt", "settledel", "settledsync", "settle1", "migrate", "migsync"}
    \/ pc \in Mutating /\ ret = "migrate"

\* The legacy files are gone once the migration ended; until then the index names
\* records that are there.
MigrateInv ==
    /\ pc \in Keyed \cup {"ukeys", "journal"} => NoLegacy
    /\ pc \in Mutating /\ ret # "migrate" => NoLegacy
    /\ Indexing => \A n \in h.idx : InDir(Tag(h.b, n)) # None

KeptInv == /\ StoreInv /\ StableInv /\ RollInv /\ StagedInv /\ OpenInv /\ MutateInv
           /\ MigrateInv /\ ~refused

-----------------------------------------------------------------------------
(* What the disk may show after each kind of step. *)

LEMMA Looks ==
    ASSUME DiskOK, NEW f \in Files
    PROVE  /\ InDir(f) \in shown[f] /\ InDir(f) = fs[f].dir
           /\ fs[f].stg \in staged[f]
           /\ (IF fs[f].stg # None THEN fs[f].stg ELSE fs[f].dir) \in latest[f]
BY DEF DiskOK, shown, staged, latest, InDir

\* Entries that fall back to fewer values show fewer.
LEMMA LookShrinks ==
    ASSUME NEW f \in Files, dur'[f] \subseteq dur[f]
    PROVE  /\ shown'[f] \subseteq shown[f] /\ staged'[f] \subseteq staged[f]
           /\ latest'[f] \subseteq latest[f]
BY DEF shown, staged, latest

LEMMA LookSame ==
    ASSUME NEW f \in Files, dur'[f] = dur[f]
    PROVE  shown'[f] = shown[f] /\ staged'[f] = staged[f] /\ latest'[f] = latest[f]
BY DEF shown, staged, latest

LEMMA LookSync ==
    ASSUME DiskOK, Flush
    PROVE  /\ DiskOK'
           /\ \A g \in Files : /\ fs'[g] = fs[g] /\ dur'[g] \subseteq dur[g]
                               /\ shown'[g] = {InDir(g)} /\ staged'[g] = {fs[g].stg}
<1>1. DiskOK' /\ \A g \in Files : fs'[g] = fs[g] /\ dur'[g] = {fs[g]} /\ fs[g] \in dur[g]
  BY SyncFacts DEF DiskOK
<1> QED BY <1>1 DEF shown, staged, InDir

LEMMA LookRename ==
    ASSUME DiskOK, NEW f \in Files, NEW v \in Bytes(f) \cup {None}, Rename(f, v)
    PROVE  /\ DiskOK'
           /\ shown'[f] = shown[f] \cup {v} /\ staged'[f] = staged[f]
           /\ fs'[f].dir = v /\ fs'[f].stg = fs[f].stg
           /\ \A x \in latest'[f] :
                  x \in latest[f] \/ x = (IF fs[f].stg # None THEN fs[f].stg ELSE v)
           /\ \A g \in Files \ {f} : /\ fs'[g] = fs[g] /\ shown'[g] = shown[g]
                                     /\ staged'[g] = staged[g] /\ latest'[g] = latest[g]
<1>1. /\ DiskOK' /\ fs'[f] = [dir |-> v, stg |-> fs[f].stg]
      /\ \A g \in Files \ {f} : fs'[g] = fs[g] /\ dur'[g] = dur[g]
      /\ dur'[f] = dur[f] \cup {fs'[f]} /\ fs[f] \in dur[f]
  BY RenameFacts DEF DiskOK
<1>2. fs'[f].dir = v /\ fs'[f].stg = fs[f].stg
  BY <1>1
<1>3. \A g \in Files \ {f} : shown'[g] = shown[g] /\ staged'[g] = staged[g] /\ latest'[g] = latest[g]
  BY <1>1, LookSame
<1>4. shown'[f] = shown[f] \cup {v}
  BY <1>1, <1>2 DEF shown
<1>5. staged'[f] = staged[f]
  BY <1>1, <1>2 DEF staged
<1>6. \A x \in latest'[f] : x \in latest[f] \/ x = (IF fs[f].stg # None THEN fs[f].stg ELSE v)
  BY <1>1, <1>2 DEF latest
<1> QED BY <1>1, <1>2, <1>3, <1>4, <1>5, <1>6

LEMMA LookDrop ==
    ASSUME DiskOK, Touch(WithoutStaging(fs))
    PROVE  /\ DiskOK'
           /\ shown'[Staging] = shown[Staging] \cup {None} /\ fs'[Staging].dir = None
           /\ \A g \in Files \ {Staging} :
                  /\ fs'[g].dir = fs[g].dir /\ fs'[g].stg = None
                  /\ shown'[g] = shown[g] /\ staged'[g] = staged[g] \cup {None}
                  /\ \A x \in latest'[g] : x \in latest[g] \/ x = fs[g].dir
<1>1. /\ DiskOK' /\ fs'[Staging] = Absent
      /\ \A g \in Files \ {Staging} :
             /\ fs'[g] = [dir |-> fs[g].dir, stg |-> None]
             /\ dur'[g] = dur[g] \cup {[dir |-> fs[g].dir, stg |-> None]}
      /\ \A g \in Files : fs[g] \in dur[g]
  BY DropFacts DEF DiskOK
<1>2. dur'[Staging] = dur[Staging] \cup {Absent}
  BY FileFacts, WithoutFacts DEF Touch
<1>3. shown'[Staging] = shown[Staging] \cup {None}
  BY <1>2, FileFacts, AbsentFacts DEF shown
<1>4. ASSUME NEW g \in Files \ {Staging}
      PROVE  /\ shown'[g] = shown[g] /\ staged'[g] = staged[g] \cup {None}
             /\ \A x \in latest'[g] : x \in latest[g] \/ x = fs[g].dir
  <2>1. dur'[g] = dur[g] \cup {[dir |-> fs[g].dir, stg |-> None]} /\ fs[g] \in dur[g]
    BY <1>1
  <2> DEFINE y == [dir |-> fs[g].dir, stg |-> None]
  <2>5. y.dir = fs[g].dir /\ y.stg = None /\ dur'[g] = dur[g] \cup {y}
    BY <2>1
  <2> HIDE DEF y
  <2>2. shown'[g] = shown[g]
    BY <2>1, <2>5 DEF shown
  <2>3. staged'[g] = staged[g] \cup {None}
    BY <2>1, <2>5 DEF staged
  <2>4. \A x \in latest'[g] : x \in latest[g] \/ x = fs[g].dir
    BY <2>1, <2>5 DEF latest
  <2> QED BY <2>2, <2>3, <2>4
<1>5. ASSUME NEW g \in Files \ {Staging} PROVE fs'[g].dir = fs[g].dir /\ fs'[g].stg = None
  <2>1. fs'[g] = [dir |-> fs[g].dir, stg |-> None]
    BY <1>1
  <2> QED BY <2>1
<1>6. DiskOK' /\ fs'[Staging].dir = None
  BY <1>1, AbsentFacts
<1> QED BY <1>3, <1>4, <1>5, <1>6

LEMMA LookMake ==
    ASSUME DiskOK, NEW b \in Bundles, Touch([WithoutStaging(fs) EXCEPT ![Staging].dir = b])
    PROVE  /\ DiskOK' /\ fs'[Staging].dir = b
           /\ \A g \in Files \ {Staging} : shown'[g] = shown[g] /\ fs'[g].dir = fs[g].dir
<1>1. /\ DiskOK' /\ fs'[Staging].dir = b
      /\ \A g \in Files \ {Staging} :
             /\ fs'[g] = [dir |-> fs[g].dir, stg |-> None]
             /\ dur'[g] = dur[g] \cup {[dir |-> fs[g].dir, stg |-> None]}
      /\ \A g \in Files : fs[g] \in dur[g]
  BY MakeFacts DEF DiskOK
<1>2. ASSUME NEW g \in Files \ {Staging} PROVE shown'[g] = shown[g]
  <2>1. dur'[g] = dur[g] \cup {[dir |-> fs[g].dir, stg |-> None]} /\ fs[g] \in dur[g]
    BY <1>1
  <2> DEFINE y == [dir |-> fs[g].dir, stg |-> None]
  <2>2. y.dir = fs[g].dir /\ dur'[g] = dur[g] \cup {y}
    BY <2>1
  <2> HIDE DEF y
  <2> QED BY <2>1, <2>2 DEF shown
<1>3. ASSUME NEW g \in Files \ {Staging} PROVE fs'[g].dir = fs[g].dir
  <2>1. fs'[g] = [dir |-> fs[g].dir, stg |-> None]
    BY <1>1
  <2> QED BY <2>1
<1>4. DiskOK' /\ fs'[Staging].dir = b
  BY <1>1
<1> QED BY <1>2, <1>3, <1>4

LEMMA LookMove ==
    ASSUME DiskOK, NEW f \in Files, MoveIn(f), fs[f].stg # None
    PROVE  /\ DiskOK'
           /\ shown'[f] = shown[f] \cup {fs[f].stg} /\ latest'[f] = latest[f]
           /\ staged'[f] = staged[f] \cup {None}
           /\ fs'[f].dir = fs[f].stg /\ fs'[f].stg = None
           /\ \A g \in Files \ {f} : /\ fs'[g] = fs[g] /\ shown'[g] = shown[g]
                                     /\ staged'[g] = staged[g] /\ latest'[g] = latest[g]
<1>1. /\ DiskOK' /\ fs'[f] = [dir |-> fs[f].stg, stg |-> None]
      /\ \A g \in Files \ {f} : fs'[g] = fs[g] /\ dur'[g] = dur[g]
      /\ dur'[f] = dur[f] \cup {fs'[f]} /\ fs[f] \in dur[f]
  BY MoveFacts DEF DiskOK
<1>2. fs'[f].dir = fs[f].stg /\ fs'[f].stg = None
  BY <1>1
<1>3. \A g \in Files \ {f} : shown'[g] = shown[g] /\ staged'[g] = staged[g] /\ latest'[g] = latest[g]
  BY <1>1, LookSame
<1>4. shown'[f] = shown[f] \cup {fs[f].stg}
  BY <1>1, <1>2 DEF shown
<1>5. staged'[f] = staged[f] \cup {None}
  BY <1>1, <1>2 DEF staged
<1>6. latest'[f] = latest[f]
  BY <1>1, <1>2 DEF latest
<1> QED BY <1>1, <1>2, <1>3, <1>4, <1>5, <1>6

LEMMA LookStage ==
    ASSUME TypeOK, h.man # None, h.u \in Passwords, nextB # Derived, Stage
    PROVE  /\ \A g \in Files : shown'[g] \subseteq shown[g] /\ fs'[g].dir = fs[g].dir
           /\ \A n \in Names : staged'[Tag(nextB, n)] \subseteq {StagedRecords[n]}
           /\ staged'[ManifestFile] \subseteq {StagedManifest}
           /\ staged'[KeysFile] \subseteq {NewKeys}
           /\ shown'[Staging] = {fs[Staging].dir}
<1> DEFINE new == {Tag(nextB, n) : n \in Names}
           st(f) == CASE f \in new -> StagedRecords[f[3]]
                      [] f = ManifestFile -> StagedManifest
                      [] f = KeysFile -> [b |-> nextB, pw |-> h.u, rc |-> h.imported]
                      [] OTHER -> None
           to(x, f) == [x EXCEPT !.stg = st(f)]
<1>1. dur' = [f \in Files |-> IF f = Staging THEN {fs[f]} ELSE {to(x, f) : x \in dur[f]}]
  BY DEF Stage
<1>2. new \subseteq Tags /\ \A n \in Names : Tag(nextB, n) \in new /\ Tag(nextB, n)[3] = n
  BY DEF TypeOK, Tags, Tag
<1>3. \A n \in Names : st(Tag(nextB, n)) = StagedRecords[n]
  BY <1>2, FileFacts
<1>4. st(KeysFile) = NewKeys /\ st(ManifestFile) = StagedManifest
  BY <1>2, FileFacts DEF NewKeys
<1> HIDE DEF st, new
<1>5. \A f \in Files : fs[f] \in dur[f] /\ dur[f] \subseteq Entry(f)
  BY DEF TypeOK, DiskOK
<1>6. ASSUME NEW f \in Files, NEW x \in Entry(f)
      PROVE  to(x, f).stg = st(f)
  BY <1>6, EntryFacts
<1> HIDE DEF to
<1>7. ASSUME NEW f \in Files \ {Staging} PROVE staged'[f] \subseteq {st(f)}
  <2>1. dur'[f] = {to(x, f) : x \in dur[f]}
    BY <1>1
  <2>2. \A x \in dur'[f] : x.stg = st(f)
    BY <1>5, <1>6, <2>1
  <2> QED BY <2>2 DEF staged
<1>8. Staging \in Files /\ dur'[Staging] = {fs[Staging]}
  BY <1>1, FileFacts
<1>9. shown'[Staging] = {fs[Staging].dir}
  BY <1>8 DEF shown
<1>10. \A g \in Files : /\ fs'[g].dir = fs[g].dir
                        /\ \A x \in dur'[g] : \E y \in dur[g] : x.dir = y.dir
  BY StageFacts
<1>11. \A g \in Files : shown'[g] \subseteq shown[g] /\ fs'[g].dir = fs[g].dir
  BY <1>10 DEF shown
<1>12. {ManifestFile, KeysFile} \subseteq Files \ {Staging} /\ new \subseteq Files \ {Staging}
  <2>1. ManifestFile # Staging
    BY DEF ManifestFile, Staging
  <2> QED BY <1>2, <2>1, FileFacts
<1> QED BY <1>2, <1>3, <1>4, <1>7, <1>9, <1>11, <1>12

LEMMA LookPower ==
    ASSUME DiskOK, PowerReturns
    PROVE  \A g \in Files :
              /\ shown'[g] = {fs[g].dir} /\ staged'[g] = {fs'[g].stg}
              /\ latest'[g] = {IF fs'[g].stg # None THEN fs'[g].stg ELSE fs[g].dir}
              /\ fs'[g].dir = fs[g].dir /\ fs'[g].stg \in {fs[g].stg, None}
              /\ fs[Staging].dir = (IF g \in Tags THEN g[2] ELSE fs[g].stg.b)
                     => fs'[g].stg = fs[g].stg
<1> SUFFICES ASSUME NEW g \in Files
             PROVE  /\ shown'[g] = {fs[g].dir} /\ staged'[g] = {fs'[g].stg}
                    /\ latest'[g] = {IF fs'[g].stg # None THEN fs'[g].stg ELSE fs[g].dir}
                    /\ fs'[g].dir = fs[g].dir /\ fs'[g].stg \in {fs[g].stg, None}
                    /\ fs[Staging].dir = (IF g \in Tags THEN g[2] ELSE fs[g].stg.b)
                           => fs'[g].stg = fs[g].stg
  OBVIOUS
<1>1. dur'[g] = {fs'[g]} /\ fs'[g].dir = fs[g].dir /\ fs'[g].stg \in {fs[g].stg, None}
  BY PowerFacts
<1>2. shown'[g] = {fs'[g].dir} /\ staged'[g] = {fs'[g].stg}
  BY <1>1 DEF shown, staged
<1>3. latest'[g] = {IF fs'[g].stg # None THEN fs'[g].stg ELSE fs'[g].dir}
  BY <1>1 DEF latest
<1>4. fs[Staging].dir = (IF g \in Tags THEN g[2] ELSE fs[g].stg.b) => fs'[g].stg = fs[g].stg
  BY DEF PowerReturns, Settled
<1> QED BY <1>1, <1>2, <1>3, <1>4

-----------------------------------------------------------------------------
(* Stores that show less are still stores. *)

LEMMA PlainShrinks ==
    ASSUME NEW b \in Bundles, PlainStore(b), UNCHANGED promise,
           \A f \in StoreFiles \cup {KeysFile} : shown'[f] \subseteq shown[f],
           \A n \in UserNames : shown'[Legacy(n)] # {}
    PROVE  PlainStore(b)'
<1>1. /\ \A c \in Bundles, n \in Names : Tag(c, n) \in StoreFiles
      /\ \A n \in UserNames : Legacy(n) \in StoreFiles /\ n \in Names
      /\ ManifestFile \in StoreFiles /\ MARKER \in Names /\ LATCH \in Names
  BY FileFacts, CallTypes
<1>2. OneBundle(b)'
  BY <1>1 DEF PlainStore, OneBundle
<1>3. ManifestFits(b)'
  BY <1>1 DEF PlainStore, ManifestFits, Allows
<1>4. FirstManifest(b)'
  BY <1>1 DEF PlainStore, FirstManifest
<1>5. Unkeyed(b)'
  BY DEF PlainStore, Unkeyed
<1>6. LegacyFits(b)'
  BY <1>1 DEF PlainStore, LegacyFits
<1>7. RecordsKept(b)'
  <2> SUFFICES ASSUME NEW n \in UserNames, NEW v \in shown'[Tag(b, n)]
               PROVE  v \in promise[n] \/ (v = None /\ None \notin shown'[Legacy(n)])
    BY DEF RecordsKept
  <2>1. v \in shown[Tag(b, n)] /\ shown'[Legacy(n)] \subseteq shown[Legacy(n)]
    BY <1>1
  <2> QED BY <2>1 DEF PlainStore, RecordsKept
<1>8. PendingKept'
  BY <1>1 DEF PlainStore, PendingKept
<1> QED BY <1>2, <1>3, <1>4, <1>5, <1>6, <1>7, <1>8 DEF PlainStore

LEMMA JournalShrinks ==
    ASSUME NEW j, j.b \in Bundles, JournalStore(j), UNCHANGED promise,
           shown'[Journal] \subseteq {None, j},
           \A f \in Files \ {Journal} : shown'[f] \subseteq shown[f] /\ shown'[f] # {},
           \A f \in NewFiles(j.b) : /\ staged'[f] \subseteq staged[f]
                                    /\ latest'[f] \subseteq latest[f]
    PROVE  JournalStore(j)'
<1>1. /\ \A c \in Bundles, n \in Names : Tag(c, n) \in Files \ {Journal}
      /\ \A n \in UserNames : Legacy(n) \in Files \ {Journal}
      /\ {ManifestFile, KeysFile, Staging} \subseteq Files \ {Journal}
      /\ NewFiles(j.b) \subseteq Files /\ StoreFiles \subseteq Files \ {Journal}
  BY FileFacts DEF NewFiles
<1>2. SwitchFits(j)'
  <2>1. /\ \A n \in Names : Tag(j.b, n) \in NewFiles(j.b)
        /\ ManifestFile \in NewFiles(j.b) /\ KeysFile \in NewFiles(j.b)
    BY DEF NewFiles
  <2> QED BY <1>1, <2>1 DEF JournalStore, SwitchFits, NoLegacy
<1>3. OldListed(j)'
  BY <1>1 DEF JournalStore, OldListed
<1>4. Moved(j.b) => Moved(j.b)'
  BY <1>1 DEF Moved
<1>5. StagingLast(j)'
  <2>1. PlainStore(j.b) => PlainStore(j.b)'
    BY <1>1, PlainShrinks
  <2>2. shown'[Staging] \subseteq shown[Staging]
    BY <1>1
  <2> QED BY <1>4, <2>1, <2>2 DEF JournalStore, StagingLast
<1> QED BY <1>2, <1>3, <1>5 DEF JournalStore

LEMMA ShownTypes ==
    ASSUME DiskOK
    PROVE  /\ \A f \in Files : shown[f] \subseteq Bytes(f) \cup {None} /\ shown[f] # {}
           /\ \A j \in shown[Journal] \ {None} : j \in JournalFile /\ j.b \in Bundles
<1>1. \A f \in Files : \A x \in dur[f] : x.dir \in Bytes(f) \cup {None}
  BY EntryFacts DEF DiskOK
<1>2. \A f \in Files : shown[f] \subseteq Bytes(f) \cup {None} /\ shown[f] # {}
  BY <1>1 DEF shown, DiskOK
<1>3. \A j \in shown[Journal] \ {None} : j \in JournalFile
  BY <1>2, FileFacts, BytesFacts
<1> QED BY <1>2, <1>3 DEF JournalFile

LEMMA ShownNext ==
    ASSUME DiskOK'
    PROVE  /\ \A f \in Files : shown'[f] \subseteq Bytes(f) \cup {None} /\ shown'[f] # {}
           /\ \A j \in shown'[Journal] \ {None} : j \in JournalFile /\ j.b \in Bundles
           /\ \A f \in Files : fs'[f].dir \in shown'[f]
<1>1. \A f \in Files : \A x \in dur'[f] : x.dir \in Bytes(f) \cup {None}
  BY EntryFacts DEF DiskOK
<1>2. \A f \in Files : /\ shown'[f] \subseteq Bytes(f) \cup {None} /\ shown'[f] # {}
                       /\ fs'[f].dir \in shown'[f]
  BY <1>1 DEF shown, DiskOK
<1>3. \A j \in shown'[Journal] \ {None} : j \in JournalFile
  BY <1>2, FileFacts, BytesFacts
<1> QED BY <1>2, <1>3 DEF JournalFile

LEMMA StoreShrinks ==
    ASSUME DiskOK', StoreInv, UNCHANGED promise, keyed' => None \notin shown[KeysFile],
           \A f \in Files : dur'[f] \subseteq dur[f]
    PROVE  /\ StoreInv'
           /\ \A b \in Bundles : PlainStore(b) => PlainStore(b)'
<1>1. \A f \in Files : /\ shown'[f] \subseteq shown[f] /\ staged'[f] \subseteq staged[f]
                       /\ latest'[f] \subseteq latest[f]
  BY LookShrinks
<1>2. /\ \A f \in Files : shown'[f] # {}
      /\ \A j \in shown'[Journal] \ {None} : j.b \in Bundles
  BY ShownNext
<1>3. \A b \in Bundles : PlainStore(b) => PlainStore(b)'
  BY <1>1, <1>2, FileFacts, PlainShrinks
<1>4. \A j \in shown'[Journal] \ {None} : JournalStore(j)'
  <2> SUFFICES ASSUME NEW j \in shown'[Journal] \ {None} PROVE JournalStore(j)'
    OBVIOUS
  <2>1. j.b \in Bundles /\ JournalStore(j)
    BY <1>1, <1>2, FileFacts DEF StoreInv
  <2>2. NewFiles(j.b) \subseteq Files
    BY <2>1, FileFacts DEF NewFiles
  <2>3. shown'[Journal] \subseteq {None, j}
    BY <1>1, <2>1, FileFacts DEF JournalStore
  <2> QED BY <1>1, <1>2, <2>1, <2>2, <2>3, JournalShrinks
<1>5. None \in shown'[Journal] => \E b \in Bundles : PlainStore(b)'
  BY <1>1, <1>3, FileFacts DEF StoreInv
<1>6. keyed' => None \notin shown'[KeysFile]
  BY <1>1, FileFacts
<1> QED BY <1>3, <1>4, <1>5, <1>6 DEF StoreInv

\* A sync leaves nothing open, wherever the call goes on.
LEMMA SyncStore ==
    ASSUME IInv, KeptInv, Flush, UNCHANGED promise, keyed' => None \notin shown[KeysFile]
    PROVE  /\ StoreInv' /\ StableInv'
           /\ \A b \in Bundles : PlainStore(b) => PlainStore(b)'
           /\ \A g \in Files : /\ fs'[g] = fs[g] /\ InDir(g)' = InDir(g)
                               /\ shown'[g] = {InDir(g)} /\ staged'[g] = {fs[g].stg}
                               /\ shown'[g] \subseteq shown[g]
<1>1. /\ DiskOK'
      /\ \A g \in Files : /\ fs'[g] = fs[g] /\ dur'[g] \subseteq dur[g]
                          /\ shown'[g] = {InDir(g)} /\ staged'[g] = {fs[g].stg}
  BY LookSync DEF IInv, TypeOK
<1>2. /\ StoreInv'
      /\ \A b \in Bundles : PlainStore(b) => PlainStore(b)'
  BY <1>1, StoreShrinks DEF KeptInv
<1>3. \A g \in Files : InDir(g)' = InDir(g) /\ shown'[g] \subseteq shown[g]
  BY <1>1, LookShrinks DEF InDir
<1>4. StableInv'
  <2>1. /\ \A t \in Tags : shown'[t] = {InDir(t)'}
        /\ shown'[ManifestFile] = {InDir(ManifestFile)'} /\ shown'[Journal] = {InDir(Journal)'}
    BY <1>1, <1>3, FileFacts
  <2> QED BY <2>1 DEF StableInv
<1> QED BY <1>1, <1>2, <1>3, <1>4

LEMMA QuietStore ==
    ASSUME IInv, KeptInv, UNCHANGED disk, UNCHANGED promise,
           keyed' => None \notin shown[KeysFile]
    PROVE  /\ StoreInv'
           /\ \A b \in Bundles : PlainStore(b) => PlainStore(b)'
           /\ \A g \in Files : fs'[g] = fs[g] /\ InDir(g)' = InDir(g)
           /\ shown' = shown /\ staged' = staged
<1>1. DiskOK' /\ \A g \in Files : fs'[g] = fs[g] /\ dur'[g] = dur[g]
  BY QuietFacts DEF IInv, TypeOK
<1>2. /\ StoreInv'
      /\ \A b \in Bundles : PlainStore(b) => PlainStore(b)'
  BY <1>1, StoreShrinks DEF KeptInv
<1>3. shown' = shown /\ staged' = staged
  BY DEF disk, shown, staged
<1> QED BY <1>1, <1>2, <1>3 DEF InDir

\* A step between places where the same is synced.
LEMMA QuietStable ==
    ASSUME StableInv, shown' = shown, \A g \in Files : InDir(g)' = InDir(g),
           pc \in UnsyncedRecord => pc' \in UnsyncedRecord,
           pc \in {"adopt", "down"} => pc' \in {"adopt", "down"},
           pc \in {"psync", "down"} => pc' \in {"psync", "down"},
           pc \in {"jsync", "jremoved", "down"} => pc' \in {"jsync", "jremoved", "down"}
    PROVE  StableInv'
<1>1. /\ \A t \in Tags : InDir(t)' = InDir(t)
      /\ InDir(ManifestFile)' = InDir(ManifestFile) /\ InDir(Journal)' = InDir(Journal)
  BY FileFacts
<1> QED BY <1>1 DEF StableInv

\* The places without a store in hand.
Outside == {"closed", "down", "recover", "unlock", "fkeys", "jdrop", "jremove", "jremoved",
            "jsync"} \cup Rollforward

LEMMA OutsideFacts ==
    ASSUME pc' \in Outside
    PROVE  StagedInv' /\ OpenInv' /\ MutateInv' /\ MigrateInv'
BY DEF Outside, Rollforward, StagedInv, OpenInv, MutateInv, MigrateInv, Indexing, InStore,
       Loading, Mutating, Keyed, Agreeing

LEMMA Closes ==
    ASSUME IInv, KeptInv, UNCHANGED <<promise, keyed>>, ~refused',
           \/ Flush /\ pc' = "closed"
           \/ UNCHANGED disk /\ pc' = "down"
           \/ /\ UNCHANGED disk /\ pc' = "closed"
              /\ pc \notin UnsyncedRecord \cup {"adopt", "psync", "jsync", "jremoved"}
    PROVE  KeptInv'
<1>1. keyed' => None \notin shown[KeysFile]
  BY DEF KeptInv, StoreInv
<1>2. StoreInv'
  BY <1>1, SyncStore, QuietStore
<1>3. StableInv'
  <2>1. CASE Flush
    BY <1>1, <2>1, SyncStore
  <2>2. CASE UNCHANGED disk /\ pc' = "down"
    BY <2>2 DEF StableInv, UnsyncedRecord
  <2>3. CASE /\ UNCHANGED disk /\ pc' = "closed"
             /\ pc \notin UnsyncedRecord \cup {"adopt", "psync", "jsync", "jremoved"}
    BY <1>1, <2>3, QuietStore, QuietStable DEF KeptInv, UnsyncedRecord
  <2> QED BY <2>1, <2>2, <2>3
<1>4. pc' \in {"closed", "down"}
  OBVIOUS
<1>5. pc' \in Outside
  BY <1>4 DEF Outside
<1>6. StagedInv' /\ OpenInv' /\ MutateInv' /\ MigrateInv'
  BY <1>5, OutsideFacts
<1>7. RollInv'
  BY <1>4 DEF RollInv, Rollforward, InStore, Loading, Mutating, Keyed
<1> QED BY <1>2, <1>3, <1>6, <1>7 DEF KeptInv

-----------------------------------------------------------------------------
(* The handle goes, or the power. *)

LEMMA KeptEnds ==
    ASSUME IInv, KeptInv, Close \/ Kill \/ PowerLoss
    PROVE  KeptInv'
<1>1. CASE Close
  <2>1. UNCHANGED disk /\ UNCHANGED <<promise, keyed, refused>> /\ pc = "open" /\ pc' = "closed"
    BY <1>1 DEF Close, promises
  <2> QED BY <2>1, Closes DEF KeptInv, UnsyncedRecord
<1>2. CASE Kill
  <2>1. Flush /\ UNCHANGED <<promise, keyed, refused>> /\ pc' = "closed"
    BY <1>2 DEF Kill, LoseSync, Stop, promises
  <2> QED BY <2>1, Closes DEF KeptInv
<1>3. CASE PowerLoss
  <2>1. UNCHANGED disk /\ UNCHANGED <<promise, keyed, refused>> /\ pc' = "down"
    BY <1>3 DEF PowerLoss, promises
  <2> QED BY <2>1, Closes DEF KeptInv
<1> QED BY <1>1, <1>2, <1>3

\* An open that is refused had the wrong credentials.
LEMMA KeptRefuse ==
    ASSUME IInv, KeptInv, NEW w, Refuse(w), ~w, pc \in {"recover", "unlock", "load"}
    PROVE  KeptInv'
<1>1. UNCHANGED disk /\ UNCHANGED <<promise, keyed>> /\ ~refused' /\ pc' = "closed"
  BY DEF Refuse, promises, KeptInv
<1> QED BY <1>1, Closes DEF UnsyncedRecord

\* Away from the roll-forward and with no journal, only StoreInv and StableInv matter.
LEMMA RollFree ==
    ASSUME pc' \in {"closed", "down", "recover", "jsync"}
    PROVE  RollInv'
BY DEF RollInv, Rollforward, InStore, Loading, Mutating, Keyed

LEMMA KeptFall ==
    ASSUME IInv, KeptInv, FallsBack, ~torn'
    PROVE  KeptInv'
<1>1. pc' = "down" /\ UNCHANGED <<promise, keyed, refused>>
  BY DEF FallsBack, Goto
<1>2. /\ DiskOK'
      /\ \A g \in Files : \/ fs'[g] = fs[g] /\ dur'[g] = dur[g]
                          \/ fs'[g] \in dur[g] /\ dur'[g] = {fs'[g]}
  BY FallFacts DEF IInv, TypeOK
<1>3. \A g \in Files : dur'[g] \subseteq dur[g]
  BY <1>2
<1>4. StoreInv'
  BY <1>1, <1>2, <1>3, StoreShrinks DEF KeptInv, StoreInv
<1>5. StableInv'
  BY <1>1 DEF StableInv, UnsyncedRecord
<1>6. StagedInv' /\ OpenInv' /\ MutateInv' /\ MigrateInv'
  BY <1>1, OutsideFacts DEF Outside
<1> QED BY <1>1, <1>4, <1>5, <1>6, RollFree DEF KeptInv

LEMMA KeptPower ==
    ASSUME IInv, KeptInv, PowerReturns
    PROVE  KeptInv'
<1>1. pc' = "closed" /\ UNCHANGED <<promise, keyed, refused>>
  BY DEF PowerReturns, Goto
<1>2. \A g \in Files :
         /\ shown'[g] = {fs[g].dir} /\ staged'[g] = {fs'[g].stg}
         /\ latest'[g] = {IF fs'[g].stg # None THEN fs'[g].stg ELSE fs[g].dir}
         /\ fs'[g].dir = fs[g].dir /\ fs'[g].stg \in {fs[g].stg, None}
         /\ fs[Staging].dir = (IF g \in Tags THEN g[2] ELSE fs[g].stg.b)
                => fs'[g].stg = fs[g].stg
  BY LookPower DEF IInv, TypeOK
<1>3. \A g \in Files :
         /\ fs[g].dir \in shown[g] /\ fs[g].stg \in staged[g]
         /\ (IF fs[g].stg # None THEN fs[g].stg ELSE fs[g].dir) \in latest[g]
  BY Looks DEF IInv, TypeOK
<1>4. \A g \in Files : shown'[g] \subseteq shown[g] /\ shown'[g] # {}
  BY <1>2, <1>3
<1>5. None \in shown'[Journal] => \E b \in Bundles : PlainStore(b)'
  <2> SUFFICES ASSUME None \in shown'[Journal] PROVE \E b \in Bundles : PlainStore(b)'
    OBVIOUS
  <2>1. PICK b \in Bundles : PlainStore(b)
    BY <1>4, FileFacts DEF KeptInv, StoreInv
  <2> QED BY <1>1, <1>4, <2>1, FileFacts, PlainShrinks
<1>6. ASSUME NEW j \in shown'[Journal] \ {None} PROVE JournalStore(j)'
  <2>1. j \in shown[Journal] \ {None} /\ j.b \in Bundles
    BY <1>4, FileFacts, ShownTypes DEF IInv, TypeOK
  <2>2. JournalStore(j)
    BY <2>1 DEF KeptInv, StoreInv
  <2>3. fs[Staging].dir \in {None, j.b}
    BY <1>3, <2>2, FileFacts DEF JournalStore, StagingLast
  <2>4. ASSUME NEW f \in NewFiles(j.b) PROVE f \in Files /\ fs'[f].stg = fs[f].stg
    <3>1. f \in Files
      BY <2>1, FileFacts DEF NewFiles
    <3>2. CASE fs[Staging].dir = None \/ fs[f].stg = None
      <4>1. fs[Staging].dir = None => staged[f] \subseteq {None}
        BY <1>3, <2>2, FileFacts DEF JournalStore, StagingLast, Moved
      <4>2. fs[f].stg = None
        BY <1>3, <3>1, <3>2, <4>1
      <4> QED BY <1>2, <3>1, <4>2
    <3>3. CASE fs[Staging].dir = j.b /\ fs[f].stg # None
      <4>1. fs[f].stg \in latest[f]
        BY <1>3, <3>1, <3>3
      <4>2. CASE f \in {Tag(j.b, n) : n \in Names}
        <5>1. f \in Tags /\ f[2] = j.b
          BY <2>1, <4>2, FileFacts
        <5> QED BY <1>2, <3>1, <3>3, <5>1
      <4>3. CASE f = ManifestFile
        <5>1. fs[f].stg.b = j.b
          BY <2>2, <4>1, <4>3 DEF JournalStore, SwitchFits
        <5> QED BY <1>2, <3>1, <3>3, <4>3, <5>1, FileFacts
      <4>4. CASE f = KeysFile
        <5>1. fs[f].stg.b = j.b
          BY <2>2, <4>1, <4>4 DEF JournalStore, SwitchFits
        <5> QED BY <1>2, <3>1, <3>3, <4>4, <5>1, FileFacts
      <4> QED BY <4>2, <4>3, <4>4 DEF NewFiles
    <3> QED BY <2>3, <3>1, <3>2, <3>3
  <2>5. \A f \in NewFiles(j.b) : staged'[f] \subseteq staged[f] /\ latest'[f] \subseteq latest[f]
    BY <1>2, <1>3, <2>4
  <2>6. shown'[Journal] \subseteq {None, j}
    BY <1>4, <2>2, FileFacts DEF JournalStore
  <2> QED BY <1>1, <1>4, <2>1, <2>2, <2>5, <2>6, JournalShrinks
<1>7. StoreInv'
  <2>1. keyed' => None \notin shown'[KeysFile]
    BY <1>1, <1>4, FileFacts DEF KeptInv, StoreInv
  <2> QED BY <1>5, <1>6, <2>1 DEF StoreInv
<1>8. StableInv'
  BY <1>2, FileFacts DEF StableInv, InDir
<1>9. StagedInv' /\ OpenInv' /\ MutateInv' /\ MigrateInv'
  BY <1>1, OutsideFacts DEF Outside
<1> QED BY <1>1, <1>7, <1>8, <1>9, RollFree DEF KeptInv

-----------------------------------------------------------------------------
(* recover. *)

LEMMA KeptOpen ==
    ASSUME IInv, KeptInv, NEW u \in Passwords \cup {Recovery}, NEW upgrade \in BOOLEAN,
           Open(u, upgrade)
    PROVE  KeptInv'
<1>1. /\ pc = "closed" /\ pc' = "recover" /\ UNCHANGED disk
      /\ UNCHANGED <<promise, keyed, refused>>
  BY DEF Open, promises
<1>2. StoreInv' /\ shown' = shown /\ \A g \in Files : InDir(g)' = InDir(g)
  BY <1>1, QuietStore DEF KeptInv, StoreInv
<1>3. StableInv'
  BY <1>1, <1>2, QuietStable DEF KeptInv, UnsyncedRecord
<1>4. StagedInv' /\ OpenInv' /\ MutateInv' /\ MigrateInv'
  BY <1>1, OutsideFacts DEF Outside
<1> QED BY <1>1, <1>2, <1>3, <1>4, RollFree DEF KeptInv

LEMMA KeptFinished ==
    ASSUME IInv, KeptInv, RecoverFinished
    PROVE  KeptInv'
<1>1. /\ pc = "recover" /\ pc' = "jdrop" /\ UNCHANGED disk
      /\ UNCHANGED <<promise, keyed, refused>>
      /\ InDir(Journal) # None /\ InDir(Staging) = None
  BY DEF RecoverFinished, Goto
<1>2. StoreInv' /\ shown' = shown /\ \A g \in Files : InDir(g)' = InDir(g)
  BY <1>1, QuietStore DEF KeptInv, StoreInv
<1>3. StableInv'
  BY <1>1, <1>2, QuietStable DEF KeptInv, UnsyncedRecord
<1>4. StagedInv' /\ OpenInv' /\ MutateInv' /\ MigrateInv'
  BY <1>1, OutsideFacts DEF Outside
<1>5. RollInv'
  BY <1>1, <1>2, FileFacts DEF RollInv, Rollforward, InStore, Loading, Mutating, Keyed
<1> QED BY <1>1, <1>2, <1>3, <1>4, <1>5 DEF KeptInv

\* The journal that is there, and what it stands for.
LEMMA JournalFacts ==
    ASSUME IInv, KeptInv, InDir(Journal) # None
    PROVE  /\ InDir(Journal) \in JournalFile /\ InDir(Journal).b \in Bundles
           /\ JournalStore(InDir(Journal))
           /\ NewFiles(InDir(Journal).b) \subseteq Files
           /\ pc \notin {"jsync", "jremoved", "down"} => shown[Journal] = {InDir(Journal)}
<1>1. InDir(Journal) \in shown[Journal] \ {None}
  BY Looks, FileFacts DEF IInv, TypeOK
<1>2. InDir(Journal) \in JournalFile /\ InDir(Journal).b \in Bundles
  BY <1>1, ShownTypes DEF IInv, TypeOK
<1>3. JournalStore(InDir(Journal))
  BY <1>1 DEF KeptInv, StoreInv
<1>4. NewFiles(InDir(Journal).b) \subseteq Files
  BY <1>2, FileFacts DEF NewFiles
<1> QED BY <1>2, <1>3, <1>4 DEF KeptInv, StableInv

LEMMA KeptVerify ==
    ASSUME IInv, KeptInv, RecoverVerify
    PROVE  KeptInv'
<1>1. pc = "recover" /\ InDir(Journal) # None /\ InDir(Staging) # None
  BY DEF RecoverVerify
<1>2. PICK j : j = InDir(Journal)
  OBVIOUS
<1>3. j.b \in Bundles /\ JournalStore(j) /\ \A n \in Names : Tag(j.b, n) \in Files
  BY <1>1, <1>2, JournalFacts, FileFacts
<1>4. \A f \in Files : (IF fs[f].stg # None THEN fs[f].stg ELSE fs[f].dir) \in latest[f]
  BY Looks DEF IInv, TypeOK
<1>5. \A f \in Files : Staged(f) = fs[f].stg /\ InDir(f) = fs[f].dir
  BY <1>1 DEF Staged, InDir
<1>6. StagedKeys \in latest[KeysFile]
  BY <1>4, <1>5, FileFacts DEF StagedKeys
<1>7. StagedKeys # None /\ KeyOK(StagedKeys)
  <2>1. fs[KeysFile] \in dur[KeysFile] /\ fs[KeysFile].dir # None
    <3>1. fs[KeysFile].dir \in shown[KeysFile]
      BY Looks, FileFacts DEF IInv, TypeOK
    <3> QED BY <1>3, <3>1, FileFacts DEF IInv, TypeOK, DiskOK, JournalStore, SwitchFits
  <2>2. StagedKeys = fs[KeysFile].stg \/ StagedKeys = fs[KeysFile].dir
    BY <1>5, FileFacts DEF StagedKeys
  <2>3. StagedKeys # None
    BY <1>5, <2>1, FileFacts DEF StagedKeys
  <2> QED BY <2>1, <2>2, <2>3 DEF IInv, KeyInv
<1>8. StagedKeys.b = j.b
  BY <1>3, <1>6 DEF JournalStore, SwitchFits
<1>9. JournalVerifies(j)
  <2>1. ASSUME NEW n \in Names PROVE FileIs(Tag(j.b, n), j.new[n])
    <3>1. latest[Tag(j.b, n)] \subseteq {j.new[n]} /\ Tag(j.b, n) \in Files
      BY <1>3 DEF JournalStore, SwitchFits
    <3> QED BY <1>4, <1>5, <3>1 DEF FileIs
  <2>2. FileIs(ManifestFile, j.man)
    <3>1. latest[ManifestFile] \subseteq {j.man}
      BY <1>3 DEF JournalStore, SwitchFits
    <3> QED BY <1>4, <1>5, <3>1, FileFacts DEF FileIs
  <2> QED BY <1>8, <2>1, <2>2 DEF JournalVerifies
<1>10. CASE ~Unlocks(StagedKeys, h.u)
  <2>1. Refuse(RightCredentials)
    BY <1>7, <1>10 DEF RecoverVerify
  <2>2. ~RightCredentials
    BY <1>7, <1>10 DEF RightCredentials, Unlocks, KeyOK
  <2> QED BY <1>1, <2>1, <2>2, KeptRefuse
<1>11. CASE Unlocks(StagedKeys, h.u)
  <2>1. pc' = "move" /\ UNCHANGED disk /\ UNCHANGED <<promise, keyed, refused>>
    BY <1>2, <1>7, <1>9, <1>11 DEF RecoverVerify, Goto
  <2>2. StoreInv' /\ shown' = shown /\ \A g \in Files : InDir(g)' = InDir(g)
    BY <2>1, QuietStore DEF KeptInv, StoreInv
  <2>3. StableInv'
    BY <1>1, <2>1, <2>2, QuietStable DEF KeptInv, UnsyncedRecord
  <2>4. StagedInv' /\ OpenInv' /\ MutateInv' /\ MigrateInv'
    BY <2>1, OutsideFacts DEF Outside, Rollforward
  <2>5. RollInv'
    BY <1>1, <2>1, <2>2, FileFacts DEF RollInv, Rollforward, InStore, Loading, Mutating, Keyed
  <2> QED BY <2>1, <2>2, <2>3, <2>4, <2>5 DEF KeptInv
<1> QED BY <1>10, <1>11

LEMMA KeptDiscards ==
    ASSUME IInv, KeptInv, RecoverDiscards
    PROVE  KeptInv'
<1>1. /\ pc = "recover" /\ pc' = "unlock" /\ UNCHANGED <<promise, keyed, refused>>
      /\ InDir(Journal) = None /\ Touch(WithoutStaging(fs))
  BY DEF RecoverDiscards, Goto
<1>2. /\ DiskOK'
      /\ \A g \in Files \ {Staging} : fs'[g].dir = fs[g].dir /\ shown'[g] = shown[g]
  BY <1>1, LookDrop DEF IInv, TypeOK
<1>3. shown[Journal] = {None}
  BY <1>1 DEF KeptInv, StableInv
<1>4. /\ \A f \in StoreFiles \cup {KeysFile, Journal} :
            /\ shown'[f] = shown[f] /\ InDir(f)' = InDir(f)
            /\ shown'[f] # {}
      /\ \A n \in UserNames : Legacy(n) \in StoreFiles
  BY <1>2, FileFacts, ShownNext DEF InDir
<1>5. StoreInv'
  <2>1. PICK b \in Bundles : PlainStore(b)
    BY <1>3 DEF KeptInv, StoreInv
  <2>2. PlainStore(b)'
    BY <1>1, <1>4, <2>1, PlainShrinks
  <2>3. keyed' => None \notin shown'[KeysFile]
    BY <1>1, <1>4 DEF KeptInv, StoreInv
  <2> QED BY <1>3, <1>4, <2>2, <2>3 DEF StoreInv
<1>6. StableInv'
  <2>1. /\ \A t \in Tags : shown'[t] = shown[t] /\ InDir(t)' = InDir(t)
        /\ \A f \in {ManifestFile, Journal} : shown'[f] = shown[f] /\ InDir(f)' = InDir(f)
    BY <1>4, FileFacts
  <2> QED BY <1>1, <2>1 DEF KeptInv, StableInv, UnsyncedRecord
<1>7. StagedInv' /\ OpenInv' /\ MutateInv' /\ MigrateInv'
  BY <1>1, OutsideFacts DEF Outside
<1>8. RollInv'
  BY <1>1, <1>4 DEF RollInv, Rollforward, InStore, Loading, Mutating, Keyed
<1> QED BY <1>1, <1>5, <1>6, <1>7, <1>8 DEF KeptInv

\* A staged file is moved in.
LEMMA MovedStore ==
    ASSUME IInv, KeptInv, NEW j, j = InDir(Journal), j # None,
           NEW f \in NewFiles(j.b), MoveIn(f), fs[f].stg # None,
           pc \in {"move", "movekeys"}, pc' \in {"move", "movekeys", "movesync"},
           UNCHANGED <<promise, keyed>>
    PROVE  /\ StoreInv' /\ StableInv'
           /\ InDir(Journal)' = j /\ InDir(Staging)' = InDir(Staging)
           /\ fs'[f].stg = None
           /\ \A g \in Files \ {f} : fs'[g] = fs[g]
<1>1. /\ j.b \in Bundles /\ JournalStore(j) /\ NewFiles(j.b) \subseteq Files
      /\ shown[Journal] = {j}
  BY JournalFacts
<1>2. /\ DiskOK'
      /\ shown'[f] = shown[f] \cup {fs[f].stg} /\ latest'[f] = latest[f]
      /\ staged'[f] = staged[f] \cup {None}
      /\ fs'[f].dir = fs[f].stg /\ fs'[f].stg = None
      /\ \A g \in Files \ {f} : /\ fs'[g] = fs[g] /\ shown'[g] = shown[g]
                                /\ staged'[g] = staged[g] /\ latest'[g] = latest[g]
  BY <1>1, LookMove DEF IInv, TypeOK
<1>3. /\ fs[f].stg \in staged[f] /\ fs[f].stg \in latest[f]
  BY <1>1, Looks DEF IInv, TypeOK
<1>4. /\ f \notin {Journal, Staging}
      /\ \A n \in UserNames : Legacy(n) \in Files \ {f}
      /\ \A c \in Bundles \ {j.b}, n \in Names : Tag(c, n) \in Files \ {f}
  <2>1. \A n \in Names : Tag(j.b, n) \in Tags /\ Tag(j.b, n)[2] = j.b
    BY <1>1, FileFacts
  <2>2. (f \in Tags /\ f[2] = j.b) \/ f \in {ManifestFile, KeysFile}
    BY <2>1 DEF NewFiles
  <2>3. \A n \in UserNames : Legacy(n) # ManifestFile
    BY DEF Legacy, ManifestFile
  <2> QED BY <2>2, <2>3, FileFacts
<1>5. shown'[Journal] = {j} /\ shown'[Staging] = shown[Staging] /\ None \notin shown[Staging]
  <2>1. None \notin shown[Staging]
    BY <1>1, <1>3 DEF JournalStore, StagingLast, Moved
  <2> QED BY <1>1, <1>2, <1>4, <2>1, FileFacts
<1>6. SwitchFits(j)'
  <2>1. \A g \in NewFiles(j.b) : latest'[g] = latest[g]
    BY <1>1, <1>2
  <2>2. \A n \in Names : Tag(j.b, n) \in NewFiles(j.b)
    BY DEF NewFiles
  <2>3. ManifestFile \in NewFiles(j.b) /\ KeysFile \in NewFiles(j.b)
    BY DEF NewFiles
  <2>4. None \notin shown'[ManifestFile] /\ None \notin shown'[KeysFile]
    BY <1>1, <1>2, <2>3 DEF JournalStore, SwitchFits
  <2>5. NoLegacy'
    BY <1>1, <1>2, <1>4 DEF JournalStore, SwitchFits, NoLegacy
  <2> QED BY <1>1, <2>1, <2>2, <2>3, <2>4, <2>5 DEF JournalStore, SwitchFits
<1>7. OldListed(j)'
  BY <1>1, <1>2, <1>4 DEF JournalStore, OldListed
<1>8. JournalStore(j)'
  BY <1>1, <1>5, <1>6, <1>7 DEF JournalStore, StagingLast
<1>9. StoreInv'
  BY <1>5, <1>6, <1>8 DEF StoreInv, SwitchFits
<1>10. InDir(Journal)' = j /\ InDir(Staging)' = InDir(Staging)
  BY <1>2, <1>4, FileFacts DEF InDir
<1>11. StableInv'
  <2>1. pc' \in UnsyncedRecord /\ pc \notin {"psync", "down"}
    BY DEF UnsyncedRecord
  <2>2. None \notin shown'[ManifestFile]
    BY <1>6 DEF SwitchFits
  <2>3. InDir(ManifestFile)' # None /\ InDir(ManifestFile)'.p # None
        => shown'[ManifestFile] = {InDir(ManifestFile)'}
    <3>1. CASE f = ManifestFile
      <4>1. fs'[f].dir = j.man /\ j.man.p = None
        BY <1>1, <1>2, <1>3, <3>1 DEF JournalStore, SwitchFits
      <4> QED BY <3>1, <4>1 DEF InDir
    <3>2. CASE f # ManifestFile
      <4>1. fs'[ManifestFile] = fs[ManifestFile] /\ shown'[ManifestFile] = shown[ManifestFile]
        BY <1>2, <3>2, FileFacts
      <4> QED BY <2>1, <4>1 DEF KeptInv, StableInv, InDir
    <3> QED BY <3>1, <3>2
  <2> QED BY <1>5, <1>10, <2>1, <2>2, <2>3 DEF StableInv
<1> QED BY <1>2, <1>9, <1>10, <1>11

LEMMA KeptMovesRecord ==
    ASSUME IInv, KeptInv, NEW n \in Names, RecoverMovesRecord(n)
    PROVE  KeptInv'
<1>1. PICK j : j = InDir(Journal)
  OBVIOUS
<1>2. /\ pc = "move" /\ pc' = "move" /\ UNCHANGED <<promise, keyed, refused>>
      /\ Staged(Tag(j.b, n)) # None /\ MoveIn(Tag(j.b, n))
  BY <1>1 DEF RecoverMovesRecord, Goto, Unmoved
<1>3. j # None /\ InDir(Staging) # None /\ Tag(j.b, n) \in NewFiles(j.b)
  BY <1>1, <1>2 DEF KeptInv, RollInv, Rollforward, NewFiles
<1>4. fs[Tag(j.b, n)].stg # None
  BY <1>2, <1>3 DEF Staged
<1>5. StoreInv' /\ StableInv' /\ InDir(Journal)' = j /\ InDir(Staging)' = InDir(Staging)
  BY <1>1, <1>2, <1>3, <1>4, MovedStore
<1>6. StagedInv' /\ OpenInv' /\ MutateInv' /\ MigrateInv'
  BY <1>2, OutsideFacts DEF Outside, Rollforward
<1>7. RollInv'
  BY <1>2, <1>3, <1>5 DEF RollInv, Rollforward, InStore, Loading, Mutating, Keyed
<1> QED BY <1>2, <1>5, <1>6, <1>7 DEF KeptInv

LEMMA KeptMovesManifest ==
    ASSUME IInv, KeptInv, RecoverMovesManifest
    PROVE  KeptInv'
<1>1. PICK j : j = InDir(Journal)
  OBVIOUS
<1>2. /\ pc = "move" /\ pc' = "movekeys" /\ UNCHANGED <<promise, keyed, refused>>
      /\ Unmoved = {}
      /\ IF Staged(ManifestFile) # None THEN MoveIn(ManifestFile) ELSE UNCHANGED disk
  BY DEF RecoverMovesManifest, Goto
<1>3. j # None /\ InDir(Staging) # None /\ ManifestFile \in NewFiles(j.b)
  BY <1>1, <1>2 DEF KeptInv, RollInv, Rollforward, NewFiles
<1>4. /\ j.b \in Bundles /\ JournalStore(j) /\ NewFiles(j.b) \subseteq Files
      /\ \A n \in Names : Tag(j.b, n) \in NewFiles(j.b)
      /\ \A n \in Names : Tag(j.b, n) \in Files \ {ManifestFile}
  BY <1>1, <1>3, JournalFacts, FileFacts DEF NewFiles
<1>5. \A n \in Names : fs[Tag(j.b, n)].stg = None
  <2> SUFFICES ASSUME NEW n \in Names, fs[Tag(j.b, n)].stg # None PROVE FALSE
    OBVIOUS
  <2>1. fs[Tag(j.b, n)].stg \in latest[Tag(j.b, n)]
    BY <1>4, Looks DEF IInv, TypeOK
  <2>2. j.new[n] # None
    BY <1>4, <2>1 DEF JournalStore, SwitchFits
  <2>3. Staged(Tag(j.b, n)) # None
    BY <1>3 DEF Staged
  <2> QED BY <1>1, <1>2, <2>2, <2>3 DEF Unmoved
<1>6. /\ StoreInv' /\ StableInv' /\ InDir(Journal)' = j /\ InDir(Staging)' = InDir(Staging)
      /\ fs'[ManifestFile].stg = None
      /\ \A g \in Files \ {ManifestFile} : fs'[g] = fs[g]
  <2>1. CASE Staged(ManifestFile) # None
    <3>1. fs[ManifestFile].stg # None /\ MoveIn(ManifestFile)
      BY <1>2, <1>3, <2>1 DEF Staged
    <3> QED BY <1>1, <1>2, <1>3, <3>1, MovedStore
  <2>2. CASE Staged(ManifestFile) = None
    <3>1. UNCHANGED disk /\ fs[ManifestFile].stg = None
      BY <1>2, <1>3, <2>2 DEF Staged
    <3>2. /\ StoreInv' /\ shown' = shown
          /\ \A g \in Files : fs'[g] = fs[g] /\ InDir(g)' = InDir(g)
      BY <1>2, <3>1, QuietStore DEF KeptInv, StoreInv
    <3>3. StableInv'
      BY <1>2, <3>2, QuietStable DEF KeptInv, UnsyncedRecord
    <3> QED BY <1>1, <3>1, <3>2, <3>3, FileFacts
  <2> QED BY <2>1, <2>2
<1>7. StagedInv' /\ OpenInv' /\ MutateInv' /\ MigrateInv'
  BY <1>2, OutsideFacts DEF Outside, Rollforward
<1>8. RollInv'
  <2>1. \A f \in NewFiles(j.b) \ {KeysFile} : fs'[f].stg = None
    BY <1>4, <1>5, <1>6 DEF NewFiles
  <2>2. InDir(Journal)'.b = j.b
    BY <1>6
  <2> QED BY <1>2, <1>3, <1>6, <2>1, <2>2
          DEF RollInv, Rollforward, InStore, Loading, Mutating, Keyed
<1> QED BY <1>2, <1>6, <1>7, <1>8 DEF KeptInv

LEMMA KeptMovesKeys ==
    ASSUME IInv, KeptInv, RecoverMovesKeys
    PROVE  KeptInv'
<1>1. PICK j : j = InDir(Journal)
  OBVIOUS
<1>2. /\ pc = "movekeys" /\ pc' = "movesync" /\ UNCHANGED <<promise, keyed, refused>>
      /\ IF Staged(KeysFile) # None THEN MoveIn(KeysFile) ELSE UNCHANGED disk
  BY DEF RecoverMovesKeys, Goto
<1>3. /\ j # None /\ InDir(Staging) # None /\ KeysFile \in NewFiles(j.b)
      /\ \A f \in NewFiles(j.b) \ {KeysFile} : fs[f].stg = None
  BY <1>1, <1>2 DEF KeptInv, RollInv, Rollforward, NewFiles
<1>4. NewFiles(j.b) \subseteq Files
  BY <1>1, <1>3, JournalFacts
<1>5. /\ StoreInv' /\ StableInv' /\ InDir(Journal)' = j /\ InDir(Staging)' = InDir(Staging)
      /\ fs'[KeysFile].stg = None
      /\ \A g \in Files \ {KeysFile} : fs'[g] = fs[g]
  <2>1. CASE Staged(KeysFile) # None
    <3>1. fs[KeysFile].stg # None /\ MoveIn(KeysFile)
      BY <1>2, <1>3, <2>1 DEF Staged
    <3> QED BY <1>1, <1>2, <1>3, <3>1, MovedStore
  <2>2. CASE Staged(KeysFile) = None
    <3>1. UNCHANGED disk /\ fs[KeysFile].stg = None
      BY <1>2, <1>3, <2>2 DEF Staged
    <3>2. /\ StoreInv' /\ shown' = shown
          /\ \A g \in Files : fs'[g] = fs[g] /\ InDir(g)' = InDir(g)
      BY <1>2, <3>1, QuietStore DEF KeptInv, StoreInv
    <3>3. StableInv'
      BY <1>2, <3>2, QuietStable DEF KeptInv, UnsyncedRecord
    <3> QED BY <1>1, <3>1, <3>2, <3>3, FileFacts
  <2> QED BY <2>1, <2>2
<1>6. StagedInv' /\ OpenInv' /\ MutateInv' /\ MigrateInv'
  BY <1>2, OutsideFacts DEF Outside, Rollforward
<1>7. RollInv'
  <2>1. \A f \in NewFiles(j.b) \ {KeysFile} : fs'[f].stg = None
    BY <1>3, <1>4, <1>5
  <2>2. InDir(Journal)'.b = j.b
    BY <1>5
  <2> QED BY <1>2, <1>3, <1>5, <2>1, <2>2
          DEF RollInv, Rollforward, InStore, Loading, Mutating, Keyed
<1> QED BY <1>2, <1>5, <1>6, <1>7 DEF KeptInv

LEMMA MovedLooks ==
    ASSUME NEW f \in Files, staged[f] \subseteq {None}
    PROVE  latest[f] = shown[f]
<1>1. \A x \in dur[f] : x.stg = None
  BY DEF staged
<1> QED BY <1>1 DEF latest, shown

\* All is moved and the old records are gone: the store of the new bundle.
LEMMA Switched ==
    ASSUME NEW j, j.b \in Bundles, JournalStore(j), Moved(j.b),
           \A n \in Names : shown[Tag(Derived, n)] \subseteq {None}
    PROVE  PlainStore(j.b)
<1>1. \A f \in NewFiles(j.b) : latest[f] = shown[f]
  <2>1. NewFiles(j.b) \subseteq Files
    BY FileFacts DEF NewFiles
  <2> QED BY <2>1, MovedLooks DEF Moved
<1>2. /\ \A n \in Names : shown[Tag(j.b, n)] \subseteq {j.new[n]}
      /\ shown[ManifestFile] \subseteq {j.man} /\ \A k \in shown[KeysFile] : k.b = j.b
  BY <1>1 DEF NewFiles, JournalStore, SwitchFits
<1>3. OneBundle(j.b)
  <2>1. j.man.b = j.b
    BY DEF JournalStore, SwitchFits
  <2> QED BY <1>2, <2>1 DEF JournalStore, OldListed, OneBundle
<1>4. ManifestFits(j.b)
  <2>1. j.man.e = j.new
    BY DEF JournalStore, SwitchFits
  <2> QED BY <1>2, <2>1 DEF ManifestFits, Allows
<1>5. FirstManifest(j.b) /\ Unkeyed(j.b)
  BY DEF JournalStore, SwitchFits, FirstManifest, Unkeyed
<1>6. LegacyFits(j.b)
  <2>1. 0 # None
    BY NoneAssumption, CallTypes
  <2> QED BY <2>1 DEF JournalStore, SwitchFits, NoLegacy, LegacyFits
<1>7. RecordsKept(j.b)
  BY <1>2, CallTypes DEF JournalStore, SwitchFits, RecordsKept
<1>8. PendingKept
  <2>1. j.man.p = None
    BY DEF JournalStore, SwitchFits
  <2> QED BY <1>2, <2>1 DEF PendingKept
<1> QED BY <1>3, <1>4, <1>5, <1>6, <1>7, <1>8 DEF PlainStore

LEMMA KeptRollSyncs ==
    ASSUME IInv, KeptInv,
           \/ RecoverMovesSync \/ RecoverDropsSync \/ RecoverRemovesStagingSync \/ RecoverEnds
    PROVE  KeptInv'
<1>1. /\ Flush /\ UNCHANGED <<promise, keyed, refused>>
      /\ <<pc, pc'>> \in {<<"movesync", "drop">>, <<"drop", "rmdir">>, <<"jdrop", "jremove">>,
                          <<"jremoved", "unlock">>}
      /\ pc = "drop" => \A t \in InDir(Journal).old : InDir(t) = None
  BY DEF RecoverMovesSync, RecoverDropsSync, RecoverRemovesStagingSync, RecoverEnds, SyncDir, Goto
<1>2. /\ StoreInv' /\ StableInv'
      /\ \A g \in Files : /\ fs'[g] = fs[g] /\ InDir(g)' = InDir(g)
                          /\ shown'[g] = {InDir(g)} /\ staged'[g] = {fs[g].stg}
                          /\ shown'[g] \subseteq shown[g]
  BY <1>1, SyncStore DEF KeptInv, StoreInv
<1>3. StagedInv' /\ OpenInv' /\ MutateInv' /\ MigrateInv'
  BY <1>1, OutsideFacts DEF Outside, Rollforward
<1>4. /\ InDir(Journal)' = InDir(Journal) /\ InDir(Staging)' = InDir(Staging)
      /\ Derived \in Bundles /\ \A n \in Names : Tag(Derived, n) \in Files
  BY <1>2, FileFacts, Derivations
<1>5. RollInv'
  <2>1. CASE pc = "movesync" \/ pc = "drop"
    <3>1. PICK j : j = InDir(Journal)
      OBVIOUS
    <3>2. j # None /\ InDir(Staging) # None /\ pc' \in {"drop", "rmdir"}
      BY <1>1, <2>1, <3>1 DEF KeptInv, RollInv, Rollforward
    <3>3. JournalStore(j) /\ NewFiles(j.b) \subseteq Files
      BY <3>1, <3>2, JournalFacts
    <3>4. \A f \in NewFiles(j.b) : fs[f].stg = None
      <4>1. CASE pc = "movesync"
        BY <3>1, <4>1 DEF KeptInv, RollInv
      <4>2. CASE pc = "drop"
        <5>1. Moved(j.b)
          BY <3>1, <4>2 DEF KeptInv, RollInv
        <5> QED BY <3>3, <5>1, Looks DEF Moved, IInv, TypeOK
      <4> QED BY <2>1, <4>1, <4>2
    <3>5. Moved(j.b)'
      BY <1>2, <3>3, <3>4 DEF Moved
    <3>6. pc' = "rmdir" => \A n \in Names : shown'[Tag(Derived, n)] \subseteq {None}
      <4> SUFFICES ASSUME pc = "drop", NEW n \in Names
                   PROVE  shown'[Tag(Derived, n)] \subseteq {None}
        BY <1>1
      <4>1. shown[Tag(Derived, n)] \subseteq {None} \/ Tag(Derived, n) \in j.old
        BY <1>4, <3>3 DEF JournalStore, OldListed, SwitchFits
      <4> QED BY <1>1, <1>2, <1>4, <3>1, <4>1
    <3>7. Moved(InDir(Journal).b)'
      BY <1>4, <3>1, <3>5 DEF Moved
    <3> QED BY <1>4, <3>1, <3>2, <3>6, <3>7
            DEF RollInv, Rollforward, InStore, Loading, Mutating, Keyed
  <2>2. CASE pc \in {"jdrop", "jremoved"}
    BY <1>1, <1>4, <2>2 DEF KeptInv, RollInv, Rollforward, InStore, Loading, Mutating, Keyed
  <2> QED BY <1>1, <2>1, <2>2
<1> QED BY <1>1, <1>2, <1>3, <1>5 DEF KeptInv

LEMMA KeptDrops ==
    ASSUME IInv, KeptInv, NEW t \in Tags, RecoverDrops(t)
    PROVE  KeptInv'
<1>1. PICK j : j = InDir(Journal)
  OBVIOUS
<1>2. /\ pc = "drop" /\ pc' = "drop" /\ UNCHANGED <<promise, keyed, refused>>
      /\ t \in j.old /\ InDir(t) # None /\ Rename(t, None)
  BY <1>1 DEF RecoverDrops, Goto
<1>3. j # None /\ InDir(Staging) # None /\ Moved(j.b)
  BY <1>1, <1>2 DEF KeptInv, RollInv, Rollforward
<1>4. /\ j.b \in Bundles /\ JournalStore(j) /\ NewFiles(j.b) \subseteq Files
      /\ shown[Journal] = {j}
  BY <1>1, <1>2, <1>3, JournalFacts
<1>5. /\ DiskOK'
      /\ shown'[t] = shown[t] \cup {None} /\ staged'[t] = staged[t]
      /\ \A g \in Files \ {t} : /\ fs'[g] = fs[g] /\ shown'[g] = shown[g]
                                /\ staged'[g] = staged[g] /\ latest'[g] = latest[g]
  BY <1>2, FileFacts, LookRename DEF IInv, TypeOK
<1>6. t[2] = Derived /\ j.b # Derived
  BY <1>2, <1>4 DEF JournalStore, OldListed, SwitchFits
<1>7. NewFiles(j.b) \cup {Journal, Staging} \cup {Legacy(n) : n \in UserNames} \subseteq Files \ {t}
  <2>1. \A n \in Names : Tag(j.b, n) # t
    BY <1>4, <1>6, FileFacts
  <2>2. t \notin {ManifestFile, KeysFile, Journal, Staging}
    BY FileFacts
  <2> QED BY <1>4, <2>1, <2>2, FileFacts DEF NewFiles
<1>8. None \notin shown[Staging]
  <2> SUFFICES ASSUME None \in shown[Staging] PROVE FALSE
    OBVIOUS
  <2>1. PlainStore(j.b)
    BY <1>4 DEF JournalStore, StagingLast
  <2>2. PICK c \in Bundles, n \in Names : t = Tag(c, n)
    BY DEF Tags
  <2>3. shown[t] \subseteq {None}
    <3>1. c # j.b
      BY <1>6, <2>2, FileFacts
    <3> QED BY <2>1, <2>2, <3>1 DEF PlainStore, OneBundle
  <2>4. InDir(t) \in shown[t]
    BY Looks, FileFacts DEF IInv, TypeOK
  <2> QED BY <1>2, <2>3, <2>4
<1>9. SwitchFits(j)'
  <2>1. \A g \in NewFiles(j.b) : latest'[g] = latest[g] /\ shown'[g] = shown[g]
    BY <1>5, <1>7
  <2>2. \A n \in Names : Tag(j.b, n) \in NewFiles(j.b)
    BY DEF NewFiles
  <2>3. ManifestFile \in NewFiles(j.b) /\ KeysFile \in NewFiles(j.b)
    BY DEF NewFiles
  <2>4. NoLegacy'
    BY <1>4, <1>5, <1>7 DEF JournalStore, SwitchFits, NoLegacy
  <2> QED BY <1>2, <1>4, <2>1, <2>2, <2>3, <2>4 DEF JournalStore, SwitchFits
<1>10. OldListed(j)'
  <2> SUFFICES ASSUME NEW c \in Bundles \ {j.b}, NEW n \in Names
               PROVE  shown'[Tag(c, n)] \subseteq {None} \/ (c = Derived /\ Tag(c, n) \in j.old)
    BY <1>4 DEF JournalStore, OldListed
  <2>1. Tag(c, n) \in Files
    BY FileFacts
  <2>2. CASE Tag(c, n) = t
    BY <1>2, <1>4, <1>5, <2>2 DEF JournalStore, OldListed
  <2>3. CASE Tag(c, n) # t
    BY <1>4, <1>5, <2>1, <2>3 DEF JournalStore, OldListed
  <2> QED BY <2>2, <2>3
<1>11. shown'[Journal] = {j} /\ shown'[Staging] = shown[Staging]
  BY <1>4, <1>5, <1>7
<1>12. JournalStore(j)'
  BY <1>4, <1>8, <1>9, <1>10, <1>11 DEF JournalStore, StagingLast
<1>13. StoreInv'
  BY <1>3, <1>9, <1>11, <1>12 DEF StoreInv, SwitchFits
<1>14. InDir(Journal)' = j /\ InDir(Staging)' = InDir(Staging)
  BY <1>1, <1>5, <1>7 DEF InDir
<1>15. StableInv'
  <2>1. fs'[ManifestFile] = fs[ManifestFile] /\ shown'[ManifestFile] = shown[ManifestFile]
    BY <1>5, <1>7 DEF NewFiles
  <2>2. InDir(ManifestFile)' = InDir(ManifestFile)
    BY <2>1 DEF InDir
  <2> QED BY <1>2, <1>11, <1>14, <2>1, <2>2 DEF KeptInv, StableInv, UnsyncedRecord
<1>16. RollInv'
  <2>1. Moved(j.b)'
    BY <1>3, <1>5, <1>7 DEF Moved
  <2>2. Moved(InDir(Journal).b)'
    BY <1>14, <2>1 DEF Moved
  <2> QED BY <1>2, <1>3, <1>14, <2>2
          DEF RollInv, Rollforward, InStore, Loading, Mutating, Keyed
<1>17. StagedInv' /\ OpenInv' /\ MutateInv' /\ MigrateInv'
  BY <1>2, OutsideFacts DEF Outside, Rollforward
<1> QED BY <1>2, <1>13, <1>15, <1>16, <1>17 DEF KeptInv

LEMMA KeptRemovesStaging ==
    ASSUME IInv, KeptInv, RecoverRemovesStaging
    PROVE  KeptInv'
<1>1. PICK j : j = InDir(Journal)
  OBVIOUS
<1>2. /\ pc = "rmdir" /\ pc' = "jdrop" /\ UNCHANGED <<promise, keyed, refused>>
      /\ Touch(WithoutStaging(fs))
  BY DEF RecoverRemovesStaging, Goto
<1>3. /\ j # None /\ Moved(j.b) /\ \A n \in Names : shown[Tag(Derived, n)] \subseteq {None}
  BY <1>1, <1>2 DEF KeptInv, RollInv, Rollforward
<1>4. /\ j.b \in Bundles /\ JournalStore(j) /\ NewFiles(j.b) \subseteq Files
      /\ shown[Journal] = {j}
  BY <1>1, <1>2, <1>3, JournalFacts
<1>5. PlainStore(j.b)
  BY <1>3, <1>4, Switched
<1>6. /\ DiskOK'
      /\ shown'[Staging] = shown[Staging] \cup {None} /\ fs'[Staging].dir = None
      /\ \A g \in Files \ {Staging} :
             /\ fs'[g].dir = fs[g].dir
             /\ shown'[g] = shown[g] /\ staged'[g] = staged[g] \cup {None}
             /\ \A x \in latest'[g] : x \in latest[g] \/ x = fs[g].dir
  BY <1>2, LookDrop DEF IInv, TypeOK
<1>7. /\ StoreFiles \cup {KeysFile, Journal} \subseteq Files \ {Staging}
      /\ NewFiles(j.b) \subseteq StoreFiles \cup {KeysFile}
  BY <1>4, FileFacts DEF NewFiles
<1>8. PlainStore(j.b)'
  <2>1. \A n \in UserNames : Legacy(n) \in Files /\ shown'[Legacy(n)] # {}
    BY <1>6, FileFacts, ShownNext
  <2> QED BY <1>2, <1>4, <1>5, <1>6, <1>7, <2>1, PlainShrinks
<1>9. Moved(j.b)'
  BY <1>3, <1>6, <1>7 DEF Moved
<1>10. \A f \in NewFiles(j.b) : latest'[f] \subseteq latest[f]
  <2> SUFFICES ASSUME NEW f \in NewFiles(j.b) PROVE latest'[f] \subseteq latest[f]
    OBVIOUS
  <2>1. f \in Files \ {Staging} /\ staged[f] \subseteq {None}
    BY <1>3, <1>7 DEF Moved
  <2>2. fs[f].dir \in latest[f]
    BY <2>1, Looks DEF IInv, TypeOK
  <2> QED BY <1>6, <2>1, <2>2
<1>11. SwitchFits(j)'
  <2>1. \A n \in Names : Tag(j.b, n) \in NewFiles(j.b)
    BY DEF NewFiles
  <2>2. ManifestFile \in NewFiles(j.b) /\ KeysFile \in NewFiles(j.b)
    BY DEF NewFiles
  <2>3. NoLegacy'
    BY <1>4, <1>6, <1>7, FileFacts DEF JournalStore, SwitchFits, NoLegacy
  <2>4. shown'[ManifestFile] = shown[ManifestFile] /\ shown'[KeysFile] = shown[KeysFile]
    BY <1>6, <1>7, FileFacts
  <2> QED BY <1>2, <1>4, <1>10, <2>1, <2>2, <2>3, <2>4 DEF JournalStore, SwitchFits
<1>12. OldListed(j)'
  <2>1. \A c \in Bundles, n \in Names : shown'[Tag(c, n)] = shown[Tag(c, n)]
    BY <1>6, <1>7, FileFacts
  <2> QED BY <1>4, <2>1 DEF JournalStore, OldListed
<1>13. StagingLast(j)'
  BY <1>4, <1>6, <1>8, <1>9 DEF JournalStore, StagingLast
<1>14. shown'[Journal] = {j} /\ InDir(Journal)' = j /\ InDir(Staging)' = None
  BY <1>1, <1>4, <1>6, <1>7 DEF InDir
<1>15. StoreInv'
  BY <1>3, <1>11, <1>12, <1>13, <1>14 DEF StoreInv, JournalStore, SwitchFits
<1>16. StableInv'
  <2>1. /\ \A t \in Tags : shown'[t] = shown[t] /\ InDir(t)' = InDir(t)
        /\ shown'[ManifestFile] = shown[ManifestFile]
        /\ InDir(ManifestFile)' = InDir(ManifestFile)
    BY <1>6, <1>7, FileFacts DEF InDir
  <2> QED BY <1>2, <1>14, <2>1 DEF KeptInv, StableInv, UnsyncedRecord
<1>17. RollInv'
  BY <1>2, <1>3, <1>14 DEF RollInv, Rollforward, InStore, Loading, Mutating, Keyed
<1>18. StagedInv' /\ OpenInv' /\ MutateInv' /\ MigrateInv'
  BY <1>2, OutsideFacts DEF Outside
<1> QED BY <1>2, <1>15, <1>16, <1>17, <1>18 DEF KeptInv

LEMMA KeptRemovesJournal ==
    ASSUME IInv, KeptInv, RecoverRemovesJournal
    PROVE  KeptInv'
<1>1. PICK j : j = InDir(Journal)
  OBVIOUS
<1>2. /\ pc = "jremove" /\ pc' = "jremoved" /\ UNCHANGED <<promise, keyed, refused>>
      /\ Rename(Journal, None)
  BY DEF RecoverRemovesJournal, Goto
<1>3. j # None /\ InDir(Staging) = None
  BY <1>1, <1>2 DEF KeptInv, RollInv
<1>4. /\ j.b \in Bundles /\ JournalStore(j) /\ NewFiles(j.b) \subseteq Files \ {Journal}
      /\ shown[Journal] = {j}
  BY <1>1, <1>2, <1>3, JournalFacts, FileFacts DEF NewFiles
<1>5. PlainStore(j.b)
  <2>1. None \in shown[Staging]
    BY <1>3, Looks, FileFacts DEF IInv, TypeOK
  <2> QED BY <1>4, <2>1 DEF JournalStore, StagingLast
<1>6. /\ DiskOK'
      /\ shown'[Journal] = shown[Journal] \cup {None} /\ fs'[Journal].dir = None
      /\ \A g \in Files \ {Journal} : /\ fs'[g] = fs[g] /\ shown'[g] = shown[g]
                                      /\ staged'[g] = staged[g] /\ latest'[g] = latest[g]
  BY <1>2, FileFacts, LookRename DEF IInv, TypeOK
<1>7. \A f \in Files : shown'[f] # {}
  BY <1>6, ShownNext
<1>8. JournalStore(j)' /\ PlainStore(j.b)'
  <2>1. shown'[Journal] \subseteq {None, j}
    BY <1>4, <1>6
  <2>2. StoreFiles \cup {KeysFile} \subseteq Files \ {Journal}
        /\ \A n \in UserNames : Legacy(n) \in Files
    BY FileFacts
  <2>3. PlainStore(j.b)'
    BY <1>2, <1>4, <1>5, <1>6, <1>7, <2>2, PlainShrinks
  <2>4. JournalStore(j)'
    BY <1>2, <1>4, <1>6, <1>7, <2>1, JournalShrinks
  <2> QED BY <2>3, <2>4
<1>9. StoreInv'
  <2>1. shown'[KeysFile] = shown[KeysFile]
    BY <1>6, FileFacts
  <2> QED BY <1>2, <1>4, <1>6, <1>8, <2>1 DEF KeptInv, StoreInv
<1>10. StableInv'
  <2>1. /\ \A t \in Tags : shown'[t] = shown[t] /\ InDir(t)' = InDir(t)
        /\ shown'[ManifestFile] = shown[ManifestFile]
        /\ InDir(ManifestFile)' = InDir(ManifestFile)
    <3>1. \A t \in Tags \cup {ManifestFile} : t \in Files \ {Journal}
      BY FileFacts
    <3> QED BY <1>6, <3>1 DEF InDir
  <2> QED BY <1>2, <2>1 DEF KeptInv, StableInv, UnsyncedRecord
<1>11. RollInv'
  BY <1>2, <1>6 DEF RollInv, InDir, Rollforward, InStore, Loading, Mutating, Keyed
<1>12. StagedInv' /\ OpenInv' /\ MutateInv' /\ MigrateInv'
  BY <1>2, OutsideFacts DEF Outside
<1> QED BY <1>2, <1>9, <1>10, <1>11, <1>12 DEF KeptInv

-----------------------------------------------------------------------------
(* A store in hand. *)

LEMMA PlainNext ==
    ASSUME NEW b, PlainStore(b)', h'.b = b
    PROVE  PlainStore(h.b)'
<1>1. OneBundle(h.b)' /\ ManifestFits(h.b)'
  BY DEF PlainStore, OneBundle, ManifestFits
<1>2. FirstManifest(h.b)' /\ Unkeyed(h.b)'
  BY DEF PlainStore, FirstManifest, Unkeyed
<1>3. LegacyFits(h.b)' /\ RecordsKept(h.b)' /\ PendingKept'
  BY DEF PlainStore, LegacyFits, RecordsKept
<1> QED BY <1>1, <1>2, <1>3 DEF PlainStore

LEMMA StoreNext ==
    ASSUME NEW b \in Bundles, PlainStore(b)', shown'[Journal] = {None},
           keyed' => None \notin shown'[KeysFile]
    PROVE  StoreInv'
BY DEF StoreInv

\* What is left to show of a step that has a store in hand.
LEMMA HeldNext ==
    ASSUME StoreInv', StableInv', OpenInv', MutateInv', MigrateInv', ~refused',
           pc' \in (InStore \cup {"fsync"}) \ {"stage"}, InDir(Journal)' = None
    PROVE  KeptInv'
<1>1. RollInv'
  BY DEF RollInv, Rollforward, InStore, Loading, Mutating, Keyed
<1>2. StagedInv'
  BY DEF StagedInv, InStore, Loading, Mutating, Keyed
<1> QED BY <1>1, <1>2 DEF KeptInv

LEMMA HeldFacts ==
    ASSUME IInv, KeptInv, pc \in InStore \cup {"journal"}, NEW b, b = h.b
    PROVE  /\ b \in Bundles /\ PlainStore(b)
           /\ InDir(Journal) = None /\ shown[Journal] = {None}
           /\ pc # "load" => InDir(ManifestFile) # None /\ InDir(ManifestFile) \in Manifest
           /\ pc \notin {"load", "adopt"} => None \notin shown[ManifestFile]
           /\ pc \in InStore \ {"usync"} /\ b # Derived => None \notin shown[KeysFile]
           /\ pc \in InStore \ {"usync"} /\ ~Upgrading =>
                  /\ None \notin shown[KeysFile]
                  /\ InDir(KeysFile) # None /\ InDir(KeysFile).b = b
           /\ pc \notin {"async", "settledsync"} =>
                  \A c \in Bundles, n \in Names : shown[Tag(c, n)] = {InDir(Tag(c, n))}
           /\ \A n \in Names : Tag(b, n) \in Tags /\ Tag(b, n) \in Files
<1>1. b \in Bundles /\ PlainStore(b)
  BY DEF IInv, TypeOK, Handle, KeptInv, OpenInv
<1>2. /\ pc \notin {"jsync", "jremoved", "down", "psync"} \/ pc = "psync"
      /\ pc \notin {"fsync", "down", "move", "movekeys", "movesync", "drop", "jsync", "jremoved"}
  BY DEF InStore, Loading, Mutating, Keyed
<1>3. InDir(Journal) = None /\ shown[Journal] = {None}
  BY <1>2 DEF KeptInv, RollInv, StableInv
<1>4. pc # "load" => InDir(ManifestFile) # None /\ InDir(ManifestFile) \in Manifest
  <2>1. InDir(ManifestFile) \in Manifest \cup {None}
    BY InDirType, BytesFacts, FileFacts
  <2> QED BY <2>1 DEF KeptInv, OpenInv
<1>5. pc \notin {"load", "adopt"} => None \notin shown[ManifestFile]
  BY <1>2, <1>4 DEF KeptInv, StableInv
<1>6. pc \in InStore \ {"usync"} /\ ~Upgrading =>
          /\ None \notin shown[KeysFile]
          /\ InDir(KeysFile) # None /\ InDir(KeysFile).b = b
  <2> SUFFICES ASSUME pc \in InStore \ {"usync"}, ~Upgrading
               PROVE  /\ None \notin shown[KeysFile]
                      /\ InDir(KeysFile) # None /\ InDir(KeysFile).b = b
    OBVIOUS
  <2>1. InDir(KeysFile) # None /\ InDir(KeysFile).b = b
    <3> HIDE DEF Upgrading, InStore
    <3> QED BY DEF IInv, HandleInv
  <2>2. \A x \in dur[KeysFile] : x.dir # None
    BY <1>2, <2>1 DEF IInv, KeyInv
  <2> QED BY <2>1, <2>2, FileFacts DEF shown
<1>7. Upgrading => b = Derived
  <2>1. Upgrading => pc \in InStore
    BY DEF Upgrading, InStore
  <2> HIDE DEF Upgrading, InStore
  <2> QED BY <2>1 DEF IInv, HandleInv
<1>8. pc \notin {"async", "settledsync"} =>
          \A c \in Bundles, n \in Names : shown[Tag(c, n)] = {InDir(Tag(c, n))}
  BY <1>2, FileFacts DEF KeptInv, StableInv, UnsyncedRecord
<1>9. \A n \in Names : Tag(b, n) \in Tags /\ Tag(b, n) \in Files
  BY <1>1, FileFacts
<1> QED BY <1>1, <1>3, <1>4, <1>5, <1>6, <1>7, <1>8, <1>9

\* With nothing on the disk, any bundle will do.
LEMMA EmptyStore ==
    ASSUME NEW b \in Bundles, NEW c \in Bundles, PlainStore(b), DiskOK,
           \A f \in StoreFiles \cup {KeysFile} : shown[f] \subseteq {None}
    PROVE  PlainStore(c) /\ NoLegacy
<1>1. /\ \A d \in Bundles, n \in Names : Tag(d, n) \in StoreFiles /\ Tag(d, n) \in Files
      /\ \A n \in UserNames : Legacy(n) \in StoreFiles /\ Legacy(n) \in Files /\ n \in Names
      /\ ManifestFile \in StoreFiles /\ MARKER \in Names /\ LATCH \in Names /\ 0 # None
  BY FileFacts, CallTypes, NoneAssumption
<1>2. OneBundle(c) /\ ManifestFits(c) /\ FirstManifest(c) /\ Unkeyed(c) /\ PendingKept
  BY <1>1 DEF OneBundle, ManifestFits, FirstManifest, Unkeyed, PendingKept
<1>3. LegacyFits(c) /\ NoLegacy
  BY <1>1 DEF LegacyFits, NoLegacy
<1>4. ASSUME NEW n \in UserNames PROVE None \in promise[n]
  <2>1. None \in shown[Tag(b, n)] /\ None \in shown[Legacy(n)]
    BY <1>1, ShownTypes
  <2> QED BY <2>1 DEF PlainStore, RecordsKept
<1>5. RecordsKept(c)
  BY <1>1, <1>4 DEF RecordsKept
<1> QED BY <1>2, <1>3, <1>5 DEF PlainStore

-----------------------------------------------------------------------------
(* unlock. *)

LEMMA KeptUnlocks ==
    ASSUME IInv, KeptInv, NEW b \in Bundles, PlainStore(b), pc = "unlock", pc' = "load",
           h'.b = b, UNCHANGED disk, UNCHANGED <<promise, keyed, refused>>
    PROVE  KeptInv'
<1>1. /\ StoreInv' /\ PlainStore(b)' /\ shown' = shown
      /\ \A g \in Files : InDir(g)' = InDir(g)
  BY QuietStore DEF KeptInv, StoreInv
<1>2. StableInv'
  BY <1>1, QuietStable DEF KeptInv, UnsyncedRecord
<1>3. InDir(Journal)' = None
  BY <1>1, FileFacts DEF KeptInv, RollInv
<1>4. OpenInv'
  <2>1. PlainStore(h.b)'
    BY <1>1, PlainNext
  <2> QED BY <2>1 DEF OpenInv, InStore, Loading, Mutating, Keyed, Agreeing
<1>5. MutateInv' /\ MigrateInv'
  BY DEF MutateInv, MigrateInv, Indexing, Mutating, Keyed
<1> QED BY <1>1, <1>2, <1>3, <1>4, <1>5, HeldNext DEF KeptInv, InStore, Loading

\* No journal: the files are a store.
LEMMA UnlockFacts ==
    ASSUME IInv, KeptInv, pc \in {"unlock", "fkeys"}
    PROVE  /\ shown[Journal] = {None} /\ InDir(Journal) = None
           /\ \E b \in Bundles : PlainStore(b)
           /\ InDir(KeysFile) \in shown[KeysFile]
           /\ InDir(KeysFile) = None => shown[KeysFile] = {None} /\ ~keyed
<1>1. shown[Journal] = {None} /\ InDir(Journal) = None
  BY DEF KeptInv, RollInv, StableInv
<1>2. \E b \in Bundles : PlainStore(b)
  BY <1>1 DEF KeptInv, StoreInv
<1>3. InDir(KeysFile) \in shown[KeysFile]
  BY Looks, FileFacts DEF IInv, TypeOK
<1>4. InDir(KeysFile) = None => shown[KeysFile] = {None}
  <2>1. InDir(KeysFile) = None => \A x \in dur[KeysFile] : x.dir = None
    BY DEF IInv, KeyInv
  <2> QED BY <1>3, <2>1, FileFacts DEF shown
<1> QED BY <1>1, <1>2, <1>3, <1>4 DEF KeptInv, StoreInv

LEMMA KeptUnlockKeyed ==
    ASSUME IInv, KeptInv, UnlockKeyed
    PROVE  KeptInv'
<1>1. PICK k : k = InDir(KeysFile)
  OBVIOUS
<1>2. pc = "unlock" /\ k # None /\ k \in KeyFile /\ KeyOK(k) /\ h \in Handle
  BY <1>1, KeyFacts DEF UnlockKeyed, IInv, TypeOK
<1>3. CASE ~Unlocks(k, h.u)
  <2>1. Refuse(RightCredentials)
    BY <1>1, <1>3 DEF UnlockKeyed
  <2>2. ~RightCredentials
    BY <1>2, <1>3 DEF RightCredentials, Unlocks, KeyOK
  <2> QED BY <1>2, <2>1, <2>2, KeptRefuse
<1>4. CASE Unlocks(k, h.u)
  <2>1. /\ h' = [h EXCEPT !.b = k.b, !.flow = "keyed",
                          !.derived = h.u # Recovery /\ k.b = Derived /\ h.u = FirstPw]
        /\ pc' = "load" /\ UNCHANGED disk /\ UNCHANGED <<promise, keyed, refused>>
    BY <1>1, <1>4 DEF UnlockKeyed, promises
  <2>2. PICK b \in Bundles : PlainStore(b)
    BY <1>2, UnlockFacts
  <2>3. k.b = b
    BY <1>1, <1>2, <2>2, UnlockFacts DEF PlainStore, OneBundle
  <2>4. h'.b = b
    BY <1>2, <2>1, <2>3 DEF Handle
  <2> QED BY <1>2, <2>1, <2>2, <2>4, KeptUnlocks
<1> QED BY <1>3, <1>4

LEMMA KeptUnlockUpgrade ==
    ASSUME IInv, KeptInv, UnlockUpgrade
    PROVE  KeptInv'
<1>1. pc = "unlock" /\ InDir(KeysFile) = None /\ h \in Handle /\ DiskOK
  BY DEF UnlockUpgrade, IInv, TypeOK
<1>2. CASE ~(h.u = FirstPw /\ h.upgrade)
  <2>1. Refuse(keyed) /\ ~keyed
    BY <1>1, <1>2, UnlockFacts DEF UnlockUpgrade
  <2> QED BY <1>1, <2>1, KeptRefuse
<1>3. CASE h.u = FirstPw /\ h.upgrade
  <2>1. /\ h' = [h EXCEPT !.b = Derived, !.flow = "upgrade", !.derived = TRUE]
        /\ pc' = "load" /\ UNCHANGED disk /\ UNCHANGED <<promise, keyed, refused>>
    BY <1>3 DEF UnlockUpgrade, promises
  <2>2. h'.b = Derived /\ Derived \in Bundles
    BY <1>1, <2>1, Derivations DEF Handle
  <2>3. PICK b \in Bundles : PlainStore(b)
    BY <1>1, UnlockFacts
  <2>4. shown[KeysFile] = {None}
    BY <1>1, UnlockFacts
  <2>5. PlainStore(Derived)
    <3>1. CASE b # Derived
      <4>1. \A f \in StoreFiles : shown[f] \subseteq {None}
        BY <2>3, <2>4, <3>1 DEF PlainStore, Unkeyed
      <4> QED BY <1>1, <2>2, <2>3, <2>4, <4>1, EmptyStore
    <3> QED BY <2>3, <3>1
  <2> QED BY <1>1, <2>1, <2>2, <2>5, KeptUnlocks
<1> QED BY <1>2, <1>3

LEMMA KeptUnlockFresh ==
    ASSUME IInv, KeptInv, UnlockFresh
    PROVE  KeptInv'
<1>1. /\ pc = "unlock" /\ pc' = "fkeys" /\ UNCHANGED disk /\ UNCHANGED <<promise, keyed, refused>>
  BY DEF UnlockFresh, promises
<1>2. StoreInv' /\ shown' = shown /\ \A g \in Files : InDir(g)' = InDir(g)
  BY <1>1, QuietStore DEF KeptInv, StoreInv
<1>3. StableInv'
  BY <1>1, <1>2, QuietStable DEF KeptInv, UnsyncedRecord
<1>4. StagedInv' /\ OpenInv' /\ MutateInv' /\ MigrateInv'
  BY <1>1, OutsideFacts DEF Outside
<1>5. RollInv'
  BY <1>1, <1>2, FileFacts, UnlockFacts
     DEF RollInv, Rollforward, InStore, Loading, Mutating, Keyed
<1> QED BY <1>1, <1>2, <1>3, <1>4, <1>5 DEF KeptInv

SyncedFiles == Tags \cup {ManifestFile, Journal}

LEMMA SyncedFacts ==
    /\ SyncedFiles \subseteq Files \ {KeysFile, Staging}
    /\ \A n \in UserNames : Legacy(n) \in Files \ SyncedFiles
    /\ ManifestFile \in SyncedFiles /\ Journal \in SyncedFiles /\ Tags \subseteq SyncedFiles
<1>1. ManifestFile # Staging /\ \A n \in UserNames : Legacy(n) # ManifestFile
  BY DEF ManifestFile, Staging, Legacy
<1> QED BY <1>1, FileFacts DEF SyncedFiles

LEMMA StableSame ==
    ASSUME StableInv, \A g \in SyncedFiles : shown'[g] = shown[g] /\ InDir(g)' = InDir(g),
           pc \notin UnsyncedRecord, pc \notin {"adopt", "psync", "jsync", "jremoved"}
    PROVE  StableInv'
<1>1. /\ \A t \in Tags : shown'[t] = shown[t] /\ InDir(t)' = InDir(t)
      /\ shown'[ManifestFile] = shown[ManifestFile] /\ InDir(ManifestFile)' = InDir(ManifestFile)
      /\ shown'[Journal] = shown[Journal] /\ InDir(Journal)' = InDir(Journal)
  BY DEF SyncedFiles
<1>2. pc # "down"
  BY DEF UnsyncedRecord
<1> QED BY <1>1, <1>2 DEF StableInv

\* A key file of the bundle is written to a store that has its manifest, or nothing.
LEMMA PlainKeys ==
    ASSUME NEW b \in Bundles, PlainStore(b), DiskOK, NEW k \in KeyFile, k.b = b,
           Rename(KeysFile, k), UNCHANGED promise, NoLegacy,
           None \in shown[ManifestFile] => \A n \in Names : shown[Tag(b, n)] \subseteq {None}
    PROVE  /\ PlainStore(b)' /\ k # None
           /\ shown'[KeysFile] = shown[KeysFile] \cup {k}
           /\ \A g \in Files \ {KeysFile} : shown'[g] = shown[g] /\ InDir(g)' = InDir(g)
<1>1. /\ shown'[KeysFile] = shown[KeysFile] \cup {k}
      /\ \A g \in Files \ {KeysFile} : fs'[g] = fs[g] /\ shown'[g] = shown[g]
  BY LookRename, BytesFacts, FileFacts
<1>2. \A g \in Files \ {KeysFile} : InDir(g)' = InDir(g)
  BY <1>1 DEF InDir
<1>3. /\ \A d \in Bundles, n \in Names : Tag(d, n) \in Files \ {KeysFile}
      /\ \A n \in UserNames : Legacy(n) \in Files \ {KeysFile} /\ n \in Names
      /\ ManifestFile \in Files \ {KeysFile} /\ MARKER \in Names /\ LATCH \in Names
      /\ StoreFiles \subseteq Files \ {KeysFile}
      /\ 0 # None /\ k # None
  BY FileFacts, CallTypes, NoneAssumption
<1>4. \A f \in StoreFiles : shown'[f] = shown[f]
  BY <1>1, <1>3
<1>5. OneBundle(b)' /\ ManifestFits(b)'
  BY <1>1, <1>3 DEF PlainStore, OneBundle, ManifestFits, Allows
<1>6. FirstManifest(b)' /\ Unkeyed(b)'
  <2>1. FirstManifest(b)'
    BY <1>1, <1>3 DEF PlainStore, FirstManifest
  <2> QED BY <1>1, <1>3, <1>4, <2>1 DEF PlainStore, Unkeyed
<1>7. LegacyFits(b)'
  BY <1>1, <1>3 DEF LegacyFits, NoLegacy
<1>8. RecordsKept(b)' /\ PendingKept'
  BY <1>1, <1>3 DEF PlainStore, RecordsKept, PendingKept
<1> QED BY <1>1, <1>2, <1>3, <1>5, <1>6, <1>7, <1>8 DEF PlainStore

LEMMA KeptFreshKeys ==
    ASSUME IInv, KeptInv, FreshKeys
    PROVE  KeptInv'
<1>1. PICK c \in Bundles : c = h.b
  BY DEF IInv, TypeOK, Handle
<1>2. /\ pc = "fkeys" /\ pc' = "fsync" /\ h' = h /\ UNCHANGED <<promise, keyed, refused>>
      /\ Rename(KeysFile, [b |-> c, pw |-> h.u, rc |-> FALSE]) /\ DiskOK
  BY <1>1 DEF FreshKeys, promises, IInv, TypeOK
<1>3. PICK k \in KeyFile : k = [b |-> c, pw |-> h.u, rc |-> FALSE]
  BY <1>2 DEF KeyFile, IInv, TypeOK, Handle, HandleInv
<1>4. Rename(KeysFile, k) /\ k.b = c
  BY <1>2, <1>3
<1>5. InDir(KeysFile) = None /\ shown[KeysFile] = {None} /\ ~keyed /\ shown[Journal] = {None}
      /\ InDir(Journal) = None
  BY <1>2, UnlockFacts DEF IInv, HandleInv
<1>6. \A f \in StoreFiles : shown[f] \subseteq {None}
  <2>1. \A f \in StoreFiles : InDir(f) = None
    BY <1>2 DEF IInv, HandleInv
  <2>2. \A f \in StoreFiles : \A x \in dur[f] : x.dir = None
    BY <1>2, <2>1 DEF IInv, DeleteInv, Deleting
  <2> QED BY <2>2, FileFacts DEF shown
<1>7. PICK b \in Bundles : PlainStore(b)
  BY <1>2, UnlockFacts
<1>8. PlainStore(c) /\ NoLegacy
  BY <1>2, <1>5, <1>6, <1>7, EmptyStore
<1>9. /\ PlainStore(c)'
      /\ \A g \in Files \ {KeysFile} : shown'[g] = shown[g] /\ InDir(g)' = InDir(g)
  BY <1>2, <1>4, <1>6, <1>8, PlainKeys, FileFacts
<1>10. shown'[Journal] = {None} /\ InDir(Journal)' = None
  BY <1>5, <1>9, FileFacts
<1>11. StoreInv'
  BY <1>2, <1>5, <1>9, <1>10, StoreNext
<1>12. StableInv'
  <2>1. \A g \in SyncedFiles : shown'[g] = shown[g] /\ InDir(g)' = InDir(g)
    BY <1>9, SyncedFacts
  <2> QED BY <1>2, <2>1, StableSame DEF KeptInv, UnsyncedRecord
<1>13. OpenInv'
  <2>1. PlainStore(h.b)'
    BY <1>1, <1>2, <1>9, PlainNext
  <2> QED BY <1>2, <2>1 DEF OpenInv, InStore, Loading, Mutating, Keyed, Agreeing
<1>14. MutateInv' /\ MigrateInv'
  BY <1>2 DEF MutateInv, MigrateInv, Indexing, Mutating, Keyed
<1> QED BY <1>2, <1>10, <1>11, <1>12, <1>13, <1>14, HeldNext DEF KeptInv

LEMMA KeptFreshKeysSync ==
    ASSUME IInv, KeptInv, FreshKeysSync
    PROVE  KeptInv'
<1>1. PICK b \in Bundles : b = h.b
  BY DEF IInv, TypeOK, Handle
<1>2. /\ pc = "fsync" /\ pc' = "load" /\ h' = h /\ UNCHANGED <<promise, keyed, refused>> /\ Flush
  BY DEF FreshKeysSync, SyncDir, Goto
<1>3. PlainStore(b) /\ InDir(Journal) = None
  BY <1>1, <1>2 DEF KeptInv, OpenInv, RollInv
<1>4. StoreInv' /\ StableInv' /\ PlainStore(b)' /\ InDir(Journal)' = None
  BY <1>2, <1>3, SyncStore, FileFacts DEF KeptInv, StoreInv
<1>5. OpenInv'
  <2>1. PlainStore(h.b)'
    BY <1>1, <1>2, <1>4, PlainNext
  <2> QED BY <1>2, <2>1 DEF OpenInv, InStore, Loading, Mutating, Keyed, Agreeing
<1>6. MutateInv' /\ MigrateInv'
  BY <1>2 DEF MutateInv, MigrateInv, Indexing, Mutating, Keyed
<1> QED BY <1>2, <1>4, <1>5, <1>6, HeldNext DEF KeptInv, InStore, Loading

\* A manifest that fits what is there is written.  A promise that changes is the one of
\* a record that is settled.
LEMMA PlainManifest ==
    ASSUME NEW b \in Bundles, PlainStore(b), DiskOK, NEW v \in Manifest, v.b = b,
           Rename(ManifestFile, v), b # Derived => None \notin shown[KeysFile],
           \A n \in Names : \A w \in shown[Tag(b, n)] : Allows(v, n, w),
           v.p # None /\ v.p.n \in UserNames => v.e[v.p.n] \in promise'[v.p.n],
           \A n \in UserNames :
               \/ promise'[n] = promise[n]
               \/ /\ NoLegacy /\ shown[Tag(b, n)] \subseteq promise'[n]
                  /\ \A m \in shown[ManifestFile] \ {None} : m.e[n] \in promise'[n]
    PROVE  /\ PlainStore(b)' /\ v # None
           /\ shown'[ManifestFile] = shown[ManifestFile] \cup {v} /\ InDir(ManifestFile)' = v
           /\ \A g \in Files \ {ManifestFile} : shown'[g] = shown[g] /\ InDir(g)' = InDir(g)
<1>1. /\ shown'[ManifestFile] = shown[ManifestFile] \cup {v} /\ fs'[ManifestFile].dir = v
      /\ \A g \in Files \ {ManifestFile} : fs'[g] = fs[g] /\ shown'[g] = shown[g]
  BY LookRename, BytesFacts, FileFacts
<1>2. InDir(ManifestFile)' = v /\ \A g \in Files \ {ManifestFile} : InDir(g)' = InDir(g)
  BY <1>1 DEF InDir
<1>3. /\ \A d \in Bundles, n \in Names : Tag(d, n) \in Files \ {ManifestFile}
      /\ \A n \in UserNames : Legacy(n) \in Files \ {ManifestFile} /\ n \in Names
      /\ KeysFile \in Files \ {ManifestFile} /\ MARKER \in Names /\ LATCH \in Names
      /\ 0 # None /\ v # None
  <2>1. \A n \in UserNames : Legacy(n) # ManifestFile
    BY DEF Legacy, ManifestFile
  <2> QED BY <2>1, FileFacts, CallTypes, NoneAssumption
<1>4. OneBundle(b)'
  BY <1>1, <1>3 DEF PlainStore, OneBundle
<1>5. ManifestFits(b)'
  BY <1>1, <1>3 DEF PlainStore, ManifestFits, Allows
<1>6. FirstManifest(b)' /\ Unkeyed(b)'
  BY <1>1, <1>3 DEF PlainStore, FirstManifest, Unkeyed
<1>7. LegacyFits(b)'
  <2> SUFFICES ASSUME NEW n \in UserNames
               PROVE  /\ shown'[Legacy(n)] \subseteq {0, None}
                      /\ 0 \in shown'[Legacy(n)] => /\ promise'[n] = {0}
                                                    /\ shown'[KeysFile] \subseteq {None}
                                                    /\ shown'[Tag(b, MARKER)] \subseteq {None}
    BY DEF LegacyFits
  <2>1. promise'[n] = promise[n] \/ 0 \notin shown[Legacy(n)]
    BY <1>3 DEF NoLegacy
  <2> QED BY <1>1, <1>3, <2>1 DEF PlainStore, LegacyFits
<1>8. RecordsKept(b)'
  <2> SUFFICES ASSUME NEW n \in UserNames, NEW w \in shown'[Tag(b, n)]
               PROVE  w \in promise'[n] \/ (w = None /\ None \notin shown'[Legacy(n)])
    BY DEF RecordsKept
  <2>1. w \in shown[Tag(b, n)] /\ shown'[Legacy(n)] = shown[Legacy(n)]
    BY <1>1, <1>3
  <2> QED BY <2>1 DEF PlainStore, RecordsKept
<1>9. PendingKept'
  <2> SUFFICES ASSUME NEW m \in shown'[ManifestFile] \ {None}, m.p # None, m.p.n \in UserNames
               PROVE  m.e[m.p.n] \in promise'[m.p.n]
    BY DEF PendingKept
  <2>1. CASE m = v
    BY <2>1
  <2>2. CASE m \in shown[ManifestFile]
    BY <2>2 DEF PlainStore, PendingKept
  <2> QED BY <1>1, <2>1, <2>2
<1> QED BY <1>1, <1>2, <1>3, <1>4, <1>5, <1>6, <1>7, <1>8, <1>9 DEF PlainStore

\* The latch is written next, or the migration starts.
LEMMA KeptLatches ==
    ASSUME StoreInv', StableInv', ~refused', NEW b \in Bundles, PlainStore(b)',
           InDir(Journal)' = None, InDir(ManifestFile)' # None,
           h'.b = b, h'.man.b = b, \A n \in Names : h'.man.e[n] = InDir(Tag(b, n))',
           \A n \in h'.idx : InDir(Tag(b, n))' # None,
           LatchThen(h'.idx)
    PROVE  KeptInv'
<1>1. /\ ret' = "migrate" /\ pc' \in {"migrate", "pend"}
      /\ pc' = "pend" => todo' = <<[n |-> LATCH, v |-> 0]>>
  BY DEF LatchThen
<1>2. \A n \in Names : Tag(h.b, n)' = Tag(b, n)
  BY DEF Tag
<1>3. OpenInv'
  <2>1. PlainStore(h.b)'
    BY PlainNext
  <2>2. h'.man.b = h'.b /\ \A n \in Names : h'.man.e[n] = InDir(Tag(h.b, n))'
    BY DEF Tag, InDir
  <2> QED BY <1>1, <2>1, <2>2 DEF OpenInv, InStore, Loading, Mutating, Keyed
<1>4. MutateInv'
  <2> SUFFICES ASSUME pc' = "pend"
               PROVE  /\ Len(todo') <= 2 /\ Tail(todo') = <<>>
                      /\ todo'[1].n = LATCH /\ todo'[1].v = 0 /\ DOMAIN todo' = {1}
                      /\ LATCH \notin UserNames /\ LATCH # MARKER /\ 0 # None
    BY <1>1 DEF MutateInv, Mutating, Doing
  <2>1. LATCH \notin UserNames /\ LATCH # MARKER /\ 0 # None
    BY StoreAssumption, NoneAssumption, CallTypes
  <2> DEFINE x == [n |-> LATCH, v |-> 0]
  <2>2. x.n = LATCH /\ x.v = 0 /\ todo' = <<x>>
    BY <1>1
  <2> HIDE DEF x
  <2> QED BY <2>1, <2>2
<1>5. MigrateInv'
  <2>1. \A n \in h'.idx : InDir(Tag(h.b, n))' # None
    BY DEF Tag, InDir
  <2> QED BY <1>1, <2>1 DEF MigrateInv, Mutating, Keyed
<1> QED BY <1>1, <1>3, <1>4, <1>5, HeldNext DEF InStore, Loading, Mutating

-----------------------------------------------------------------------------
(* load. *)

LEMMA KeptAdopts ==
    ASSUME IInv, KeptInv, NEW b \in Bundles, b = h.b, pc \in {"load", "settle1"}, pc' = "adopt",
           NEW v, v = [b |-> b, e |-> Found(b), p |-> None], Rename(ManifestFile, v),
           h'.b = b, \A n \in h'.idx : n \in Names /\ InDir(Tag(b, n)) # None,
           UNCHANGED <<promise, keyed, refused>>
    PROVE  KeptInv'
<1>1. /\ v \in Manifest /\ v.b = b /\ v.p = None /\ v.e = Found(b)
  BY FoundType
<1>2. pc \in InStore \ {"usync"}
  BY DEF InStore, Loading
<1>3. /\ PlainStore(b) /\ shown[Journal] = {None} /\ InDir(Journal) = None
      /\ b # Derived => None \notin shown[KeysFile]
      /\ \A c \in Bundles, n \in Names : shown[Tag(c, n)] = {InDir(Tag(c, n))}
      /\ \A n \in Names : Tag(b, n) \in Tags
  BY <1>2, HeldFacts
<1>4. \A n \in Names : \A w \in shown[Tag(b, n)] : Allows(v, n, w)
  BY <1>1, <1>3 DEF Allows, Found
<1>5. /\ PlainStore(b)' /\ v # None
      /\ shown'[ManifestFile] = shown[ManifestFile] \cup {v} /\ InDir(ManifestFile)' = v
      /\ \A g \in Files \ {ManifestFile} : shown'[g] = shown[g] /\ InDir(g)' = InDir(g)
  BY <1>1, <1>3, <1>4, PlainManifest DEF IInv, TypeOK
<1>6. /\ shown'[Journal] = {None} /\ InDir(Journal)' = None /\ shown'[KeysFile] = shown[KeysFile]
      /\ \A t \in Tags : shown'[t] = shown[t] /\ InDir(t)' = InDir(t)
  BY <1>3, <1>5, FileFacts
<1>7. StoreInv'
  BY <1>5, <1>6, StoreNext DEF KeptInv, StoreInv
<1>8. StableInv'
  BY <1>1, <1>5, <1>6 DEF KeptInv, StableInv, UnsyncedRecord
<1>9. OpenInv'
  <2>1. PlainStore(h.b)'
    BY <1>5, PlainNext
  <2>2. Found(h.b)' = Found(b)
    BY <1>3, <1>6 DEF Found
  <2>3. InDir(ManifestFile)' = [b |-> h'.b, e |-> Found(h.b)', p |-> None]
    BY <1>5, <2>2
  <2> QED BY <1>5, <2>1, <2>3 DEF OpenInv, InStore, Loading, Mutating, Keyed, Agreeing
<1>10. MutateInv'
  BY DEF MutateInv, Mutating
<1>11. MigrateInv'
  <2>1. \A n \in h'.idx : InDir(Tag(h.b, n))' # None
    <3>1. \A n \in h'.idx : InDir(Tag(b, n))' # None
      BY <1>3, <1>6
    <3> QED BY <3>1 DEF InDir
  <2> QED BY <2>1 DEF MigrateInv, Indexing, Mutating, Keyed
<1> QED BY <1>6, <1>7, <1>8, <1>9, <1>10, <1>11, HeldNext DEF KeptInv, InStore, Loading

LEMMA KeptLoad ==
    ASSUME IInv, KeptInv, LoadManifest
    PROVE  KeptInv'
<1>1. PICK b \in Bundles : b = h.b
  BY DEF IInv, TypeOK, Handle
<1>2. PICK m : m = InDir(ManifestFile)
  OBVIOUS
<1>3. PICK idx : idx = {n \in Names : Found(b)[n] # None}
  OBVIOUS
<1>4. pc = "load" /\ h \in Handle /\ idx \in SUBSET Names
  BY <1>3 DEF LoadManifest, IInv, TypeOK
<1>5. /\ PlainStore(b) /\ shown[Journal] = {None} /\ InDir(Journal) = None
      /\ \A c \in Bundles, n \in Names : shown[Tag(c, n)] = {InDir(Tag(c, n))}
      /\ \A n \in Names : Tag(b, n) \in Files
  BY <1>1, <1>4, HeldFacts DEF InStore, Loading
<1>6. m \in shown[ManifestFile] /\ InDir(KeysFile) \in shown[KeysFile]
  BY <1>2, Looks, FileFacts DEF IInv, TypeOK
<1>7. \A n \in Names : (n \in idx <=> InDir(Tag(b, n)) # None) /\ Found(b)[n] = InDir(Tag(b, n))
  BY <1>3 DEF Found
<1>8. ~ \E c \in Bundles \ {b}, n \in Names : InDir(Tag(c, n)) # None
  BY <1>5 DEF PlainStore, OneBundle
<1>9. CASE m = None
  <2>1. LATCH \notin idx
    BY <1>5, <1>6, <1>7, <1>9, CallTypes DEF PlainStore, FirstManifest
  <2>2. ~(idx # {} /\ h.flow # "upgrade")
    <3> SUFFICES ASSUME NEW n \in idx, h.flow # "upgrade" PROVE FALSE
      OBVIOUS
    <3>1. InDir(KeysFile) # None
      BY <1>4 DEF IInv, HandleInv, Upgrading, InStore, Loading
    <3>2. shown[Tag(b, n)] \subseteq {None}
      BY <1>4, <1>5, <1>6, <1>9, <3>1 DEF PlainStore, FirstManifest
    <3> QED BY <1>4, <1>5, <1>7, <3>2
  <2>3. /\ h' = [h EXCEPT !.idx = idx] /\ pc' = "adopt"
        /\ Rename(ManifestFile, [b |-> b, e |-> Found(b), p |-> None])
        /\ UNCHANGED <<promise, keyed, refused>>
    <3>1. ~(LATCH \in idx \/ (idx # {} /\ h.flow # "upgrade"))
      BY <2>1, <2>2
    <3> QED BY <1>1, <1>2, <1>3, <1>8, <1>9, <3>1 DEF LoadManifest, promises
  <2>4. h'.b = b /\ h'.idx = idx
    BY <1>1, <1>4, <2>3 DEF Handle
  <2> QED BY <1>1, <1>4, <1>7, <2>3, <2>4, KeptAdopts
<1>10. CASE m # None
  <2>1. m.b = b
    BY <1>5, <1>6, <1>10 DEF PlainStore, OneBundle
  <2>2. Verify(m, Found(b))
    BY <1>5, <1>6, <1>7, <1>10 DEF PlainStore, ManifestFits, Allows, Verify
  <2>3. /\ h' = [h EXCEPT !.idx = idx, !.man = m]
        /\ UNCHANGED disk /\ UNCHANGED <<promise, keyed, refused>>
        /\ IF m.p = None THEN LatchThen(idx) ELSE pc' = "settledel"
    BY <1>1, <1>2, <1>3, <1>8, <1>10, <2>1, <2>2 DEF LoadManifest, promises
  <2>4. h'.b = b /\ h'.idx = idx /\ h'.man = m
    BY <1>1, <1>4, <2>3 DEF Handle
  <2>5. /\ StoreInv' /\ PlainStore(b)' /\ shown' = shown
        /\ \A g \in Files : InDir(g)' = InDir(g)
    BY <1>5, <2>3, QuietStore DEF KeptInv, StoreInv
  <2>6. StableInv'
    BY <1>4, <2>5, QuietStable DEF KeptInv, UnsyncedRecord
  <2>7. InDir(Journal)' = None /\ InDir(ManifestFile)' = m
    BY <1>2, <1>5, <2>5, FileFacts
  <2>8. \A n \in idx : InDir(Tag(b, n))' # None
    BY <1>4, <1>5, <1>7, <2>5
  <2>9. CASE m.p = None
    <3>1. \A n \in Names : m.e[n] = InDir(Tag(b, n))'
      BY <1>5, <1>7, <2>2, <2>5, <2>9 DEF Verify
    <3> QED BY <1>10, <2>1, <2>3, <2>4, <2>5, <2>6, <2>7, <2>8, <2>9, <3>1, KeptLatches DEF KeptInv
  <2>10. CASE m.p # None
    <3>1. pc' = "settledel"
      BY <2>3, <2>10
    <3>2. OpenInv'
      <4>1. PlainStore(h.b)'
        BY <2>4, <2>5, PlainNext
      <4> QED BY <1>10, <2>4, <2>7, <3>1, <4>1 DEF OpenInv, InStore, Loading, Mutating, Keyed, Agreeing
    <3>3. MutateInv'
      BY <3>1 DEF MutateInv, Mutating
    <3>4. MigrateInv'
      <4>1. \A n \in h'.idx : InDir(Tag(h.b, n))' # None
        BY <2>4, <2>8 DEF InDir
      <4> QED BY <3>1, <4>1 DEF MigrateInv, Indexing, Mutating, Keyed
    <3> QED BY <2>3, <2>5, <2>6, <2>7, <3>1, <3>2, <3>3, <3>4, HeldNext DEF KeptInv, InStore, Loading
  <2> QED BY <2>9, <2>10
<1> QED BY <1>9, <1>10

LEMMA KeptAdoptSync ==
    ASSUME IInv, KeptInv, AdoptSync
    PROVE  KeptInv'
<1>1. PICK b \in Bundles : b = h.b
  BY DEF IInv, TypeOK, Handle
<1>2. /\ pc = "adopt" /\ Flush /\ h' = [h EXCEPT !.man = InDir(ManifestFile)]
      /\ LatchThen(h.idx) /\ UNCHANGED <<promise, keyed, refused>> /\ h \in Handle
  BY DEF AdoptSync, SyncDir, promises, IInv, TypeOK
<1>3. /\ PlainStore(b) /\ InDir(Journal) = None /\ InDir(ManifestFile) # None
      /\ \A n \in Names : Tag(b, n) \in Files
  BY <1>1, <1>2, HeldFacts DEF InStore, Loading
<1>4. InDir(ManifestFile) = [b |-> b, e |-> Found(b), p |-> None]
  BY <1>1, <1>2 DEF KeptInv, OpenInv
<1>5. h'.b = b /\ h'.idx = h.idx /\ h'.man = InDir(ManifestFile) /\ h.idx \in SUBSET Names
  BY <1>1, <1>2 DEF Handle
<1>6. /\ StoreInv' /\ StableInv' /\ PlainStore(b)'
      /\ \A g \in Files : InDir(g)' = InDir(g)
  BY <1>2, <1>3, SyncStore DEF KeptInv, StoreInv
<1>7. h'.man.b = b /\ \A n \in Names : h'.man.e[n] = InDir(Tag(b, n))'
  <2>1. h'.man.b = b /\ h'.man.e = Found(b)
    BY <1>4, <1>5
  <2> QED BY <1>3, <1>6, <2>1 DEF Found
<1>8. \A n \in h'.idx : InDir(Tag(b, n))' # None
  <2>1. \A n \in h.idx : InDir(Tag(b, n)) # None
    BY <1>1, <1>2 DEF KeptInv, MigrateInv, Indexing
  <2> QED BY <1>3, <1>5, <1>6, <2>1
<1>9. InDir(Journal)' = None /\ InDir(ManifestFile)' # None
  BY <1>3, <1>6, FileFacts
<1>10. LatchThen(h'.idx) /\ ~refused'
  BY <1>2, <1>5 DEF KeptInv
<1> QED BY <1>5, <1>6, <1>7, <1>8, <1>9, <1>10, KeptLatches

\* A record is written or deleted that every manifest allows.
LEMMA PlainRecord ==
    ASSUME NEW b \in Bundles, PlainStore(b), DiskOK, NEW n \in Names,
           NEW v \in Contents \cup {None}, Rename(Tag(b, n), v), UNCHANGED promise,
           b # Derived => None \notin shown[KeysFile], None \notin shown[ManifestFile],
           \A m \in shown[ManifestFile] : Allows(m, n, v),
           n \in UserNames => v \in promise[n],
           n = MARKER /\ v # None => NoLegacy
    PROVE  /\ PlainStore(b)'
           /\ shown'[Tag(b, n)] = shown[Tag(b, n)] \cup {v} /\ InDir(Tag(b, n))' = v
           /\ \A g \in Files \ {Tag(b, n)} : shown'[g] = shown[g] /\ InDir(g)' = InDir(g)
           /\ \A k \in Names \ {n} : Tag(b, k) \in Files \ {Tag(b, n)}
           /\ {ManifestFile, KeysFile, Journal, Staging} \subseteq Files \ {Tag(b, n)}
<1>1. PICK t : t = Tag(b, n)
  OBVIOUS
<1>2. t \in Files /\ t \in Tags /\ Bytes(t) = Contents
  BY <1>1, FileFacts, BytesFacts
<1>3. /\ shown'[t] = shown[t] \cup {v} /\ fs'[t].dir = v
      /\ \A g \in Files \ {t} : fs'[g] = fs[g] /\ shown'[g] = shown[g]
  BY <1>1, <1>2, LookRename
<1>4. InDir(t)' = v /\ \A g \in Files \ {t} : InDir(g)' = InDir(g)
  BY <1>3 DEF InDir
<1>5. /\ \A d \in Bundles, k \in Names : Tag(d, k) \in Files /\ (Tag(d, k) = t => d = b /\ k = n)
      /\ \A k \in UserNames : Legacy(k) \in Files \ {t} /\ k \in Names
      /\ {ManifestFile, KeysFile, Journal, Staging} \subseteq Files \ {t}
      /\ MARKER \in Names /\ LATCH \in Names /\ 0 # None
  <2>1. \A d \in Bundles, k \in Names : Tag(d, k) = t => d = b /\ k = n
    BY <1>1 DEF Tag
  <2>2. t \notin {ManifestFile, KeysFile, Journal, Staging}
    BY <1>2, FileFacts
  <2> QED BY <1>2, <2>1, <2>2, FileFacts, CallTypes, NoneAssumption
<1>6. \A k \in Names : \A w \in shown'[Tag(b, k)] : w \in shown[Tag(b, k)] \/ (k = n /\ w = v)
  BY <1>3, <1>5
<1>7. OneBundle(b)'
  BY <1>3, <1>5 DEF PlainStore, OneBundle
<1>8. ManifestFits(b)'
  <2>1. shown'[ManifestFile] = shown[ManifestFile]
    BY <1>3, <1>5
  <2> QED BY <1>6, <2>1 DEF PlainStore, ManifestFits, Allows
<1>9. FirstManifest(b)' /\ Unkeyed(b)'
  BY <1>3, <1>5 DEF PlainStore, FirstManifest, Unkeyed
<1>10. LegacyFits(b)'
  <2> SUFFICES ASSUME NEW k \in UserNames
               PROVE  /\ shown'[Legacy(k)] \subseteq {0, None}
                      /\ 0 \in shown'[Legacy(k)] => /\ promise'[k] = {0}
                                                    /\ shown'[KeysFile] \subseteq {None}
                                                    /\ shown'[Tag(b, MARKER)] \subseteq {None}
    BY DEF LegacyFits
  <2>1. shown'[Legacy(k)] = shown[Legacy(k)] /\ shown'[KeysFile] = shown[KeysFile]
    BY <1>3, <1>5
  <2>2. 0 \in shown[Legacy(k)] => shown'[Tag(b, MARKER)] \subseteq shown[Tag(b, MARKER)] \cup {None}
    BY <1>5, <1>6 DEF NoLegacy
  <2> QED BY <2>1, <2>2 DEF PlainStore, LegacyFits
<1>11. RecordsKept(b)' /\ PendingKept'
  <2>1. PendingKept'
    BY <1>3, <1>5 DEF PlainStore, PendingKept
  <2>2. \A k \in UserNames : shown'[Legacy(k)] = shown[Legacy(k)]
    BY <1>3, <1>5
  <2> QED BY <1>5, <1>6, <2>1, <2>2 DEF PlainStore, RecordsKept
<1> QED BY <1>1, <1>3, <1>4, <1>5, <1>7, <1>8, <1>9, <1>10, <1>11 DEF PlainStore

LEMMA KeptSettleDeletes ==
    ASSUME IInv, KeptInv, SettleDeletes
    PROVE  KeptInv'
<1>1. PICK b \in Bundles : b = h.b
  BY DEF IInv, TypeOK, Handle
<1>2. PICK n : n = h.man.p.n
  OBVIOUS
<1>3. /\ pc = "settledel" /\ UNCHANGED <<promise, keyed, refused>> /\ h \in Handle
  BY DEF SettleDeletes, promises, IInv, TypeOK
<1>4. /\ PlainStore(b) /\ InDir(Journal) = None /\ shown[Journal] = {None}
      /\ InDir(ManifestFile) # None /\ InDir(ManifestFile) \in Manifest
      /\ None \notin shown[ManifestFile]
      /\ b # Derived => None \notin shown[KeysFile]
      /\ \A k \in Names : Tag(b, k) \in Files
  BY <1>1, <1>3, HeldFacts DEF InStore, Loading
<1>5. h.man = InDir(ManifestFile) /\ h.man.p # None /\ shown[ManifestFile] = {h.man}
  BY <1>3, <1>4 DEF KeptInv, OpenInv, StableInv, IInv, CallInv
<1>6. n \in Names
  BY <1>2, <1>4, <1>5 DEF Manifest
<1>7. \A k \in h.idx : k \in Names /\ InDir(Tag(b, k)) # None
  BY <1>1, <1>3 DEF KeptInv, MigrateInv, Indexing, Handle
<1>8. CASE h.man.e[n] = None /\ InDir(Tag(b, n)) # None
  <2>1. /\ Rename(Tag(b, n), None) /\ pc' = "settledsync"
        /\ h' = [h EXCEPT !.idx = h.idx \ {n}]
    BY <1>1, <1>2, <1>3, <1>8 DEF SettleDeletes
  <2>2. h'.b = b /\ h'.idx = h.idx \ {n}
    BY <1>1, <1>3, <2>1 DEF Handle
  <2>3. n \in UserNames => None \in promise[n]
    BY <1>2, <1>4, <1>5, <1>8 DEF PlainStore, PendingKept
  <2>4. \A m \in shown[ManifestFile] : Allows(m, n, None)
    BY <1>5, <1>8 DEF Allows
  <2>5. /\ PlainStore(b)'
        /\ \A g \in Files \ {Tag(b, n)} : shown'[g] = shown[g] /\ InDir(g)' = InDir(g)
        /\ \A k \in Names \ {n} : Tag(b, k) \in Files \ {Tag(b, n)}
        /\ {ManifestFile, KeysFile, Journal, Staging} \subseteq Files \ {Tag(b, n)}
    BY <1>3, <1>4, <1>6, <2>1, <2>3, <2>4, PlainRecord DEF IInv, TypeOK
  <2>6. /\ shown'[Journal] = {None} /\ InDir(Journal)' = None
        /\ InDir(ManifestFile)' = InDir(ManifestFile) /\ shown'[ManifestFile] = shown[ManifestFile]
        /\ shown'[KeysFile] = shown[KeysFile]
    BY <1>4, <2>5
  <2>7. StoreInv'
    BY <1>3, <2>5, <2>6, StoreNext DEF KeptInv, StoreInv
  <2>8. StableInv'
    BY <1>3, <1>4, <1>5, <2>1, <2>6 DEF StableInv, UnsyncedRecord
  <2>9. OpenInv'
    <3>1. PlainStore(h.b)'
      BY <2>2, <2>5, PlainNext
    <3> QED BY <1>4, <2>1, <2>6, <3>1 DEF OpenInv, InStore, Loading, Mutating, Keyed, Agreeing
  <2>10. MutateInv'
    BY <2>1 DEF MutateInv, Mutating
  <2>11. MigrateInv'
    <3>1. \A k \in h'.idx : InDir(Tag(b, k))' # None
      BY <1>7, <2>2, <2>5
    <3>2. \A k \in h'.idx : InDir(Tag(h.b, k))' # None
      BY <2>2, <3>1 DEF InDir
    <3> QED BY <2>1, <3>2 DEF MigrateInv, Indexing, Mutating, Keyed
  <2> QED BY <1>3, <2>1, <2>6, <2>7, <2>8, <2>9, <2>10, <2>11, HeldNext DEF KeptInv, InStore, Loading
<1>9. CASE ~(h.man.e[n] = None /\ InDir(Tag(b, n)) # None)
  <2>1. UNCHANGED disk /\ pc' = "settle1" /\ h' = [h EXCEPT !.idx = h.idx]
    BY <1>1, <1>2, <1>3, <1>9 DEF SettleDeletes
  <2>2. h'.b = b /\ h'.idx = h.idx
    BY <1>1, <1>3, <2>1 DEF Handle
  <2>3. /\ StoreInv' /\ PlainStore(b)' /\ shown' = shown
        /\ \A g \in Files : InDir(g)' = InDir(g)
    BY <1>3, <1>4, <2>1, QuietStore DEF KeptInv, StoreInv
  <2>4. StableInv'
    BY <1>3, <2>3, QuietStable DEF KeptInv, UnsyncedRecord
  <2>5. InDir(Journal)' = None /\ InDir(ManifestFile)' # None
    BY <1>4, <2>3, FileFacts
  <2>6. OpenInv'
    <3>1. PlainStore(h.b)'
      BY <2>2, <2>3, PlainNext
    <3> QED BY <2>1, <2>5, <3>1 DEF OpenInv, InStore, Loading, Mutating, Keyed, Agreeing
  <2>7. MutateInv'
    BY <2>1 DEF MutateInv, Mutating
  <2>8. MigrateInv'
    <3>1. \A k \in h'.idx : InDir(Tag(b, k))' # None
      BY <1>4, <1>7, <2>2, <2>3
    <3>2. \A k \in h'.idx : InDir(Tag(h.b, k))' # None
      BY <2>2, <3>1 DEF InDir
    <3> QED BY <2>1, <3>2 DEF MigrateInv, Indexing, Mutating, Keyed
  <2> QED BY <1>3, <2>1, <2>3, <2>4, <2>5, <2>6, <2>7, <2>8, HeldNext DEF KeptInv, InStore, Loading
<1> QED BY <1>8, <1>9

LEMMA KeptSettleWrites ==
    ASSUME IInv, KeptInv, SettleWrites
    PROVE  KeptInv'
<1>1. PICK b \in Bundles : b = h.b
  BY DEF IInv, TypeOK, Handle
<1>2. /\ pc = "settle1" /\ pc' = "adopt" /\ h' = h /\ UNCHANGED <<promise, keyed, refused>>
      /\ Rename(ManifestFile, [b |-> b, e |-> Found(b), p |-> None])
  BY <1>1 DEF SettleWrites, Goto
<1>3. \A k \in h'.idx : k \in Names /\ InDir(Tag(b, k)) # None
  BY <1>1, <1>2 DEF KeptInv, MigrateInv, Indexing, IInv, TypeOK, Handle
<1> QED BY <1>1, <1>2, <1>3, KeptAdopts

\* The fsyncs of a store in hand.
LEMMA KeptHeldSyncs ==
    ASSUME IInv, KeptInv,
           \/ SettleDeletesSync \/ MigrateDeletesSync \/ UpgradeKeysSync
           \/ MutateApplySync \/ KeysSync \/ ApplySyncFails \/ KeysSyncFails
    PROVE  KeptInv'
<1>1. PICK b \in Bundles : b = h.b
  BY DEF IInv, TypeOK, Handle
<1>2. /\ Flush /\ UNCHANGED <<h, todo, ret, promise, keyed, refused>>
      /\ <<pc, pc'>> \in {<<"settledsync", "settle1">>, <<"migsync", "migrate">>,
                          <<"usync", "opened">>, <<"async", "settle">>, <<"ksync", "open">>}
  BY DEF SettleDeletesSync, MigrateDeletesSync, UpgradeKeysSync, MutateApplySync, KeysSync,
         ApplySyncFails, KeysSyncFails, SyncDir, LoseSync, Goto, call, promises
<1>3. /\ PlainStore(b) /\ InDir(Journal) = None /\ InDir(ManifestFile) # None
      /\ \A n \in Names : Tag(b, n) \in Files
  BY <1>1, <1>2, HeldFacts DEF InStore, Loading, Mutating, Keyed
<1>4. /\ StoreInv' /\ StableInv' /\ PlainStore(b)'
      /\ \A g \in Files : /\ InDir(g)' = InDir(g) /\ shown'[g] = {InDir(g)}
                          /\ shown'[g] \subseteq shown[g]
  BY <1>2, <1>3, SyncStore DEF KeptInv, StoreInv
<1>5. /\ InDir(Journal)' = None /\ InDir(ManifestFile)' # None
      /\ \A n \in Names : InDir(Tag(b, n))' = InDir(Tag(b, n))
      /\ \A n \in Names : InDir(Tag(h.b, n))' = InDir(Tag(h.b, n))
  <2>1. /\ InDir(Journal)' = None /\ InDir(ManifestFile)' # None
        /\ \A n \in Names : InDir(Tag(b, n))' = InDir(Tag(b, n))
    BY <1>3, <1>4, FileFacts
  <2>2. \A n \in Names : InDir(Tag(h.b, n))' = InDir(Tag(h.b, n))
    BY <1>1, <1>2, <2>1 DEF InDir
  <2> QED BY <2>1, <2>2
<1>6. OpenInv'
  <2>1. PlainStore(h.b)'
    BY <1>1, <1>2, <1>4, PlainNext
  <2> QED BY <1>2, <1>5, <2>1
          DEF KeptInv, OpenInv, InStore, Loading, Mutating, Keyed, Agreeing
<1>7. MutateInv'
  <2>1. CASE pc = "async"
    <3>1. shown'[ManifestFile] = {h.man}
      <4>1. InDir(ManifestFile) \in shown[ManifestFile] /\ shown[ManifestFile] = {h.man}
        BY <2>1, Looks, FileFacts DEF KeptInv, MutateInv, IInv, TypeOK
      <4> QED BY <1>4, <4>1, FileFacts
    <3>2. PendingManifest(h.man)'
      BY <1>2, <1>5, <2>1 DEF KeptInv, MutateInv, PendingManifest, Doing
    <3> QED BY <1>2, <2>1, <3>1, <3>2 DEF KeptInv, MutateInv, Mutating, Doing
  <2>2. CASE pc # "async"
    BY <1>2, <2>2 DEF MutateInv, Mutating
  <2> QED BY <2>1, <2>2
<1>8. MigrateInv'
  <2>1. NoLegacy => NoLegacy'
    BY <1>4, FileFacts DEF NoLegacy
  <2>2. Indexing' => Indexing
    BY <1>2 DEF Indexing, Mutating
  <2>3. h.idx \subseteq Names
    BY DEF IInv, TypeOK, Handle
  <2>4. Indexing' => \A n \in h'.idx : InDir(Tag(h.b, n))' # None
    BY <1>2, <1>5, <2>2, <2>3 DEF KeptInv, MigrateInv
  <2> QED BY <1>2, <2>1, <2>4 DEF KeptInv, MigrateInv, Keyed, Mutating
<1> QED BY <1>2, <1>4, <1>5, <1>6, <1>7, <1>8, HeldNext
        DEF KeptInv, InStore, Loading, Mutating, Keyed

-----------------------------------------------------------------------------
(* Steps of a store in hand that leave the disk alone. *)

\* The handle still agrees with the files, or a failed call gave that up.
LEMMA KeptHeldQuiet ==
    ASSUME IInv, KeptInv, UNCHANGED disk, UNCHANGED <<promise, refused>>,
           keyed' => None \notin shown[KeysFile],
           pc \in InStore \ ({"load", "adopt", "psync"} \cup UnsyncedRecord),
           pc' \in Agreeing \ {"journal", "stage"}, NEW b, b = h.b, h'.b = b,
           ~h'.poisoned => /\ h'.man.b = b
                           /\ \A n \in Names : h'.man.e[n] = InDir(Tag(b, n)),
           MutateInv',
           pc' \in Keyed \cup {"ukeys"} \/ (pc' \in Mutating /\ ret' # "migrate") => NoLegacy,
           Indexing' => \A n \in h'.idx : n \in Names /\ InDir(Tag(b, n)) # None
    PROVE  KeptInv'
<1>1. /\ b \in Bundles /\ PlainStore(b) /\ InDir(Journal) = None /\ InDir(ManifestFile) # None
      /\ \A n \in Names : Tag(b, n) \in Files
  BY HeldFacts
<1>2. /\ StoreInv' /\ PlainStore(b)' /\ shown' = shown
      /\ \A g \in Files : InDir(g)' = InDir(g)
  BY <1>1, QuietStore
<1>3. StableInv'
  BY <1>2, QuietStable DEF KeptInv, UnsyncedRecord, InStore, Loading, Mutating, Keyed
<1>4. /\ InDir(Journal)' = None /\ InDir(ManifestFile)' # None
      /\ \A n \in Names : InDir(Tag(h.b, n))' = InDir(Tag(b, n))
  <2>1. \A n \in Names : InDir(Tag(b, n))' = InDir(Tag(b, n))
    BY <1>1, <1>2
  <2>2. \A n \in Names : InDir(Tag(h.b, n))' = InDir(Tag(b, n))'
    BY DEF InDir
  <2> QED BY <1>1, <1>2, <2>1, <2>2, FileFacts
<1>5. OpenInv'
  <2>1. PlainStore(h.b)'
    BY <1>2, PlainNext
  <2>2. ~h'.poisoned => /\ h'.man.b = h'.b
                        /\ \A n \in Names : h'.man.e[n] = InDir(Tag(h.b, n))'
    BY <1>4
  <2>3. pc' \notin {"settledel", "adopt"}
    BY DEF Agreeing
  <2> QED BY <1>4, <2>1, <2>2, <2>3 DEF OpenInv
<1>6. MigrateInv'
  <2>1. NoLegacy => NoLegacy'
    BY <1>2 DEF NoLegacy
  <2>2. Indexing' => \A n \in h'.idx : InDir(Tag(h.b, n))' # None
    BY <1>4
  <2> QED BY <2>1, <2>2 DEF MigrateInv
<1> QED BY <1>2, <1>3, <1>4, <1>5, <1>6, HeldNext
        DEF KeptInv, Agreeing, InStore, Loading, Mutating, Keyed

\* The call of one mutation.
LEMMA OneMutation ==
    ASSUME NEW n, NEW v, todo' = <<[n |-> n, v |-> v]>>
    PROVE  /\ Len(todo') <= 2 /\ Tail(todo') = <<>> /\ DOMAIN todo' = {1}
           /\ todo'[1].n = n /\ todo'[1].v = v
<1> DEFINE x == [n |-> n, v |-> v]
<1>1. x.n = n /\ x.v = v /\ todo' = <<x>>
  OBVIOUS
<1> HIDE DEF x
<1> QED BY <1>1

LEMMA CallStarts ==
    ASSUME NEW n, NEW v, todo' = <<[n |-> n, v |-> v]>>, pc' = "pend",
           n \in UserNames => v \in promise'[n],
           ret' = "migrate" => n # MARKER /\ v # None
    PROVE  MutateInv'
BY OneMutation DEF MutateInv, Mutating, Doing

LEMMA NotMutating ==
    ASSUME pc' \notin Mutating
    PROVE  MutateInv'
BY DEF MutateInv, Mutating

\* The handle of a store whose index and manifest are loaded.
LEMMA AgreeFacts ==
    ASSUME IInv, KeptInv, pc \in Agreeing, NEW b, b = h.b
    PROVE  /\ b \in Bundles /\ h \in Handle
           /\ ~h.poisoned => /\ h.man.b = b
                             /\ \A n \in Names : h.man.e[n] = InDir(Tag(b, n))
           /\ Indexing => \A n \in h.idx : n \in Names /\ InDir(Tag(b, n)) # None
<1>1. b \in Bundles /\ h \in Handle /\ h.idx \subseteq Names
  BY DEF IInv, TypeOK, Handle
<1>2. ~h.poisoned => /\ h.man.b = b
                     /\ \A n \in Names : h.man.e[n] = InDir(Tag(b, n))
  BY DEF KeptInv, OpenInv
<1> QED BY <1>1, <1>2 DEF KeptInv, MigrateInv

LEMMA KeptMigrateImports ==
    ASSUME IInv, KeptInv, NEW n \in UserNames, MigrateImports(n)
    PROVE  KeptInv'
<1>1. PICK b \in Bundles : b = h.b
  BY DEF IInv, TypeOK, Handle
<1>2. PICK v : v = InDir(Legacy(n))
  OBVIOUS
<1>3. /\ pc = "migrate" /\ pc' = "pend" /\ ret' = "migrate" /\ todo' = <<[n |-> n, v |-> v]>>
      /\ UNCHANGED disk /\ UNCHANGED <<h, promise, keyed, refused>> /\ v # None
  BY <1>2 DEF MigrateImports, promises, LegacyNames
<1>4. PlainStore(b)
  BY <1>1, <1>3, HeldFacts DEF InStore, Loading
<1>5. v \in promise[n]
  <2>1. v \in shown[Legacy(n)]
    BY <1>2, Looks, FileFacts DEF IInv, TypeOK
  <2> QED BY <1>3, <1>4, <2>1 DEF PlainStore, LegacyFits
<1>6. MutateInv'
  BY <1>3, <1>5, CallStarts, StoreAssumption
<1>7. pc \in Agreeing /\ pc' \in Agreeing \ {"journal", "stage"} /\ Indexing
      /\ pc \in InStore \ ({"load", "adopt", "psync"} \cup UnsyncedRecord)
  BY <1>3 DEF Agreeing, InStore, Loading, UnsyncedRecord, Indexing
<1>8. pc' \notin Keyed \cup {"ukeys"}
  BY <1>3 DEF Keyed
<1>9. keyed' => None \notin shown[KeysFile]
  BY <1>3 DEF KeptInv, StoreInv
<1> QED BY <1>1, <1>3, <1>6, <1>7, <1>8, <1>9, AgreeFacts, KeptHeldQuiet

LEMMA KeptMigrateEnds ==
    ASSUME IInv, KeptInv, MigrateEnds
    PROVE  KeptInv'
<1>1. PICK b \in Bundles : b = h.b
  BY DEF IInv, TypeOK, Handle
<1>2. /\ pc = "migrate" /\ UNCHANGED disk /\ UNCHANGED <<h, promise, keyed, refused>>
      /\ LegacyNames = {} /\ ret' \in {"ukeys", "opened"}
      /\ \/ pc' = "pend" /\ todo' = <<[n |-> MARKER, v |-> 0]>>
         \/ pc' \in {"ukeys", "opened"}
  BY DEF MigrateEnds, promises
<1>3. NoLegacy
  <2> SUFFICES ASSUME NEW n \in UserNames PROVE shown[Legacy(n)] \subseteq {None}
    BY DEF NoLegacy
  <2>1. Legacy(n) \in StoreFiles /\ Legacy(n) \in Files /\ InDir(Legacy(n)) = None
    BY <1>2, FileFacts DEF LegacyNames
  <2>2. \A x \in dur[Legacy(n)] : x.dir = None
    BY <1>2, <2>1 DEF IInv, DeleteInv, Deleting
  <2> QED BY <2>1, <2>2 DEF shown
<1>4. MutateInv'
  BY <1>2, CallStarts, NotMutating, StoreAssumption DEF Mutating
<1>5. pc \in Agreeing /\ pc' \in Agreeing \ {"journal", "stage"} /\ Indexing
      /\ pc \in InStore \ ({"load", "adopt", "psync"} \cup UnsyncedRecord)
  BY <1>2 DEF Agreeing, InStore, Loading, UnsyncedRecord, Indexing
<1>6. keyed' => None \notin shown[KeysFile]
  BY <1>2 DEF KeptInv, StoreInv
<1> QED BY <1>1, <1>2, <1>3, <1>4, <1>5, <1>6, AgreeFacts, KeptHeldQuiet

LEMMA KeptOpened ==
    ASSUME IInv, KeptInv, Opened
    PROVE  KeptInv'
<1>1. PICK b \in Bundles : b = h.b
  BY DEF IInv, TypeOK, Handle
<1>2. pc = "opened" /\ pc' = "open" /\ UNCHANGED disk /\ UNCHANGED <<h, promise, refused>>
  BY DEF Opened
<1>3. NoLegacy /\ MutateInv' /\ ~Indexing'
  BY <1>2, NotMutating DEF KeptInv, MigrateInv, Keyed, Mutating, Indexing
<1>4. pc \in Agreeing /\ pc' \in Agreeing \ {"journal", "stage"}
      /\ pc \in InStore \ ({"load", "adopt", "psync"} \cup UnsyncedRecord)
  BY <1>2 DEF Agreeing, InStore, Keyed, UnsyncedRecord
<1>5. None \notin shown[KeysFile]
  BY <1>1, <1>2, <1>4, HeldFacts DEF Upgrading, Loading, Mutating
<1> QED BY <1>1, <1>2, <1>3, <1>4, <1>5, AgreeFacts, KeptHeldQuiet

LEMMA KeptApplyFails ==
    ASSUME IInv, KeptInv, ApplyFails
    PROVE  KeptInv'
<1>1. PICK b \in Bundles : b = h.b
  BY DEF IInv, TypeOK, Handle
<1>2. /\ pc = "apply" /\ pc' = "settle" /\ UNCHANGED disk
      /\ UNCHANGED <<h, todo, ret, promise, keyed, refused>>
  BY DEF ApplyFails, promises
<1>3. /\ PlainStore(b) /\ InDir(Journal) = None /\ InDir(ManifestFile) # None
      /\ \A n \in Names : Tag(b, n) \in Files
  BY <1>1, <1>2, HeldFacts DEF InStore, Mutating
<1>4. /\ StoreInv' /\ PlainStore(b)' /\ shown' = shown
      /\ \A g \in Files : InDir(g)' = InDir(g)
  BY <1>2, <1>3, QuietStore DEF KeptInv, StoreInv
<1>5. StableInv'
  BY <1>2, <1>4, QuietStable DEF KeptInv, UnsyncedRecord
<1>6. /\ InDir(Journal)' = None /\ InDir(ManifestFile)' # None
      /\ \A n \in Names : InDir(Tag(h.b, n))' = InDir(Tag(h.b, n))
  BY <1>1, <1>2, <1>3, <1>4, FileFacts DEF InDir
<1>7. OpenInv'
  <2>1. PlainStore(h.b)'
    BY <1>1, <1>2, <1>4, PlainNext
  <2> QED BY <1>2, <1>6, <2>1 DEF OpenInv, InStore, Loading, Mutating, Keyed, Agreeing
<1>8. MutateInv'
  <2>1. PendingManifest(h.man)'
    BY <1>2, <1>6 DEF KeptInv, MutateInv, PendingManifest, Doing
  <2> QED BY <1>2, <1>4, <2>1 DEF KeptInv, MutateInv, Mutating, Doing
<1>9. MigrateInv'
  <2>1. NoLegacy => NoLegacy'
    BY <1>4 DEF NoLegacy
  <2>2. h.idx \subseteq Names
    BY DEF IInv, TypeOK, Handle
  <2>3. Indexing' => \A n \in h'.idx : InDir(Tag(h.b, n))' # None
    BY <1>2, <1>6, <2>2 DEF KeptInv, MigrateInv, Indexing, Mutating
  <2> QED BY <1>2, <2>1, <2>3 DEF KeptInv, MigrateInv, Mutating, Keyed
<1> QED BY <1>2, <1>4, <1>5, <1>6, <1>7, <1>8, <1>9, HeldNext DEF KeptInv, InStore, Mutating

\* A call that fails leaves the disk, and a handle that agrees with it or is poisoned.
LEMMA KeptCallFails ==
    ASSUME IInv, KeptInv, CallFails, UNCHANGED disk, UNCHANGED <<promise, keyed, refused>>,
           pc \in {"pend", "settle"}, NEW b, b = h.b, h'.b = b,
           ~h'.poisoned => /\ h'.man.b = b
                           /\ \A n \in Names : h'.man.e[n] = InDir(Tag(b, n))
    PROVE  KeptInv'
<1>1. CASE ret = "open"
  <2>1. pc' = "open"
    BY <1>1 DEF CallFails
  <2>2. NoLegacy /\ MutateInv' /\ ~Indexing'
    BY <1>1, <2>1, NotMutating DEF KeptInv, MigrateInv, Keyed, Mutating, Indexing
  <2>3. pc' \in Agreeing \ {"journal", "stage"}
        /\ pc \in InStore \ ({"load", "adopt", "psync"} \cup UnsyncedRecord)
    BY <2>1 DEF Agreeing, InStore, Mutating, UnsyncedRecord
  <2>4. keyed' => None \notin shown[KeysFile]
    BY DEF KeptInv, StoreInv
  <2> QED BY <2>1, <2>2, <2>3, <2>4, KeptHeldQuiet
<1>2. CASE ret # "open"
  <2>1. pc' = "closed" /\ ~refused'
    BY <1>2 DEF CallFails, KeptInv
  <2> QED BY <2>1, Closes DEF UnsyncedRecord
<1> QED BY <1>1, <1>2

\* The settled manifest matches the files again.
LEMMA SettledFacts ==
    ASSUME IInv, KeptInv, pc = "settle", NEW b, b = h.b
    PROVE  /\ SettledManifest \in Manifest /\ SettledManifest.b = b
           /\ SettledManifest.p = None
           /\ \A n \in Names : SettledManifest.e[n] = InDir(Tag(b, n))
<1>1. pc \in Mutating
  BY DEF Mutating
<1>2. h.man \in Manifest /\ Doing.n \in Names /\ SettledManifest \in Manifest
  BY <1>1, MutationTypes DEF Mutation
<1>3. PendingManifest(h.man)
  BY DEF KeptInv, MutateInv
<1>4. h.man.b = b /\ \A n \in Names \ {Doing.n} : h.man.e[n] = InDir(Tag(b, n))
  BY <1>3 DEF PendingManifest
<1>5. /\ SettledManifest.b = h.man.b /\ SettledManifest.p = None
      /\ SettledManifest.e = [h.man.e EXCEPT ![Doing.n] = InDir(DoingTag)]
  BY <1>2 DEF SettledManifest, Manifest
<1>6. h.man.e \in [Names -> Contents \cup {None}]
  BY <1>2 DEF Manifest
<1>7. DoingTag = Tag(b, Doing.n)
  BY DEF DoingTag
<1> QED BY <1>2, <1>4, <1>5, <1>6, <1>7

LEMMA KeptFailures ==
    ASSUME IInv, KeptInv, MutatePoisoned \/ PendingFails \/ ReadBackFails \/ SettleFails
    PROVE  KeptInv'
<1>1. PICK b \in Bundles : b = h.b
  BY DEF IInv, TypeOK, Handle
<1>2. /\ CallFails /\ UNCHANGED disk /\ UNCHANGED <<promise, keyed, refused>> /\ h \in Handle
  BY DEF MutatePoisoned, PendingFails, ReadBackFails, SettleFails, promises, IInv, TypeOK
<1>3. CASE MutatePoisoned \/ PendingFails
  <2>1. pc = "pend" /\ h' = h
    BY <1>3 DEF MutatePoisoned, PendingFails
  <2>2. pc \in Agreeing
    BY <2>1 DEF Agreeing
  <2> QED BY <1>1, <1>2, <2>1, <2>2, AgreeFacts, KeptCallFails
<1>4. CASE ReadBackFails
  <2>1. pc = "settle" /\ h' = [h EXCEPT !.poisoned = TRUE]
    BY <1>4 DEF ReadBackFails
  <2>2. h'.b = b /\ h'.poisoned
    BY <1>1, <1>2, <2>1 DEF Handle
  <2> QED BY <1>1, <1>2, <2>1, <2>2, KeptCallFails
<1>5. CASE SettleFails
  <2>1. pc = "settle" /\ Settle
    BY <1>5 DEF SettleFails
  <2>2. h'.b = b /\ h'.man = SettledManifest
    BY <1>1, <1>2, <2>1 DEF Handle, Settle
  <2> QED BY <1>1, <1>2, <2>1, <2>2, SettledFacts, KeptCallFails
<1> QED BY <1>3, <1>4, <1>5

-----------------------------------------------------------------------------
(* Steps of a store in hand that write no manifest and no record. *)

\* What a step that leaves records and manifest alone keeps of the handle's knowledge.
LEMMA HeldSame ==
    ASSUME IInv, KeptInv, NEW b \in Bundles, b = h.b, h'.b = b, h'.man = h.man,
           h'.poisoned = h.poisoned, h'.idx = h.idx, PlainStore(b)',
           \A g \in SyncedFiles : InDir(g)' = InDir(g),
           pc \in Agreeing, pc' \in Agreeing, pc' \notin Mutating,
           Indexing' => Indexing, pc' \in Keyed \cup {"ukeys", "journal"} => NoLegacy'
    PROVE  OpenInv' /\ MutateInv' /\ MigrateInv' /\ InDir(Journal)' = None
<1>1. /\ InDir(Journal) = None /\ InDir(ManifestFile) # None
      /\ \A n \in Names : Tag(b, n) \in Tags
  BY HeldFacts DEF Agreeing, InStore, Loading, Mutating, Keyed
<1>2. /\ InDir(Journal)' = None /\ InDir(ManifestFile)' # None
      /\ \A n \in Names : InDir(Tag(h.b, n))' = InDir(Tag(b, n))
  <2>1. \A n \in Names : InDir(Tag(b, n))' = InDir(Tag(b, n))
    BY <1>1, SyncedFacts
  <2>2. \A n \in Names : InDir(Tag(h.b, n))' = InDir(Tag(b, n))'
    BY DEF InDir
  <2> QED BY <1>1, <2>1, <2>2, SyncedFacts
<1>3. OpenInv'
  <2>1. PlainStore(h.b)'
    BY PlainNext
  <2>2. ~h'.poisoned => /\ h'.man.b = h'.b
                        /\ \A n \in Names : h'.man.e[n] = InDir(Tag(h.b, n))'
    BY <1>2, AgreeFacts
  <2>3. pc' \notin {"settledel", "adopt"}
    BY DEF Agreeing
  <2> QED BY <1>2, <2>1, <2>2, <2>3 DEF OpenInv
<1>4. MigrateInv'
  <2>1. Indexing' => \A n \in h'.idx : InDir(Tag(h.b, n))' # None
    BY <1>2, AgreeFacts
  <2> QED BY <2>1 DEF MigrateInv
<1> QED BY <1>2, <1>3, <1>4, NotMutating

LEMMA KeptKeysWritten ==
    ASSUME IInv, KeptInv, NEW b \in Bundles, b = h.b, h' = h,
           pc \in {"ukeys", "open"}, pc' \in {"usync", "ksync"},
           NEW k \in KeyFile, k.b = b, Rename(KeysFile, k),
           UNCHANGED <<promise, keyed, refused>>
    PROVE  KeptInv'
<1>1. /\ PlainStore(b) /\ shown[Journal] = {None} /\ None \notin shown[ManifestFile]
  BY HeldFacts DEF InStore, Keyed
<1>2. NoLegacy
  BY DEF KeptInv, MigrateInv, Keyed
<1>3. /\ PlainStore(b)' /\ k # None
      /\ shown'[KeysFile] = shown[KeysFile] \cup {k}
      /\ \A g \in Files \ {KeysFile} : shown'[g] = shown[g] /\ InDir(g)' = InDir(g)
  BY <1>1, <1>2, PlainKeys DEF IInv, TypeOK
<1>4. \A g \in SyncedFiles : shown'[g] = shown[g] /\ InDir(g)' = InDir(g)
  BY <1>3, SyncedFacts
<1>5. NoLegacy'
  BY <1>2, <1>3, FileFacts DEF NoLegacy
<1>6. pc \in Agreeing /\ pc' \in Agreeing /\ pc' \notin Mutating /\ ~Indexing'
  BY DEF Agreeing, Mutating, Indexing
<1>7. StableInv' /\ OpenInv' /\ MutateInv' /\ MigrateInv' /\ InDir(Journal)' = None
  <2>1. StableInv'
    BY <1>4, StableSame DEF KeptInv, UnsyncedRecord
  <2> QED BY <1>3, <1>4, <1>5, <1>6, <2>1, HeldSame
<1>8. StoreInv'
  <2>1. shown'[Journal] = {None}
    BY <1>1, <1>4, SyncedFacts
  <2> QED BY <1>3, <2>1, StoreNext DEF KeptInv, StoreInv
<1> QED BY <1>7, <1>8, HeldNext DEF KeptInv, InStore, Keyed

LEMMA KeptKeySteps ==
    ASSUME IInv, KeptInv, UpgradeKeys \/ AddRecoveryWrap \/ \E p \in Passwords : RewrapPassword(p)
    PROVE  KeptInv'
<1>1. PICK b \in Bundles : b = h.b
  BY DEF IInv, TypeOK, Handle
<1>2. CASE UpgradeKeys
  <2>1. /\ pc = "ukeys" /\ pc' = "usync" /\ h' = h /\ UNCHANGED <<promise, keyed, refused>>
        /\ Rename(KeysFile, [b |-> b, pw |-> h.u, rc |-> FALSE])
    BY <1>1, <1>2 DEF UpgradeKeys, Goto
  <2>2. h.u \in Passwords
    <3>1. Upgrading /\ pc \in InStore
      BY <2>1 DEF IInv, CallInv, Upgrading, InStore
    <3> QED BY <3>1, Derivations DEF IInv, HandleInv
  <2>3. PICK k \in KeyFile : k = [b |-> b, pw |-> h.u, rc |-> FALSE]
    BY <2>2 DEF KeyFile
  <2>4. k.b = b /\ Rename(KeysFile, k)
    BY <2>1, <2>3
  <2> QED BY <1>1, <2>1, <2>4, KeptKeysWritten
<1>3. CASE AddRecoveryWrap \/ \E p \in Passwords : RewrapPassword(p)
  <2>1. PICK o : o = InDir(KeysFile)
    OBVIOUS
  <2>2. /\ pc = "open" /\ pc' = "ksync" /\ h' = h /\ UNCHANGED <<promise, keyed, refused>>
        /\ \/ Rename(KeysFile, [o EXCEPT !.rc = TRUE])
           \/ \E p \in Passwords : Rename(KeysFile, [o EXCEPT !.pw = p])
    BY <1>3, <2>1 DEF AddRecoveryWrap, RewrapPassword, promises
  <2>3. o # None /\ o.b = b /\ o \in KeyFile
    BY <1>1, <2>1, <2>2, KeyFacts, HeldFacts DEF InStore, Keyed, Upgrading, Loading, Mutating
  <2>4. PICK k \in KeyFile : k.b = b /\ Rename(KeysFile, k)
    <3>1. CASE Rename(KeysFile, [o EXCEPT !.rc = TRUE])
      <4>1. [o EXCEPT !.rc = TRUE] \in KeyFile /\ [o EXCEPT !.rc = TRUE].b = b
        BY <2>3 DEF KeyFile
      <4> QED BY <3>1, <4>1
    <3>2. ASSUME NEW p \in Passwords, Rename(KeysFile, [o EXCEPT !.pw = p])
          PROVE  \E k \in KeyFile : k.b = b /\ Rename(KeysFile, k)
      <4>1. [o EXCEPT !.pw = p] \in KeyFile /\ [o EXCEPT !.pw = p].b = b
        BY <2>3 DEF KeyFile
      <4> QED BY <3>2, <4>1
    <3> QED BY <2>2, <3>1, <3>2
  <2> QED BY <1>1, <2>2, <2>4, KeptKeysWritten
<1> QED BY <1>2, <1>3

\* The legacy file of an imported record, or of one the store has, is deleted.
LEMMA KeptMigrateDeletes ==
    ASSUME IInv, KeptInv, NEW n \in UserNames, MigrateDeletes(n)
    PROVE  KeptInv'
<1>1. PICK b \in Bundles : b = h.b
  BY DEF IInv, TypeOK, Handle
<1>2. /\ pc = "migrate" /\ pc' = "migsync" /\ Rename(Legacy(n), None)
      /\ UNCHANGED <<promise, keyed, refused>>
      /\ InDir(Legacy(n)) # None /\ (ImportClosed \/ n \in h.idx)
      /\ h' = [h EXCEPT !.imported = @ \/ ~ImportClosed]
  BY DEF MigrateDeletes, promises, LegacyNames
<1>3. h'.b = b /\ h'.man = h.man /\ h'.poisoned = h.poisoned /\ h'.idx = h.idx
  BY <1>1, <1>2 DEF IInv, TypeOK, Handle
<1>4. /\ PlainStore(b) /\ shown[Journal] = {None}
      /\ \A c \in Bundles, k \in Names : shown[Tag(c, k)] = {InDir(Tag(c, k))}
      /\ b # Derived => None \notin shown[KeysFile]
  BY <1>1, <1>2, HeldFacts DEF InStore, Loading
<1>5. /\ Legacy(n) \in Files /\ \A k \in UserNames : Legacy(k) \in Files /\ k \in Names
      /\ \A c \in Bundles, k \in Names : Tag(c, k) \in Files \ {Legacy(n)}
      /\ {ManifestFile, KeysFile, Journal} \subseteq Files \ {Legacy(n)}
      /\ MARKER \in Names /\ LATCH \in Names
  <2>1. Legacy(n) # ManifestFile
    BY DEF Legacy, ManifestFile
  <2> QED BY <2>1, FileFacts, CallTypes
<1>6. /\ shown'[Legacy(n)] = shown[Legacy(n)] \cup {None}
      /\ \A g \in Files \ {Legacy(n)} : shown'[g] = shown[g] /\ InDir(g)' = InDir(g)
  BY <1>2, <1>5, LookRename DEF IInv, TypeOK, InDir
<1>7. None \notin shown[Tag(b, n)]
  <2>1. InDir(Legacy(n)) = 0 /\ 0 \in shown[Legacy(n)]
    <3>1. InDir(Legacy(n)) \in shown[Legacy(n)]
      BY <1>5, Looks DEF IInv, TypeOK
    <3> QED BY <1>2, <1>4, <3>1 DEF PlainStore, LegacyFits
  <2>2. shown[KeysFile] \subseteq {None} /\ shown[Tag(b, MARKER)] \subseteq {None}
    BY <1>4, <2>1 DEF PlainStore, LegacyFits
  <2>3. InDir(KeysFile) = None
    BY <2>2, Looks, FileFacts DEF IInv, TypeOK
  <2>4. h.flow = "upgrade"
    BY <1>2, <2>3 DEF IInv, HandleInv, Upgrading, InStore, Loading
  <2>5. \A k \in h.idx : InDir(Tag(b, k)) # None
    BY <1>1, <1>2 DEF KeptInv, MigrateInv, Indexing
  <2>6. MARKER \notin h.idx
    BY <1>4, <1>5, <2>2, <2>5
  <2>7. n \in h.idx
    BY <1>2, <2>4, <2>6 DEF ImportClosed
  <2> QED BY <1>4, <1>5, <2>5, <2>7
<1>8. PlainStore(b)'
  <2>1. OneBundle(b)' /\ ManifestFits(b)' /\ FirstManifest(b)' /\ PendingKept'
    BY <1>2, <1>4, <1>5, <1>6
       DEF PlainStore, OneBundle, ManifestFits, Allows, FirstManifest, PendingKept
  <2>2. Unkeyed(b)'
    BY <1>4, <1>5, <1>6 DEF Unkeyed
  <2>3. \A k \in UserNames : shown'[Legacy(k)] \subseteq shown[Legacy(k)] \cup {None}
    BY <1>5, <1>6
  <2>4. LegacyFits(b)'
    <3>1. 0 # None
      BY CallTypes, NoneAssumption
    <3> QED BY <1>2, <1>4, <1>5, <1>6, <2>3, <3>1 DEF PlainStore, LegacyFits
  <2>5. RecordsKept(b)'
    <3> SUFFICES ASSUME NEW k \in UserNames, NEW w \in shown'[Tag(b, k)]
                 PROVE  w \in promise'[k] \/ (w = None /\ None \notin shown'[Legacy(k)])
      BY DEF RecordsKept
    <3>1. w \in shown[Tag(b, k)]
      BY <1>5, <1>6
    <3>2. CASE Legacy(k) = Legacy(n)
      <4>1. k = n
        BY <3>2 DEF Legacy
      <4> QED BY <1>2, <1>4, <1>7, <3>1, <4>1 DEF PlainStore, RecordsKept
    <3>3. CASE Legacy(k) # Legacy(n)
      <4>1. shown'[Legacy(k)] = shown[Legacy(k)]
        BY <1>5, <1>6, <3>3
      <4> QED BY <1>2, <1>4, <3>1, <4>1 DEF PlainStore, RecordsKept
    <3> QED BY <3>2, <3>3
  <2> QED BY <2>1, <2>2, <2>4, <2>5 DEF PlainStore
<1>9. \A g \in SyncedFiles : shown'[g] = shown[g] /\ InDir(g)' = InDir(g)
  BY <1>6, SyncedFacts
<1>10. /\ pc \in Agreeing /\ pc' \in Agreeing /\ pc' \notin Mutating /\ Indexing
       /\ pc' \notin Keyed \cup {"ukeys", "journal"}
  BY <1>2 DEF Agreeing, Mutating, Indexing, Keyed
<1>11. StableInv' /\ OpenInv' /\ MutateInv' /\ MigrateInv' /\ InDir(Journal)' = None
  <2>1. StableInv'
    BY <1>2, <1>9, StableSame DEF KeptInv, UnsyncedRecord
  <2> QED BY <1>1, <1>3, <1>8, <1>9, <1>10, <2>1, HeldSame
<1>12. StoreInv'
  <2>1. shown'[Journal] = {None} /\ shown'[KeysFile] = shown[KeysFile]
    BY <1>4, <1>5, <1>6
  <2> QED BY <1>2, <1>8, <2>1, StoreNext DEF KeptInv, StoreInv
<1> QED BY <1>2, <1>11, <1>12, HeldNext DEF KeptInv, InStore, Loading

-----------------------------------------------------------------------------
(* put and remove. *)

PromiseOK == promise = [n \in UserNames |-> promise[n]]

LEMMA PlainGrows ==
    ASSUME NEW b \in Bundles, PlainStore(b), NoLegacy, shown' = shown,
           \A n \in UserNames : promise[n] \subseteq promise'[n]
    PROVE  PlainStore(b)'
<1>1. OneBundle(b)' /\ ManifestFits(b)' /\ FirstManifest(b)' /\ Unkeyed(b)'
  BY DEF PlainStore, OneBundle, ManifestFits, Allows, FirstManifest, Unkeyed
<1>2. LegacyFits(b)'
  <2>1. 0 # None
    BY CallTypes, NoneAssumption
  <2> QED BY <2>1 DEF LegacyFits, NoLegacy
<1>3. RecordsKept(b)' /\ PendingKept'
  BY DEF PlainStore, RecordsKept, PendingKept
<1> QED BY <1>1, <1>2, <1>3 DEF PlainStore

LEMMA TwoMutations ==
    ASSUME NEW x, NEW y
    PROVE  <<x>> \o <<y>> = <<x, y>>
<1> DEFINE s == <<x>> \o <<y>>
           S == {x, y}
<1>1. <<x>> \in Seq(S) /\ <<y>> \in Seq(S) /\ <<x, y>> \in Seq(S)
  OBVIOUS
<1>2. s \in Seq(S) /\ Len(s) = 2 /\ s[1] = x /\ s[2] = y
  BY <1>1
<1>3. Len(<<x, y>>) = 2 /\ <<x, y>>[1] = x /\ <<x, y>>[2] = y
  OBVIOUS
<1> HIDE DEF s, S
<1>4. Len(s) = Len(<<x, y>>) /\ \A i \in 1 .. Len(s) : s[i] = <<x, y>>[i]
  BY <1>2, <1>3
<1> QED BY <1>1, <1>2, <1>4, SeqEqual DEF s

LEMMA KeptCalls ==
    ASSUME IInv, KeptInv, PromiseOK, NEW n \in UserNames, Put(n) \/ Remove(n)
    PROVE  KeptInv'
<1>1. PICK b \in Bundles : b = h.b
  BY DEF IInv, TypeOK, Handle
<1>2. PICK v : /\ promise' = [promise EXCEPT ![n] = @ \cup {v}]
               /\ todo' = <<[n |-> n, v |-> v]>>
                  \/ (todo' = <<[n |-> MARKER, v |-> 0], [n |-> n, v |-> v]>>)
  <2>1. CASE Put(n)
    <3>1. <<>> \o <<[n |-> n, v |-> ver + 1]>> = <<[n |-> n, v |-> ver + 1]>>
      OBVIOUS
    <3>2. <<[n |-> MARKER, v |-> 0]>> \o <<[n |-> n, v |-> ver + 1]>>
            = <<[n |-> MARKER, v |-> 0], [n |-> n, v |-> ver + 1]>>
      BY TwoMutations
    <3> QED BY <2>1, <3>1, <3>2 DEF Put
  <2>2. CASE Remove(n)
    BY <2>2 DEF Remove
  <2> QED BY <2>1, <2>2
<1>3. /\ pc = "open" /\ pc' = "pend" /\ ret' = "open" /\ UNCHANGED disk
      /\ UNCHANGED <<h, keyed, refused>>
  BY DEF Put, Remove
<1>4. /\ v \in promise'[n] /\ \A k \in UserNames : promise[k] \subseteq promise'[k]
  BY <1>2 DEF PromiseOK
<1>5. NoLegacy
  BY <1>3 DEF KeptInv, MigrateInv, Keyed
<1>6. /\ PlainStore(b) /\ shown[Journal] = {None} /\ InDir(Journal) = None
      /\ InDir(ManifestFile) # None /\ \A k \in Names : Tag(b, k) \in Files
  BY <1>1, <1>3, HeldFacts DEF InStore, Keyed
<1>7. shown' = shown /\ \A g \in Files : InDir(g)' = InDir(g)
  BY <1>3 DEF disk, shown, InDir
<1>8. PlainStore(b)'
  BY <1>4, <1>5, <1>6, <1>7, PlainGrows
<1>9. StoreInv'
  BY <1>3, <1>6, <1>7, <1>8, StoreNext DEF KeptInv, StoreInv
<1>10. StableInv'
  BY <1>3, <1>7, QuietStable DEF KeptInv, UnsyncedRecord
<1>11. /\ InDir(Journal)' = None /\ InDir(ManifestFile)' # None
       /\ \A k \in Names : InDir(Tag(h.b, k))' = InDir(Tag(h.b, k))
  BY <1>1, <1>3, <1>6, <1>7, FileFacts DEF InDir
<1>12. OpenInv'
  <2>1. PlainStore(h.b)'
    BY <1>1, <1>3, <1>8, PlainNext
  <2> QED BY <1>3, <1>11, <2>1
          DEF KeptInv, OpenInv, InStore, Loading, Mutating, Keyed, Agreeing
<1>13. MutateInv'
  <2>1. CASE todo' = <<[n |-> n, v |-> v]>>
    BY <1>3, <1>4, <2>1, CallStarts
  <2>2. CASE todo' = <<[n |-> MARKER, v |-> 0], [n |-> n, v |-> v]>>
    <3> DEFINE x == [n |-> MARKER, v |-> 0]
               y == [n |-> n, v |-> v]
    <3>1. x.n = MARKER /\ x.v = 0 /\ y.n = n /\ y.v = v /\ todo' = <<x, y>>
      BY <2>2
    <3> HIDE DEF x, y
    <3>2. /\ Len(todo') <= 2 /\ todo'[1] = x /\ todo'[2] = y /\ DOMAIN todo' = {1, 2}
      BY <3>1
    <3>3. MARKER \notin UserNames
      BY StoreAssumption
    <3> QED BY <1>3, <1>4, <3>1, <3>2, <3>3 DEF MutateInv, Mutating, Doing
  <2> QED BY <1>2, <2>1, <2>2
<1>14. MigrateInv'
  <2>1. NoLegacy'
    BY <1>5, <1>7 DEF NoLegacy
  <2> QED BY <1>3, <2>1 DEF MigrateInv, Indexing, Keyed, Mutating
<1> QED BY <1>3, <1>9, <1>10, <1>11, <1>12, <1>13, <1>14, HeldNext DEF KeptInv, InStore, Mutating

-----------------------------------------------------------------------------
(* mutate. *)

LEMMA MutateFacts ==
    ASSUME IInv, KeptInv, pc \in Mutating, NEW b, b = h.b
    PROVE  /\ b \in Bundles /\ h \in Handle /\ DiskOK /\ PlainStore(b)
           /\ shown[Journal] = {None} /\ InDir(Journal) = None
           /\ None \notin shown[ManifestFile] /\ InDir(ManifestFile) # None
           /\ b # Derived => None \notin shown[KeysFile]
           /\ keyed => None \notin shown[KeysFile]
           /\ h.man \in Manifest /\ h.man # None
           /\ Doing \in Mutation /\ Doing.n \in Names /\ Doing.v \in Contents \cup {None}
           /\ DoingTag = Tag(b, Doing.n) /\ DoingTag \in Files
           /\ Doing.n \in UserNames => Doing.v \in promise[Doing.n]
           /\ \A n \in Names : Tag(b, n) \in Files \ {ManifestFile, KeysFile, Journal}
<1>1. pc \in InStore \ {"usync", "load", "adopt"}
  BY DEF InStore, Mutating
<1>2. /\ b \in Bundles /\ PlainStore(b)
      /\ shown[Journal] = {None} /\ InDir(Journal) = None
      /\ None \notin shown[ManifestFile] /\ InDir(ManifestFile) # None
      /\ b # Derived => None \notin shown[KeysFile]
  BY <1>1, HeldFacts
<1>3. /\ h.man \in Manifest /\ h.man # None
      /\ Doing \in Mutation /\ Doing.n \in Names /\ Doing.v \in Contents \cup {None}
  BY MutationTypes, NoneAssumption DEF Mutation
<1>4. \A n \in Names : Tag(b, n) \in Files \ {ManifestFile, KeysFile, Journal}
  BY <1>2, FileFacts
<1>5. DoingTag = Tag(b, Doing.n) /\ DoingTag \in Files
  BY <1>3, <1>4 DEF DoingTag
<1>6. Doing.n \in UserNames => Doing.v \in promise[Doing.n]
  <2>1. todo \in Seq(Mutation) /\ todo # <<>>
    BY DEF IInv, TypeOK, CallInv
  <2>2. 1 \in DOMAIN todo /\ Doing = todo[1]
    BY <2>1 DEF Doing
  <2> QED BY <2>2 DEF KeptInv, MutateInv
<1> QED BY <1>2, <1>3, <1>4, <1>5, <1>6 DEF IInv, TypeOK, KeptInv, StoreInv

\* What the running mutation keeps while it moves from step to step.
LEMMA MutateNext ==
    ASSUME KeptInv, UNCHANGED <<todo, ret, promise>>, pc \in Mutating, pc' \in Mutating
    PROVE  /\ Doing' = Doing
           /\ Len(todo') <= 2
           /\ Doing'.n \in UserNames => Tail(todo') = <<>>
           /\ \A i \in DOMAIN todo' :
                  todo'[i].n \in UserNames => todo'[i].v \in promise'[todo'[i].n]
           /\ ret' = "migrate" => Doing'.n # MARKER /\ Doing'.v # None /\ Tail(todo') = <<>>
<1>1. Doing' = Doing
  BY DEF Doing
<1>2. /\ Len(todo) <= 2
      /\ Doing.n \in UserNames => Tail(todo) = <<>>
      /\ \A i \in DOMAIN todo : todo[i].n \in UserNames => todo[i].v \in promise[todo[i].n]
      /\ ret = "migrate" => Doing.n # MARKER /\ Doing.v # None /\ Tail(todo) = <<>>
  BY DEF KeptInv, MutateInv
<1> QED BY <1>1, <1>2

LEMMA KeptPending ==
    ASSUME IInv, KeptInv, MutatePending
    PROVE  KeptInv'
<1>1. PICK b \in Bundles : b = h.b
  BY DEF IInv, TypeOK, Handle
<1>2. PICK n : n = Doing.n
  OBVIOUS
<1>3. PICK v : v = [h.man EXCEPT !.e[n] = Doing.v, !.p = [n |-> n, old |-> h.man.e[n]]]
  OBVIOUS
<1>4. /\ pc = "pend" /\ pc' = "psync" /\ ~h.poisoned /\ Rename(ManifestFile, v)
      /\ UNCHANGED <<h, todo, ret, promise, keyed, refused>> /\ pc \in Mutating /\ pc' \in Mutating
  BY <1>2, <1>3 DEF MutatePending, Goto, Mutating
<1>5. /\ PlainStore(b) /\ shown[Journal] = {None} /\ InDir(Journal) = None
      /\ None \notin shown[ManifestFile]
      /\ b # Derived => None \notin shown[KeysFile]
      /\ keyed => None \notin shown[KeysFile]
      /\ h.man \in Manifest /\ n \in Names /\ Doing.v \in Contents \cup {None}
      /\ n \in UserNames => Doing.v \in promise[n]
      /\ \A k \in Names : Tag(b, k) \in Files \ {ManifestFile, KeysFile, Journal}
  BY <1>1, <1>2, <1>4, MutateFacts
<1>6. h.man.b = b /\ \A k \in Names : h.man.e[k] = InDir(Tag(b, k))
  BY <1>1, <1>4, AgreeFacts DEF Agreeing
<1> DEFINE pend == [n |-> n, old |-> h.man.e[n]]
<1>7. /\ pend \in [n : Names, old : Contents \cup {None}] /\ pend # None
      /\ pend.n = n /\ pend.old = h.man.e[n]
  BY <1>5, NoneAssumption DEF Manifest
<1>8. v = [h.man EXCEPT !.e[n] = Doing.v, !.p = pend]
  BY <1>3
<1> HIDE DEF pend
<1>9. /\ v \in Manifest /\ v.b = b /\ v.p = pend
      /\ v.e = [h.man.e EXCEPT ![n] = Doing.v]
  BY <1>5, <1>6, <1>7, <1>8 DEF Manifest
<1>10. v.e[n] = Doing.v /\ \A k \in Names \ {n} : v.e[k] = InDir(Tag(b, k))
  <2>1. h.man.e \in [Names -> Contents \cup {None}]
    BY <1>5 DEF Manifest
  <2> QED BY <1>5, <1>6, <1>9, <2>1
<1>11. \A k \in Names : \A w \in shown[Tag(b, k)] : Allows(v, k, w)
  <2>1. \A k \in Names : shown[Tag(b, k)] = {InDir(Tag(b, k))}
    BY <1>1, <1>4, HeldFacts DEF InStore
  <2> QED BY <1>5, <1>6, <1>7, <1>9, <1>10, <2>1 DEF Allows
<1>12. v.p # None /\ v.p.n \in UserNames => v.e[v.p.n] \in promise'[v.p.n]
  BY <1>4, <1>5, <1>7, <1>9, <1>10
<1>13. /\ PlainStore(b)' /\ v # None
       /\ shown'[ManifestFile] = shown[ManifestFile] \cup {v} /\ InDir(ManifestFile)' = v
       /\ \A g \in Files \ {ManifestFile} : shown'[g] = shown[g] /\ InDir(g)' = InDir(g)
  BY <1>4, <1>5, <1>9, <1>11, <1>12, PlainManifest DEF IInv, TypeOK
<1>14. /\ shown'[Journal] = {None} /\ InDir(Journal)' = None /\ shown'[KeysFile] = shown[KeysFile]
       /\ \A t \in Tags : shown'[t] = shown[t] /\ InDir(t)' = InDir(t)
       /\ \A k \in Names : InDir(Tag(h.b, k))' = InDir(Tag(b, k))
  <2>1. \A k \in Names : InDir(Tag(h.b, k))' = InDir(Tag(b, k))'
    BY <1>1, <1>4 DEF InDir
  <2> QED BY <1>5, <1>13, <2>1, FileFacts
<1>15. StoreInv'
  BY <1>4, <1>5, <1>13, <1>14, StoreNext
<1>16. StableInv'
  BY <1>4, <1>5, <1>13, <1>14 DEF KeptInv, StableInv, UnsyncedRecord
<1>17. OpenInv'
  <2>1. PlainStore(h.b)'
    BY <1>1, <1>4, <1>13, PlainNext
  <2>2. h'.man.b = h'.b /\ \A k \in Names : h'.man.e[k] = InDir(Tag(h.b, k))'
    BY <1>1, <1>4, <1>6, <1>14
  <2> QED BY <1>4, <1>13, <2>1, <2>2 DEF OpenInv, InStore, Loading, Mutating, Keyed, Agreeing
<1>18. MutateInv'
  <2>1. Doing' = Doing
    BY <1>4, MutateNext
  <2>2. PendingManifest(InDir(ManifestFile))'
    <3>1. /\ v.b = h'.b /\ v.p # None /\ v.e[Doing'.n] = Doing'.v
          /\ \A k \in Names \ {Doing'.n} : v.e[k] = InDir(Tag(h.b, k))'
      BY <1>1, <1>2, <1>4, <1>7, <1>9, <1>10, <1>14, <2>1
    <3> QED BY <1>13, <3>1 DEF PendingManifest
  <2> QED BY <1>4, <2>2, MutateNext DEF MutateInv
<1>19. MigrateInv'
  <2>1. NoLegacy => NoLegacy'
    <3>1. \A k \in UserNames : Legacy(k) \in Files \ {ManifestFile}
      BY SyncedFacts
    <3> QED BY <1>13, <3>1 DEF NoLegacy
  <2>2. Indexing' => \A k \in h'.idx : InDir(Tag(h.b, k))' # None
    <3>1. Indexing' => Indexing
      BY <1>4 DEF Indexing, Mutating
    <3> QED BY <1>1, <1>4, <1>14, <3>1, AgreeFacts DEF Agreeing
  <2> QED BY <1>4, <2>1, <2>2 DEF KeptInv, MigrateInv, Mutating, Keyed
<1> QED BY <1>4, <1>14, <1>15, <1>16, <1>17, <1>18, <1>19, HeldNext DEF KeptInv, InStore, Mutating

LEMMA KeptPendingSync ==
    ASSUME IInv, KeptInv, MutatePendingSync
    PROVE  KeptInv'
<1>1. PICK b \in Bundles : b = h.b
  BY DEF IInv, TypeOK, Handle
<1>2. PICK m : m = InDir(ManifestFile)
  OBVIOUS
<1>3. /\ pc = "psync" /\ pc' = "apply" /\ Flush /\ h' = [h EXCEPT !.man = m]
      /\ UNCHANGED <<todo, ret, promise, keyed, refused>> /\ pc \in Mutating /\ pc' \in Mutating
  BY <1>2 DEF MutatePendingSync, SyncDir, call, promises, Mutating
<1>4. /\ PlainStore(b) /\ InDir(Journal) = None /\ m # None /\ h \in Handle
      /\ \A k \in Names : Tag(b, k) \in Files
  BY <1>1, <1>2, <1>3, MutateFacts
<1>5. h'.b = b /\ h'.man = m /\ h'.idx = h.idx /\ h'.poisoned = h.poisoned /\ h.idx \subseteq Names
  BY <1>1, <1>3, <1>4 DEF Handle
<1>6. /\ StoreInv' /\ StableInv' /\ PlainStore(b)'
      /\ \A g \in Files : /\ InDir(g)' = InDir(g) /\ shown'[g] = {InDir(g)}
                          /\ shown'[g] \subseteq shown[g]
  BY <1>3, <1>4, SyncStore DEF KeptInv, StoreInv
<1>7. /\ InDir(Journal)' = None /\ InDir(ManifestFile)' # None /\ shown'[ManifestFile] = {m}
      /\ \A k \in Names : InDir(Tag(h.b, k))' = InDir(Tag(b, k))
  <2>1. \A k \in Names : InDir(Tag(h.b, k))' = InDir(Tag(b, k))'
    BY <1>5 DEF InDir
  <2> QED BY <1>2, <1>4, <1>6, <2>1, FileFacts
<1>8. OpenInv'
  <2>1. PlainStore(h.b)'
    BY <1>5, <1>6, PlainNext
  <2> QED BY <1>3, <1>7, <2>1 DEF OpenInv, InStore, Loading, Mutating, Keyed, Agreeing
<1>9. MutateInv'
  <2>1. PendingManifest(m)
    BY <1>2, <1>3 DEF KeptInv, MutateInv
  <2>2. Doing' = Doing
    BY <1>3, MutateNext
  <2>3. PendingManifest(h.man)'
    <3>1. /\ m.b = h'.b /\ m.p # None /\ m.e[Doing'.n] = Doing'.v
          /\ \A k \in Names \ {Doing'.n} : m.e[k] = InDir(Tag(h.b, k))'
      BY <1>1, <1>5, <1>7, <2>1, <2>2 DEF PendingManifest
    <3> QED BY <1>5, <3>1 DEF PendingManifest
  <2>4. ~h'.poisoned
    BY <1>3, <1>5 DEF KeptInv, MutateInv
  <2> QED BY <1>3, <1>5, <1>7, <2>3, <2>4, MutateNext DEF MutateInv
<1>10. MigrateInv'
  <2>1. NoLegacy => NoLegacy'
    BY <1>6, FileFacts DEF NoLegacy
  <2>2. Indexing' => \A k \in h'.idx : InDir(Tag(h.b, k))' # None
    <3>1. Indexing' => Indexing
      BY <1>3 DEF Indexing, Mutating
    <3> QED BY <1>1, <1>5, <1>7, <3>1 DEF KeptInv, MigrateInv
  <2> QED BY <1>3, <2>1, <2>2 DEF KeptInv, MigrateInv, Mutating, Keyed
<1> QED BY <1>3, <1>6, <1>7, <1>8, <1>9, <1>10, HeldNext DEF KeptInv, InStore, Mutating

\* The handle keeps the manifest that agrees with the files; the one on disk allows them.
LEMMA KeptPendingSyncFails ==
    ASSUME IInv, KeptInv, PendingSyncFails
    PROVE  KeptInv'
<1>1. PICK b \in Bundles : b = h.b
  BY DEF IInv, TypeOK, Handle
<1>2. /\ pc = "psync" /\ Flush /\ CallFails /\ UNCHANGED <<h, promise, keyed, refused>>
  BY DEF PendingSyncFails, LoseSync, promises
<1>3. CASE ret = "open"
  <2>1. pc' = "open" /\ pc \in Mutating
    BY <1>2, <1>3 DEF CallFails, Mutating
  <2>2. PlainStore(b) /\ NoLegacy
    BY <1>1, <1>3, <2>1, MutateFacts DEF KeptInv, MigrateInv
  <2>3. /\ StoreInv' /\ StableInv' /\ PlainStore(b)'
        /\ \A g \in Files : InDir(g)' = InDir(g) /\ shown'[g] \subseteq shown[g]
    BY <1>2, <2>2, SyncStore DEF KeptInv, StoreInv
  <2>4. \A g \in SyncedFiles : InDir(g)' = InDir(g)
    BY <2>3, SyncedFacts
  <2>5. NoLegacy'
    BY <2>2, <2>3, FileFacts DEF NoLegacy
  <2>6. pc \in Agreeing /\ pc' \in Agreeing /\ pc' \notin Mutating /\ ~Indexing'
    BY <1>2, <2>1 DEF Agreeing, Mutating, Indexing
  <2>7. OpenInv' /\ MutateInv' /\ MigrateInv' /\ InDir(Journal)' = None
    BY <1>1, <1>2, <2>3, <2>4, <2>5, <2>6, HeldSame
  <2> QED BY <1>2, <2>1, <2>3, <2>7, HeldNext DEF KeptInv, InStore, Keyed
<1>4. CASE ret # "open"
  <2>1. pc' = "closed" /\ ~refused'
    BY <1>2, <1>4 DEF CallFails, KeptInv
  <2> QED BY <1>2, <2>1, Closes
<1> QED BY <1>3, <1>4

LEMMA KeptApply ==
    ASSUME IInv, KeptInv, MutateApply
    PROVE  KeptInv'
<1>1. PICK b \in Bundles : b = h.b
  BY DEF IInv, TypeOK, Handle
<1>2. PICK n : n = Doing.n
  OBVIOUS
<1>3. PICK v : v = Doing.v
  OBVIOUS
<1>4. /\ pc = "apply" /\ pc' = "async"
      /\ h' = [h EXCEPT !.idx = IF v = None THEN @ ELSE @ \cup {n}]
      /\ UNCHANGED <<todo, ret, promise, keyed, refused>> /\ pc \in Mutating /\ pc' \in Mutating
  BY <1>2, <1>3 DEF MutateApply, call, promises, Mutating
<1>5. /\ PlainStore(b) /\ shown[Journal] = {None} /\ InDir(Journal) = None
      /\ None \notin shown[ManifestFile] /\ InDir(ManifestFile) # None
      /\ b # Derived => None \notin shown[KeysFile]
      /\ keyed => None \notin shown[KeysFile]
      /\ n \in Names /\ v \in Contents \cup {None} /\ h \in Handle
      /\ n \in UserNames => v \in promise[n]
      /\ DoingTag = Tag(b, n)
  BY <1>1, <1>2, <1>3, <1>4, MutateFacts
<1>6. /\ PendingManifest(h.man) /\ shown[ManifestFile] = {h.man} /\ ~h.poisoned
      /\ ret = "migrate" => n # MARKER /\ v # None
  BY <1>2, <1>3, <1>4 DEF KeptInv, MutateInv, Mutating
<1>7. \A m \in shown[ManifestFile] : Allows(m, n, v)
  BY <1>2, <1>3, <1>6 DEF PendingManifest, Allows
<1>8. n = MARKER => NoLegacy
  BY <1>4, <1>6 DEF KeptInv, MigrateInv
<1>9. Rename(Tag(b, n), v)
  BY <1>3, <1>5 DEF MutateApply
<1>10. /\ PlainStore(b)' /\ InDir(Tag(b, n))' = v
       /\ \A g \in Files \ {Tag(b, n)} : shown'[g] = shown[g] /\ InDir(g)' = InDir(g)
       /\ \A k \in Names \ {n} : Tag(b, k) \in Files \ {Tag(b, n)}
       /\ {ManifestFile, KeysFile, Journal, Staging} \subseteq Files \ {Tag(b, n)}
  BY <1>4, <1>5, <1>7, <1>8, <1>9, PlainRecord DEF IInv, TypeOK
<1>11. /\ h'.b = b /\ h'.man = h.man /\ h'.poisoned = h.poisoned
       /\ h'.idx = (IF v = None THEN h.idx ELSE h.idx \cup {n}) /\ h.idx \subseteq Names
  BY <1>1, <1>4, <1>5 DEF Handle
<1>12. /\ shown'[Journal] = {None} /\ InDir(Journal)' = None
       /\ InDir(ManifestFile)' = InDir(ManifestFile) /\ shown'[ManifestFile] = shown[ManifestFile]
       /\ shown'[KeysFile] = shown[KeysFile]
  BY <1>5, <1>10
<1>13. StoreInv'
  BY <1>4, <1>5, <1>10, <1>12, StoreNext
<1>14. StableInv'
  BY <1>4, <1>12 DEF KeptInv, StableInv, UnsyncedRecord
<1>15. OpenInv'
  <2>1. PlainStore(h.b)'
    BY <1>10, <1>11, PlainNext
  <2> QED BY <1>4, <1>5, <1>12, <2>1 DEF OpenInv, InStore, Loading, Mutating, Keyed, Agreeing
<1>16. /\ \A k \in Names \ {n} : InDir(Tag(h.b, k))' = InDir(Tag(b, k))
       /\ InDir(Tag(h.b, n))' = v
  <2>1. \A k \in Names : InDir(Tag(h.b, k))' = InDir(Tag(b, k))'
    BY <1>11 DEF InDir
  <2> QED BY <1>5, <1>10, <2>1
<1>17. MutateInv'
  <2>1. Doing' = Doing
    BY <1>4, MutateNext
  <2>2. PendingManifest(h.man)'
    BY <1>1, <1>2, <1>6, <1>11, <1>16, <2>1 DEF PendingManifest
  <2> QED BY <1>4, <1>6, <1>11, <1>12, <2>2, MutateNext DEF MutateInv
<1>18. MigrateInv'
  <2>1. NoLegacy => NoLegacy'
    <3>1. \A k \in UserNames : Legacy(k) \in Files \ {Tag(b, n)}
      BY <1>5, FileFacts
    <3> QED BY <1>10, <3>1 DEF NoLegacy
  <2>2. Indexing' => \A k \in h'.idx : InDir(Tag(h.b, k))' # None
    <3>1. Indexing' => Indexing /\ ret = "migrate"
      BY <1>4 DEF Indexing, Mutating
    <3>2. Indexing => \A k \in h.idx : InDir(Tag(b, k)) # None
      BY <1>1 DEF KeptInv, MigrateInv
    <3> QED BY <1>6, <1>11, <1>16, <3>1, <3>2
  <2> QED BY <1>4, <2>1, <2>2 DEF KeptInv, MigrateInv, Mutating, Keyed
<1> QED BY <1>4, <1>12, <1>13, <1>14, <1>15, <1>17, <1>18, HeldNext DEF KeptInv, InStore, Mutating

\* The rest of the call after a mutation that is done.
LEMMA RestOfCall ==
    ASSUME IInv, KeptInv, pc = "settle", todo' = Tail(todo), Tail(todo) # <<>>
    PROVE  /\ Doing.n \notin UserNames /\ ret # "migrate"
           /\ Len(todo') <= 2 /\ Tail(todo') = <<>> /\ DOMAIN todo' = {1} /\ Len(todo) = 2
           /\ todo'[1] = todo[2] /\ 2 \in DOMAIN todo /\ Doing' = todo'[1]
<1>1. /\ Doing.n \in UserNames => Tail(todo) = <<>>
      /\ ret = "migrate" => Tail(todo) = <<>>
      /\ Len(todo) <= 2
  BY DEF KeptInv, MutateInv, Mutating
<1>2. todo \in Seq(Mutation) /\ todo # <<>>
  BY DEF IInv, TypeOK, CallInv, Mutating
<1>3. Len(todo) = 2
  <2>1. Tail(todo) \in Seq(Mutation) /\ Len(Tail(todo)) = Len(todo) - 1
    BY <1>2
  <2>2. Len(Tail(todo)) # 0
    BY <2>1, EmptySeq
  <2> QED BY <1>1, <1>2, <2>1, <2>2
<1>4. Tail(todo) \in Seq(Mutation) /\ Len(todo') = 1 /\ todo'[1] = todo[2]
  BY <1>2, <1>3
<1>5. Tail(todo') = <<>> /\ DOMAIN todo' = {1}
  BY <1>4
<1> QED BY <1>1, <1>2, <1>3, <1>4, <1>5 DEF Doing

LEMMA KeptSettle ==
    ASSUME IInv, KeptInv, PromiseOK, MutateSettle
    PROVE  KeptInv'
<1>1. PICK b \in Bundles : b = h.b
  BY DEF IInv, TypeOK, Handle
<1>2. PICK n : n = Doing.n
  OBVIOUS
<1>3. PICK w : w = InDir(DoingTag)
  OBVIOUS
<1>4. PICK v : v = SettledManifest
  OBVIOUS
<1>5. /\ pc = "settle" /\ pc \in Mutating /\ Rename(ManifestFile, v) /\ Settle /\ SettleAllowed
      /\ UNCHANGED <<keyed, refused>>
  BY <1>4 DEF MutateSettle, Mutating
<1>6. /\ PlainStore(b) /\ shown[Journal] = {None} /\ InDir(Journal) = None
      /\ None \notin shown[ManifestFile] /\ h \in Handle /\ n \in Names
      /\ b # Derived => None \notin shown[KeysFile]
      /\ keyed => None \notin shown[KeysFile]
      /\ DoingTag = Tag(b, n)
      /\ \A k \in Names : Tag(b, k) \in Files \ {ManifestFile, KeysFile, Journal}
  BY <1>1, <1>2, <1>5, MutateFacts
<1>7. \A k \in Names : shown[Tag(b, k)] = {InDir(Tag(b, k))}
  BY <1>1, <1>5, HeldFacts DEF InStore
<1>8. /\ v \in Manifest /\ v.b = b /\ v.p = None
      /\ \A k \in Names : v.e[k] = InDir(Tag(b, k))
  BY <1>1, <1>4, <1>5, SettledFacts
<1>9. shown[ManifestFile] = {h.man} /\ h.man.e[n] = Doing.v
  BY <1>2, <1>5 DEF KeptInv, MutateInv, PendingManifest
<1>10. /\ h'.b = b /\ h'.man = v /\ h'.poisoned = h.poisoned /\ h.idx \subseteq Names
       /\ h'.idx = (IF w = None THEN h.idx \ {n} ELSE h.idx \cup {n})
  BY <1>1, <1>2, <1>3, <1>4, <1>5, <1>6 DEF Handle, Settle
<1>11. \/ promise' = promise
       \/ /\ ret = "open" /\ n \in UserNames /\ w = Doing.v
          /\ promise' = [promise EXCEPT ![n] = {w}]
  <2>1. ~err => w = Doing.v
    BY <1>3, <1>5 DEF SettleAllowed
  <2> QED BY <1>2, <2>1 DEF MutateSettle
<1>12. \A k \in UserNames :
          \/ promise'[k] = promise[k]
          \/ /\ NoLegacy /\ shown[Tag(b, k)] \subseteq promise'[k]
             /\ \A m \in shown[ManifestFile] \ {None} : m.e[k] \in promise'[k]
  <2>1. CASE promise' = promise
    BY <2>1
  <2>2. CASE /\ ret = "open" /\ n \in UserNames /\ w = Doing.v
             /\ promise' = [promise EXCEPT ![n] = {w}]
    <3>1. NoLegacy
      BY <1>5, <2>2 DEF KeptInv, MigrateInv
    <3>2. promise'[n] = {w} /\ \A k \in UserNames \ {n} : promise'[k] = promise[k]
      BY <2>2 DEF PromiseOK
    <3>3. shown[Tag(b, n)] = {w}
      BY <1>3, <1>6, <1>7
    <3> QED BY <1>9, <2>2, <3>1, <3>2, <3>3
  <2> QED BY <1>11, <2>1, <2>2
<1>13. \A k \in Names : \A x \in shown[Tag(b, k)] : Allows(v, k, x)
  BY <1>7, <1>8 DEF Allows
<1>14. /\ PlainStore(b)' /\ v # None
       /\ shown'[ManifestFile] = shown[ManifestFile] \cup {v} /\ InDir(ManifestFile)' = v
       /\ \A g \in Files \ {ManifestFile} : shown'[g] = shown[g] /\ InDir(g)' = InDir(g)
  BY <1>5, <1>6, <1>8, <1>12, <1>13, PlainManifest DEF IInv, TypeOK
<1>15. /\ shown'[Journal] = {None} /\ InDir(Journal)' = None /\ shown'[KeysFile] = shown[KeysFile]
       /\ \A t \in Tags : shown'[t] = shown[t] /\ InDir(t)' = InDir(t)
       /\ \A k \in Names : InDir(Tag(h.b, k))' = InDir(Tag(b, k))
  <2>1. \A k \in Names : InDir(Tag(h.b, k))' = InDir(Tag(b, k))'
    BY <1>10 DEF InDir
  <2> QED BY <1>6, <1>14, <2>1, FileFacts
<1>16. StoreInv'
  BY <1>5, <1>6, <1>14, <1>15, StoreNext
<1>17. StableInv'
  BY <1>5, <1>6, <1>8, <1>14, <1>15 DEF KeptInv, StableInv, UnsyncedRecord
<1>18. \/ pc' = "closed"
       \/ pc' = "open" /\ ret = "open"
       \/ pc' = ret
       \/ pc' = "pend" /\ todo' = Tail(todo) /\ Tail(todo) # <<>> /\ ret' = ret
  BY DEF MutateSettle, CallFails
<1>19. CASE pc' = "closed"
  <2>1. StagedInv' /\ OpenInv' /\ MutateInv' /\ MigrateInv'
    BY <1>19, OutsideFacts DEF Outside
  <2> QED BY <1>5, <1>16, <1>17, <1>19, <2>1, RollFree DEF KeptInv
<1>20. CASE pc' # "closed"
  <2>1. ret \in {"migrate", "ukeys", "opened", "open"} /\ pc' \in {"migrate", "ukeys", "opened", "open", "pend"}
    BY <1>5, <1>18, <1>20 DEF IInv, TypeOK, CallInv
  <2>2. OpenInv'
    <3>1. PlainStore(h.b)'
      BY <1>10, <1>14, PlainNext
    <3>2. h'.man.b = h'.b /\ \A k \in Names : h'.man.e[k] = InDir(Tag(h.b, k))'
      BY <1>8, <1>10, <1>15
    <3> QED BY <1>14, <2>1, <3>1, <3>2 DEF OpenInv
  <2>3. NoLegacy => NoLegacy'
    <3>1. \A k \in UserNames : Legacy(k) \in Files \ {ManifestFile}
      BY SyncedFacts
    <3> QED BY <1>14, <3>1 DEF NoLegacy
  <2>4. ret # "migrate" => NoLegacy
    BY <1>5 DEF KeptInv, MigrateInv
  <2>5. CASE pc' = "pend"
    <3>1. todo' = Tail(todo) /\ Tail(todo) # <<>> /\ ret' = ret
      BY <1>18, <2>1, <2>5
    <3>2. /\ n \notin UserNames /\ ret # "migrate"
          /\ Len(todo') <= 2 /\ Tail(todo') = <<>> /\ DOMAIN todo' = {1}
          /\ todo'[1] = todo[2] /\ 2 \in DOMAIN todo
      BY <1>2, <1>5, <3>1, RestOfCall
    <3>3. promise' = promise
      BY <1>11, <3>2
    <3>4. todo[2].n \in UserNames => todo[2].v \in promise[todo[2].n]
      BY <1>5, <3>2 DEF KeptInv, MutateInv
    <3>5. MutateInv'
      BY <2>5, <3>1, <3>2, <3>3, <3>4 DEF MutateInv, Mutating
    <3>6. MigrateInv'
      BY <2>3, <2>4, <2>5, <3>1, <3>2 DEF MigrateInv, Indexing, Mutating, Keyed
    <3> QED BY <1>5, <1>15, <1>16, <1>17, <2>2, <2>5, <3>5, <3>6, HeldNext DEF KeptInv, InStore, Mutating
  <2>6. CASE pc' # "pend"
    <3>1. MutateInv'
      BY <2>1, <2>6, NotMutating DEF Mutating
    <3>2. pc' = "migrate" => ret = "migrate"
      BY <1>18, <2>1, <2>6
    <3>3. pc' # "migrate" => ret # "migrate"
      BY <1>18, <2>1, <2>6
    <3>4. pc' = "migrate" => \A k \in h'.idx : InDir(Tag(h.b, k))' # None
      <4>1. pc' = "migrate" => \A k \in h.idx : InDir(Tag(b, k)) # None
        BY <1>1, <1>5, <3>2 DEF KeptInv, MigrateInv, Indexing
      <4> QED BY <1>3, <1>6, <1>10, <1>15, <4>1
    <3>5. MigrateInv'
      BY <2>1, <2>3, <2>4, <2>6, <3>3, <3>4 DEF MigrateInv, Indexing, Mutating, Keyed
    <3> QED BY <1>5, <1>15, <1>16, <1>17, <2>1, <2>2, <2>6, <3>1, <3>5, HeldNext
            DEF KeptInv, InStore, Loading, Keyed
  <2> QED BY <2>5, <2>6
<1> QED BY <1>19, <1>20

-----------------------------------------------------------------------------
(* rekey. *)

LEMMA KeptRekey ==
    ASSUME IInv, KeptInv, NEW phrase \in BOOLEAN, Rekey(phrase)
    PROVE  KeptInv'
<1>1. PICK b \in Bundles : b = h.b
  BY DEF IInv, TypeOK, Handle
<1>2. /\ pc = "open" /\ pc' = "stage" /\ ~h.poisoned
      /\ nextB < MaxBundle /\ nextB' = nextB + 1
      /\ Touch([WithoutStaging(fs) EXCEPT ![Staging].dir = nextB + 1])
      /\ h' = [h EXCEPT !.imported = phrase]
      /\ UNCHANGED <<promise, keyed, refused>>
  BY DEF Rekey, promises
<1>3. nextB' \in Bundles
  BY <1>2, StoreAssumption DEF IInv, TypeOK, Bundles
<1>4. /\ DiskOK' /\ fs'[Staging].dir = nextB'
      /\ \A g \in Files \ {Staging} : shown'[g] = shown[g] /\ fs'[g].dir = fs[g].dir
  BY <1>2, <1>3, LookMake DEF IInv, TypeOK
<1>5. /\ h'.b = b /\ h'.man = h.man /\ h'.poisoned = h.poisoned /\ h'.idx = h.idx
  BY <1>1, <1>2 DEF IInv, TypeOK, Handle
<1>6. PlainStore(b) /\ shown[Journal] = {None}
  BY <1>1, <1>2, HeldFacts DEF InStore, Keyed
<1>7. /\ \A g \in SyncedFiles : shown'[g] = shown[g] /\ InDir(g)' = InDir(g)
      /\ \A g \in StoreFiles \cup {KeysFile} : shown'[g] = shown[g]
      /\ \A n \in UserNames : shown'[Legacy(n)] = shown[Legacy(n)] /\ Legacy(n) \in Files
  <2>1. \A g \in SyncedFiles : g \in Files \ {Staging}
    BY SyncedFacts
  <2>2. \A g \in StoreFiles \cup {KeysFile} : g \in Files \ {Staging}
    BY FileFacts DEF StoreFiles
  <2>3. \A n \in UserNames : Legacy(n) \in Files \ {Staging}
    BY FileFacts
  <2> QED BY <1>4, <2>1, <2>2, <2>3 DEF InDir
<1>8. PlainStore(b)'
  BY <1>1, <1>2, <1>4, <1>6, <1>7, PlainShrinks, ShownNext
<1>9. NoLegacy'
  BY <1>2, <1>7 DEF KeptInv, MigrateInv, Keyed, NoLegacy
<1>10. pc \in Agreeing /\ pc' \in Agreeing /\ pc' \notin Mutating /\ ~Indexing'
  BY <1>2 DEF Agreeing, Mutating, Indexing
<1>11. OpenInv' /\ MutateInv' /\ MigrateInv' /\ InDir(Journal)' = None
  BY <1>1, <1>5, <1>7, <1>8, <1>9, <1>10, HeldSame
<1>12. StableInv'
  BY <1>2, <1>7, StableSame DEF KeptInv, UnsyncedRecord
<1>13. StoreInv'
  <2>1. shown'[Journal] = {None} /\ shown'[KeysFile] = shown[KeysFile]
    BY <1>6, <1>7, SyncedFacts
  <2> QED BY <1>2, <1>8, <2>1, StoreNext DEF KeptInv, StoreInv
<1>14. RollInv'
  BY <1>2, <1>11 DEF RollInv, Rollforward
<1>15. StagedInv'
  BY <1>2, <1>4, <1>5 DEF StagedInv, InDir
<1> QED BY <1>2, <1>11, <1>12, <1>13, <1>14, <1>15 DEF KeptInv

LEMMA KeptStageFails ==
    ASSUME IInv, KeptInv, StageFails
    PROVE  KeptInv'
<1>1. PICK b \in Bundles : b = h.b
  BY DEF IInv, TypeOK, Handle
<1>2. /\ pc = "stage" /\ pc' = "closed" /\ Touch(WithoutStaging(fs))
      /\ UNCHANGED <<promise, keyed, refused>>
  BY DEF StageFails, promises
<1>3. /\ DiskOK'
      /\ \A g \in Files \ {Staging} : shown'[g] = shown[g] /\ fs'[g].dir = fs[g].dir
  BY <1>2, LookDrop DEF IInv, TypeOK
<1>4. PlainStore(b) /\ shown[Journal] = {None}
  BY <1>1, <1>2, HeldFacts DEF InStore, Keyed
<1>5. /\ \A g \in SyncedFiles : shown'[g] = shown[g] /\ InDir(g)' = InDir(g)
      /\ \A g \in StoreFiles \cup {KeysFile} : shown'[g] = shown[g]
      /\ \A n \in UserNames : Legacy(n) \in Files
  <2>1. \A g \in SyncedFiles : g \in Files \ {Staging}
    BY SyncedFacts
  <2>2. \A g \in StoreFiles \cup {KeysFile} : g \in Files \ {Staging}
    BY FileFacts DEF StoreFiles
  <2> QED BY <1>3, <2>1, <2>2, FileFacts DEF InDir
<1>6. PlainStore(b)'
  BY <1>1, <1>2, <1>3, <1>4, <1>5, PlainShrinks, ShownNext
<1>7. StableInv'
  BY <1>2, <1>5, StableSame DEF KeptInv, UnsyncedRecord
<1>8. StoreInv'
  <2>1. shown'[Journal] = {None} /\ shown'[KeysFile] = shown[KeysFile]
    BY <1>4, <1>5, SyncedFacts
  <2> QED BY <1>2, <1>6, <2>1, StoreNext DEF KeptInv, StoreInv
<1>9. StagedInv' /\ OpenInv' /\ MutateInv' /\ MigrateInv'
  BY <1>2, OutsideFacts DEF Outside
<1>10. RollInv'
  BY <1>2, RollFree
<1> QED BY <1>2, <1>7, <1>8, <1>9, <1>10 DEF KeptInv

\* The files of the new bundle are staged; the profile's own are as they were.
LEMMA KeptStage ==
    ASSUME IInv, KeptInv, Stage
    PROVE  KeptInv'
<1>1. PICK b \in Bundles : b = h.b
  BY DEF IInv, TypeOK, Handle
<1>2. /\ pc = "stage" /\ pc' = "journal"
      /\ UNCHANGED <<h, nextB, promise, keyed, refused>>
  BY DEF Stage, Goto
<1>3. /\ h.man # None /\ nextB # Derived /\ h.derived /\ h.u = FirstPw /\ b = Derived
  BY <1>1, <1>2 DEF IInv, CallInv, StagingInv, HandleInv, InStore, Keyed, Upgrading, Loading, Mutating
<1>4. h.u \in Passwords
  BY <1>3, StoreAssumption
<1>5. /\ \A g \in Files : shown'[g] \subseteq shown[g] /\ fs'[g].dir = fs[g].dir
      /\ \A n \in Names : staged'[Tag(nextB, n)] \subseteq {StagedRecords[n]}
      /\ staged'[ManifestFile] \subseteq {StagedManifest}
      /\ staged'[KeysFile] \subseteq {NewKeys}
      /\ shown'[Staging] = {fs[Staging].dir}
  BY <1>3, <1>4, LookStage DEF IInv
<1>6. DiskOK' /\ NewKeys \in KeyFile
  BY <1>3, <1>4, StageFacts DEF IInv
<1>7. /\ PlainStore(b) /\ shown[Journal] = {None} /\ InDir(Journal) = None
      /\ None \notin shown[KeysFile] /\ None \notin shown[ManifestFile]
      /\ InDir(ManifestFile) # None
  BY <1>1, <1>2, HeldFacts DEF InStore, Keyed, Upgrading, Loading, Mutating
<1>8. \A g \in Files : InDir(g)' = InDir(g) /\ InDir(g)' \in shown'[g]
  BY <1>5, <1>6, ShownNext DEF InDir
<1>9. \A g \in Files : shown'[g] # {}
  BY <1>6, ShownNext
<1>10. PlainStore(b)'
  <2>1. /\ StoreFiles \cup {KeysFile} \subseteq Files
        /\ \A n \in UserNames : Legacy(n) \in Files
    BY FileFacts DEF StoreFiles
  <2> QED BY <1>2, <1>5, <1>7, <1>9, <2>1, PlainShrinks
<1>11. StableInv'
  <2>1. ASSUME NEW g \in Files, shown[g] = {InDir(g)} PROVE shown'[g] = {InDir(g)'}
    BY <1>5, <1>8, <2>1
  <2>2. \A t \in Tags : shown'[t] = {InDir(t)'}
    BY <1>2, <2>1, FileFacts DEF KeptInv, StableInv, UnsyncedRecord
  <2>3. shown'[Journal] = {InDir(Journal)'}
    BY <1>7, <2>1, FileFacts
  <2>4. None \notin shown'[ManifestFile]
    BY <1>5, <1>7, FileFacts
  <2>5. InDir(ManifestFile)' # None /\ InDir(ManifestFile)'.p # None =>
            shown'[ManifestFile] = {InDir(ManifestFile)'}
    BY <1>2, <1>8, <2>1, FileFacts DEF KeptInv, StableInv
  <2> QED BY <2>2, <2>3, <2>4, <2>5 DEF StableInv
<1>12. NoLegacy'
  BY <1>2, <1>5, FileFacts DEF KeptInv, MigrateInv, Keyed, NoLegacy
<1>13. OpenInv' /\ MutateInv' /\ MigrateInv' /\ InDir(Journal)' = None
  <2>1. pc \in Agreeing /\ pc' \in Agreeing /\ pc' \notin Mutating /\ ~Indexing'
    BY <1>2 DEF Agreeing, Mutating, Indexing
  <2>2. \A g \in SyncedFiles : InDir(g)' = InDir(g)
    BY <1>8, SyncedFacts
  <2>3. h'.b = b /\ h'.man = h.man /\ h'.poisoned = h.poisoned /\ h'.idx = h.idx
    BY <1>1, <1>2
  <2> QED BY <1>1, <1>10, <1>12, <2>1, <2>2, <2>3, HeldSame
<1>14. StoreInv'
  <2>1. shown'[Journal] = {None} /\ None \notin shown'[KeysFile]
    BY <1>5, <1>7, <1>9, FileFacts
  <2> QED BY <1>10, <2>1, StoreNext
<1>15. RollInv'
  BY <1>2, <1>13 DEF RollInv, Rollforward
<1>16. StagedInv'
  <2>1. StagedRecords' = StagedRecords /\ StagedManifest' = StagedManifest
    BY <1>2 DEF StagedRecords, StagedManifest
  <2>2. NewKeys # None /\ NewKeys.b = nextB
    BY <1>6, NoneAssumption DEF NewKeys
  <2>3. ~h.poisoned /\ fs[Staging].dir = nextB
    BY <1>2 DEF KeptInv, StagedInv, InDir
  <2>4. None \notin shown'[KeysFile]
    BY <1>5, <1>7, FileFacts
  <2>5. \A n \in Names : staged'[Tag(nextB', n)] \subseteq {StagedRecords'[n]}
    BY <1>2, <1>5, <2>1
  <2>6. \A k \in staged'[KeysFile] : k # None /\ k.b = nextB'
    BY <1>2, <1>5, <2>2
  <2>7. h'.b = Derived /\ ~h'.poisoned /\ nextB' # Derived
    BY <1>1, <1>2, <1>3, <2>3
  <2>8. staged'[ManifestFile] \subseteq {StagedManifest'} /\ shown'[Staging] \subseteq {nextB'}
    BY <1>2, <1>5, <2>1, <2>3
  <2> QED BY <1>2, <2>4, <2>5, <2>6, <2>7, <2>8 DEF StagedInv
<1> QED BY <1>2, <1>11, <1>13, <1>14, <1>15, <1>16 DEF KeptInv

\* The journal that is written names a switch that can be rolled forward.
LEMMA JournalFits ==
    ASSUME IInv, KeptInv, pc = "journal", UNCHANGED promise,
           NEW j \in JournalFile, j.b = nextB, j.new = StagedRecords, j.man = StagedManifest,
           j.old = {t \in Tags : InDir(t) # None},
           shown'[Journal] \subseteq {None, j},
           \A g \in Files \ {Journal} : /\ shown'[g] = shown[g] /\ staged'[g] = staged[g]
                                        /\ latest'[g] = latest[g]
    PROVE  JournalStore(j)'
<1>1. /\ h.b = Derived /\ ~h.poisoned /\ nextB # Derived
      /\ \A n \in Names : staged[Tag(nextB, n)] \subseteq {StagedRecords[n]}
      /\ staged[ManifestFile] \subseteq {StagedManifest}
      /\ \A k \in staged[KeysFile] : k # None /\ k.b = nextB
      /\ None \notin shown[KeysFile]
      /\ shown[Staging] \subseteq {nextB}
  BY DEF KeptInv, StagedInv
<1>2. PICK b \in Bundles : b = h.b
  BY DEF IInv, TypeOK, Handle
<1>3. /\ PlainStore(b) /\ None \notin shown[ManifestFile]
      /\ \A c \in Bundles, n \in Names : shown[Tag(c, n)] = {InDir(Tag(c, n))}
  BY <1>2, HeldFacts
<1>4. OneBundle(b) /\ RecordsKept(b)
  BY <1>3 DEF PlainStore
<1>5. /\ \A n \in UserNames : shown[Legacy(n)] = {None}
      /\ \A n \in UserNames : n \in Names /\ Legacy(n) \in Files \ {Journal}
      /\ \A c \in Bundles, n \in Names : Tag(c, n) \in Files \ {Journal}
      /\ {ManifestFile, KeysFile, Staging} \subseteq Files \ {Journal}
      /\ nextB \in Bundles /\ None \notin Bundles /\ h.man # None
  <2>1. \A n \in UserNames : shown[Legacy(n)] # {} /\ Legacy(n) \in Files \ {Journal}
    BY ShownTypes, FileFacts DEF IInv, TypeOK
  <2>2. NoLegacy
    BY DEF KeptInv, MigrateInv
  <2> QED BY <2>1, <2>2, FileFacts, CallTypes, NoneAssumption
      DEF NoLegacy, IInv, TypeOK, CallInv
<1>6. SwitchFits(j)'
  <2>1. j.b # Derived /\ j.man = [b |-> j.b, e |-> j.new, p |-> None]
    BY <1>1 DEF StagedManifest
  <2>2. ASSUME NEW n \in Names PROVE latest'[Tag(j.b, n)] \subseteq {j.new[n]}
    <3>1. shown[Tag(nextB, n)] \subseteq {None} /\ staged[Tag(nextB, n)] \subseteq {StagedRecords[n]}
      BY <1>1, <1>2, <1>4, <1>5 DEF OneBundle
    <3>2. latest[Tag(nextB, n)] \subseteq {StagedRecords[n]}
      <4>1. PICK t \in Files : t = Tag(nextB, n)
        BY <1>5
      <4>2. \A x \in dur[t] : x.dir = None /\ x.stg = StagedRecords[n]
        BY <3>1, <4>1 DEF shown, staged
      <4>3. latest[t] \subseteq {StagedRecords[n]}
        BY <4>2 DEF latest
      <4> QED BY <4>1, <4>3
    <3> QED BY <1>5, <3>2
  <2>3. latest'[ManifestFile] \subseteq {j.man} /\ None \notin shown'[ManifestFile]
    <3>1. StagedManifest # None
      BY <1>5, StagedTypes, NoneAssumption DEF IInv
    <3>2. latest[ManifestFile] \subseteq {StagedManifest}
      BY <1>1, <1>5, <3>1 DEF latest, staged
    <3> QED BY <1>3, <1>5, <3>2
  <2>4. (\A k \in latest'[KeysFile] : k.b = j.b) /\ None \notin shown'[KeysFile]
    <3>1. \A k \in latest[KeysFile] : k.b = nextB
      BY <1>1, <1>5 DEF latest, staged
    <3> QED BY <1>1, <1>5, <3>1
  <2>5. NoLegacy'
    BY <1>5 DEF NoLegacy
  <2>6. ASSUME NEW n \in UserNames PROVE j.new[n] \in promise'[n]
    <3>1. j.new[n] = h.man.e[n]
      BY <1>5, StoreAssumption DEF StagedRecords
    <3>2. h.man.e[n] = InDir(Tag(b, n))
      BY <1>1, <1>2, <1>5 DEF KeptInv, OpenInv, Agreeing
    <3>3. InDir(Tag(b, n)) \in shown[Tag(b, n)] /\ None \in shown[Legacy(n)]
      BY <1>3, <1>5
    <3> QED BY <1>4, <3>1, <3>2, <3>3 DEF RecordsKept
  <2> QED BY <2>1, <2>2, <2>3, <2>4, <2>5, <2>6 DEF SwitchFits
<1>7. OldListed(j)'
  <2>1. ASSUME NEW c \in Bundles, NEW n \in Names
        PROVE  /\ Tag(c, n) \in Tags
               /\ shown'[Tag(c, n)] = {InDir(Tag(c, n))}
               /\ c # Derived => InDir(Tag(c, n)) = None
               /\ Tag(c, n)[2] = c
    BY <1>1, <1>2, <1>3, <1>4, <1>5, FileFacts DEF OneBundle
  <2>2. \A c \in Bundles \ {j.b}, n \in Names :
            shown'[Tag(c, n)] \subseteq {None} \/ (c = Derived /\ Tag(c, n) \in j.old)
    BY <2>1
  <2>3. \A t \in j.old : t[2] = Derived
    <3> SUFFICES ASSUME NEW t \in Tags, InDir(t) # None PROVE t[2] = Derived
      OBVIOUS
    <3>1. PICK c \in Bundles, n \in Names : t = Tag(c, n)
      BY DEF Tags
    <3> QED BY <2>1, <3>1
  <2> QED BY <2>2, <2>3 DEF OldListed
<1>8. StagingLast(j)'
  <2>1. shown'[Staging] \subseteq {j.b} /\ None # j.b
    BY <1>1, <1>5
  <2> QED BY <2>1 DEF StagingLast
<1> QED BY <1>6, <1>7, <1>8 DEF JournalStore

LEMMA KeptWriteJournal ==
    ASSUME IInv, KeptInv, WriteJournal
    PROVE  KeptInv'
<1>1. PICK b \in Bundles : b = h.b
  BY DEF IInv, TypeOK, Handle
<1>2. /\ pc = "journal" /\ pc' = "jsync" /\ UNCHANGED <<promise, keyed, refused>>
      /\ Rename(Journal, [b |-> nextB, new |-> StagedRecords, man |-> StagedManifest,
                          old |-> {t \in Tags : InDir(t) # None}])
  BY DEF WriteJournal, Goto
<1>3. h.man # None /\ nextB \in Bundles
  BY <1>2 DEF IInv, CallInv, TypeOK
<1>4. PICK j \in JournalFile :
          j = [b |-> nextB, new |-> StagedRecords, man |-> StagedManifest,
               old |-> {t \in Tags : InDir(t) # None}]
  BY <1>3, StagedTypes DEF IInv, JournalFile
<1>5. /\ j.b = nextB /\ j.new = StagedRecords /\ j.man = StagedManifest
      /\ j.old = {t \in Tags : InDir(t) # None} /\ Rename(Journal, j)
  BY <1>2, <1>4
<1>6. /\ DiskOK'
      /\ shown'[Journal] = shown[Journal] \cup {j}
      /\ \A g \in Files \ {Journal} : /\ fs'[g] = fs[g] /\ shown'[g] = shown[g]
                                      /\ staged'[g] = staged[g] /\ latest'[g] = latest[g]
  BY <1>5, LookRename, BytesFacts, FileFacts DEF IInv, TypeOK
<1>7. /\ PlainStore(b) /\ shown[Journal] = {None}
      /\ None \notin shown[ManifestFile] /\ InDir(ManifestFile) # None
  BY <1>1, <1>2, HeldFacts
<1>8. JournalStore(j)'
  BY <1>2, <1>5, <1>6, <1>7, JournalFits
<1>9. PlainStore(b)'
  <2>1. /\ StoreFiles \cup {KeysFile} \subseteq Files \ {Journal}
        /\ \A n \in UserNames : Legacy(n) \in Files
    BY FileFacts DEF StoreFiles
  <2> QED BY <1>2, <1>6, <1>7, <2>1, PlainShrinks, ShownNext
<1>10. StoreInv'
  <2>1. \A i \in shown'[Journal] \ {None} : JournalStore(i)'
    BY <1>6, <1>7, <1>8
  <2>2. keyed' => None \notin shown'[KeysFile]
    BY <1>2, <1>6, FileFacts DEF KeptInv, StoreInv
  <2> QED BY <1>9, <2>1, <2>2 DEF StoreInv
<1>11. StableInv'
  <2>1. /\ \A t \in Tags : shown'[t] = shown[t] /\ InDir(t)' = InDir(t)
        /\ shown'[ManifestFile] = shown[ManifestFile]
        /\ InDir(ManifestFile)' = InDir(ManifestFile)
    BY <1>6, FileFacts DEF InDir
  <2> QED BY <1>2, <2>1 DEF KeptInv, StableInv, UnsyncedRecord
<1>12. StagedInv' /\ OpenInv' /\ MutateInv' /\ MigrateInv'
  BY <1>2, OutsideFacts DEF Outside
<1>13. RollInv'
  BY <1>2, RollFree
<1> QED BY <1>2, <1>10, <1>11, <1>12, <1>13 DEF KeptInv

LEMMA KeptWriteJournalSync ==
    ASSUME IInv, KeptInv, WriteJournalSync
    PROVE  KeptInv'
<1>1. pc' = "recover" /\ Flush /\ UNCHANGED <<promise, keyed, refused>>
  BY DEF WriteJournalSync, SyncDir, promises
<1>2. StoreInv' /\ StableInv'
  BY <1>1, SyncStore DEF KeptInv, StoreInv
<1>3. StagedInv' /\ OpenInv' /\ MutateInv' /\ MigrateInv' /\ RollInv'
  BY <1>1, OutsideFacts, RollFree DEF Outside
<1> QED BY <1>1, <1>2, <1>3 DEF KeptInv

LEMMA FirstDirKinds ==
    ASSUME Init
    PROVE  /\ \A c \in Bundles \ {Derived}, n \in Names : InDir(Tag(c, n)) = None
           /\ InDir(Tag(Derived, LATCH)) = None
           /\ \/ \A n \in UserNames : InDir(Legacy(n)) = None
              \/ \A n \in Names : InDir(Tag(Derived, n)) = None
<1> DEFINE old == [dir |-> 0, stg |-> None]
<1>1. /\ \A c \in Bundles, n \in Names : Tag(c, n) \in Files
      /\ \A n \in UserNames : Legacy(n) \in Files
      /\ \A c \in Bundles, n, m \in Names : Tag(c, n) # Legacy(m)
      /\ \A c, d \in Bundles, n, m \in Names : Tag(c, n) = Tag(d, m) => c = d /\ n = m
      /\ Derived \in Bundles /\ LATCH \in Names /\ MARKER \in Names /\ UserNames \subseteq Names
      /\ LATCH \notin UserNames /\ LATCH # MARKER
  <2>1. /\ \A c \in Bundles, n, m \in Names : Tag(c, n) # Legacy(m)
        /\ \A c, d \in Bundles, n, m \in Names : Tag(c, n) = Tag(d, m) => c = d /\ n = m
    BY DEF Tag, Legacy
  <2> QED BY <2>1, FileFacts, CallTypes, Derivations, StoreAssumption
<1>2. CASE fs = [f \in Files |-> Absent]
  BY <1>1, <1>2, AbsentFacts DEF InDir
<1>3. ASSUME NEW ns \in SUBSET UserNames,
             fs = [f \in Files |-> IF f \in {Legacy(n) : n \in ns} THEN old ELSE Absent]
      PROVE  \A c \in Bundles, n \in Names : InDir(Tag(c, n)) = None
  BY <1>1, <1>3, AbsentFacts DEF InDir
<1>4. ASSUME NEW ns \in SUBSET UserNames,
             fs = [f \in Files |-> IF f \in {Tag(Derived, n) : n \in ns \cup {MARKER}}
                                   THEN old ELSE Absent]
      PROVE  /\ \A c \in Bundles \ {Derived}, n \in Names : InDir(Tag(c, n)) = None
             /\ InDir(Tag(Derived, LATCH)) = None
             /\ \A n \in UserNames : InDir(Legacy(n)) = None
  BY <1>1, <1>4, AbsentFacts DEF InDir
<1> HIDE DEF old
<1> QED BY <1>1, <1>2, <1>3, <1>4 DEF Init, FirstDirs, old

-----------------------------------------------------------------------------
(* A store nobody has opened with this version yet. *)

LEMMA KeptInitially == Init => KeptInv /\ PromiseOK
<1> SUFFICES ASSUME Init PROVE KeptInv /\ PromiseOK
  OBVIOUS
<1> DEFINE old == [dir |-> 0, stg |-> None]
<1>1. /\ pc = "closed" /\ ~keyed /\ ~refused /\ dur = [f \in Files |-> {fs[f]}]
      /\ promise = [n \in UserNames |->
                     {IF 0 \in {InDir(Legacy(n)), InDir(Tag(Derived, n))}
                      THEN 0 ELSE None}]
  BY DEF Init
<1>2. /\ \A f \in StoreFiles : fs[f] \in {Absent, old}
      /\ fs[ManifestFile] = Absent
      /\ \A f \in Files \ StoreFiles : fs[f] = Absent
  BY FirstDirFacts
<1>3. old.dir = 0 /\ 0 # None /\ Absent.dir = None
  BY NoneAssumption, CallTypes, AbsentFacts
<1> HIDE DEF old
<1>4. \A f \in Files : shown[f] = {InDir(f)} /\ InDir(f) = fs[f].dir
  BY <1>1 DEF shown, InDir
<1>5. /\ InDir(ManifestFile) = None /\ InDir(KeysFile) = None /\ InDir(Journal) = None
      /\ InDir(Staging) = None /\ \A f \in StoreFiles : InDir(f) \in {0, None}
  BY <1>2, <1>3, FileFacts DEF InDir
<1>6. /\ \A c \in Bundles \ {Derived}, n \in Names : InDir(Tag(c, n)) = None
      /\ InDir(Tag(Derived, LATCH)) = None
      /\ \/ \A n \in UserNames : InDir(Legacy(n)) = None
         \/ \A n \in Names : InDir(Tag(Derived, n)) = None
  BY FirstDirKinds
<1>7. /\ Derived \in Bundles /\ LATCH \in Names /\ MARKER \in Names /\ UserNames \subseteq Names
      /\ \A n \in Names, c \in Bundles : Tag(c, n) \in StoreFiles
      /\ \A n \in UserNames : Legacy(n) \in StoreFiles
      /\ StoreFiles \subseteq Files /\ {ManifestFile, KeysFile, Journal, Staging} \subseteq Files
  BY Derivations, CallTypes, FileFacts DEF StoreFiles
<1>8. PlainStore(Derived)
  <2>1. OneBundle(Derived) /\ ManifestFits(Derived) /\ FirstManifest(Derived)
    BY <1>4, <1>5, <1>6, <1>7 DEF OneBundle, ManifestFits, FirstManifest
  <2>2. Unkeyed(Derived) /\ PendingKept
    BY <1>4, <1>5, <1>7 DEF Unkeyed, PendingKept
  <2>3. LegacyFits(Derived)
    BY <1>1, <1>3, <1>4, <1>5, <1>6, <1>7 DEF LegacyFits
  <2>4. RecordsKept(Derived)
    <3> SUFFICES ASSUME NEW n \in UserNames, NEW v \in shown[Tag(Derived, n)]
                 PROVE  v \in promise[n] \/ (v = None /\ None \notin shown[Legacy(n)])
      BY DEF RecordsKept
    <3>1. v = InDir(Tag(Derived, n)) /\ v \in {0, None} /\ InDir(Legacy(n)) \in {0, None}
          /\ shown[Legacy(n)] = {InDir(Legacy(n))}
      BY <1>4, <1>5, <1>7
    <3>2. promise[n] = {IF 0 \in {InDir(Legacy(n)), InDir(Tag(Derived, n))} THEN 0 ELSE None}
      BY <1>1
    <3> QED BY <1>3, <3>1, <3>2
  <2> QED BY <2>1, <2>2, <2>3, <2>4 DEF PlainStore
<1>9. StoreInv
  BY <1>1, <1>4, <1>5, <1>7, <1>8 DEF StoreInv
<1>10. StableInv
  BY <1>4, <1>5, FileFacts DEF StableInv
<1>11. RollInv /\ StagedInv /\ OpenInv
  BY <1>1 DEF RollInv, StagedInv, OpenInv, Rollforward, InStore, Loading, Mutating, Keyed, Agreeing
<1>12. MutateInv /\ MigrateInv
  BY <1>1 DEF MutateInv, MigrateInv, Indexing, Mutating, Keyed
<1>13. PromiseOK
  BY <1>1 DEF PromiseOK
<1> QED BY <1>1, <1>9, <1>10, <1>11, <1>12, <1>13 DEF KeptInv

-----------------------------------------------------------------------------
(* The two layers together. *)

LEMMA PromiseSame == PromiseOK /\ UNCHANGED promise => PromiseOK'
BY DEF PromiseOK

LEMMA PromiseSteps == PromiseOK /\ [Next]_vars => PromiseOK'
<1> SUFFICES ASSUME PromiseOK, [Next]_vars PROVE PromiseOK'
  OBVIOUS
<1>1. CASE \E n \in UserNames : Put(n) \/ Remove(n)
  BY <1>1 DEF PromiseOK, Put, Remove
<1>2. CASE MutateSettle
  BY <1>2 DEF PromiseOK, MutateSettle
<1>3. CASE \/ \E u \in Passwords \cup {Recovery}, upgrade \in BOOLEAN : Open(u, upgrade)
           \/ RecoverDiscards \/ RecoverFinished \/ RecoverVerify
           \/ \E n \in Names : RecoverMovesRecord(n)
           \/ RecoverMovesManifest \/ RecoverMovesKeys \/ RecoverMovesSync
           \/ \E t \in Tags : RecoverDrops(t)
           \/ RecoverDropsSync \/ RecoverRemovesStaging \/ RecoverRemovesStagingSync
           \/ RecoverRemovesJournal \/ RecoverEnds
  <2>1. UNCHANGED promise
    BY <1>3 DEF Open, RecoverDiscards, RecoverFinished, RecoverVerify, RecoverMovesRecord,
       RecoverMovesManifest, RecoverMovesKeys, RecoverMovesSync, RecoverDrops,
       RecoverDropsSync, RecoverRemovesStaging, RecoverRemovesStagingSync,
       RecoverRemovesJournal, RecoverEnds, Refuse, Goto, promises
  <2> QED BY <2>1, PromiseSame
<1>4. CASE \/ UnlockKeyed \/ UnlockUpgrade \/ UnlockFresh
           \/ FreshKeys \/ FreshKeysSync \/ LoadManifest \/ AdoptSync
           \/ SettleDeletes \/ SettleDeletesSync \/ SettleWrites
           \/ \E n \in UserNames : MigrateImports(n) \/ MigrateDeletes(n)
           \/ MigrateDeletesSync \/ MigrateEnds \/ UpgradeKeys \/ UpgradeKeysSync \/ Opened
  <2>1. UNCHANGED promise
    BY <1>4 DEF UnlockKeyed, UnlockUpgrade, UnlockFresh, FreshKeys, FreshKeysSync,
       LoadManifest, AdoptSync, SettleDeletes, SettleDeletesSync, SettleWrites,
       MigrateImports, MigrateDeletes, MigrateDeletesSync, MigrateEnds, UpgradeKeys,
       UpgradeKeysSync, Opened, Refuse, Goto, promises
  <2> QED BY <2>1, PromiseSame
<1>5. CASE \/ MutatePending \/ MutatePoisoned \/ MutatePendingSync
           \/ MutateApply \/ MutateApplySync
           \/ \E p \in Passwords : RewrapPassword(p)
           \/ AddRecoveryWrap \/ KeysSync \/ Close
           \/ \E phrase \in BOOLEAN : Rekey(phrase)
           \/ Stage \/ WriteJournal \/ WriteJournalSync
           \/ PendingFails \/ PendingSyncFails \/ ApplyFails \/ ApplySyncFails
           \/ ReadBackFails \/ SettleFails \/ KeysSyncFails
           \/ StageFails \/ Kill \/ PowerLoss \/ FallsBack \/ PowerReturns
           \/ UNCHANGED vars
  <2>1. UNCHANGED promise
    BY <1>5 DEF MutatePending, MutatePoisoned, MutatePendingSync, MutateApply,
       MutateApplySync, RewrapPassword, AddRecoveryWrap, KeysSync, Close, Rekey, Stage,
       WriteJournal, WriteJournalSync, PendingFails, PendingSyncFails, ApplyFails,
       ApplySyncFails, ReadBackFails, SettleFails, KeysSyncFails, StageFails, Kill, PowerLoss, FallsBack, PowerReturns, vars, Goto, promises
  <2> QED BY <2>1, PromiseSame
<1> QED BY <1>1, <1>2, <1>3, <1>4, <1>5 DEF Next

LEMMA KeptSame ==
    ASSUME KeptInv, UNCHANGED vars
    PROVE  KeptInv'
<1>1. shown' = shown /\ staged' = staged /\ latest' = latest
      /\ UNCHANGED <<fs, dur, pc, h, todo, ret, nextB, promise, keyed, refused>>
  BY DEF vars, shown, staged, latest
<1>2. \A b : PlainStore(b) => PlainStore(b)'
  BY <1>1 DEF PlainStore, OneBundle, ManifestFits, Allows, FirstManifest, Unkeyed, LegacyFits,
     RecordsKept, PendingKept
<1>3. \A j : JournalStore(j) => JournalStore(j)'
  BY <1>1, <1>2 DEF JournalStore, SwitchFits, OldListed, StagingLast, NoLegacy, Moved
<1>4. StoreInv'
  BY <1>1, <1>2, <1>3 DEF KeptInv, StoreInv
<1>5. StableInv' /\ RollInv' /\ StagedInv'
  BY <1>1 DEF KeptInv, StableInv, RollInv, Moved, StagedInv, StagedRecords, StagedManifest, InDir
<1>6. OpenInv'
  <2>1. pc \in InStore \cup {"fsync", "journal"} => PlainStore(h.b)'
    <3>1. PICK b : b = h.b
      OBVIOUS
    <3> QED BY <1>1, <1>2, <3>1, PlainNext DEF KeptInv, OpenInv
  <2> QED BY <1>1, <2>1 DEF KeptInv, OpenInv, InDir, Found
<1>7. MutateInv' /\ MigrateInv'
  BY <1>1 DEF KeptInv, MutateInv, PendingManifest, MigrateInv, Indexing, NoLegacy, Doing, InDir
<1> QED BY <1>1, <1>4, <1>5, <1>6, <1>7 DEF KeptInv

LEMMA KeptSteps ==
    ASSUME IInv, KeptInv, PromiseOK, Next, ~torn'
    PROVE  KeptInv'
<1>1. CASE \/ \E u \in Passwords \cup {Recovery}, upgrade \in BOOLEAN : Open(u, upgrade)
           \/ RecoverDiscards \/ RecoverFinished \/ RecoverVerify
           \/ \E n \in Names : RecoverMovesRecord(n)
           \/ RecoverMovesManifest \/ RecoverMovesKeys \/ RecoverMovesSync
           \/ \E t \in Tags : RecoverDrops(t)
           \/ RecoverDropsSync \/ RecoverRemovesStaging \/ RecoverRemovesStagingSync
           \/ RecoverRemovesJournal \/ RecoverEnds
  BY <1>1, KeptOpen, KeptDiscards, KeptFinished, KeptVerify, KeptMovesRecord,
     KeptMovesManifest, KeptMovesKeys, KeptRollSyncs, KeptDrops, KeptRemovesStaging,
     KeptRemovesJournal
<1>2. CASE \/ UnlockKeyed \/ UnlockUpgrade \/ UnlockFresh
           \/ FreshKeys \/ FreshKeysSync \/ LoadManifest \/ AdoptSync
           \/ SettleDeletes \/ SettleDeletesSync \/ SettleWrites
           \/ \E n \in UserNames : MigrateImports(n) \/ MigrateDeletes(n)
           \/ MigrateDeletesSync \/ MigrateEnds \/ UpgradeKeys \/ UpgradeKeysSync \/ Opened
  BY <1>2, KeptUnlockKeyed, KeptUnlockUpgrade, KeptUnlockFresh, KeptFreshKeys,
     KeptFreshKeysSync, KeptLoad, KeptAdoptSync, KeptSettleDeletes, KeptHeldSyncs,
     KeptSettleWrites, KeptMigrateImports, KeptMigrateDeletes, KeptMigrateEnds, KeptKeySteps,
     KeptOpened
<1>3. CASE \/ \E n \in UserNames : Put(n) \/ Remove(n)
           \/ MutatePending \/ MutatePoisoned \/ MutatePendingSync
           \/ MutateApply \/ MutateApplySync \/ MutateSettle
           \/ \E p \in Passwords : RewrapPassword(p)
           \/ AddRecoveryWrap \/ KeysSync \/ Close
  BY <1>3, KeptCalls, KeptPending, KeptFailures, KeptPendingSync, KeptApply, KeptHeldSyncs,
     KeptSettle, KeptKeySteps, KeptEnds
<1>4. CASE \/ \E phrase \in BOOLEAN : Rekey(phrase)
           \/ Stage \/ WriteJournal \/ WriteJournalSync
           \/ PendingFails \/ PendingSyncFails \/ ApplyFails \/ ApplySyncFails
           \/ ReadBackFails \/ SettleFails \/ KeysSyncFails
           \/ StageFails \/ Kill \/ PowerLoss \/ FallsBack \/ PowerReturns
  BY <1>4, KeptRekey, KeptStage, KeptWriteJournal, KeptWriteJournalSync, KeptFailures,
     KeptApplyFails, KeptStageFails, KeptEnds, KeptFall, KeptPower, KeptPendingSyncFails,
     KeptHeldSyncs
<1> QED BY <1>1, <1>2, <1>3, <1>4 DEF Next

\* What a power loss has undone stays undone.
LEMMA TornStays == torn /\ [Next]_vars => torn'
<1> SUFFICES ASSUME torn, [Next]_vars PROVE torn'
  OBVIOUS
<1>1. CASE \/ \E u \in Passwords \cup {Recovery}, upgrade \in BOOLEAN : Open(u, upgrade)
           \/ RecoverDiscards \/ RecoverFinished \/ RecoverVerify
           \/ \E n \in Names : RecoverMovesRecord(n)
           \/ RecoverMovesManifest \/ RecoverMovesKeys \/ RecoverMovesSync
           \/ \E t \in Tags : RecoverDrops(t)
           \/ RecoverDropsSync \/ RecoverRemovesStaging \/ RecoverRemovesStagingSync
           \/ RecoverRemovesJournal \/ RecoverEnds
  BY <1>1 DEF Open, RecoverDiscards, RecoverFinished, RecoverVerify, RecoverMovesRecord,
     RecoverMovesManifest, RecoverMovesKeys, RecoverMovesSync, RecoverDrops,
     RecoverDropsSync, RecoverRemovesStaging, RecoverRemovesStagingSync,
     RecoverRemovesJournal, RecoverEnds, Refuse, disk, Touch, Rename, MoveIn, SyncDir, Flush
<1>2. CASE \/ UnlockKeyed \/ UnlockUpgrade \/ UnlockFresh
           \/ FreshKeys \/ FreshKeysSync \/ LoadManifest \/ AdoptSync
           \/ SettleDeletes \/ SettleDeletesSync \/ SettleWrites
           \/ \E n \in UserNames : MigrateImports(n) \/ MigrateDeletes(n)
           \/ MigrateDeletesSync \/ MigrateEnds \/ UpgradeKeys \/ UpgradeKeysSync \/ Opened
  BY <1>2 DEF UnlockKeyed, UnlockUpgrade, UnlockFresh, FreshKeys, FreshKeysSync,
     LoadManifest, AdoptSync, SettleDeletes, SettleDeletesSync, SettleWrites,
     MigrateImports, MigrateDeletes, MigrateDeletesSync, MigrateEnds, UpgradeKeys,
     UpgradeKeysSync, Opened, Refuse, disk, Touch, Rename, SyncDir, Flush
<1>3. CASE \/ \E n \in UserNames : Put(n) \/ Remove(n)
           \/ MutatePending \/ MutatePoisoned \/ MutatePendingSync
           \/ MutateApply \/ MutateApplySync \/ MutateSettle
           \/ \E p \in Passwords : RewrapPassword(p)
           \/ AddRecoveryWrap \/ KeysSync \/ Close
           \/ \E phrase \in BOOLEAN : Rekey(phrase)
           \/ Stage \/ WriteJournal \/ WriteJournalSync
  BY <1>3 DEF Put, Remove, MutatePending, MutatePoisoned, MutatePendingSync, MutateApply,
     MutateApplySync, MutateSettle, RewrapPassword, AddRecoveryWrap, KeysSync, Close, Rekey,
     Stage, WriteJournal, WriteJournalSync, disk, Touch, Rename, SyncDir, Flush
<1>4. CASE \/ PendingFails \/ PendingSyncFails \/ ApplyFails \/ ApplySyncFails
           \/ ReadBackFails \/ SettleFails \/ KeysSyncFails
           \/ StageFails \/ Kill \/ PowerLoss \/ FallsBack \/ PowerReturns
           \/ UNCHANGED vars
  BY <1>4 DEF PendingFails, PendingSyncFails, ApplyFails, ApplySyncFails, ReadBackFails,
     SettleFails, KeysSyncFails, StageFails, Kill, PowerLoss, FallsBack, PowerReturns, disk,
     Touch, LoseSync, Flush, vars
<1> QED BY <1>1, <1>2, <1>3, <1>4 DEF Next

\* Until a power loss undoes what a process went on from.
Intact == IInv /\ KeptInv /\ PromiseOK

LEMMA IntactHolds == Spec => [](torn \/ Intact)
<1>1. Init => Intact
  BY Initially, KeptInitially DEF Intact
<1>2. (torn \/ Intact) /\ [Next]_vars => (torn \/ Intact)'
  BY TornStays, IInvSteps, KeptSteps, KeptSame, PromiseSteps DEF Intact
<1> QED BY <1>1, <1>2, PTL DEF Spec

\* After any order of failed file operations, kills and power losses, an open with the
\* store's own credentials is refused only if a power loss undid a rename whose fsync
\* failed or was never reached.  Short of that, whatever each directory entry falls back
\* to, the key file, manifest, records and journal found together fit.
THEOREM NeverRefusedHolds == Spec => []NeverRefused
<1>1. torn \/ Intact => NeverRefused
  BY DEF Intact, KeptInv, NeverRefused
<1> QED BY <1>1, IntactHolds, PTL

\* The store an open hands out holds every acknowledged put and remove, and a call that
\* failed left its record in the old or the new state; a handle that is not poisoned has a
\* manifest that says what the files say.
THEOREM AckedRecordsKept == Spec => []AckedIsKept
<1>1. torn \/ Intact => AckedIsKept
  <2> SUFFICES ASSUME IInv, KeptInv, pc \in {"opened", "open"}, NEW n \in UserNames
               PROVE  /\ InDir(Tag(h.b, n)) \in promise[n]
                      /\ h.poisoned \/ h.man.e[n] = InDir(Tag(h.b, n))
    BY DEF AckedIsKept, Intact
  <2>1. PICK b \in Bundles : b = h.b
    BY DEF IInv, TypeOK, Handle
  <2>2. PlainStore(b) /\ shown[Tag(b, n)] = {InDir(Tag(b, n))} /\ n \in Names
    BY <2>1, HeldFacts, CallTypes DEF InStore, Keyed
  <2>3. None \in shown[Legacy(n)]
    <3>1. shown[Legacy(n)] # {}
      BY ShownTypes, FileFacts DEF IInv, TypeOK
    <3> QED BY <3>1 DEF KeptInv, MigrateInv, NoLegacy, Keyed
  <2>4. InDir(Tag(b, n)) \in promise[n]
    BY <2>2, <2>3 DEF PlainStore, RecordsKept
  <2>5. h.poisoned \/ h.man.e[n] = InDir(Tag(b, n))
    BY <2>1, <2>2 DEF KeptInv, OpenInv, Agreeing
  <2> QED BY <2>1, <2>4, <2>5
<1> QED BY <1>1, IntactHolds, PTL

-----------------------------------------------------------------------------
(***************************************************************************)
(* What an fsync that failed or was never reached leaves open.  Until a    *)
(* power loss brings it back, an older key file is one the store may be    *)
(* left with as well, and an older record of a retired password is gone.   *)
(***************************************************************************)

DerivedTags == {Tag(Derived, n) : n \in Names}

StaleKeys ==
    /\ \A x \in stale[KeysFile] : /\ x.dir # None => KeyOK(x.dir)
                                  /\ x.stg # None => KeyOK(x.stg)
                                  /\ okRc => x.dir # None
    /\ pc # "down" /\ InDir(KeysFile) = None =>
           \A x \in stale[KeysFile] : x.dir = None /\ x.stg = None

StaleRecords ==
    /\ \A t \in DerivedTags : \A x \in stale[t] :
           x.stg = None /\ (FirstPw \notin okPw => x.dir = None)
    /\ pc # "down" /\ InDir(ManifestFile) = None => \A t \in DerivedTags : stale[t] = {}

StaleInv ==
    /\ stale = [f \in Files |-> stale[f]]
    /\ \A f \in Files : stale[f] \subseteq Entry(f)
    /\ StaleKeys /\ StaleRecords

LEMMA DerivedFacts ==
    /\ DerivedTags \subseteq Tags /\ DerivedTags \subseteq StoreFiles
    /\ DerivedTags \subseteq Files \ {KeysFile, Staging, Journal, ManifestFile}
<1>1. \A n \in Names : Tag(Derived, n) \in Tags
  BY FileFacts, Derivations
<1> QED BY <1>1, FileFacts DEF DerivedTags

\* A step that loses nothing: no older value is added, and neither the key file nor the
\* manifest is removed.
Lasting ==
    /\ UNCHANGED <<stale, okRc>>
    /\ pc' # "down" => pc # "down"
    /\ InDir(KeysFile)' = None => InDir(KeysFile) = None
    /\ InDir(ManifestFile)' = None => InDir(ManifestFile) = None

LEMMA LastingSteps ==
    ASSUME StaleInv, Lasting, okPw \subseteq okPw'
    PROVE  StaleInv'
<1>1. StaleKeys'
  BY DEF StaleInv, Lasting, StaleKeys, KeyOK
<1>2. StaleRecords'
  BY DEF StaleInv, Lasting, StaleRecords
<1> QED BY <1>1, <1>2 DEF StaleInv, Lasting

LEMMA QuietLasts ==
    ASSUME UNCHANGED disk, UNCHANGED okRc, pc' # "down" => pc # "down"
    PROVE  Lasting
BY DEF disk, Lasting, InDir

LEMMA RenameLasts ==
    ASSUME DiskOK, NEW f \in Files, NEW v, Rename(f, v)
    PROVE  /\ stale' = stale
           /\ \A g \in Files \ {f} : InDir(g)' = InDir(g)
<1>1. fs' = [fs EXCEPT ![f].dir = v] /\ fs = [g \in Files |-> fs[g]] /\ stale' = stale
  BY DEF DiskOK, Rename, Touch
<1> QED BY <1>1 DEF InDir

LEMMA SyncClears ==
    ASSUME stale' = [f \in Files |-> {}]
    PROVE  StaleInv'
<1>1. \A f \in Files : stale'[f] = {}
  OBVIOUS
<1>2. stale'[KeysFile] = {} /\ \A t \in DerivedTags : stale'[t] = {}
  BY <1>1, FileFacts, DerivedFacts
<1>3. StaleKeys' /\ StaleRecords'
  BY <1>2 DEF StaleKeys, StaleRecords, DerivedTags
<1> QED BY <1>1, <1>3 DEF StaleInv

\* What the running process has renamed is as good as what is there.
LEMMA Renamed ==
    ASSUME Intact, pc # "down"
    PROVE  /\ \A x \in dur[KeysFile] : /\ x.dir # None => KeyOK(x.dir)
                                       /\ x.stg # None => KeyOK(x.stg)
                                       /\ okRc => x.dir # None
           /\ InDir(KeysFile) = None => \A x \in dur[KeysFile] : x.dir = None /\ x.stg = None
           /\ \A t \in DerivedTags : \A x \in dur[t] :
                  x.stg = None /\ (FirstPw \notin okPw => x.dir = None)
           /\ InDir(ManifestFile) = None => \A t \in DerivedTags : dur[t] \subseteq {fs[t]}
<1>1. IInv /\ KeptInv
  BY DEF Intact
<1>2. \A x \in dur[KeysFile] : /\ x.dir # None => KeyOK(x.dir)
                               /\ x.stg # None => KeyOK(x.stg) /\ x.dir # None
                               /\ okRc => x.dir # None
  BY <1>1 DEF IInv, KeyInv
<1>3. InDir(KeysFile) = None => \A x \in dur[KeysFile] : x.dir = None /\ x.stg = None
  <2> SUFFICES ASSUME InDir(KeysFile) = None
               PROVE  \A x \in dur[KeysFile] : x.dir = None /\ x.stg = None
    OBVIOUS
  <2>1. pc \notin {"fsync", "usync", "down"}
    BY <1>1 DEF IInv, HandleInv, InStore, Keyed, Upgrading, Loading, Mutating
  <2> QED BY <1>1, <1>2, <2>1 DEF IInv, KeyInv
<1>4. \A t \in DerivedTags : \A x \in dur[t] :
         x.stg = None /\ (FirstPw \notin okPw => x.dir = None)
  BY <1>1 DEF IInv, StagingInv, RetiredInv, DerivedTags
<1>5. ASSUME InDir(ManifestFile) = None, NEW t \in DerivedTags PROVE dur[t] \subseteq {fs[t]}
  <2>1. /\ DiskOK /\ t \in Files /\ t \in Tags
        /\ fs[t] \in dur[t] /\ dur[t] \subseteq Entry(t)
    BY <1>1, DerivedFacts DEF IInv, TypeOK, DiskOK
  <2>2. pc \notin UnsyncedRecord
    <3>1. pc \notin {"async", "settledsync"}
      BY <1>1, <1>5 DEF KeptInv, OpenInv, InStore, Mutating, Loading
    <3>2. pc \notin {"move", "movekeys", "movesync", "drop"}
      <4>1. pc \in {"move", "movekeys", "movesync", "drop"} => InDir(Journal) # None
        BY <1>1 DEF KeptInv, RollInv, Rollforward
      <4>2. InDir(Journal) \in shown[Journal] /\ InDir(ManifestFile) \in shown[ManifestFile]
        BY <2>1, Looks, FileFacts
      <4>3. InDir(Journal) # None => None \notin shown[ManifestFile]
        BY <1>1, <4>2 DEF KeptInv, StoreInv, JournalStore, SwitchFits
      <4> QED BY <1>5, <4>1, <4>2, <4>3
    <3> QED BY <3>1, <3>2 DEF UnsyncedRecord
  <2>3. shown[t] = {InDir(t)}
    BY <1>1, <2>1, <2>2 DEF KeptInv, StableInv
  <2>4. \A x \in dur[t] : x.dir = fs[t].dir /\ x.stg = None
    BY <1>4, <2>1, <2>3 DEF shown, InDir
  <2>5. fs[t].stg = None
    BY <2>1, <2>4
  <2>6. \A x \in dur[t] : x = [dir |-> x.dir, stg |-> x.stg]
    BY <2>1, EntryFacts
  <2>7. fs[t] = [dir |-> fs[t].dir, stg |-> fs[t].stg]
    BY <2>1, EntryFacts
  <2>8. \A x \in dur[t] : x = fs[t]
    BY <2>4, <2>5, <2>6, <2>7
  <2> QED BY <2>8
<1> QED BY <1>2, <1>3, <1>4, <1>5

LEMMA LoseSteps ==
    ASSUME Intact, StaleInv, LoseSync, pc # "down", UNCHANGED <<okPw, okRc>>
    PROVE  StaleInv'
<1>1. /\ fs' = fs /\ stale' = [f \in Files |-> (stale[f] \cup dur[f]) \ {fs[f]}]
  BY DEF LoseSync, Flush
<1>2. \A f \in Files : stale'[f] \subseteq stale[f] \cup (dur[f] \ {fs[f]})
  BY <1>1
<1>3. \A f \in Files : stale'[f] \subseteq Entry(f)
  BY <1>2 DEF StaleInv, Intact, IInv, TypeOK, DiskOK
<1>4. InDir(KeysFile)' = InDir(KeysFile) /\ InDir(ManifestFile)' = InDir(ManifestFile)
  BY <1>1 DEF InDir
<1>5. StaleKeys'
  <2>1. \A x \in stale'[KeysFile] : x \in stale[KeysFile] \/ x \in dur[KeysFile]
    BY <1>2, FileFacts
  <2>2. StaleKeys
    BY DEF StaleInv
  <2> QED BY <1>4, <2>1, <2>2, Renamed DEF StaleKeys, KeyOK
<1>6. StaleRecords'
  <2>1. \A t \in DerivedTags : \A x \in stale'[t] :
           x \in stale[t] \/ (x \in dur[t] /\ x # fs[t])
    BY <1>2, DerivedFacts
  <2>2. StaleRecords
    BY DEF StaleInv
  <2>3. \A t \in DerivedTags : \A x \in stale'[t] :
           x.stg = None /\ (FirstPw \notin okPw => x.dir = None)
    BY <2>1, <2>2, Renamed DEF StaleRecords
  <2>4. InDir(ManifestFile) = None => \A t \in DerivedTags : stale'[t] = {}
    BY <2>1, <2>2, Renamed DEF StaleRecords
  <2> QED BY <1>4, <2>3, <2>4 DEF StaleRecords, DerivedTags
<1> QED BY <1>1, <1>3, <1>5, <1>6 DEF StaleInv


LEMMA StaleQuiet ==
    ASSUME StaleInv,
           \/ \E u \in Passwords \cup {Recovery}, upgrade \in BOOLEAN : Open(u, upgrade)
           \/ RecoverFinished \/ RecoverVerify
           \/ UnlockKeyed \/ UnlockUpgrade \/ UnlockFresh
           \/ \E n \in UserNames : MigrateImports(n)
           \/ MigrateEnds \/ Opened
           \/ \E n \in UserNames : Put(n) \/ Remove(n)
           \/ MutatePoisoned \/ Close \/ PendingFails \/ ApplyFails \/ ReadBackFails
           \/ SettleFails \/ PowerLoss
    PROVE  StaleInv'
<1>1. UNCHANGED disk /\ UNCHANGED <<okPw, okRc>>
  BY DEF Open, RecoverFinished, RecoverVerify, UnlockKeyed, UnlockUpgrade, UnlockFresh,
     MigrateImports, MigrateEnds, Opened, Put, Remove, MutatePoisoned, Close, PendingFails,
     ApplyFails, ReadBackFails, SettleFails, PowerLoss, Refuse, Goto, promises
<1>2. pc # "down" \/ PowerLoss
  BY DEF Open, RecoverFinished, RecoverVerify, UnlockKeyed, UnlockUpgrade, UnlockFresh,
     MigrateImports, MigrateEnds, Opened, Put, Remove, MutatePoisoned, Close, PendingFails,
     ApplyFails, ReadBackFails, SettleFails
<1>3. pc' # "down" => pc # "down"
  BY <1>2 DEF PowerLoss
<1> QED BY <1>1, <1>3, QuietLasts, LastingSteps

LEMMA StaleSyncs ==
    ASSUME StaleInv,
           \/ RecoverMovesSync \/ RecoverDropsSync \/ RecoverRemovesStagingSync \/ RecoverEnds
           \/ FreshKeysSync \/ AdoptSync \/ SettleDeletesSync \/ MigrateDeletesSync
           \/ UpgradeKeysSync \/ MutatePendingSync \/ MutateApplySync \/ KeysSync
           \/ WriteJournalSync \/ PowerReturns
    PROVE  StaleInv'
<1>1. stale' = [f \in Files |-> {}]
  BY DEF RecoverMovesSync, RecoverDropsSync, RecoverRemovesStagingSync, RecoverEnds,
     FreshKeysSync, AdoptSync, SettleDeletesSync, MigrateDeletesSync, UpgradeKeysSync,
     MutatePendingSync, MutateApplySync, KeysSync, WriteJournalSync, PowerReturns, SyncDir
<1> QED BY <1>1, SyncClears

LEMMA StaleLosses ==
    ASSUME Intact, StaleInv, Kill \/ PendingSyncFails \/ ApplySyncFails \/ KeysSyncFails
    PROVE  StaleInv'
<1>1. LoseSync /\ pc # "down" /\ UNCHANGED <<okPw, okRc>>
  BY DEF Kill, PendingSyncFails, ApplySyncFails, KeysSyncFails, promises
<1> QED BY <1>1, LoseSteps

\* Records and the journal come and go; the manifest and the key file only get newer.
LEMMA StaleRecordWrites ==
    ASSUME Intact, StaleInv,
           \/ \E t \in Tags : RecoverDrops(t)
           \/ RecoverRemovesJournal \/ SettleDeletes
           \/ \E n \in UserNames : MigrateDeletes(n)
           \/ MutateApply \/ WriteJournal
    PROVE  StaleInv'
<1>1. UNCHANGED <<okPw, okRc>> /\ pc # "down"
  BY DEF RecoverDrops, RecoverRemovesJournal, SettleDeletes, MigrateDeletes, MutateApply,
     WriteJournal, Goto, promises
<1>2. DiskOK /\ h \in Handle /\ IInv
  BY DEF Intact, IInv, TypeOK
<1>3. \/ UNCHANGED disk
      \/ \E f \in Files \ {KeysFile, ManifestFile} : \E v : Rename(f, v)
  <2>1. ASSUME NEW t \in Tags, RecoverDrops(t)
        PROVE  \E f \in Files \ {KeysFile, ManifestFile} : \E v : Rename(f, v)
    <3>1. t \in Files \ {KeysFile, ManifestFile} /\ Rename(t, None)
      BY <2>1, FileFacts DEF RecoverDrops
    <3> QED BY <3>1
  <2>2. ASSUME RecoverRemovesJournal \/ WriteJournal
        PROVE  \E f \in Files \ {KeysFile, ManifestFile} : \E v : Rename(f, v)
    <3>1. Journal \in Files \ {KeysFile, ManifestFile}
      BY FileFacts DEF Journal, ManifestFile
    <3>2. \E v : Rename(Journal, v)
      BY <2>2 DEF RecoverRemovesJournal, WriteJournal
    <3> QED BY <3>1, <3>2
  <2>3. ASSUME SettleDeletes, ~ UNCHANGED disk
        PROVE  \E f \in Files \ {KeysFile, ManifestFile} : \E v : Rename(f, v)
    <3>1. pc = "settledel" /\ Rename(Tag(h.b, h.man.p.n), None)
      BY <2>3 DEF SettleDeletes
    <3>2. h.b \in Bundles /\ h.man \in Manifest /\ h.man.p # None
      BY <1>2, <3>1 DEF IInv, CallInv, Handle, Keyed, Mutating
    <3>3. h.man.p.n \in Names
      BY <3>2 DEF Manifest
    <3>4. Tag(h.b, h.man.p.n) \in Files \ {KeysFile, ManifestFile}
      BY <3>2, <3>3, FileFacts
    <3> QED BY <3>1, <3>4
  <2>4. ASSUME NEW n \in UserNames, MigrateDeletes(n)
        PROVE  \E f \in Files \ {KeysFile, ManifestFile} : \E v : Rename(f, v)
    <3>1. Legacy(n) \in Files \ {KeysFile, ManifestFile}
      BY SyncedFacts, FileFacts
    <3> QED BY <2>4, <3>1 DEF MigrateDeletes
  <2>5. ASSUME MutateApply
        PROVE  \E f \in Files \ {KeysFile, ManifestFile} : \E v : Rename(f, v)
    <3>1. pc = "apply" /\ Rename(DoingTag, Doing.v)
      BY <2>5 DEF MutateApply
    <3>2. h.b \in Bundles /\ Doing.n \in Names
      BY <1>2, <3>1, MutationTypes DEF Handle, Mutation, Mutating
    <3>3. DoingTag \in Files \ {KeysFile, ManifestFile}
      BY <3>2, FileFacts DEF DoingTag
    <3> QED BY <3>1, <3>3
  <2> QED BY <2>1, <2>2, <2>3, <2>4, <2>5
<1>4. CASE UNCHANGED disk
  BY <1>1, <1>4, QuietLasts, LastingSteps
<1>5. ASSUME NEW f \in Files \ {KeysFile, ManifestFile}, NEW v, Rename(f, v) PROVE Lasting
  <2>1. stale' = stale /\ \A g \in Files \ {f} : InDir(g)' = InDir(g)
    BY <1>2, <1>5, RenameLasts
  <2> QED BY <1>1, <2>1, FileFacts DEF Lasting
<1> QED BY <1>1, <1>3, <1>4, <1>5, LastingSteps

LEMMA StaleManifests ==
    ASSUME Intact, Intact', StaleInv,
           LoadManifest \/ SettleWrites \/ MutatePending \/ MutateSettle
    PROVE  StaleInv'
<1>1. UNCHANGED <<okPw, okRc>> /\ pc # "down"
  BY DEF LoadManifest, SettleWrites, MutatePending, MutateSettle, Refuse, Goto, promises
<1>2. DiskOK /\ IInv /\ KeptInv /\ IInv' /\ ManifestFile \in Files /\ KeysFile # ManifestFile
      /\ KeysFile \in Files
  BY FileFacts DEF Intact, IInv, TypeOK
<1>3. CASE UNCHANGED disk
  BY <1>1, <1>3, QuietLasts, LastingSteps
<1>4. ASSUME NEW v, Rename(ManifestFile, v), InDir(ManifestFile)' # None PROVE StaleInv'
  <2>1. stale' = stale /\ \A g \in Files \ {ManifestFile} : InDir(g)' = InDir(g)
    BY <1>2, <1>4, RenameLasts
  <2> QED BY <1>1, <1>2, <1>4, <2>1, LastingSteps DEF Lasting
<1>5. CASE LoadManifest
  <2>1. \/ UNCHANGED disk
        \/ pc' = "adopt" /\ \E v : Rename(ManifestFile, v)
    BY <1>5 DEF LoadManifest, Refuse
  <2>2. pc' = "adopt" => InDir(ManifestFile)' # None
    BY <1>2 DEF IInv, CallInv
  <2> QED BY <1>3, <1>4, <2>1, <2>2
<1>6. CASE SettleWrites \/ MutatePending
  <2>1. pc' \in {"adopt", "psync"} /\ \E v : Rename(ManifestFile, v)
    BY <1>6 DEF SettleWrites, MutatePending, Goto
  <2>2. InDir(ManifestFile)' # None
    BY <1>2, <2>1 DEF IInv, CallInv
  <2> QED BY <1>4, <2>1, <2>2
<1>7. CASE MutateSettle
  <2>1. pc = "settle" /\ Rename(ManifestFile, SettledManifest)
    BY <1>7 DEF MutateSettle
  <2>2. SettledManifest \in Manifest
    BY <1>2, <2>1, SettledFacts
  <2>3. fs'[ManifestFile] = [dir |-> SettledManifest, stg |-> fs[ManifestFile].stg]
    BY <1>2, <2>1, <2>2, RenameFacts, BytesFacts
  <2>4. InDir(ManifestFile)' # None
    BY <2>2, <2>3, NoneAssumption DEF InDir
  <2> QED BY <1>4, <2>1, <2>4
<1> QED BY <1>5, <1>6, <1>7


\* A fresh store's key file is the first thing the disk may hold.
LEMMA StaleKeyWrites ==
    ASSUME Intact, Intact', StaleInv,
           FreshKeys \/ UpgradeKeys \/ AddRecoveryWrap \/ \E p \in Passwords : RewrapPassword(p)
    PROVE  StaleInv'
<1>1. DiskOK /\ IInv /\ IInv' /\ ManifestFile \in Files /\ KeysFile # ManifestFile
      /\ KeysFile \in Files
  BY FileFacts DEF Intact, IInv, TypeOK
<1>2. /\ \E v : Rename(KeysFile, v)
      /\ okRc' = okRc /\ pc # "down" /\ pc' \in {"fsync", "usync", "ksync"}
  BY DEF FreshKeys, UpgradeKeys, AddRecoveryWrap, RewrapPassword, Goto, promises
<1>3. stale' = stale /\ InDir(ManifestFile)' = InDir(ManifestFile)
  BY <1>1, <1>2, RenameLasts
<1>4. InDir(KeysFile)' # None
  BY <1>1, <1>2 DEF IInv, HandleInv, InStore, Keyed, Upgrading, Loading, Mutating
<1>5. Lasting
  BY <1>2, <1>3, <1>4 DEF Lasting
<1>6. CASE UpgradeKeys \/ AddRecoveryWrap \/ \E p \in Passwords : RewrapPassword(p)
  <2>1. okPw \subseteq okPw'
    BY <1>6 DEF UpgradeKeys, AddRecoveryWrap, RewrapPassword, Goto, promises
  <2> QED BY <1>5, <2>1, LastingSteps
<1>7. CASE FreshKeys
  <2>1. pc = "fkeys"
    BY <1>7 DEF FreshKeys
  <2>2. InDir(KeysFile) = None /\ InDir(ManifestFile) = None
    BY <1>1, <2>1, FileFacts DEF IInv, HandleInv
  <2>3. /\ \A x \in stale[KeysFile] : x.dir = None /\ x.stg = None
        /\ \A t \in DerivedTags : stale[t] = {}
    BY <2>1, <2>2 DEF StaleInv, StaleKeys, StaleRecords
  <2>4. \A x \in stale[KeysFile] : okRc => x.dir # None
    BY DEF StaleInv, StaleKeys
  <2>5. StaleKeys'
    BY <1>2, <1>3, <1>4, <2>3, <2>4 DEF StaleKeys
  <2>6. StaleRecords'
    BY <1>3, <2>3 DEF StaleRecords, DerivedTags
  <2> QED BY <1>3, <2>5, <2>6 DEF StaleInv
<1> QED BY <1>6, <1>7

LEMMA StaleStaging ==
    ASSUME Intact, StaleInv,
           \/ RecoverDiscards \/ RecoverRemovesStaging \/ StageFails
           \/ \E phrase \in BOOLEAN : Rekey(phrase)
    PROVE  StaleInv'
<1>1. DiskOK /\ nextB \in Bundles /\ KeysFile \in Files \ {Staging}
      /\ ManifestFile \in Files \ {Staging}
  BY FileFacts DEF Intact, IInv, TypeOK, ManifestFile, Staging
<1>2. UNCHANGED <<okPw, okRc>> /\ pc # "down"
  BY DEF RecoverDiscards, RecoverRemovesStaging, StageFails, Rekey, Goto, promises
<1>3. CASE RecoverDiscards \/ RecoverRemovesStaging \/ StageFails
  <2>1. Touch(WithoutStaging(fs))
    BY <1>3 DEF RecoverDiscards, RecoverRemovesStaging, StageFails
  <2>2. \A g \in Files \ {Staging} : fs'[g] = [dir |-> fs[g].dir, stg |-> None]
    BY <1>1, <2>1, DropFacts
  <2>3. InDir(KeysFile)' = InDir(KeysFile) /\ InDir(ManifestFile)' = InDir(ManifestFile)
    <3>1. fs'[KeysFile] = [dir |-> fs[KeysFile].dir, stg |-> None]
      BY <1>1, <2>2
    <3>2. fs'[ManifestFile] = [dir |-> fs[ManifestFile].dir, stg |-> None]
      BY <1>1, <2>2
    <3> QED BY <3>1, <3>2 DEF InDir
  <2>4. stale' = stale
    BY <2>1 DEF Touch
  <2> QED BY <1>2, <2>3, <2>4, LastingSteps DEF Lasting
<1>4. CASE \E phrase \in BOOLEAN : Rekey(phrase)
  <2>1. PICK b : b = nextB + 1
    OBVIOUS
  <2>2. b \in Bundles /\ Touch([WithoutStaging(fs) EXCEPT ![Staging].dir = b])
    BY <1>1, <1>4, <2>1, StoreAssumption DEF Rekey, Bundles
  <2>3. \A g \in Files \ {Staging} : fs'[g] = [dir |-> fs[g].dir, stg |-> None]
    BY <1>1, <2>2, MakeFacts
  <2>4. InDir(KeysFile)' = InDir(KeysFile) /\ InDir(ManifestFile)' = InDir(ManifestFile)
    <3>1. fs'[KeysFile] = [dir |-> fs[KeysFile].dir, stg |-> None]
      BY <1>1, <2>3
    <3>2. fs'[ManifestFile] = [dir |-> fs[ManifestFile].dir, stg |-> None]
      BY <1>1, <2>3
    <3> QED BY <3>1, <3>2 DEF InDir
  <2>5. stale' = stale
    BY <2>2 DEF Touch
  <2> QED BY <1>2, <2>4, <2>5, LastingSteps DEF Lasting
<1> QED BY <1>3, <1>4

LEMMA StaleMoves ==
    ASSUME Intact, StaleInv,
           (\E n \in Names : RecoverMovesRecord(n)) \/ RecoverMovesManifest \/ RecoverMovesKeys
    PROVE  StaleInv'
<1>1. /\ DiskOK /\ IInv /\ KeysFile \in Files /\ ManifestFile \in Files
      /\ KeysFile # ManifestFile
  BY FileFacts DEF Intact, IInv, TypeOK
<1>2. UNCHANGED <<okPw, okRc>> /\ pc # "down"
  BY DEF RecoverMovesRecord, RecoverMovesManifest, RecoverMovesKeys, Goto
<1>3. ASSUME NEW f \in Files, MoveIn(f), f \in {KeysFile, ManifestFile} => Staged(f) # None
      PROVE  StaleInv'
  <2>1. /\ fs'[f] = [dir |-> fs[f].stg, stg |-> None]
        /\ \A g \in Files \ {f} : fs'[g] = fs[g]
    BY <1>1, <1>3, MoveFacts
  <2>2. stale' = stale
    BY <1>3 DEF MoveIn, Touch
  <2>3. f \in {KeysFile, ManifestFile} => fs[f].stg # None
    BY <1>3 DEF Staged
  <2>4. Lasting
    BY <1>1, <1>2, <2>1, <2>2, <2>3 DEF Lasting, InDir
  <2> QED BY <1>2, <2>4, LastingSteps
<1>4. CASE UNCHANGED disk
  BY <1>2, <1>4, QuietLasts, LastingSteps
<1>5. ASSUME NEW n \in Names, RecoverMovesRecord(n) PROVE StaleInv'
  <2>1. PICK t : t = Tag(InDir(Journal).b, n)
    OBVIOUS
  <2>2. pc = "move" /\ MoveIn(t)
    BY <1>5, <2>1 DEF RecoverMovesRecord
  <2>3. InDir(Journal) \in JournalFile
    <3>1. InDir(Journal) # None
      BY <1>1, <2>2 DEF IInv, HandleInv
    <3> QED BY <1>1, <3>1, InDirType, BytesFacts, FileFacts
  <2>4. t \in Files \ {KeysFile, ManifestFile}
    BY <2>1, <2>3, FileFacts DEF JournalFile
  <2> QED BY <1>3, <2>2, <2>4
<1>6. CASE RecoverMovesManifest
  BY <1>1, <1>3, <1>4, <1>6 DEF RecoverMovesManifest
<1>7. CASE RecoverMovesKeys
  BY <1>1, <1>3, <1>4, <1>7 DEF RecoverMovesKeys
<1> QED BY <1>5, <1>6, <1>7

LEMMA StaleStage ==
    ASSUME Intact, StaleInv, Stage
    PROVE  StaleInv'
<1> DEFINE new == {Tag(nextB, n) : n \in Names}
           st(f) == CASE f \in new -> StagedRecords[f[3]]
                      [] f = ManifestFile -> StagedManifest
                      [] f = KeysFile -> [b |-> nextB, pw |-> h.u, rc |-> h.imported]
                      [] OTHER -> None
           to(x, f) == [x EXCEPT !.stg = st(f)]
<1>1. /\ stale' = [f \in Files |-> IF f = Staging THEN {} ELSE {to(x, f) : x \in stale[f]}]
      /\ fs' = [f \in Files |-> to(fs[f], f)]
      /\ UNCHANGED <<okPw, okRc>> /\ pc = "stage"
  BY DEF Stage, Goto
<1>2. IInv /\ TypeOK /\ DiskOK /\ h.man # None /\ h.derived /\ (okRc => h.imported)
      /\ nextB # Derived /\ h.u = FirstPw /\ FirstPw \in okPw /\ nextB \in Bundles
  BY <1>1 DEF Intact, IInv, TypeOK, CallInv, Keyed, HandleInv, StagingInv, InStore
<1>3. NewKeys \in KeyFile /\ KeyOK(NewKeys)
  <2>1. h.imported \in BOOLEAN /\ FirstPw \in Passwords
    BY <1>2, Derivations DEF TypeOK, Handle
  <2> QED BY <1>2, <2>1 DEF NewKeys, KeyFile, KeyOK
<1>4. new \subseteq Tags /\ \A f \in new : f[3] \in Names /\ f[2] = nextB
  BY <1>2 DEF Tags, Tag
<1>5. st(KeysFile) = NewKeys /\ \A t \in DerivedTags : st(t) = None
  <2>1. st(KeysFile) = NewKeys
    BY <1>4, FileFacts DEF NewKeys
  <2>2. \A t \in DerivedTags : t \notin new
    <3>1. \A t \in DerivedTags : t[2] = Derived
      BY DEF DerivedTags, Tag
    <3> QED BY <1>2, <1>4, <3>1
  <2>3. \A t \in DerivedTags : t # ManifestFile /\ t # KeysFile
    BY DerivedFacts
  <2> QED BY <2>1, <2>2, <2>3
<1>6. \A f \in Files : st(f) \in StgBytes(f) \cup {None}
  <2> SUFFICES ASSUME NEW f \in Files PROVE st(f) \in StgBytes(f) \cup {None}
    OBVIOUS
  <2>1. StagedRecords \in [Names -> Contents \cup {None}] /\ StagedManifest \in Manifest
    BY <1>2, StagedTypes
  <2>2. CASE f \in new
    BY <1>4, <2>1, <2>2, BytesFacts, FileFacts DEF StgBytes
  <2>3. CASE f \notin new /\ f = ManifestFile
    BY <2>1, <2>3, BytesFacts, FileFacts DEF StgBytes, ManifestFile, Staging
  <2>4. CASE f \notin new /\ f # ManifestFile /\ f = KeysFile
    BY <1>3, <1>5, <2>4, BytesFacts, FileFacts DEF StgBytes
  <2>5. CASE f \notin new /\ f # ManifestFile /\ f # KeysFile
    BY <2>5
  <2> QED BY <2>2, <2>3, <2>4, <2>5
<1> HIDE DEF st, new
<1>7. \A f \in Files : \A x \in stale[f] : to(x, f) = [dir |-> x.dir, stg |-> st(f)]
  <2>1. \A f \in Files : stale[f] \subseteq Entry(f)
    BY DEF StaleInv
  <2> QED BY <2>1, EntryFacts
<1>8. \A f \in Files : \A y \in stale'[f] : \E x \in stale[f] : y = [dir |-> x.dir, stg |-> st(f)]
  <2> SUFFICES ASSUME NEW f \in Files, NEW y \in stale'[f]
               PROVE  \E x \in stale[f] : y = [dir |-> x.dir, stg |-> st(f)]
    OBVIOUS
  <2>1. stale'[f] = IF f = Staging THEN {} ELSE {to(x, f) : x \in stale[f]}
    BY <1>1
  <2> HIDE DEF to
  <2>2. PICK x \in stale[f] : y = to(x, f)
    BY <2>1
  <2> QED BY <1>7, <2>2
<1>9. \A f \in Files : stale'[f] \subseteq Entry(f)
  <2>1. \A f \in Files : \A x \in stale[f] : x.dir \in Bytes(f) \cup {None}
    BY EntryFacts DEF StaleInv
  <2> QED BY <1>6, <1>8, <2>1 DEF Entry
<1>10. stale' = [f \in Files |-> stale'[f]]
  BY <1>1
<1>11. InDir(KeysFile)' # None
  <2>1. InDir(KeysFile) # None
    BY <1>1, <1>2 DEF IInv, HandleInv, InStore, Keyed, Upgrading, Loading, Mutating
  <2>2. fs'[KeysFile].dir = fs[KeysFile].dir
    <3>1. fs[KeysFile] \in Entry(KeysFile) /\ KeysFile \in Files
      BY <1>2, FileFacts DEF DiskOK
    <3>2. to(fs[KeysFile], KeysFile) = [dir |-> fs[KeysFile].dir, stg |-> st(KeysFile)]
      BY <3>1, EntryFacts
    <3> QED BY <1>1, <3>1, <3>2
  <2> QED BY <2>1, <2>2 DEF InDir
<1>12. StaleKeys'
  <2>1. \A y \in stale'[KeysFile] : \E x \in stale[KeysFile] : y.dir = x.dir /\ y.stg = NewKeys
    BY <1>5, <1>8, FileFacts
  <2>2. \A x \in stale[KeysFile] : (x.dir # None => KeyOK(x.dir)) /\ (okRc => x.dir # None)
    BY DEF StaleInv, StaleKeys
  <2>3. \A y \in stale'[KeysFile] :
            /\ y.dir # None => KeyOK(y.dir)
            /\ y.stg # None => KeyOK(y.stg)
            /\ okRc => y.dir # None
    BY <1>3, <2>1, <2>2
  <2>4. okPw' = okPw /\ okRc' = okRc
    BY <1>1
  <2> HIDE <1>1
  <2> QED BY <1>11, <2>3, <2>4 DEF StaleKeys, KeyOK
<1>13. StaleRecords'
  <2>1. \A t \in DerivedTags : \A y \in stale'[t] : \E x \in stale[t] : y.dir = x.dir /\ y.stg = None
    BY <1>5, <1>8, DerivedFacts
  <2>2. InDir(ManifestFile)' = InDir(ManifestFile)
    <3>1. fs[ManifestFile] \in Entry(ManifestFile) /\ ManifestFile \in Files
      BY <1>2, FileFacts DEF DiskOK
    <3>2. to(fs[ManifestFile], ManifestFile) = [dir |-> fs[ManifestFile].dir, stg |-> st(ManifestFile)]
      BY <3>1, EntryFacts
    <3> QED BY <1>1, <3>1, <3>2 DEF InDir
  <2>3. StaleRecords
    BY DEF StaleInv
  <2>4. \A t \in DerivedTags : stale[t] = {} => stale'[t] = {}
    BY <2>1
  <2>5. okPw' = okPw /\ pc # "down"
    BY <1>1
  <2>6. \A t \in DerivedTags : \A y \in stale'[t] : y.stg = None /\ (FirstPw \notin okPw => y.dir = None)
    BY <2>1, <2>3 DEF StaleRecords
  <2>7. InDir(ManifestFile) = None => \A t \in DerivedTags : stale'[t] = {}
    BY <2>3, <2>4, <2>5 DEF StaleRecords
  <2>8. DerivedTags' = DerivedTags
    BY DEF DerivedTags
  <2> HIDE <1>1
  <2> QED BY <2>2, <2>5, <2>6, <2>7, <2>8 DEF StaleRecords
<1> QED BY <1>9, <1>10, <1>12, <1>13 DEF StaleInv


LEMMA StaleFalls ==
    ASSUME StaleInv, FallsBack
    PROVE  StaleInv'
<1> DEFINE f == CHOOSE f \in Unsynced : TRUE
<1>1. f \in Files
  BY DEF FallsBack, Unsynced
<1> HIDE DEF f
<1>2. stale' = [stale EXCEPT ![f] = {}] /\ pc' = "down" /\ UNCHANGED <<okPw, okRc>>
  BY DEF FallsBack, Goto, f
<1>3. stale' = [g \in Files |-> stale'[g]] /\ \A g \in Files : stale'[g] \subseteq stale[g]
  BY <1>1, <1>2 DEF StaleInv
<1>4. StaleKeys'
  <2>1. \A x \in stale'[KeysFile] : x \in stale[KeysFile]
    BY <1>3, FileFacts
  <2> QED BY <1>2, <2>1 DEF StaleInv, StaleKeys, KeyOK
<1>5. StaleRecords'
  <2>1. \A t \in DerivedTags : \A x \in stale'[t] : x \in stale[t]
    BY <1>3, DerivedFacts
  <2> QED BY <1>2, <2>1 DEF StaleInv, StaleRecords, DerivedTags
<1> QED BY <1>3, <1>4, <1>5 DEF StaleInv

LEMMA StaleSteps ==
    ASSUME Intact, Intact', StaleInv, [Next]_vars
    PROVE  StaleInv'
<1>1. CASE UNCHANGED vars
  BY <1>1, QuietLasts, LastingSteps DEF vars, disk
<1>2. CASE Next
  BY <1>2, StaleQuiet, StaleSyncs, StaleLosses, StaleRecordWrites, StaleManifests,
     StaleKeyWrites, StaleStaging, StaleMoves, StaleStage, StaleFalls DEF Next
<1> QED BY <1>1, <1>2

LEMMA StaleHolds == Spec => [](torn \/ (Intact /\ StaleInv))
<1>1. Init => StaleInv
  <2> SUFFICES ASSUME Init PROVE StaleInv
    OBVIOUS
  <2>1. stale = [f \in Files |-> {}]
    BY DEF Init
  <2>2. stale[KeysFile] = {} /\ \A t \in DerivedTags : stale[t] = {}
    BY <2>1, FileFacts, DerivedFacts
  <2> QED BY <2>1, <2>2 DEF StaleInv, StaleKeys, StaleRecords
<1>2. Init => Intact
  BY Initially, KeptInitially DEF Intact
<1>3. /\ torn \/ (Intact /\ StaleInv)
      /\ (torn \/ Intact)'
      /\ [Next]_vars
      => (torn \/ (Intact /\ StaleInv))'
  BY TornStays, StaleSteps
<1> QED BY <1>1, <1>2, <1>3, IntactHolds, PTL DEF Spec

\* An acknowledged recovery slot is in every key file the disk may hold, older ones that an
\* fsync failed to replace included: no order of password changes, rekeys, failures and
\* power losses brings one back without it, as long as no power loss has undone a rename
\* without its fsync.
THEOREM SlotSurvives == Spec => [](~torn => RecoverySlotKept)
<1>1. torn \/ (Intact /\ StaleInv) => (~torn => RecoverySlotKept)
  <2> SUFFICES ASSUME Intact, StaleInv, okRc, NEW x \in MayBe(KeysFile)
               PROVE  /\ x.dir # None /\ x.dir.rc
                      /\ x.stg # None => x.stg.rc
    BY DEF RecoverySlotKept
  <2>1. /\ x.dir # None => KeyOK(x.dir)
        /\ x.stg # None => KeyOK(x.stg)
        /\ okRc => x.dir # None
    BY DEF MayBe, Intact, IInv, KeyInv, StaleInv, StaleKeys
  <2> QED BY <2>1 DEF KeyOK
<1> QED BY <1>1, StaleHolds, PTL

\* A password that is no longer the store's opens no key file the disk may hold, and if the
\* old keys were derived from it, no record keyed with them is left either, up to the same
\* power loss.
THEOREM RetiredOpensNothing == Spec => [](~torn => OldPasswordRetired)
<1>1. torn \/ (Intact /\ StaleInv) => (~torn => OldPasswordRetired)
  <2> SUFFICES ASSUME Intact, StaleInv, NEW p \in Passwords \ okPw
               PROVE  /\ \A x \in MayBe(KeysFile) : \A k \in {x.dir, x.stg} : k # None => k.pw # p
                      /\ p = FirstPw => \A n \in Names : MayBe(Tag(Derived, n)) = {Absent}
    BY DEF OldPasswordRetired
  <2>1. \A x \in MayBe(KeysFile) : \A k \in {x.dir, x.stg} : k # None => k.pw # p
    <3>1. \A x \in MayBe(KeysFile) : /\ x.dir # None => KeyOK(x.dir)
                                     /\ x.stg # None => KeyOK(x.stg)
      BY DEF MayBe, Intact, IInv, KeyInv, StaleInv, StaleKeys
    <3> QED BY <3>1 DEF KeyOK
  <2>2. ASSUME p = FirstPw, NEW n \in Names PROVE MayBe(Tag(Derived, n)) = {Absent}
    <3>1. PICK t : t = Tag(Derived, n)
      OBVIOUS
    <3>2. t \in DerivedTags /\ t \in Files
      BY <3>1, DerivedFacts DEF DerivedTags
    <3>3. fs[t] \in dur[t] /\ dur[t] \subseteq Entry(t) /\ stale[t] \subseteq Entry(t)
      BY <3>2 DEF Intact, IInv, TypeOK, DiskOK, StaleInv
    <3>4. \A x \in dur[t] \cup stale[t] : x.dir = None /\ x.stg = None
      <4>1. \A x \in dur[t] : x.dir = None /\ x.stg = None
        BY <2>2, <3>1 DEF Intact, IInv, RetiredInv, StagingInv
      <4>2. \A x \in stale[t] : x.dir = None /\ x.stg = None
        BY <2>2, <3>2 DEF StaleInv, StaleRecords
      <4> QED BY <4>1, <4>2
    <3>5. \A x \in dur[t] \cup stale[t] : x = [dir |-> x.dir, stg |-> x.stg]
      BY <3>2, <3>3, EntryFacts
    <3>6. \A x \in dur[t] \cup stale[t] : x = Absent
      BY <3>4, <3>5 DEF Absent
    <3>7. dur[t] \cup stale[t] = {Absent}
      BY <3>3, <3>6
    <3> QED BY <3>1, <3>7 DEF MayBe
  <2> QED BY <2>1, <2>2
<1> QED BY <1>1, StaleHolds, PTL

=============================================================================
