-------------------------------- MODULE Media --------------------------------
(***************************************************************************)
(* Encrypted media in one region: MediaService over R2MediaAdapter (the    *)
(* tables media_blobs, media_acks and media_upload_ledger, and the object  *)
(* of each blob in R2), with the hourly collection that every replica of   *)
(* the server runs under the advisory lock GC_LOCK_MEDIA_BLOBS.            *)
(*                                                                         *)
(* The tables and the bucket share no transaction: each statement and each *)
(* call to R2 is a step.  A blob's age is the only clock: 0 inside the     *)
(* quota's 24 hours, 1 past them, 2 past GC_RETENTION_DAYS.  A pre-signed  *)
(* upload URL (900 seconds) lapses with age 0.  Blobs age on their own,    *)
(* which allows every order in which they can have been uploaded.  Nothing *)
(* in the service sets expires_at.                                         *)
(***************************************************************************)
EXTENDS Integers, FiniteSets, FiniteSetsExt

CONSTANTS
    Device,
    Sender,         \* the devices that upload
    Blob,           \* media ids, in the order list_gc_candidates pages through
    Request,        \* requests that may be in flight at once
    Replica,        \* server replicas, each with its own collection loop; they are
                    \* alike, so of two idle ones the first is taken to tick
    Size,           \* sizes in (0, MAX_MEDIA_BYTES]
    QUOTA,          \* MAX_MEDIA_BYTES_PER_DEVICE_PER_DAY
    GC_BATCH_SIZE,
    MaxUpsets,      \* bound: failures, and changes of the membership
    None

ASSUME MediaAssumption ==
    /\ Sender \subseteq Device
    /\ Blob \subseteq Nat \ {0} /\ Replica \subseteq Nat \ {0}
    /\ Size \subseteq Nat \ {0} /\ Size # {} /\ IsFiniteSet(Size)
    /\ IsFiniteSet(Blob) /\ IsFiniteSet(Request) /\ Request # {}
    /\ QUOTA \in Nat
    /\ GC_BATCH_SIZE \in Nat \ {0}
    /\ MaxUpsets \in Nat

VARIABLES
    devices,    \* rows of devices
    members,    \* group_members of the one group
    row,        \* row[b]: b's row of media_blobs, or None
    ledger,     \* ledger[b]: b's row of media_upload_ledger, or None
    age,        \* age[b]: how long ago b was uploaded
    acks,       \* acks[b]: b's rows of media_acks
    object,     \* blobs whose object is in the bucket
    url,        \* blobs with an upload URL still valid
    req,        \* req[q]: the request q is running
    gc,         \* gc[r]: where replica r's collection is
    lock,       \* the replica whose session holds the advisory lock, or None
    upsets,     \* failures and changes of the membership so far
    stray       \* history: objects stored after a deletion, or whose row a cascade took

tables == <<devices, members, row, ledger, age, acks>>
bucket == <<object, url>>
vars == <<tables, bucket, req, gc, lock, upsets, stray>>

MediaBlob == [uploader : Device, shared : BOOLEAN]
ASSUME NoneAssumption == None \notin MediaBlob
Free == [pc |-> "free"]

\* Where a collection is: the candidates of its page it has not done, each as the page
\* returned it; the cursor; whether the page was full; the acks the first one needs.
\* joined is history: who became a member since the collection read the members.
Idle == [pc |-> "idle", batch |-> <<>>, after |-> 0, full |-> FALSE,
         required |-> {}, joined |-> {}]

Init ==
    /\ devices = Device
    /\ members \in {Device, Sender}
    /\ row = [b \in Blob |-> None]
    /\ ledger = [b \in Blob |-> None]
    /\ age = [b \in Blob |-> 0]
    /\ acks = [b \in Blob |-> {}]
    /\ object = {}
    /\ url = {}
    /\ req = [q \in Request |-> Free]
    /\ gc = [r \in Replica |-> Idle]
    /\ lock = None
    /\ upsets = 0
    /\ stray = {}

Upset == upsets < MaxUpsets /\ upsets' = upsets + 1

(***************************************************************************)
(* request_upload: the membership check, the quota read, the row with its  *)
(* ledger entry, the URL.                                                  *)
(***************************************************************************)
request_upload(q, d, size, shared) ==
    /\ req[q] = Free
    /\ d \in devices
    /\ shared => d \in members
    /\ req' = [req EXCEPT ![q] = [pc |-> "quota", dev |-> d, size |-> size,
                                  shared |-> shared]]
    /\ UNCHANGED <<tables, bucket, gc, lock, upsets, stray>>

\* sum_bytes_uploaded_since: the ledger's rows of the last day, deleted blobs included.
UploadedToday(d) == {b \in Blob : ledger[b] # None /\ ledger[b].dev = d /\ age[b] = 0}
Bytes(blobs) == MapThenSumSet(LAMBDA b : ledger[b].size, blobs)

live_bytes(d) ==                                  \* mutant: sums the live blobs
    Bytes({b \in UploadedToday(d) : row[b] # None})

sum_bytes_uploaded_since(d) == Bytes(UploadedToday(d))

quota(q) ==
    /\ req[q].pc = "quota"
    /\ req' = [req EXCEPT ![q] =
                  IF sum_bytes_uploaded_since(req[q].dev) + req[q].size > QUOTA
                  THEN Free ELSE [@ EXCEPT !.pc = "save"]]
    /\ UNCHANGED <<tables, bucket, gc, lock, upsets, stray>>

\* Blob row and ledger row in one transaction, under an id never used before; the
\* uploader's foreign key fails once the device is gone.
save(q, b) ==
    /\ req[q].pc = "save"
    /\ ledger[b] = None /\ age[b] = 0
    /\ IF req[q].dev \in devices
       THEN /\ row' = [row EXCEPT ![b] = [uploader |-> req[q].dev, shared |-> req[q].shared]]
            /\ ledger' = [ledger EXCEPT ![b] = [dev |-> req[q].dev, size |-> req[q].size]]
            /\ req' = [req EXCEPT ![q] = [pc |-> "presign", blob |-> b]]
       ELSE /\ req' = [req EXCEPT ![q] = Free]
            /\ UNCHANGED <<row, ledger>>
    /\ UNCHANGED <<devices, members, age, acks, bucket, gc, lock, upsets, stray>>

presigned_upload_url(q) ==
    /\ req[q].pc = "presign"
    /\ url' = IF row[req[q].blob] = None THEN url ELSE url \cup {req[q].blob}
    /\ req' = [req EXCEPT ![q] = Free]
    /\ UNCHANGED <<tables, object, gc, lock, upsets, stray>>

(***************************************************************************)
(* The client's PUT, straight to R2: whenever its URL is valid, whatever   *)
(* became of the row meanwhile.                                            *)
(***************************************************************************)
First(r) == Min(DOMAIN gc[r].batch)
Deleting(b) ==
    \/ row[b] = None
    \/ \E q \in Request : req[q].pc = "row" /\ req[q].blob = b
    \/ \E r \in Replica : gc[r].pc = "row" /\ First(r) = b

put(b) ==
    /\ b \in url
    /\ object' = object \cup {b}
    /\ stray' = IF Deleting(b) THEN stray \cup {b} ELSE stray
    /\ UNCHANGED <<tables, url, req, gc, lock, upsets>>

(***************************************************************************)
(* confirm_download: a member other than the uploader acks.  The insert's  *)
(* foreign keys drop an ack whose blob or device is gone by then.          *)
(***************************************************************************)
confirm_download(q, d, b) ==
    /\ req[q] = Free
    /\ row[b] # None /\ row[b].shared /\ row[b].uploader # d
    /\ d \in members
    /\ req' = [req EXCEPT ![q] = [pc |-> "ack", dev |-> d, blob |-> b]]
    /\ UNCHANGED <<tables, bucket, gc, lock, upsets, stray>>

record_ack(q) ==
    /\ req[q].pc = "ack"
    /\ LET b == req[q].blob IN
           acks' = IF row[b] # None /\ req[q].dev \in devices
                   THEN [acks EXCEPT ![b] = @ \cup {req[q].dev}] ELSE acks
    /\ req' = [req EXCEPT ![q] = Free]
    /\ UNCHANGED <<devices, members, row, ledger, age, bucket, gc, lock, upsets, stray>>

(***************************************************************************)
(* delete: by the uploader; the repository reads the row again, deletes    *)
(* the object, then the row.                                               *)
(***************************************************************************)
delete(q, d, b) ==
    /\ req[q] = Free
    /\ row[b] # None /\ row[b].uploader = d
    /\ req' = [req EXCEPT ![q] = [pc |-> "object", blob |-> b]]
    /\ UNCHANGED <<tables, bucket, gc, lock, upsets, stray>>

DropObject(b) ==
    LET gone == IF row[b] = None THEN {} ELSE {b} IN
    /\ object' = object \ gone
    /\ stray' = stray \ gone
DropRow(b) ==
    /\ row' = [row EXCEPT ![b] = None]
    /\ acks' = [acks EXCEPT ![b] = {}]

delete_object_ignored(q) ==                    \* mutant: R2's error is not returned
    /\ req[q].pc = "object"
    /\ req' = [req EXCEPT ![q].pc = "row"]
    /\ UNCHANGED <<tables, bucket, gc, lock, upsets, stray>>

delete_object(q) ==
    /\ req[q].pc = "object"
    /\ DropObject(req[q].blob)
    /\ req' = [req EXCEPT ![q].pc = "row"]
    /\ UNCHANGED <<tables, url, gc, lock, upsets>>

delete_row(q) ==
    /\ req[q].pc = "row"
    /\ DropRow(req[q].blob)
    /\ req' = [req EXCEPT ![q] = Free]
    /\ UNCHANGED <<devices, members, ledger, age, bucket, gc, lock, upsets, stray>>

\* A statement or a call fails, or the client's connection drops: the handler ends.
request_fails(q) ==
    /\ Upset
    /\ req[q] # Free
    /\ req' = [req EXCEPT ![q] = Free]
    /\ UNCHANGED <<tables, bucket, gc, lock, stray>>

(***************************************************************************)
(* The hourly collection.  A tick that finds the lock held does nothing.   *)
(***************************************************************************)
Goto(r, frame) == gc' = [gc EXCEPT ![r] = frame]

try_lock(r) ==
    /\ gc[r] = Idle /\ \A x \in Replica : x < r => gc[x] # Idle
    /\ lock = None
    /\ lock' = r
    /\ Goto(r, [Idle EXCEPT !.pc = "list"])
    /\ UNCHANGED <<tables, bucket, req, upsets, stray>>

Expired(b) == row[b] # None /\ age[b] = 2
Page(after) ==
    LET found == {b \in Blob : b > after /\ Expired(b)}
    IN {b \in found : Cardinality({x \in found : x < b}) < GC_BATCH_SIZE}

\* The first page past the cursor, which moves to the page's end before any delete.
FromPage(page, after) ==
    [Idle EXCEPT !.pc = IF page = {} THEN "release" ELSE "members",
                 !.batch = [b \in page |-> row[b]],
                 !.after = after,
                 !.full = Cardinality(page) = GC_BATCH_SIZE]

list_gc_candidates_stuck(r) ==                 \* mutant: the cursor does not advance
    /\ gc[r].pc = "list"
    /\ Goto(r, FromPage(Page(gc[r].after), gc[r].after))
    /\ UNCHANGED <<tables, bucket, req, lock, upsets, stray>>

list_gc_candidates(r) ==
    /\ gc[r].pc = "list"
    /\ LET page == Page(gc[r].after) IN Goto(r, FromPage(page, Max(page \cup {0})))
    /\ UNCHANGED <<tables, bucket, req, lock, upsets, stray>>

\* Once the first candidate is done: the rest of its page, the next page, or the end
\* after a page that was short.
Done(r) ==
    LET rest == DOMAIN gc[r].batch \ {First(r)} IN
    IF rest # {}
    THEN [gc[r] EXCEPT !.pc = "members", !.batch = [b \in rest |-> gc[r].batch[b]],
                       !.required = {}, !.joined = {}]
    ELSE IF gc[r].full
         THEN [Idle EXCEPT !.pc = "list", !.after = gc[r].after]
         ELSE [Idle EXCEPT !.pc = "release"]

\* The devices that must have acked: the group's members now, without the uploader.
required_ackers(blob) == IF blob.shared THEN members \ {blob.uploader} ELSE {}

read_members(r) ==
    /\ gc[r].pc = "members"
    /\ LET required == required_ackers(gc[r].batch[First(r)]) IN
           Goto(r, [gc[r] EXCEPT !.pc = IF required = {} THEN "object" ELSE "acks",
                                 !.required = required])
    /\ UNCHANGED <<tables, bucket, req, lock, upsets, stray>>

all_acked_unread(r) == r \in Replica              \* mutant: the acks are not consulted

all_acked(r) == gc[r].required \subseteq acks[First(r)]

read_acks(r) ==
    /\ gc[r].pc = "acks"
    /\ Goto(r, IF all_acked(r) THEN [gc[r] EXCEPT !.pc = "object"] ELSE Done(r))
    /\ UNCHANGED <<tables, bucket, req, lock, upsets, stray>>

collect_object(r) ==
    /\ gc[r].pc = "object"
    /\ DropObject(First(r))
    /\ Goto(r, [gc[r] EXCEPT !.pc = "row"])
    /\ UNCHANGED <<tables, url, req, lock, upsets>>

collect_row(r) ==
    /\ gc[r].pc = "row"
    /\ DropRow(First(r))
    /\ Goto(r, Done(r))
    /\ UNCHANGED <<devices, members, ledger, age, bucket, req, lock, upsets, stray>>

\* release: the unlock, or the end of the session that held the lock if it fails.
release(r) ==
    /\ gc[r].pc = "release"
    /\ Goto(r, Idle)
    /\ lock' = IF lock = r THEN None ELSE lock
    /\ UNCHANGED <<tables, bucket, req, upsets, stray>>

(***************************************************************************)
(* Failures: any statement or call fails, or the sweep's timeout drops it    *)
(* between two; the replica dies, and the lock with its session; or only   *)
(* the session dies, and the sweep goes on without the lock.               *)
(***************************************************************************)
Sweeping(r) == gc[r].pc \notin {"idle", "release"}

gc_fails(r) ==
    /\ Upset
    /\ Sweeping(r)
    /\ Goto(r, [Idle EXCEPT !.pc = "release"])
    /\ UNCHANGED <<tables, bucket, req, lock, stray>>

replica_dies(r) ==
    /\ Upset
    /\ gc[r] # Idle
    /\ Goto(r, Idle)
    /\ lock' = IF lock = r THEN None ELSE lock
    /\ UNCHANGED <<tables, bucket, req, stray>>

session_dies(r) ==
    /\ Upset
    /\ lock = r
    /\ lock' = None
    /\ UNCHANGED <<tables, bucket, req, gc, stray>>

(***************************************************************************)
(* What goes on around: membership, the deletion of a revoked device and   *)
(* its foreign keys' cascades, time, and the daily trim of the ledger.     *)
(***************************************************************************)
join(d) ==
    /\ Upset
    /\ d \in devices \ members
    /\ members' = members \cup {d}
    /\ gc' = [r \in Replica |-> [gc[r] EXCEPT !.joined =
                                    IF gc[r].pc \in {"acks", "object", "row"}
                                    THEN @ \cup {d} ELSE @]]
    /\ UNCHANGED <<devices, row, ledger, age, acks, bucket, req, lock, stray>>

leave(d) ==
    /\ Upset
    /\ d \in members
    /\ members' = members \ {d}
    /\ UNCHANGED <<devices, row, ledger, age, acks, bucket, req, gc, lock, stray>>

delete_device(d) ==
    /\ Upset
    /\ d \in devices
    /\ devices' = devices \ {d}
    /\ members' = members \ {d}
    /\ LET own == {b \in Blob : row[b] # None /\ row[b].uploader = d} IN
           /\ row' = [b \in Blob |-> IF b \in own THEN None ELSE row[b]]
           /\ acks' = [b \in Blob |-> IF b \in own THEN {} ELSE acks[b] \ {d}]
           /\ stray' = stray \cup (own \cap object)
    /\ UNCHANGED <<ledger, age, bucket, req, gc, lock>>

pass_time(b) ==
    /\ ledger[b] # None \/ row[b] # None
    /\ age[b] < 2
    /\ \A q \in Request : req[q].pc = "presign" => req[q].blob # b
    /\ age' = [age EXCEPT ![b] = @ + 1]
    /\ url' = url \ {b}
    /\ UNCHANGED <<devices, members, row, ledger, acks, object, req, gc, lock, upsets, stray>>

\* trim_upload_ledger_older_than(now - GC_RETENTION_DAYS), its batches drained.
trim_upload_ledger ==
    /\ \E b \in Blob : ledger[b] # None /\ age[b] = 2
    /\ ledger' = [b \in Blob |-> IF age[b] = 2 THEN None ELSE ledger[b]]
    /\ UNCHANGED <<devices, members, row, age, acks, bucket, req, gc, lock, upsets, stray>>

Collect(r) ==
    \/ try_lock(r)
    \/ list_gc_candidates(r)
    \/ read_members(r)
    \/ read_acks(r)
    \/ collect_object(r)
    \/ collect_row(r)
    \/ release(r)

Next ==
    \/ \E q \in Request :
           \/ \E d \in Sender, n \in Size, s \in BOOLEAN : request_upload(q, d, n, s)
           \/ quota(q)
           \/ \E b \in Blob : save(q, b)
           \/ presigned_upload_url(q)
           \/ \E d \in Device, b \in Blob : confirm_download(q, d, b) \/ delete(q, d, b)
           \/ record_ack(q)
           \/ delete_object(q)
           \/ delete_row(q)
           \/ request_fails(q)
    \/ \E r \in Replica : Collect(r) \/ gc_fails(r) \/ replica_dies(r) \/ session_dies(r)
    \/ \E b \in Blob : put(b) \/ pass_time(b)
    \/ \E d \in Device : join(d) \/ leave(d) \/ delete_device(d)
    \/ trim_upload_ledger

\* Some replica's loop ticks for ever, and its statements and calls answer or time out.
Spec == Init /\ [][Next]_vars /\ WF_vars(\E r \in Replica : Collect(r))

-----------------------------------------------------------------------------
\* A blob's object goes while its row is there only because its uploader asked, or
\* because the collection found it past the retention and acked by every member it has,
\* but for those who joined after run_gc_batched read the members.
UnackedIsKept ==
    [][\A b \in object \ object' :
           \/ \E q \in Request : req[q].pc = "object" /\ req[q].blob = b
           \/ /\ age[b] = 2
              /\ \E r \in Replica :
                     /\ gc[r].pc = "object" /\ First(r) = b
                     /\ row[b].shared =>
                            members \ {row[b].uploader} \subseteq acks[b] \cup gc[r].joined]_vars

\* An object without a row is one whose PUT landed after a delete had passed it, or whose
\* uploader's device was deleted: delete takes the object before the row, so that no
\* failure between the two leaves one behind.
OrphansAreLate == \A b \in object : row[b] = None => b \in stray

\* However requests interleave and whatever the device deletes, a device gets a day's
\* quota, and one more blob for each other request in flight.
QuotaHolds ==
    \A d \in Device :
        Bytes(UploadedToday(d)) <= QUOTA + (Cardinality(Request) - 1) * Max(Size)

\* A blob past the retention that every member has acked is collected, although pages
\* hold blobs that stay, sweeps fail and the lock's session dies.
Collectable(b) == Expired(b) /\ required_ackers(row[b]) \subseteq acks[b]
AckedIsCollected == \A b \in Blob : []<>~Collectable(b)

\* Does not hold (README, 6): media_service.rs calls the retention a "fallback
\* retention ceiling for blobs that are never fully acknowledged".
CeilingHolds == \A b \in Blob : Expired(b) ~> row[b] = None
===============================================================================
