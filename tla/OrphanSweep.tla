----------------------------- MODULE OrphanSweep -----------------------------
(***************************************************************************)
(* sweep_orphaned_storage_objects: the job that deletes the objects of the *)
(* bucket that no row of media_blobs names.  It is the one job that        *)
(* removes user data on the word of a comparison, so it is guarded: the    *)
(* prefix must be owned (verify_region_ownership), the object past its     *)
(* grace period, the share of orphans small and the deletions few.         *)
(*                                                                         *)
(* Two environments may be misconfigured to share a bucket and a region,   *)
(* each with a database of its own; a database may be pointed elsewhere or *)
(* restored without its rows.  Within an environment the advisory lock     *)
(* GC_LOCK_MEDIA_ORPHANS keeps one sweep at a time.  A page of the listing *)
(* never exceeds one DeleteObjects call.                                   *)
(***************************************************************************)
EXTENDS Integers, FiniteSets, FiniteSetsExt

CONSTANTS
    Env,
    Key,            \* storage keys in listing order
    Home,           \* Home[k]: the environment that hands out key k
    PAGE,           \* keys per list_objects_v2 page
    MIN_SAMPLE,     \* ORPHAN_RATIO_ABORT_MIN_SAMPLE
    PERCENT,        \* ORPHAN_RATIO_ABORT_THRESHOLD_PERCENT
    PRE_SAMPLE,     \* ORPHAN_PRE_SAMPLE_MAX_DELETES
    MAX_DELETES,    \* media_orphan_sweep_max_deletes_per_run
    None

ASSUME SweepAssumption ==
    /\ Key \subseteq Nat \ {0}
    /\ Home \in [Key -> Env]
    /\ PAGE \in Nat \ {0} /\ MIN_SAMPLE \in Nat \ {0} /\ PERCENT \in 0..100
    /\ PRE_SAMPLE \in Nat /\ MAX_DELETES \in Nat
    /\ None \notin Env

\* The ownership marker .owner, listed before every media key.
Sentinel == 0

VARIABLES
    rows,       \* keys with a row in their environment's media_blobs
    url,        \* keys with an upload URL still valid
    used,       \* keys handed out so far
    object,     \* keys in the bucket
    aged,       \* those last modified before the grace period, the marker among them
    owner,      \* what the marker says: an environment, or None without a marker
    sweep,      \* sweep[e]: where environment e's sweep is
    trusted     \* history: environments whose sweep ever passed the gate

database == <<rows, used>>
bucket == <<url, object, aged>>
vars == <<database, bucket, owner, sweep, trusted>>

\* The page being worked on and the run's totals: where the listing is and whether it
\* goes on, keys past their grace, orphans found, deletions attempted.
Idle == [pc |-> "idle", page |-> {}, after |-> -1, more |-> FALSE,
         checked |-> 0, found |-> 0, attempted |-> 0]

Init ==
    /\ rows = {} /\ url = {} /\ used = {}
    /\ object = {} /\ aged = {}
    /\ owner = None
    /\ sweep = [e \in Env |-> Idle]
    /\ trusted = {}

(***************************************************************************)
(* What the sweep compares.  A row is committed before its URL exists; the *)
(* client's PUT comes when it comes; a row goes after its object, or alone *)
(* by a cascade.  An object ages past the grace period only long after its *)
(* URL has lapsed: the configuration refuses a shorter one.                *)
(***************************************************************************)
save(k) ==
    /\ k \notin used
    /\ used' = used \cup {k}
    /\ rows' = rows \cup {k}
    /\ url' = url \cup {k}
    /\ UNCHANGED <<object, aged, owner, sweep, trusted>>

put(k) ==
    /\ k \in url
    /\ object' = object \cup {k}
    /\ UNCHANGED <<database, url, aged, owner, sweep, trusted>>

delete(k, taken) ==
    /\ k \in rows
    /\ object' = object \ taken
    /\ aged' = aged \ taken
    /\ rows' = rows \ {k}
    /\ UNCHANGED <<used, url, owner, sweep, trusted>>

grow_old(k) ==
    /\ k \in object \ aged
    /\ aged' = aged \cup {k}
    /\ url' = url \ {k}
    /\ UNCHANGED <<database, object, owner, sweep, trusted>>

marker_grows_old ==
    /\ owner # None /\ Sentinel \notin aged
    /\ aged' = aged \cup {Sentinel}
    /\ UNCHANGED <<database, url, object, owner, sweep, trusted>>

\* The environment's database is restored, or replaced, without its media rows.
lose_rows(e) ==
    /\ \E k \in rows : Home[k] = e
    /\ rows' = {k \in rows : Home[k] # e}
    /\ UNCHANGED <<used, bucket, owner, sweep, trusted>>

(***************************************************************************)
(* verify_region_ownership: read the marker; claim the prefix when there   *)
(* is none, with a PUT that fails if one has appeared; read again.         *)
(***************************************************************************)
Goto(e, frame) == sweep' = [sweep EXCEPT ![e] = frame]

tick(e) ==
    /\ sweep[e] = Idle
    /\ Goto(e, [Idle EXCEPT !.pc = "read"])
    /\ UNCHANGED <<database, bucket, owner, trusted>>

owner_matches(e) ==
    IF owner = e
    THEN /\ Goto(e, [Idle EXCEPT !.pc = "list"])
         /\ trusted' = trusted \cup {e}
    ELSE /\ Goto(e, Idle)
         /\ UNCHANGED trusted

read_owner_sentinel(e) ==
    /\ sweep[e].pc = "read"
    /\ IF owner = None
       THEN Goto(e, [Idle EXCEPT !.pc = "claim"]) /\ UNCHANGED trusted
       ELSE owner_matches(e)
    /\ UNCHANGED <<database, bucket, owner>>

claim_unconditionally(e) ==                    \* mutant: no If-None-Match
    /\ sweep[e].pc = "claim"
    /\ owner' = e
    /\ Goto(e, [Idle EXCEPT !.pc = "verify"])
    /\ UNCHANGED <<database, bucket, trusted>>

claim(e) ==
    /\ sweep[e].pc = "claim"
    /\ owner' = IF owner = None THEN e ELSE owner
    /\ Goto(e, [Idle EXCEPT !.pc = "verify"])
    /\ UNCHANGED <<database, bucket, trusted>>

verify(e) ==
    /\ sweep[e].pc = "verify"
    /\ owner_matches(e)
    /\ UNCHANGED <<database, bucket, owner>>

(***************************************************************************)
(* A page: list it, compare it with the rows, delete its orphans.          *)
(***************************************************************************)
Listed(after) ==
    {k \in object \cup (IF owner = None THEN {} ELSE {Sentinel}) : k > after}
Page(after) == {k \in Listed(after) : Cardinality({x \in Listed(after) : x < k}) < PAGE}

\* The marker has no row: it is left out by its name.
candidates(page) == (page \ {Sentinel}) \cap aged

list_objects(e) ==
    /\ sweep[e].pc = "list"
    /\ LET page == Page(sweep[e].after)
           more == Listed(sweep[e].after) # page
           old == candidates(page)
       IN Goto(e, IF old = {} /\ ~more THEN Idle
                  ELSE [sweep[e] EXCEPT !.pc = IF old = {} THEN "list" ELSE "rows",
                                        !.page = old, !.more = more,
                                        !.after = Max(page \cup {@}),
                                        !.checked = @ + Cardinality(old)])
    /\ UNCHANGED <<database, bucket, owner, trusted>>

\* Only the environment's own database is asked.
known_first(e, keys) ==                        \* mutant: = $1 for = ANY($1)
    {k \in keys : k \in rows /\ Home[k] = e /\ k = Min(keys)}

known(e, keys) == {k \in keys : k \in rows /\ Home[k] = e}

ratio_guard(checked, found) == checked >= MIN_SAMPLE /\ found * 100 >= checked * PERCENT

effective_cap_unsampled(checked) == MAX_DELETES + 0 * checked \* mutant: no small cap

effective_cap(checked) ==
    IF checked < MIN_SAMPLE THEN Min({PRE_SAMPLE, MAX_DELETES}) ELSE MAX_DELETES

\* The keys of the chunk that the run's budget still allows, the first ones.
Chunk(orphans, budget) == {k \in orphans : Cardinality({x \in orphans : x < k}) < budget}

\* Where the page's end leads: the next page, if there is one.
AfterPage(frame) ==
    IF frame.more THEN [frame EXCEPT !.pc = "list", !.page = {}] ELSE Idle

compare_rows(e) ==
    /\ sweep[e].pc = "rows"
    /\ LET orphans == sweep[e].page \ known(e, sweep[e].page)
           found == sweep[e].found + Cardinality(orphans)
           cap == effective_cap(sweep[e].checked)
           chunk == Chunk(orphans, cap - sweep[e].attempted)
           frame == [sweep[e] EXCEPT !.found = found]
       IN Goto(e, CASE ratio_guard(sweep[e].checked, found) -> Idle
                    [] orphans = {} -> AfterPage(frame)
                    [] orphans # {} /\ chunk = {} -> Idle
                    [] OTHER -> [frame EXCEPT !.pc = "delete", !.page = chunk,
                                              !.attempted = @ + Cardinality(chunk)])
    /\ UNCHANGED <<database, bucket, owner, trusted>>

\* DeleteObjects; keys may fail one by one.
delete_object_batch(e, deleted) ==
    /\ sweep[e].pc = "delete"
    /\ object' = object \ deleted
    /\ aged' = aged \ deleted
    /\ owner' = IF Sentinel \in deleted THEN None ELSE owner
    /\ Goto(e, AfterPage(sweep[e]))
    /\ UNCHANGED <<database, url, trusted>>

\* A call or a query fails, the timeout ends the run, or the replica dies.
sweep_fails(e) ==
    /\ sweep[e] # Idle
    /\ Goto(e, Idle)
    /\ UNCHANGED <<database, bucket, owner, trusted>>

Sweep(e) ==
    \/ tick(e)
    \/ read_owner_sentinel(e)
    \/ claim(e)
    \/ verify(e)
    \/ list_objects(e)
    \/ compare_rows(e)
    \/ \E deleted \in SUBSET sweep[e].page : delete_object_batch(e, deleted)
    \/ sweep_fails(e)

Next ==
    \/ \E k \in Key : save(k) \/ put(k) \/ grow_old(k) \/ delete(k, {}) \/ delete(k, {k})
    \/ marker_grows_old
    \/ \E e \in Env : lose_rows(e) \/ Sweep(e)

Spec == Init /\ [][Next]_vars

-----------------------------------------------------------------------------
\* Of the environments that share a prefix, one alone ever sweeps it, whatever the order
\* of their first reads and claims: If-None-Match decides, and no sweep takes the marker.
OneOwner == Cardinality(trusted) <= 1

\* An object goes while a row names it only by a delete of the service, or by a sweep of
\* another environment: rows are compared after the listing, and an object's row was
\* committed before the object could be stored.
NamedIsKept ==
    [][\A k \in object \ object' :
           k \in rows /\ rows' = rows =>
               \E e \in Env \ {Home[k]} : sweep[e].pc = "delete" /\ k \in sweep[e].page]_vars

\* A run over a database that has lost its rows, or over another's objects, deletes
\* PRE_SAMPLE objects, or fewer than PERCENT of those it examined, before it stops.
BlastRadius ==
    \A e \in Env :
        /\ sweep[e].attempted <= MAX_DELETES
        /\ \/ sweep[e].attempted <= PRE_SAMPLE
           \/ sweep[e].attempted * 100 < sweep[e].checked * PERCENT
===============================================================================
