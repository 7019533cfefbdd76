-------------------------- MODULE OrphanSweepProofs --------------------------
(***************************************************************************)
(* What holds of OrphanSweep for every set of environments and keys and    *)
(* every threshold: one environment alone sweeps a prefix, an object that  *)
(* a row names is not swept by the row's environment, and a run deletes    *)
(* few objects or a small share of those it examined.                      *)
(***************************************************************************)
EXTENDS OrphanSweep, FiniteSetTheorems, WellFoundedInduction, TLAPS

Frame == [pc : {"idle", "read", "claim", "verify", "list", "rows", "delete"},
          page : SUBSET Key, after : Int, more : BOOLEAN,
          checked : Nat, found : Nat, attempted : Nat]

\* Objects and rows are of keys that were handed out; none is the marker's.
TypeOK ==
    /\ used \subseteq Key
    /\ rows \subseteq used /\ url \subseteq used
    /\ object \subseteq used /\ IsFiniteSet(object)
    /\ aged \subseteq object \cup {Sentinel}
    /\ owner \in Env \cup {None}
    /\ sweep \in [Env -> Frame]
    /\ trusted \subseteq Env

\* The run's totals: it attempts no more than it found, and what it attempted was
\* within the small cap or, when it was decided on, a share below PERCENT.
Counted(f) ==
    /\ f.attempted <= f.found
    /\ f.attempted <= MAX_DELETES
    /\ f.attempted <= PRE_SAMPLE \/ f.attempted * 100 < f.checked * PERCENT

\* A page holds keys that were handed out; what is about to be deleted has no row in
\* the sweep's own database.
FrameOK(e, f) ==
    /\ f.page \subseteq used /\ IsFiniteSet(f.page)
    /\ f.pc = "delete" => \A k \in f.page : Home[k] = e => k \notin rows
    /\ Counted(f)

IInv ==
    /\ TypeOK
    /\ trusted \subseteq {owner}
    /\ \A e \in Env : FrameOK(e, sweep[e])

-----------------------------------------------------------------------------
\* A finite set of integers has a greatest element.
LEMMA FiniteMax ==
    ASSUME NEW S, IsFiniteSet(S), S \subseteq Int, S # {}
    PROVE  \E x \in S : \A y \in S : y <= x
<1> DEFINE Above(x) == {y \in S : y > x}
           A == {Above(x) : x \in S}
<1>1. A \subseteq FiniteSubsetsOf(S) /\ A # {}
  <2>1. \A x \in S : Above(x) \in SUBSET S /\ IsFiniteSet(Above(x))
    BY FS_Subset
  <2> HIDE DEF Above
  <2> QED BY <2>1 DEF FiniteSubsetsOf
<1>2. PICK U \in A : \A V \in A : <<V, U>> \notin StrictSubsetOrdering(S)
  <2> HIDE DEF A
  <2> QED BY <1>1, FS_StrictSubsetOrderingWellFounded, WFMin
<1>3. PICK x \in S : U = Above(x)
  OBVIOUS
<1>4. ASSUME NEW y \in S, y > x PROVE FALSE
  <2>1. Above(y) \in A /\ Above(y) \in SUBSET S /\ Above(x) \in SUBSET S
    OBVIOUS
  <2>2. Above(y) \subseteq Above(x) /\ Above(y) # Above(x)
    <3>1. y \in Above(x) /\ y \notin Above(y)
      BY <1>4
    <3>2. \A z \in S : z > y => z > x
      BY <1>4
    <3> QED BY <3>1, <3>2
  <2> HIDE DEF Above, A
  <2> QED BY <1>2, <1>3, <2>1, <2>2 DEF StrictSubsetOrdering
<1> QED BY <1>4

LEMMA MaxIsInt ==
    ASSUME NEW S, IsFiniteSet(S), S \subseteq Int, S # {}
    PROVE  Max(S) \in Int
  BY FiniteMax DEF Max

LEMMA MinOfTwo ==
    ASSUME NEW a \in Int, NEW b \in Int
    PROVE  Min({a, b}) \in Int /\ Min({a, b}) <= a /\ Min({a, b}) <= b
<1>1. \E x \in {a, b} : \A y \in {a, b} : x <= y
  OBVIOUS
<1>2. Min({a, b}) \in {a, b} /\ \A y \in {a, b} : Min({a, b}) <= y
  BY <1>1 DEF Min
<1> QED BY <1>2

\* The first keys that a budget allows are no more than the budget.
LEMMA ChunkIsSmall ==
    ASSUME NEW S, IsFiniteSet(S), S \subseteq Int, NEW b \in Int, Chunk(S, b) # {}
    PROVE  IsFiniteSet(Chunk(S, b)) /\ Cardinality(Chunk(S, b)) <= b
<1> DEFINE C == Chunk(S, b)
<1>1. C \subseteq S /\ IsFiniteSet(C) /\ C \subseteq Int
  BY FS_Subset DEF Chunk
<1>2. PICK k \in C : \A y \in C : y <= k
  <2>1. C # {}
    OBVIOUS
  <2> HIDE DEF C
  <2> QED BY <1>1, <2>1, FiniteMax
<1> DEFINE lower == {x \in S : x < k}
<1>3. IsFiniteSet(lower) /\ Cardinality(lower) < b /\ C \ {k} \subseteq lower
  <2>1. IsFiniteSet(lower)
    BY FS_Subset
  <2>2. Cardinality(lower) < b
    BY DEF Chunk
  <2>3. C \ {k} \subseteq lower
    <3> HIDE DEF C
    <3> QED BY <1>1, <1>2
  <2> QED BY <2>1, <2>2, <2>3
<1> HIDE DEF C, lower
<1>4. Cardinality(C \ {k}) <= Cardinality(lower) /\ Cardinality(C \ {k}) = Cardinality(C) - 1
  BY <1>1, <1>3, FS_Subset, FS_RemoveElement
<1>5. Cardinality(lower) \in Nat /\ Cardinality(C) \in Nat
  BY <1>1, <1>3, FS_CardinalityType
<1>6. Cardinality(C) <= b
  BY <1>3, <1>4, <1>5
<1> QED BY <1>1, <1>6 DEF C

\* A share of more objects is a larger number.
LEMMA ShareGrows ==
    ASSUME NEW a \in Nat, NEW b \in Nat, a <= b, NEW p \in Nat
    PROVE  a * p <= b * p
  OBVIOUS

-----------------------------------------------------------------------------
\* The fields of a sweep's frame.
LEMMA FrameFields ==
    ASSUME NEW f \in Frame
    PROVE  /\ f.page \subseteq Key /\ f.after \in Int /\ f.more \in BOOLEAN
           /\ f.checked \in Nat /\ f.found \in Nat /\ f.attempted \in Nat
           /\ f = [pc |-> f.pc, page |-> f.page, after |-> f.after, more |-> f.more,
                   checked |-> f.checked, found |-> f.found, attempted |-> f.attempted]
  BY DEF Frame

\* What a page's listing, and a decision to delete, make of the frame.
Listing(f, pc, page, more, after, checked) ==
    [f EXCEPT !.pc = pc, !.page = page, !.more = more, !.after = after, !.checked = checked]

LEMMA ListedFrame ==
    ASSUME NEW f \in Frame, NEW pc, NEW page, NEW more, NEW after, NEW checked
    PROVE  Listing(f, pc, page, more, after, checked)
             = [pc |-> pc, page |-> page, after |-> after, more |-> more,
                checked |-> checked, found |-> f.found, attempted |-> f.attempted]
<1> DEFINE a == [f EXCEPT !.pc = pc]
           b == [a EXCEPT !.page = page]
           c == [b EXCEPT !.more = more]
           d == [c EXCEPT !.after = after]
<1>1. a = [pc |-> pc, page |-> f.page, after |-> f.after, more |-> f.more,
           checked |-> f.checked, found |-> f.found, attempted |-> f.attempted]
  BY DEF Frame
<1> HIDE DEF a
<1>2. b = [pc |-> pc, page |-> page, after |-> f.after, more |-> f.more,
           checked |-> f.checked, found |-> f.found, attempted |-> f.attempted]
  BY <1>1
<1> HIDE DEF b
<1>3. c = [pc |-> pc, page |-> page, after |-> f.after, more |-> more,
           checked |-> f.checked, found |-> f.found, attempted |-> f.attempted]
  BY <1>2
<1> HIDE DEF c
<1>4. d = [pc |-> pc, page |-> page, after |-> after, more |-> more,
           checked |-> f.checked, found |-> f.found, attempted |-> f.attempted]
  BY <1>3
<1> HIDE DEF d
<1>5. [d EXCEPT !.checked = checked]
        = [pc |-> pc, page |-> page, after |-> after, more |-> more,
           checked |-> checked, found |-> f.found, attempted |-> f.attempted]
  BY <1>4
<1> QED BY <1>5 DEF a, b, c, d, Listing

LEMMA DoomedFrame ==
    ASSUME NEW f \in Frame, NEW chunk, NEW n
    PROVE  [f EXCEPT !.pc = "delete", !.page = chunk, !.attempted = n]
             = [pc |-> "delete", page |-> chunk, after |-> f.after, more |-> f.more,
                checked |-> f.checked, found |-> f.found, attempted |-> n]
<1> DEFINE a == [f EXCEPT !.pc = "delete"]
           b == [a EXCEPT !.page = chunk]
<1>1. a = [pc |-> "delete", page |-> f.page, after |-> f.after, more |-> f.more,
           checked |-> f.checked, found |-> f.found, attempted |-> f.attempted]
  BY DEF Frame
<1> HIDE DEF a
<1>2. b = [pc |-> "delete", page |-> chunk, after |-> f.after, more |-> f.more,
           checked |-> f.checked, found |-> f.found, attempted |-> f.attempted]
  BY <1>1
<1> HIDE DEF b
<1>3. [b EXCEPT !.attempted = n]
        = [pc |-> "delete", page |-> chunk, after |-> f.after, more |-> f.more,
           checked |-> f.checked, found |-> f.found, attempted |-> n]
  BY <1>2
<1> QED BY <1>3 DEF a, b

\* A run that stands at its beginning, wherever that is.
LEMMA FreshFrame ==
    ASSUME NEW e \in Env, NEW pc \in {"idle", "read", "claim", "verify", "list"}
    PROVE  /\ [Idle EXCEPT !.pc = pc] \in Frame /\ FrameOK(e, [Idle EXCEPT !.pc = pc])
           /\ Idle \in Frame /\ FrameOK(e, Idle)
<1> DEFINE f == [pc |-> pc, page |-> {}, after |-> Idle.after, more |-> FALSE,
                 checked |-> 0, found |-> 0, attempted |-> 0]
<1>0. Idle \in Frame
  BY DEF Frame, Idle
<1>1. [Idle EXCEPT !.pc = pc] = f /\ f \in Frame /\ Idle \in Frame
  <2>1. [Idle EXCEPT !.pc = pc] \in Frame
    BY <1>0 DEF Frame
  <2>2. [Idle EXCEPT !.pc = pc] = [pc |-> pc, page |-> Idle.page, after |-> Idle.after,
            more |-> Idle.more, checked |-> Idle.checked, found |-> Idle.found,
            attempted |-> Idle.attempted]
    BY <1>0 DEF Frame
  <2>3. /\ Idle.page = {} /\ Idle.more = FALSE /\ Idle.checked = 0 /\ Idle.found = 0
        /\ Idle.attempted = 0
    BY DEF Idle
  <2> QED BY <1>0, <2>1, <2>2, <2>3
<1>2. /\ f.pc = pc /\ f.page = {} /\ f.checked = 0 /\ f.found = 0 /\ f.attempted = 0
      /\ Idle.pc = "idle" /\ Idle.page = {}
      /\ Idle.checked = 0 /\ Idle.found = 0 /\ Idle.attempted = 0
  BY DEF Idle
<1> HIDE DEF f
<1>3. IsFiniteSet({})
  BY FS_EmptySet
<1>4. FrameOK(e, f) /\ FrameOK(e, Idle)
  BY <1>2, <1>3, SweepAssumption DEF FrameOK, Counted
<1> QED BY <1>1, <1>4

\* The end of a page is the next listing or the end of the run.
LEMMA NextPage ==
    ASSUME NEW e \in Env, NEW f \in Frame, f.attempted \in Nat, Counted(f)
    PROVE  AfterPage(f) \in Frame /\ FrameOK(e, AfterPage(f))
<1>1. CASE ~f.more
  BY <1>1, FreshFrame DEF AfterPage
<1>2. CASE f.more
  <2> DEFINE h == [f EXCEPT !.pc = "list", !.page = {}]
  <2>1. h \in Frame /\ h.pc = "list" /\ h.page = {} /\ h.checked = f.checked
        /\ h.found = f.found /\ h.attempted = f.attempted
    BY DEF Frame
  <2>2. AfterPage(f) = h
    BY <1>2 DEF AfterPage
  <2> HIDE DEF h
  <2>3. IsFiniteSet({})
    BY FS_EmptySet
  <2> QED BY <2>1, <2>2, <2>3 DEF FrameOK, Counted
<1> QED BY <1>1, <1>2

\* A step of one sweep that leaves database and bucket alone: what its frame must be.
LEMMA SweepStep ==
    ASSUME IInv, NEW e \in Env, NEW f \in Frame, FrameOK(e, f), Goto(e, f),
           UNCHANGED <<database, bucket>>,
           owner' \in Env \cup {None}, trusted' \subseteq Env, trusted' \subseteq {owner'}
    PROVE  IInv'
<1>1. sweep' \in [Env -> Frame] /\ sweep'[e] = f /\ \A d \in Env \ {e} : sweep'[d] = sweep[d]
  BY DEF Goto, IInv, TypeOK
<1>2. TypeOK'
  BY <1>1 DEF IInv, TypeOK, database, bucket
<1>3. \A d \in Env : FrameOK(d, sweep[d])'
  BY <1>1 DEF IInv, FrameOK, database
<1> QED BY <1>2, <1>3 DEF IInv

\* What becomes of the other sweeps when rows or objects come or go.
LEMMA WorldStep ==
    ASSUME IInv, TypeOK', UNCHANGED <<sweep, owner, trusted>>, used \subseteq used',
           \A k \in rows' \ rows : k \notin used
    PROVE  IInv'
<1>1. ASSUME NEW e \in Env PROVE FrameOK(e, sweep[e])'
  <2>1. FrameOK(e, sweep[e])
    BY DEF IInv
  <2> QED BY <2>1 DEF FrameOK, Counted
<1> QED BY <1>1 DEF IInv

-----------------------------------------------------------------------------
LEMMA InvariantHolds == Spec => []IInv
<1>1. Init => IInv
  <2> SUFFICES ASSUME Init PROVE IInv
    OBVIOUS
  <2>1. IsFiniteSet({})
    BY FS_EmptySet
  <2>2. \A e \in Env : Idle \in Frame /\ FrameOK(e, Idle)
    BY FreshFrame
  <2> QED BY <2>1, <2>2 DEF Init, IInv, TypeOK
<1>2. IInv /\ [Next]_vars => IInv'
  <2> SUFFICES ASSUME IInv, [Next]_vars PROVE IInv'
    OBVIOUS
  <2>0. TypeOK
    BY DEF IInv
  <2>1. ASSUME NEW k \in Key, save(k) PROVE IInv'
    <3>1. TypeOK'
      BY <2>0, <2>1 DEF save, TypeOK
    <3> QED BY <2>1, <3>1, WorldStep DEF save
  <2>2. ASSUME NEW k \in Key, put(k) PROVE IInv'
    <3>1. IsFiniteSet(object')
      BY <2>0, <2>2, FS_AddElement DEF put, TypeOK
    <3>2. TypeOK'
      BY <2>0, <2>2, <3>1 DEF put, TypeOK, database
    <3> QED BY <2>2, <3>2, WorldStep DEF put, database
  <2>3. ASSUME NEW k \in Key, grow_old(k) PROVE IInv'
    <3>1. TypeOK'
      BY <2>0, <2>3 DEF grow_old, TypeOK, database
    <3> QED BY <2>3, <3>1, WorldStep DEF grow_old, database
  <2>15. ASSUME marker_grows_old PROVE IInv'
    <3>1. TypeOK'
      BY <2>0, <2>15 DEF marker_grows_old, TypeOK, database
    <3> QED BY <2>15, <3>1, WorldStep DEF marker_grows_old, database
  <2>4. ASSUME NEW k \in Key, NEW taken, delete(k, taken) PROVE IInv'
    <3>1. IsFiniteSet(object')
      BY <2>0, <2>4, FS_Subset DEF delete, TypeOK
    <3>2. TypeOK'
      BY <2>0, <2>4, <3>1 DEF delete, TypeOK
    <3> QED BY <2>4, <3>2, WorldStep DEF delete
  <2>5. ASSUME NEW e \in Env, lose_rows(e) PROVE IInv'
    <3>1. TypeOK'
      BY <2>0, <2>5 DEF lose_rows, TypeOK, bucket
    <3> QED BY <2>5, <3>1, WorldStep DEF lose_rows
  <2>6. ASSUME NEW e \in Env, tick(e) PROVE IInv'
    BY <2>0, <2>6, FreshFrame, SweepStep DEF tick, IInv, TypeOK
  <2>a. ASSUME NEW e \in Env, owner_matches(e), UNCHANGED <<database, bucket, owner>>
        PROVE  IInv'
    <3>1. CASE owner = e
      <4>1. trusted' \subseteq Env /\ trusted' \subseteq {owner'}
        BY <2>0, <2>a, <3>1 DEF owner_matches, IInv, TypeOK
      <4> QED BY <2>0, <2>a, <3>1, <4>1, FreshFrame, SweepStep DEF owner_matches, TypeOK
    <3>2. CASE owner # e
      BY <2>0, <2>a, <3>2, FreshFrame, SweepStep DEF owner_matches, IInv, TypeOK
    <3> QED BY <3>1, <3>2
  <2>7. ASSUME NEW e \in Env, read_owner_sentinel(e) PROVE IInv'
    <3>1. CASE owner = None
      BY <2>0, <2>7, <3>1, FreshFrame, SweepStep DEF read_owner_sentinel, IInv, TypeOK
    <3>2. CASE owner # None
      BY <2>7, <2>a, <3>2 DEF read_owner_sentinel
    <3> QED BY <3>1, <3>2
  <2>8. ASSUME NEW e \in Env, claim(e) PROVE IInv'
    <3>1. owner' \in Env \cup {None} /\ trusted' \subseteq Env /\ trusted' \subseteq {owner'}
      BY <2>0, <2>8, SweepAssumption DEF claim, IInv, TypeOK
    <3> QED BY <2>8, <3>1, FreshFrame, SweepStep DEF claim
  <2>9. ASSUME NEW e \in Env, verify(e) PROVE IInv'
    BY <2>9, <2>a DEF verify
  <2>10. ASSUME NEW e \in Env, list_objects(e) PROVE IInv'
    <3> DEFINE f == sweep[e]
               page == Page(f.after)
               more == Listed(f.after) # page
               old == candidates(page)
               pc == IF old = {} THEN "list" ELSE "rows"
               after == Max(page \cup {f.after})
               checked == f.checked + Cardinality(old)
               h == [pc |-> pc, page |-> old, after |-> after, more |-> more,
                     checked |-> checked, found |-> f.found,
                     attempted |-> f.attempted]
    <3>1. f \in Frame /\ FrameOK(e, f)
      BY <2>0 DEF TypeOK, IInv
    <3>2. /\ Goto(e, Idle) \/ Goto(e, h)
          /\ UNCHANGED <<database, bucket, owner, trusted>>
      <4>1. [f EXCEPT !.pc = IF old = {} THEN "list" ELSE "rows",
                      !.page = old, !.more = more,
                      !.after = Max(page \cup {@}),
                      !.checked = @ + Cardinality(old)] = h
        <5> HIDE DEF page, more, old, f
        <5>1. Listing(f, pc, old, more, after, checked) = h
          <6> HIDE DEF pc, after, checked
          <6> QED BY <3>1, ListedFrame
        <5> QED BY <5>1 DEF Listing
      <4> QED BY <2>10, <4>1 DEF list_objects
    <3>3. /\ old \subseteq used /\ IsFiniteSet(old) /\ more \in BOOLEAN
          /\ Cardinality(old) \in Nat
      BY <2>0, FS_Subset, FS_CardinalityType DEF candidates, TypeOK
    <3>4. Max(page \cup {f.after}) \in Int
      <4>1. page \subseteq object \cup {0}
        BY DEF Page, Listed, Sentinel
      <4>2. IsFiniteSet(object \cup {0})
        BY <2>0, FS_AddElement DEF TypeOK
      <4>3. IsFiniteSet(page)
        <5> HIDE DEF page
        <5> QED BY <4>1, <4>2, FS_Subset
      <4>4. object \subseteq Int /\ f.after \in Int
        BY <2>0, <3>1, FrameFields, SweepAssumption DEF TypeOK
      <4> HIDE DEF page, f
      <4>5. IsFiniteSet(page \cup {f.after}) /\ page \cup {f.after} \subseteq Int
        <5>1. page \cup {f.after} \subseteq Int
          <6>1. 0 \in Int
            OBVIOUS
          <6> QED BY <4>1, <4>4, <6>1, Zenon
        <5>2. IsFiniteSet(page \cup {f.after})
          BY <4>3, FS_AddElement
        <5> QED BY <5>1, <5>2
      <4> QED BY <4>5, MaxIsInt
    <3> HIDE DEF page, more, old
    <3>5. h \in Frame
      BY <2>0, <3>1, <3>3, <3>4 DEF Frame, TypeOK
    <3>6. /\ h.pc # "delete" /\ h.page = old /\ h.checked = f.checked + Cardinality(old)
          /\ h.found = f.found /\ h.attempted = f.attempted
      OBVIOUS
    <3>7. Counted(h)
      <4>1. /\ f.checked \in Nat /\ f.attempted \in Nat /\ Counted(f) /\ PERCENT \in Nat
        BY <3>1, FrameFields, SweepAssumption DEF FrameOK
      <4> HIDE DEF h, f
      <4>2. /\ h.checked \in Nat /\ f.checked <= h.checked
            /\ f.checked * PERCENT \in Nat /\ h.checked * PERCENT \in Nat
        BY <3>3, <3>6, <4>1
      <4>3. f.checked * PERCENT <= h.checked * PERCENT
        BY <4>1, <4>2, ShareGrows
      <4>4. /\ f.attempted <= h.found /\ f.attempted <= MAX_DELETES
            /\ f.attempted <= PRE_SAMPLE \/ f.attempted * 100 < h.checked * PERCENT
        BY <3>6, <4>1, <4>2, <4>3 DEF Counted
      <4> QED BY <3>6, <4>4 DEF Counted
    <3>8. FrameOK(e, h)
      <4> HIDE DEF h
      <4> QED BY <3>3, <3>6, <3>7 DEF FrameOK
    <3> HIDE DEF h
    <3> QED BY <2>0, <3>2, <3>5, <3>8, FreshFrame, SweepStep DEF IInv, TypeOK
  <2>11. ASSUME NEW e \in Env, compare_rows(e) PROVE IInv'
    <3> DEFINE f == sweep[e]
               orphans == f.page \ known(e, f.page)
               found == f.found + Cardinality(orphans)
               cap == effective_cap(f.checked)
               chunk == Chunk(orphans, cap - f.attempted)
               frame == [pc |-> f.pc, page |-> f.page, after |-> f.after, more |-> f.more,
                         checked |-> f.checked, found |-> found, attempted |-> f.attempted]
               h == [pc |-> "delete", page |-> chunk, after |-> f.after, more |-> f.more,
                     checked |-> f.checked, found |-> found,
                     attempted |-> f.attempted + Cardinality(chunk)]
    <3>1. f \in Frame /\ FrameOK(e, f) /\ UNCHANGED <<database, bucket, owner, trusted>>
      BY <2>0, <2>11 DEF TypeOK, IInv, compare_rows
    <3>3. /\ f.page \subseteq used /\ IsFiniteSet(f.page) /\ Counted(f)
          /\ f.checked \in Nat /\ f.found \in Nat /\ f.attempted \in Nat
          /\ f.after \in Int /\ f.more \in BOOLEAN
      BY <3>1, FrameFields DEF FrameOK
    <3>4. /\ orphans \subseteq f.page /\ IsFiniteSet(orphans) /\ Cardinality(orphans) \in Nat
          /\ orphans \subseteq Int /\ \A k \in orphans : Home[k] = e => k \notin rows
      <4>1. orphans \subseteq f.page /\ \A k \in orphans : Home[k] = e => k \notin rows
        BY DEF known
      <4> HIDE DEF orphans, f
      <4>2. f.page \subseteq Int
        <5>1. Key \subseteq Int
          BY SweepAssumption
        <5>2. f.page \subseteq Key
          BY <2>0, <3>3 DEF TypeOK
        <5> QED BY <5>1, <5>2, Zenon
      <4> QED BY <3>3, <4>1, <4>2, FS_Subset, FS_CardinalityType
    <3>5. found \in Nat /\ f.found <= found
      <4> HIDE DEF orphans, f
      <4> QED BY <3>3, <3>4
    <3>6. frame \in Frame /\ Counted(frame)
      <4>1. frame \in Frame /\ frame.checked = f.checked /\ frame.found = found
            /\ frame.attempted = f.attempted
        <5> HIDE DEF found, f
        <5>1. f.pc \in {"idle", "read", "claim", "verify", "list", "rows", "delete"}
              /\ f.page \subseteq Key
          BY <3>1 DEF Frame
        <5> QED BY <3>3, <3>5, <5>1 DEF Frame
      <4> HIDE DEF frame, found, f
      <4> QED BY <3>3, <3>5, <4>1 DEF Counted
    <3>2. \/ Goto(e, Idle)
          \/ Goto(e, AfterPage(frame))
          \/ Goto(e, h) /\ ~ratio_guard(f.checked, found) /\ chunk # {}
      <4>1. [f EXCEPT !.found = found] = frame
        BY <3>1 DEF Frame
      <4>2. [frame EXCEPT !.pc = "delete", !.page = chunk, !.attempted = @ + Cardinality(chunk)] = h
        <5>1. /\ frame.after = f.after /\ frame.more = f.more /\ frame.checked = f.checked
              /\ frame.found = found /\ frame.attempted = f.attempted
          OBVIOUS
        <5> HIDE DEF chunk, found, frame, f
        <5>2. [frame EXCEPT !.pc = "delete", !.page = chunk,
                            !.attempted = frame.attempted + Cardinality(chunk)] = h
          <6>1. [frame EXCEPT !.pc = "delete", !.page = chunk,
                              !.attempted = frame.attempted + Cardinality(chunk)]
                  = [pc |-> "delete", page |-> chunk, after |-> frame.after,
                     more |-> frame.more, checked |-> frame.checked, found |-> frame.found,
                     attempted |-> frame.attempted + Cardinality(chunk)]
            BY <3>6, DoomedFrame, Zenon
          <6> QED BY <5>1, <6>1, Zenon
        <5> QED BY <5>2
      <4>3. Goto(e, CASE ratio_guard(f.checked, found) -> Idle
                      [] orphans = {} -> AfterPage(frame)
                      [] orphans # {} /\ chunk = {} -> Idle
                      [] OTHER -> h)
        BY <2>11, <4>1, <4>2 DEF compare_rows
      <4> HIDE DEF chunk, orphans, found, frame, h, f
      <4> QED BY <4>3
    <3>7. ASSUME ~ratio_guard(f.checked, found), chunk # {} PROVE h \in Frame /\ FrameOK(e, h)
      <4>1. cap \in Int /\ cap <= MAX_DELETES /\ (f.checked < MIN_SAMPLE => cap <= PRE_SAMPLE)
        <5> HIDE DEF f
        <5> QED BY SweepAssumption, MinOfTwo, <3>3 DEF effective_cap
      <4>2. /\ chunk \subseteq orphans /\ IsFiniteSet(chunk)
            /\ Cardinality(chunk) <= cap - f.attempted
            /\ Cardinality(chunk) <= Cardinality(orphans) /\ Cardinality(chunk) \in Nat
        <5>1. chunk \subseteq orphans
          BY DEF Chunk
        <5> HIDE DEF orphans, cap, f
        <5>2. IsFiniteSet(chunk) /\ Cardinality(chunk) <= cap - f.attempted
          <6>1. cap - f.attempted \in Int
            BY <3>3, <4>1
          <6> QED BY <3>4, <3>7, <6>1, ChunkIsSmall
        <5> HIDE DEF chunk
        <5> QED BY <3>4, <5>1, <5>2, FS_Subset, FS_CardinalityType
      <4> HIDE DEF cap, found
      <4>3. /\ h \in Frame /\ h.pc = "delete" /\ h.page = chunk /\ h.checked = f.checked
            /\ h.found = found /\ h.attempted = f.attempted + Cardinality(chunk)
        <5> HIDE DEF orphans, chunk, f
        <5>1. chunk \subseteq Key
          BY <2>0, <3>3, <3>4, <4>2 DEF TypeOK
        <5> QED BY <3>3, <3>5, <4>2, <5>1 DEF Frame
      <4> DEFINE a == f.attempted + Cardinality(chunk)
      <4>4. /\ a \in Nat /\ a <= found /\ a <= MAX_DELETES
            /\ a <= PRE_SAMPLE \/ a * 100 < f.checked * PERCENT
        <5>1. found = f.found + Cardinality(orphans)
          BY DEF found
        <5> HIDE DEF orphans, chunk, f
        <5>2. a \in Nat /\ a <= found /\ a <= cap
          BY <3>3, <3>4, <4>1, <4>2, <5>1 DEF Counted
        <5>3. f.checked < MIN_SAMPLE \/ found * 100 < f.checked * PERCENT
          BY <3>3, <3>5, <3>7, SweepAssumption DEF ratio_guard
        <5> HIDE DEF a
        <5>4. CASE f.checked < MIN_SAMPLE
          BY <4>1, <5>2, <5>4, SweepAssumption
        <5>5. CASE found * 100 < f.checked * PERCENT
          <6>1. f.checked * PERCENT \in Nat
            BY <3>3, SweepAssumption
          <6> QED BY <3>5, <4>1, <5>2, <5>5, <6>1, SweepAssumption
        <5> QED BY <5>3, <5>4, <5>5
      <4>5. Counted(h)
        <5> HIDE DEF h, f, chunk
        <5> QED BY <4>3, <4>4 DEF Counted
      <4> HIDE DEF h, f, chunk, orphans
      <4> QED BY <3>3, <3>4, <4>2, <4>3, <4>5 DEF FrameOK
    <3>8. AfterPage(frame) \in Frame /\ FrameOK(e, AfterPage(frame))
      <4>1. frame.attempted \in Nat
        BY <3>6, FrameFields
      <4> HIDE DEF frame
      <4> QED BY <3>6, <4>1, NextPage
    <3> HIDE DEF frame, h, chunk, found, orphans, f
    <3> QED BY <2>0, <3>1, <3>2, <3>7, <3>8, FreshFrame, SweepStep DEF IInv, TypeOK
  <2>12. ASSUME NEW e \in Env, NEW deleted \in SUBSET sweep[e].page,
                delete_object_batch(e, deleted)
         PROVE  IInv'
    <3> DEFINE f == AfterPage(sweep[e])
    <3>1. f \in Frame /\ FrameOK(e, f)
      BY <2>0, NextPage, FrameFields DEF IInv, TypeOK, FrameOK
    <3>2. /\ sweep' \in [Env -> Frame] /\ sweep'[e] = f
          /\ \A d \in Env \ {e} : sweep'[d] = sweep[d]
      <4>1. Goto(e, f)
        BY <2>12 DEF delete_object_batch
      <4> HIDE DEF f
      <4> QED BY <2>0, <3>1, <4>1 DEF Goto, TypeOK
    <3>3. owner' = owner
      <4>1. 0 \notin deleted
        BY <2>0, FrameFields, SweepAssumption DEF TypeOK
      <4> QED BY <2>12, <4>1 DEF delete_object_batch, Sentinel
    <3>4. /\ object' = object \ deleted /\ aged' = aged \ deleted
          /\ UNCHANGED <<used, rows, url, trusted>>
      BY <2>12 DEF delete_object_batch, database
    <3> HIDE DEF f
    <3>5. IsFiniteSet(object')
      BY <2>0, <3>4, FS_Subset DEF TypeOK
    <3>6. TypeOK'
      BY <2>0, <3>2, <3>3, <3>4, <3>5 DEF TypeOK
    <3>7. \A d \in Env : FrameOK(d, sweep[d])'
      BY <3>1, <3>2, <3>4 DEF IInv, FrameOK
    <3> QED BY <3>3, <3>4, <3>6, <3>7 DEF IInv
  <2>13. ASSUME NEW e \in Env, sweep_fails(e) PROVE IInv'
    BY <2>0, <2>13, FreshFrame, SweepStep DEF sweep_fails, IInv, TypeOK
  <2>14. CASE UNCHANGED vars
    BY <2>0, <2>14, WorldStep DEF vars, database, bucket, TypeOK
  <2> QED
    BY <2>1, <2>2, <2>3, <2>4, <2>5, <2>6, <2>7, <2>8, <2>9, <2>10, <2>11, <2>12, <2>13,
       <2>14, <2>15 DEF Next, Sweep
<1> QED BY <1>1, <1>2, PTL DEF Spec

\* Of the environments that share a prefix, one alone ever passes the gate: the claim
\* never overwrites a marker, and the marker, however old, is never a candidate.
THEOREM SweptByOne == Spec => []OneOwner
<1>1. IInv => OneOwner
  <2> SUFFICES ASSUME IInv PROVE Cardinality(trusted) <= 1
    BY DEF OneOwner
  <2>1. IsFiniteSet({owner}) /\ Cardinality({owner}) = 1 /\ trusted \in SUBSET {owner}
    BY FS_Singleton DEF IInv
  <2> QED BY <2>1, FS_Subset
<1> QED BY <1>1, InvariantHolds, PTL

\* A run deletes PRE_SAMPLE objects, or fewer than PERCENT of those it examined, and
\* never more than MAX_DELETES.
THEOREM DamageIsBounded == Spec => []BlastRadius
<1>1. IInv => BlastRadius
  BY DEF IInv, FrameOK, Counted, BlastRadius
<1> QED BY <1>1, InvariantHolds, PTL

\* No step takes an object that a row names, but for a delete of the service or a sweep
\* of another environment.
THEOREM NamedObjectsStay == Spec => NamedIsKept
<1>1. IInv /\ [Next]_vars =>
         [\A k \in object \ object' :
             k \in rows /\ rows' = rows =>
                 \E e \in Env \ {Home[k]} : sweep[e].pc = "delete" /\ k \in sweep[e].page]_vars
  <2> SUFFICES ASSUME IInv, Next, NEW k \in object \ object', k \in rows, rows' = rows
               PROVE  \E e \in Env \ {Home[k]} : sweep[e].pc = "delete" /\ k \in sweep[e].page
    BY DEF vars, bucket
  <2>1. ASSUME NEW e \in Env, NEW deleted \in SUBSET sweep[e].page,
               delete_object_batch(e, deleted)
        PROVE  sweep[e].pc = "delete" /\ k \in sweep[e].page /\ e # Home[k]
    BY <2>1 DEF delete_object_batch, IInv, FrameOK
  <2>2. ASSUME NEW j \in Key, delete(j, {}) \/ delete(j, {j}) PROVE FALSE
    BY <2>2 DEF delete
  <2>3. ASSUME NEW j \in Key, save(j) \/ put(j) \/ grow_old(j) PROVE FALSE
    BY <2>3 DEF save, put, grow_old
  <2>4. ASSUME NEW e \in Env,
               \/ lose_rows(e) \/ tick(e) \/ read_owner_sentinel(e) \/ claim(e) \/ verify(e)
               \/ list_objects(e) \/ compare_rows(e) \/ sweep_fails(e)
        PROVE  FALSE
    BY <2>4 DEF lose_rows, tick, read_owner_sentinel, claim, verify, list_objects,
                compare_rows, sweep_fails, bucket
  <2>5. ASSUME marker_grows_old PROVE FALSE
    BY <2>5 DEF marker_grows_old
  <2> QED BY <2>1, <2>2, <2>3, <2>4, <2>5 DEF Next, Sweep
<1> QED BY <1>1, InvariantHolds, PTL DEF Spec, NamedIsKept

===============================================================================
