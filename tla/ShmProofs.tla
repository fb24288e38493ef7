----------------------------- MODULE ShmProofs -----------------------------
(***************************************************************************)
(* Proof that the invariant of the shared memory objects is inductive, for *)
(* any number of objects, pages, frames, names and descriptors.            *)
(***************************************************************************)
EXTENDS Shm, TLAPS

(* Rounding a size up to pages gives a natural number.                     *)
LEMMA PagesOfNat ==
    ASSUME NEW n \in Nat
    PROVE  PagesOf(n) \in Nat
<1>1. (n + PAGE_SIZE - 1) % SIZE_T \in Nat
  BY ShmAssumption
<1>2. QED
  BY <1>1, ShmAssumption DEF PagesOf

(* Quotients and remainders, for the steps that multiply.                  *)
LEMMA QuotientLaw ==
    ASSUME NEW a \in Nat, NEW p \in Nat \ {0}
    PROVE  /\ a \div p \in Nat
           /\ p * (a \div p) <= a
           /\ a < p * (a \div p) + p
  OBVIOUS

LEMMA ProductMonotone ==
    ASSUME NEW a \in Nat, NEW b \in Nat, NEW p \in Nat, a <= b
    PROVE  p * a <= p * b
<1>1. PICK d \in Nat : b = a + d
  <2>1. b - a \in Nat /\ b = a + (b - a)
    OBVIOUS
  <2>2. QED
    BY <2>1
<1>2. p * b = p * a + p * d /\ p * d \in Nat
  BY <1>1
<1>3. p * a \in Nat
  OBVIOUS
<1>4. QED
  BY <1>2, <1>3

(* A size that does not wrap fits into its pages, and uses each of them.   *)
LEMMA RoundingUp ==
    ASSUME NEW n \in Nat, ~Wraps(n)
    PROVE  /\ n <= PAGE_SIZE * PagesOf(n)
           /\ \A k \in Nat : k * PAGE_SIZE < n => k < PagesOf(n)
<1> DEFINE a == n + PAGE_SIZE - 1
<1>1. a \in Nat /\ a < SIZE_T /\ SIZE_T \in Nat /\ PAGE_SIZE \in Nat \ {0}
  BY ShmAssumption DEF Wraps
<1>2. a % SIZE_T = a
  BY <1>1
<1>3. PagesOf(n) = a \div PAGE_SIZE
  BY <1>2 DEF PagesOf
<1>4. /\ PagesOf(n) \in Nat
      /\ a < PAGE_SIZE * PagesOf(n) + PAGE_SIZE
  BY <1>1, <1>3, QuotientLaw
<1> HIDE DEF a
<1>5. PAGE_SIZE * PagesOf(n) \in Nat
  BY <1>1, <1>4
<1>6. n <= PAGE_SIZE * PagesOf(n)
  BY <1>1, <1>4, <1>5 DEF a
<1>7. ASSUME NEW k \in Nat, k * PAGE_SIZE < n
      PROVE  k < PagesOf(n)
  <2>1. SUFFICES ASSUME PagesOf(n) <= k PROVE FALSE
    BY <1>4
  <2>2. PAGE_SIZE * PagesOf(n) <= PAGE_SIZE * k
    BY <1>1, <1>4, <2>1, ProductMonotone
  <2>3. PAGE_SIZE * k = k * PAGE_SIZE /\ k * PAGE_SIZE \in Nat
    BY <1>1
  <2>4. QED
    BY <1>5, <1>6, <1>7, <2>2, <2>3
<1>8. QED
  BY <1>6, <1>7

(* An empty object has no pages.                                           *)
LEMMA SizeTLarge == SIZE_T \in Nat /\ PAGE_SIZE <= SIZE_T /\ 0 \in 0 .. SIZE_T - 1
<1>1. PAGE_SIZE * (SHM_MAX_PAGES + 2) >= PAGE_SIZE * 1
  BY ShmAssumption, ProductMonotone
<1>2. PAGE_SIZE * 1 = PAGE_SIZE /\ PAGE_SIZE * (SHM_MAX_PAGES + 2) \in Nat
  BY ShmAssumption
<1>3. QED
  BY <1>1, <1>2, ShmAssumption

LEMMA PagesOfZero == PagesOf(0) = 0
<1>1. PAGE_SIZE - 1 \in Nat /\ PAGE_SIZE - 1 < SIZE_T /\ SIZE_T \in Nat
  BY SizeTLarge, ShmAssumption
<1>2. (0 + PAGE_SIZE - 1) % SIZE_T = PAGE_SIZE - 1
  BY <1>1
<1>3. (PAGE_SIZE - 1) \div PAGE_SIZE = 0
  BY ShmAssumption
<1>4. QED
  BY <1>2, <1>3 DEF PagesOf

-----------------------------------------------------------------------------
(* The parts of the invariant that speak of objects and frames only.       *)
ObjectInv == PagesExact /\ FramesAccounted /\ BytesBacked

LEMMA InitShmInv == Init => ShmInv
<1> SUFFICES ASSUME Init PROVE ShmInv
  OBVIOUS
<1>1. PagesOf(0) \in Nat
  BY PagesOfNat
<1>2. TypeOK
  <2>1. size \in [Obj -> 0 .. SIZE_T - 1] /\ offset \in [Fd -> 0 .. SIZE_T - 1]
    BY SizeTLarge DEF Init
  <2>2. /\ used \in [Obj -> BOOLEAN] /\ name \in [Obj -> Name]
        /\ wrapped \in BOOLEAN /\ pulled \in BOOLEAN
    BY DEF Init
  <2>3. /\ pages \in [Obj -> [Page -> Frame \cup {NoFrame}]]
        /\ node \in [Name -> Obj \cup {NO_NODE}]
        /\ file \in [Fd -> Name \cup {Closed, Stale}]
        /\ free \subseteq Frame /\ others \subseteq Frame /\ mapped \subseteq Frame
    BY DEF Init
  <2>4. QED
    BY <2>1, <2>2, <2>3 DEF TypeOK
<1>3. PagesExact
  BY DEF Init, PagesExact
<1>4. FramesAccounted
  BY ShmAssumption DEF Init, FramesAccounted, Shared
<1>5. NodesReachObjects /\ BytesBacked /\ MappedStaysShared
  BY DEF Init, NodesReachObjects, BytesBacked, MappedStaysShared
<1>6. QED
  BY <1>2, <1>3, <1>4, <1>5 DEF ShmInv

(* What one step does to the objects and the frames: nothing, or one of    *)
(* the operations of shm.c, or a frame changes hands elsewhere.            *)
Same == UNCHANGED <<objects, free, others, wrapped>>
Opened == \E i \in Obj, n \in Name :
              shm_open_object(i, n) /\ UNCHANGED <<free, others, wrapped>>
Gone == \E i \in Obj :
            shm_destroy(i) /\ UNCHANGED <<name, size, others, wrapped>>
Cut == \E i \in Obj, n \in 0 .. SIZE_T - 1 :
           used[i] /\ shm_truncate(i, n) /\ UNCHANGED <<used, name, others>>
CutFails == \E i \in Obj, n \in 0 .. SIZE_T - 1 :
           used[i] /\ truncate_oom(i, n) /\ UNCHANGED <<used, name, others>>
Elsewhere == \E x \in Frame :
           /\ \/ x \in free /\ free' = free \ {x} /\ others' = others \cup {x}
              \/ x \in others /\ others' = others \ {x} /\ free' = free \cup {x}
           /\ UNCHANGED <<objects, wrapped>>

LEMMA SameKeeps ==
    ASSUME TypeOK, ObjectInv, Same
    PROVE  ObjectInv'
  BY DEF Same, ObjectInv, objects, PagesExact, FramesAccounted, Shared,
         BytesBacked, PagesOf

LEMMA ElsewhereKeeps ==
    ASSUME TypeOK, ObjectInv, Elsewhere
    PROVE  ObjectInv'
<1>1. (PagesExact /\ BytesBacked)'
  BY DEF Elsewhere, ObjectInv, objects, PagesExact, BytesBacked, PagesOf
<1>2. FramesAccounted'
  BY ShmAssumption DEF Elsewhere, ObjectInv, objects, FramesAccounted, Shared, TypeOK
<1>3. QED
  BY <1>1, <1>2 DEF ObjectInv

(* A slot that is not used has no pages: clearing it loses none.           *)
LEMMA OpenedPages ==
    ASSUME TypeOK, PagesExact, NEW i \in Obj, NEW n \in Name,
           shm_open_object(i, n)
    PROVE  pages' = pages
<1>1. CASE used[i]
  BY <1>1 DEF shm_open_object
<1>2. CASE ~used[i]
  <2>1. \A k \in Page : pages[i][k] = NoFrame
    BY <1>2 DEF PagesExact
  <2>2. pages[i] = [k \in Page |-> NoFrame]
    BY <2>1 DEF TypeOK
  <2>3. QED
    BY <1>2, <2>2 DEF shm_open_object, TypeOK
<1>3. QED
  BY <1>1, <1>2

(* A new object has no pages.                                              *)
LEMMA OpenedKeeps ==
    ASSUME TypeOK, ObjectInv, Opened
    PROVE  ObjectInv'
<1>1. PICK i \in Obj, n \in Name :
          shm_open_object(i, n) /\ UNCHANGED <<free, others, wrapped>>
  BY DEF Opened
<1>2. PagesOf(0) = 0
  BY PagesOfZero
<1>3. \A j \in Obj : PagesOf(size[j]) \in Nat
  BY PagesOfNat, ShmAssumption DEF TypeOK
<1>4. pages' = pages
  BY <1>1, OpenedPages DEF ObjectInv
<1>5. /\ \A j \in Obj \ {i} : used'[j] = used[j] /\ size'[j] = size[j]
      /\ used'[i] /\ (used[i] => size'[i] = size[i])
      /\ ~used[i] => size'[i] = 0
  BY <1>1 DEF shm_open_object, TypeOK
<1>6. PagesExact'
  <2> SUFFICES ASSUME NEW j \in Obj, NEW k \in Page
               PROVE  pages[j][k] # NoFrame <=> used'[j] /\ k < PagesOf(size'[j])
    BY <1>4 DEF PagesExact, PagesOf
  <2>1. CASE j # i \/ used[i]
    BY <1>5, <2>1 DEF ObjectInv, PagesExact
  <2>2. CASE j = i /\ ~used[i]
    <3>1. ~(k < 0)
      BY DEF Page
    <3>2. QED
      BY <1>2, <1>5, <2>2, <3>1 DEF ObjectInv, PagesExact
  <2>3. QED
    BY <2>1, <2>2
<1>7. FramesAccounted'
  BY <1>1, <1>4 DEF ObjectInv, FramesAccounted, Shared
<1>8. BytesBacked'
  <2>1. SUFFICES ASSUME ~wrapped, NEW j \in Obj, used'[j]
               PROVE  /\ size'[j] <= SHM_MAX_PAGES * PAGE_SIZE
                      /\ \A k \in Page : k * PAGE_SIZE < size'[j]
                            => pages[j][k] # NoFrame
    BY <1>1, <1>4 DEF BytesBacked
  <2>2. CASE used[j]
    BY <1>5, <2>1, <2>2 DEF ObjectInv, BytesBacked
  <2>3. CASE ~used[j]
    <3>1. size'[j] = 0
      BY <1>5, <2>1, <2>3
    <3>2. SHM_MAX_PAGES * PAGE_SIZE \in Nat
      BY ShmAssumption
    <3>3. ASSUME NEW k \in Page PROVE ~(k * PAGE_SIZE < 0)
      <4>1. k \in Nat
        BY ShmAssumption DEF Page
      <4>2. QED
        BY <4>1, ShmAssumption
    <3>4. QED
      BY <3>1, <3>2, <3>3
  <2>4. QED
    BY <2>2, <2>3
<1>9. QED
  BY <1>6, <1>7, <1>8 DEF ObjectInv

-----------------------------------------------------------------------------
(* Object i exchanges its table of pages for p, taking frames from the     *)
(* free ones and giving back the ones it no longer holds: every frame      *)
(* stays accounted for.                                                    *)
LEMMA Repaging ==
    ASSUME TypeOK, FramesAccounted, NEW i \in Obj,
           NEW p \in [Page -> Frame \cup {NoFrame}],
           \A k, l \in Page : p[k] = p[l] /\ p[k] # NoFrame => k = l,
           \A k \in Page : p[k] # NoFrame =>
               p[k] \in free \/ \E l \in Page : p[k] = pages[i][l],
           pages' = [pages EXCEPT ![i] = p],
           free' = (free \cup FramesOf(i, Page)) \ {p[k] : k \in Page},
           others' = others
    PROVE  FramesAccounted'
<1> USE ShmAssumption
<1>1. /\ pages'[i] = p
      /\ \A j \in Obj \ {i} : pages'[j] = pages[j]
  BY DEF TypeOK
<1>2. ASSUME NEW j \in Obj, NEW l \in Page, NEW k \in Page, j # i,
             p[k] # NoFrame
      PROVE  p[k] # pages[j][l]
  BY <1>2 DEF FramesAccounted
<1>3. ASSUME NEW j \in Obj, NEW m \in Obj, NEW k \in Page, NEW l \in Page,
             pages'[j][k] = pages'[m][l], pages'[j][k] # NoFrame
      PROVE  j = m /\ k = l
  <2>1. CASE j = i /\ m = i
    BY <1>1, <1>3, <2>1
  <2>2. CASE j = i /\ m # i
    BY <1>1, <1>2, <1>3, <2>2
  <2>3. CASE j # i /\ m = i
    BY <1>1, <1>2, <1>3, <2>3
  <2>4. CASE j # i /\ m # i
    BY <1>1, <1>3, <2>4 DEF FramesAccounted
  <2>5. QED
    BY <2>1, <2>2, <2>3, <2>4
<1>4. ASSUME NEW j \in Obj, NEW k \in Page
      PROVE  pages'[j][k] \notin free' \cup others'
  <2>1. CASE j = i /\ p[k] = NoFrame
    BY <1>1, <2>1 DEF TypeOK
  <2>2. CASE j = i /\ p[k] # NoFrame
    <3>1. p[k] \notin others
      BY <2>2 DEF FramesAccounted
    <3>2. QED
      BY <1>1, <2>2, <3>1
  <2>3. CASE j # i
    <3>1. pages[j][k] \notin free \cup others
      BY DEF FramesAccounted
    <3>2. pages[j][k] \notin FramesOf(i, Page)
      BY <2>3 DEF FramesAccounted, FramesOf
    <3>3. QED
      BY <1>1, <2>3, <3>1, <3>2
  <2>4. QED
    BY <2>1, <2>2, <2>3
<1>5. free' \cap others' = {}
  BY DEF FramesAccounted, FramesOf
<1>6. free' \cup others' \cup Shared' = Frame
  <2>1. free' \subseteq Frame /\ others' \subseteq Frame
    BY DEF FramesOf, TypeOK
  <2>2. Shared' = {x \in Frame : \E j \in Obj, k \in Page : pages'[j][k] = x}
    BY DEF Shared
  <2>3. ASSUME NEW x \in Frame, x \notin Shared'
        PROVE  x \in free' \cup others'
    <3>1. \A k \in Page : p[k] # x
      BY <1>1, <2>2, <2>3
    <3>2. CASE \E k \in Page : pages[i][k] = x
      BY <3>1, <3>2 DEF FramesOf
    <3>3. CASE ~\E k \in Page : pages[i][k] = x
      <4>1. x \notin Shared
        BY <1>1, <2>2, <2>3, <3>3 DEF Shared
      <4>2. x \in free \cup others
        BY <4>1 DEF FramesAccounted
      <4>3. QED
        BY <3>1, <4>2
    <3>4. QED
      BY <3>2, <3>3
  <2>4. QED
    BY <2>1, <2>2, <2>3
<1>7. QED
  BY <1>3, <1>4, <1>5, <1>6 DEF FramesAccounted

(* The pages of an object that is destroyed are all its pages.             *)
LEMMA GoneKeeps ==
    ASSUME TypeOK, ObjectInv, Gone
    PROVE  ObjectInv'
<1>1. PICK i \in Obj :
          shm_destroy(i) /\ UNCHANGED <<name, size, others, wrapped>>
  BY DEF Gone
<1>2. \A k \in Page : k \in Destroyed(i) <=> pages[i][k] # NoFrame
  BY DEF ObjectInv, PagesExact, Destroyed
<1>3. PICK p \in [Page -> Frame \cup {NoFrame}] : p = [k \in Page |-> NoFrame]
  OBVIOUS
<1>4. pages' = [pages EXCEPT ![i] = p]
  BY <1>1, <1>2, <1>3 DEF shm_destroy
<1>5. free' = (free \cup FramesOf(i, Page)) \ {p[k] : k \in Page}
  <2>1. FramesOf(i, Destroyed(i)) = FramesOf(i, Page)
    BY <1>2 DEF FramesOf, Destroyed
  <2>2. QED
    BY <1>1, <1>3, <2>1, ShmAssumption DEF shm_destroy, FramesOf, TypeOK
<1>6. FramesAccounted'
  <2>1. \A k \in Page : p[k] = NoFrame
    BY <1>3
  <2>2. /\ \A k, l \in Page : p[k] = p[l] /\ p[k] # NoFrame => k = l
        /\ \A k \in Page : p[k] # NoFrame =>
              p[k] \in free \/ \E l \in Page : p[k] = pages[i][l]
    BY <2>1
  <2>3. others' = others /\ FramesAccounted
    BY <1>1 DEF ObjectInv
  <2>4. QED
    BY <1>4, <1>5, <2>2, <2>3, Repaging
<1>7. /\ \A j \in Obj \ {i} : used'[j] = used[j] /\ pages'[j] = pages[j]
      /\ ~used'[i] /\ \A k \in Page : pages'[i][k] = NoFrame
      /\ size' = size /\ wrapped' = wrapped
  BY <1>1, <1>3, <1>4 DEF shm_destroy, TypeOK
<1>8. PagesExact'
  BY <1>7 DEF ObjectInv, PagesExact, PagesOf
<1>9. BytesBacked'
  BY <1>7 DEF ObjectInv, BytesBacked
<1>10. QED
  BY <1>6, <1>8, <1>9 DEF ObjectInv

(* When frames run out the table of pages is what it was.                  *)
LEMMA CutFailsKeeps ==
    ASSUME TypeOK, ObjectInv, CutFails
    PROVE  Same
<1>1. PICK i \in Obj, n \in 0 .. SIZE_T - 1 :
          used[i] /\ truncate_oom(i, n) /\ UNCHANGED <<used, name, others>>
  BY DEF CutFails
<1>2. PagesOf(size[i]) \in Nat
  BY PagesOfNat, ShmAssumption DEF TypeOK
<1>3. ASSUME NEW k \in Tried(i) PROVE pages[i][k] = NoFrame
  <2>1. k \in Page /\ k \in Nat /\ PagesOf(size[i]) <= k
    BY ShmAssumption DEF Tried, Page
  <2>2. ~(k < PagesOf(size[i]))
    BY <1>2, <2>1
  <2>3. QED
    BY <2>1, <2>2 DEF ObjectInv, PagesExact
<1>4. pages' = [pages EXCEPT ![i] = [k \in Page |-> pages[i][k]]]
  BY <1>1, <1>3 DEF truncate_oom
<1>5. pages' = pages
  BY <1>4 DEF TypeOK
<1>6. QED
  BY <1>1, <1>5 DEF truncate_oom, Same, objects

(* Growing takes frames that are free, and shrinking gives back the pages  *)
(* past the new size.                                                      *)
LEMMA CutKeeps ==
    ASSUME TypeOK, ObjectInv, Cut
    PROVE  ObjectInv'
<1>1. PICK i \in Obj, n \in 0 .. SIZE_T - 1 :
          used[i] /\ shm_truncate(i, n) /\ UNCHANGED <<used, name, others>>
  BY DEF Cut
<1>2. /\ PagesOf(size[i]) \in Nat /\ PagesOf(n) \in Nat /\ n \in Nat
      /\ PagesOf(n) <= SHM_MAX_PAGES
      /\ Page \subseteq Nat
  BY <1>1, PagesOfNat, ShmAssumption DEF TypeOK, Page, shm_truncate
<1>3. PICK g \in [Grown(i, n) -> free] :
          /\ IsSupply(g, Grown(i, n))
          /\ pages' = [pages EXCEPT ![i] = PagesAfter(i, n, g)]
          /\ free' = (free \ {g[k] : k \in Grown(i, n)})
                        \cup FramesOf(i, Dropped(i, n))
  BY <1>1 DEF shm_truncate
<1>4. PICK p \in [Page -> Frame \cup {NoFrame}] : p = PagesAfter(i, n, g)
  BY DEF PagesAfter, TypeOK
<1>5. pages' = [pages EXCEPT ![i] = p]
  BY <1>3, <1>4
<1>6. \A k \in Page :
          /\ k \in Grown(i, n) => p[k] = g[k] /\ p[k] \in free
          /\ k \in Dropped(i, n) => p[k] = NoFrame
          /\ k \notin Grown(i, n) \cup Dropped(i, n) => p[k] = pages[i][k]
  <2>1. ASSUME NEW k \in Page PROVE ~(k \in Grown(i, n) /\ k \in Dropped(i, n))
    <3>1. k \in Nat
      BY <1>2
    <3>2. QED
      BY <1>2, <3>1 DEF Grown, Dropped
  <2>2. QED
    BY <1>4, <2>1 DEF PagesAfter
<1>7. ASSUME NEW k \in Page
      PROVE  /\ pages[i][k] # NoFrame <=> k < PagesOf(size[i])
             /\ p[k] # NoFrame <=> k < PagesOf(n)
  <2>1. pages[i][k] # NoFrame <=> k < PagesOf(size[i])
    BY <1>1 DEF ObjectInv, PagesExact
  <2>2. NoFrame \notin free
    BY ShmAssumption DEF TypeOK
  <2>3. QED
    BY <1>2, <1>6, <2>1, <2>2 DEF Grown, Dropped
<1>8. FramesAccounted'
  <2>1. \A k, l \in Page : p[k] = p[l] /\ p[k] # NoFrame => k = l
    <3> SUFFICES ASSUME NEW k \in Page, NEW l \in Page, p[k] = p[l], p[k] # NoFrame
                 PROVE  k = l
      OBVIOUS
    <3>1. pages[i][k] \notin free /\ pages[i][l] \notin free
      BY DEF ObjectInv, FramesAccounted
    <3>2. CASE k \in Grown(i, n) /\ l \in Grown(i, n)
      BY <1>3, <1>6, <3>2 DEF IsSupply
    <3>3. CASE k \notin Grown(i, n) /\ l \notin Grown(i, n)
      BY <1>6, <3>3 DEF ObjectInv, FramesAccounted
    <3>4. QED
      BY <1>6, <3>1, <3>2, <3>3
  <2>2. \A k \in Page : p[k] # NoFrame =>
            p[k] \in free \/ \E l \in Page : p[k] = pages[i][l]
    BY <1>6
  <2>3. free' = (free \cup FramesOf(i, Page)) \ {p[k] : k \in Page}
    <3>1. ASSUME NEW x PROVE x \in FramesOf(i, Dropped(i, n)) <=>
              x \in FramesOf(i, Page) /\ x \notin {p[k] : k \in Page}
      <4>1. ASSUME NEW k \in Dropped(i, n), x = pages[i][k], x # NoFrame,
                   NEW l \in Page
            PROVE  x # p[l]
        <5>1. k \in Page /\ x \notin free
          BY <4>1 DEF Dropped, ObjectInv, FramesAccounted
        <5>2. pages[i][l] = x => l = k
          BY <4>1, <5>1 DEF ObjectInv, FramesAccounted
        <5>3. QED
          BY <1>6, <4>1, <5>1, <5>2
      <4>2. ASSUME NEW k \in Page, x = pages[i][k], x # NoFrame, x # p[k]
            PROVE  k \in Dropped(i, n)
        <5>1. k < PagesOf(size[i])
          BY <1>7, <4>2
        <5>2. k \notin Grown(i, n)
          BY <1>2, <5>1 DEF Grown
        <5>3. QED
          BY <1>6, <4>2, <5>2
      <4>3. QED
        BY <4>1, <4>2 DEF FramesOf, Dropped
    <3>2. ASSUME NEW x \in free PROVE x \in {g[k] : k \in Grown(i, n)} <=>
              x \in {p[k] : k \in Page}
      <4>1. \A k \in Page : pages[i][k] # x
        BY DEF ObjectInv, FramesAccounted
      <4>2. x # NoFrame
        BY ShmAssumption DEF TypeOK
      <4>3. QED
        BY <1>6, <4>1, <4>2 DEF Grown
    <3>3. QED
      BY <1>3, <3>1, <3>2
  <2>4. FramesAccounted /\ others' = others
    BY <1>1 DEF ObjectInv
  <2>5. QED
    BY <1>5, <2>1, <2>2, <2>3, <2>4, Repaging
<1>9. /\ \A j \in Obj \ {i} : size'[j] = size[j] /\ pages'[j] = pages[j]
      /\ size'[i] = n /\ pages'[i] = p /\ used' = used
      /\ wrapped' = (wrapped \/ Wraps(n))
  BY <1>1, <1>5 DEF shm_truncate, TypeOK
<1>10. PagesExact'
  <2> SUFFICES ASSUME NEW j \in Obj, NEW k \in Page
               PROVE  pages'[j][k] # NoFrame <=> used[j] /\ k < PagesOf(size'[j])
    BY <1>9 DEF PagesExact, PagesOf
  <2>1. CASE j = i
    BY <1>1, <1>7, <1>9, <2>1
  <2>2. CASE j # i
    BY <1>9, <2>2 DEF ObjectInv, PagesExact
  <2>3. QED
    BY <2>1, <2>2
<1>11. BytesBacked'
  <2>1. SUFFICES ASSUME ~wrapped, ~Wraps(n), NEW j \in Obj, used[j]
               PROVE  /\ size'[j] <= SHM_MAX_PAGES * PAGE_SIZE
                      /\ \A k \in Page : k * PAGE_SIZE < size'[j]
                            => pages'[j][k] # NoFrame
    BY <1>9 DEF BytesBacked
  <2>2. CASE j # i
    BY <1>9, <2>1, <2>2 DEF ObjectInv, BytesBacked
  <2>3. CASE j = i
    <3>1. /\ n <= PAGE_SIZE * PagesOf(n)
          /\ \A k \in Nat : k * PAGE_SIZE < n => k < PagesOf(n)
      BY <1>2, <2>1, RoundingUp
    <3>2. PAGE_SIZE * PagesOf(n) <= PAGE_SIZE * SHM_MAX_PAGES
      BY <1>2, ShmAssumption, ProductMonotone
    <3>3. /\ PAGE_SIZE * SHM_MAX_PAGES = SHM_MAX_PAGES * PAGE_SIZE
          /\ PAGE_SIZE * SHM_MAX_PAGES \in Nat
          /\ PAGE_SIZE * PagesOf(n) \in Nat
      BY <1>2, ShmAssumption
    <3>4. n <= SHM_MAX_PAGES * PAGE_SIZE
      BY <1>2, <3>1, <3>2, <3>3
    <3>5. QED
      BY <1>2, <1>7, <1>9, <2>3, <3>1, <3>4
  <2>4. QED
    BY <2>2, <2>3
<1>12. QED
  BY <1>8, <1>10, <1>11 DEF ObjectInv

-----------------------------------------------------------------------------
LEMMA SumInRange ==
    ASSUME TypeOK, NEW f \in Fd, NEW c \in Counts
    PROVE  (offset[f] + c) % SIZE_T \in 0 .. SIZE_T - 1
<1>1. offset[f] \in Nat /\ SIZE_T \in Nat \ {0}
  BY SizeTLarge, ShmAssumption DEF TypeOK
<1>2. c \in Nat
  BY ShmAssumption
<1>3. QED
  BY <1>1, <1>2

(* Every step is of one of these kinds.                                    *)
LEMMA StepKinds ==
    ASSUME TypeOK, [Next]_vars
    PROVE  Same \/ Opened \/ Gone \/ Cut \/ CutFails \/ Elsewhere
<1>1. CASE UNCHANGED vars
  BY <1>1 DEF vars, Same, objects
<1>2. CASE \E f \in Fd, i \in Obj, n \in Name : vfs_open(f, i, n)
  BY <1>2 DEF vfs_open, Opened
<1>3. CASE \E i \in Obj, n \in Name : open_fails(i, n)
  BY <1>3 DEF open_fails, Opened
<1>4. CASE \E f \in Fd : vfs_close(f)
  BY <1>4 DEF vfs_close, Same
<1>5. CASE \E f, g \in Fd : vfs_dup2(f, g)
  BY <1>5 DEF vfs_dup2, Same
<1>6. ASSUME NEW n \in Name, vfs_unlink(n) PROVE Gone
  <2>1. node[n] \in Obj
    BY <1>6 DEF vfs_unlink, TypeOK
  <2>2. QED
    BY <1>6, <2>1 DEF vfs_unlink, Gone
<1>7. ASSUME NEW f \in Fd, NEW i \in Obj, NEW n \in Lengths, vfs_ftruncate(f, i, n)
      PROVE  Cut \/ CutFails
  <2>1. n \in 0 .. SIZE_T - 1
    BY ShmAssumption
  <2>2. QED
    BY <1>7, <2>1 DEF vfs_ftruncate, Reaches, Cut, CutFails
<1>8. CASE \E f \in Fd, i \in Obj, c \in Counts : shm_read(f, i, c)
  BY <1>8 DEF shm_read, Same
<1>9. ASSUME NEW f \in Fd, NEW i \in Obj, NEW c \in Counts, shm_write(f, i, c)
      PROVE  Same \/ Cut \/ CutFails
  <2>1. (offset[f] + c) % SIZE_T \in 0 .. SIZE_T - 1
    BY SumInRange
  <2>2. QED
    BY <1>9, <2>1 DEF shm_write, Reaches, Cut, CutFails, Same, objects
<1>10. CASE \E f \in Fd, i \in Obj, a \in Page, c \in Counts : sys_mmap(f, i, a, c)
  BY <1>10 DEF sys_mmap, Same
<1>11. CASE \E x \in Frame : sys_munmap(x)
  BY <1>11 DEF sys_munmap, Same
<1>12. CASE \E x \in Frame : pmm_alloc(x)
  BY <1>12 DEF pmm_alloc, Elsewhere
<1>13. CASE \E x \in Frame : pmm_free(x)
  BY <1>13 DEF pmm_free, Elsewhere
<1>14. QED
  BY <1>1, <1>2, <1>3, <1>4, <1>5, <1>6, <1>7, <1>8, <1>9, <1>10, <1>11,
     <1>12, <1>13 DEF Next

(* The table of objects and the frames keep their types.                   *)
LEMMA ObjectTypes ==
    ASSUME TypeOK, ObjectInv,
           Same \/ Opened \/ Gone \/ Cut \/ CutFails \/ Elsewhere
    PROVE  /\ used' \in [Obj -> BOOLEAN] /\ name' \in [Obj -> Name]
           /\ size' \in [Obj -> 0 .. SIZE_T - 1]
           /\ pages' \in [Obj -> [Page -> Frame \cup {NoFrame}]]
           /\ free' \subseteq Frame /\ others' \subseteq Frame
           /\ wrapped' \in BOOLEAN
<1>1. CASE Same
  BY <1>1 DEF Same, objects, TypeOK
<1>2. CASE Opened
  <2>1. PICK i \in Obj, n \in Name :
            shm_open_object(i, n) /\ UNCHANGED <<free, others, wrapped>>
    BY <1>2 DEF Opened
  <2>2. [k \in Page |-> NoFrame] \in [Page -> Frame \cup {NoFrame}]
    OBVIOUS
  <2>3. size' \in [Obj -> 0 .. SIZE_T - 1]
    BY <2>1, SizeTLarge DEF shm_open_object, TypeOK
  <2>4. pages' \in [Obj -> [Page -> Frame \cup {NoFrame}]]
    BY <2>1, <2>2 DEF shm_open_object, TypeOK
  <2>5. used' \in [Obj -> BOOLEAN] /\ name' \in [Obj -> Name]
    BY <2>1 DEF shm_open_object, TypeOK
  <2>6. QED
    BY <2>1, <2>3, <2>4, <2>5 DEF TypeOK
<1>3. CASE Gone
  <2>1. PICK i \in Obj :
            shm_destroy(i) /\ UNCHANGED <<name, size, others, wrapped>>
    BY <1>3 DEF Gone
  <2>2. FramesOf(i, Destroyed(i)) \subseteq Frame
    BY DEF FramesOf, Destroyed, TypeOK
  <2>3. pages' \in [Obj -> [Page -> Frame \cup {NoFrame}]]
    BY <2>1 DEF shm_destroy, TypeOK
  <2>4. used' \in [Obj -> BOOLEAN]
    BY <2>1 DEF shm_destroy, TypeOK
  <2>5. QED
    BY <2>1, <2>2, <2>3, <2>4 DEF shm_destroy, TypeOK
<1>4. CASE Cut
  <2>1. PICK i \in Obj, n \in 0 .. SIZE_T - 1 :
            used[i] /\ shm_truncate(i, n) /\ UNCHANGED <<used, name, others>>
    BY <1>4 DEF Cut
  <2>2. PICK g \in [Grown(i, n) -> free] :
            /\ pages' = [pages EXCEPT ![i] = PagesAfter(i, n, g)]
            /\ free' = (free \ {g[k] : k \in Grown(i, n)})
                          \cup FramesOf(i, Dropped(i, n))
    BY <2>1 DEF shm_truncate
  <2>3. PagesAfter(i, n, g) \in [Page -> Frame \cup {NoFrame}]
    BY DEF PagesAfter, TypeOK
  <2>4. FramesOf(i, Dropped(i, n)) \subseteq Frame
    BY DEF FramesOf, Dropped, TypeOK
  <2>5. size' \in [Obj -> 0 .. SIZE_T - 1]
    BY <2>1 DEF shm_truncate, TypeOK
  <2>6. wrapped' \in BOOLEAN
    BY <2>1 DEF shm_truncate, TypeOK, Wraps
  <2>7. pages' \in [Obj -> [Page -> Frame \cup {NoFrame}]]
    BY <2>2, <2>3 DEF TypeOK
  <2>8. QED
    BY <2>1, <2>2, <2>4, <2>5, <2>6, <2>7 DEF TypeOK
<1>5. CASE CutFails
  <2>1. Same
    BY <1>5, CutFailsKeeps
  <2>2. QED
    BY <2>1 DEF Same, objects, TypeOK
<1>6. CASE Elsewhere
  BY <1>6 DEF Elsewhere, objects, TypeOK
<1>7. QED
  BY <1>1, <1>2, <1>3, <1>4, <1>5, <1>6

(* The device files, the descriptors and the mappings keep theirs.         *)
LEMMA FileTypes ==
    ASSUME TypeOK, [Next]_vars
    PROVE  /\ node' \in [Name -> Obj \cup {NO_NODE}]
           /\ file' \in [Fd -> Name \cup {Closed, Stale}]
           /\ offset' \in [Fd -> 0 .. SIZE_T - 1]
           /\ mapped' \subseteq Frame /\ pulled' \in BOOLEAN
<1>1. CASE UNCHANGED vars
  BY <1>1 DEF vars, TypeOK
<1>2. CASE \E f \in Fd, i \in Obj, n \in Name : vfs_open(f, i, n)
  BY <1>2, SizeTLarge DEF vfs_open, TypeOK
<1>3. CASE \E i \in Obj, n \in Name : open_fails(i, n)
  BY <1>3 DEF open_fails, TypeOK
<1>4. CASE \E f \in Fd : vfs_close(f)
  BY <1>4, SizeTLarge DEF vfs_close, TypeOK
<1>5. CASE \E f, g \in Fd : vfs_dup2(f, g)
  BY <1>5 DEF vfs_dup2, TypeOK
<1>6. CASE \E n \in Name : vfs_unlink(n)
  BY <1>6 DEF vfs_unlink, shm_destroy, Pull, TypeOK
<1>7. CASE \E f \in Fd, i \in Obj, n \in Lengths : vfs_ftruncate(f, i, n)
  BY <1>7 DEF vfs_ftruncate, shm_truncate, truncate_oom, Pull, TypeOK
<1>8. ASSUME NEW f \in Fd, NEW i \in Obj, NEW c \in Counts, shm_read(f, i, c)
      PROVE  offset' \in [Fd -> 0 .. SIZE_T - 1]
  <2>1. /\ offset[f] \in 0 .. SIZE_T - 1 /\ size[i] \in 0 .. SIZE_T - 1
        /\ c \in Nat /\ SIZE_T \in Nat
    BY ShmAssumption DEF TypeOK
  <2>2. ReadEnd(f, i, c) \in 0 .. SIZE_T - 1
    BY <2>1 DEF ReadEnd
  <2>3. QED
    BY <1>8, <2>2 DEF shm_read, TypeOK
<1>9. ASSUME NEW f \in Fd, NEW i \in Obj, NEW c \in Counts, shm_write(f, i, c)
      PROVE  /\ offset' \in [Fd -> 0 .. SIZE_T - 1] /\ pulled' \in BOOLEAN
             /\ UNCHANGED <<node, file, mapped>>
  <2>1. (offset[f] + c) % SIZE_T \in 0 .. SIZE_T - 1
    BY SumInRange
  <2>2. offset' \in [Fd -> 0 .. SIZE_T - 1]
    BY <1>9, <2>1 DEF shm_write, TypeOK
  <2>3. pulled' \in BOOLEAN
    BY <1>9 DEF shm_write, shm_truncate, truncate_oom, Pull, TypeOK
  <2>4. QED
    BY <1>9, <2>2, <2>3 DEF shm_write
<1>10. CASE \E f \in Fd, i \in Obj, a \in Page, c \in Counts : sys_mmap(f, i, a, c)
  BY <1>10 DEF sys_mmap, FramesOf, MapsUpTo, TypeOK
<1>11. CASE \E x \in Frame : sys_munmap(x)
  BY <1>11 DEF sys_munmap, TypeOK
<1>12. CASE \E x \in Frame : pmm_alloc(x) \/ pmm_free(x)
  BY <1>12 DEF pmm_alloc, pmm_free, TypeOK
<1>13. ASSUME NEW f \in Fd, NEW i \in Obj, NEW c \in Counts, shm_read(f, i, c)
       PROVE  UNCHANGED <<node, file, mapped, pulled>>
  BY <1>13 DEF shm_read
<1>14. QED
  BY <1>1, <1>2, <1>3, <1>4, <1>5, <1>6, <1>7, <1>8, <1>9, <1>10, <1>11,
     <1>12, <1>13 DEF Next, TypeOK

LEMMA TypeStep ==
    ASSUME TypeOK, ObjectInv, [Next]_vars
    PROVE  TypeOK'
  BY StepKinds, ObjectTypes, FileTypes DEF TypeOK

-----------------------------------------------------------------------------
(* A name gets a second object, or a device file another object's slot, in *)
(* no step.                                                                *)
LEMMA NodesStep ==
    ASSUME TypeOK, NodesReachObjects, [Next]_vars
    PROVE  NodesReachObjects'
<1>1. CASE UNCHANGED <<used, name, node>>
  BY <1>1 DEF NodesReachObjects
<1>2. ASSUME NEW i \in Obj, NEW n \in Name, shm_open_object(i, n),
             node' = node \/ (node[n] = NO_NODE /\ node' = [node EXCEPT ![n] = i])
      PROVE  NodesReachObjects'
  <2>1. /\ \A j \in Obj \ {i} : used'[j] = used[j] /\ name'[j] = name[j]
        /\ used'[i] /\ name'[i] = n
    BY <1>2 DEF shm_open_object, TypeOK
  <2>2. \/ used[i] /\ name[i] = n
        \/ ~used[i] /\ \A j \in Obj : ~(used[j] /\ name[j] = n)
    BY <1>2 DEF shm_open_object, IsObject, HasName
  <2>3. ASSUME NEW j \in Obj, NEW l \in Obj, used'[j], used'[l], name'[j] = name'[l]
        PROVE  j = l
    BY <2>1, <2>2, <2>3 DEF NodesReachObjects
  <2>4. ASSUME NEW m \in Name, node[m] # NO_NODE
        PROVE  used'[node[m]] /\ name'[node[m]] = m
    <3>1. node[m] \in Obj /\ used[node[m]] /\ name[node[m]] = m
      BY <2>4 DEF NodesReachObjects, TypeOK
    <3>2. QED
      BY <2>1, <2>2, <3>1
  <2>5. ASSUME NEW m \in Name, node'[m] # NO_NODE
        PROVE  used'[node'[m]] /\ name'[node'[m]] = m
    <3>1. node'[m] = node[m] \/ (m = n /\ node'[m] = i)
      BY <1>2 DEF TypeOK
    <3>2. QED
      BY <2>1, <2>4, <2>5, <3>1
  <2>6. QED
    BY <2>3, <2>5 DEF NodesReachObjects
<1>3. CASE \E f \in Fd, i \in Obj, n \in Name : vfs_open(f, i, n)
  BY <1>2, <1>3 DEF vfs_open
<1>4. CASE \E i \in Obj, n \in Name : open_fails(i, n)
  BY <1>2, <1>4 DEF open_fails
<1>5. ASSUME NEW n \in Name, vfs_unlink(n) PROVE NodesReachObjects'
  <2>1. node[n] \in Obj /\ used[node[n]] /\ name[node[n]] = n
    BY <1>5 DEF vfs_unlink, NodesReachObjects, TypeOK
  <2>2. /\ \A j \in Obj \ {node[n]} : used'[j] = used[j]
        /\ ~used'[node[n]] /\ name' = name
        /\ \A m \in Name \ {n} : node'[m] = node[m]
        /\ node'[n] = NO_NODE
    BY <1>5, <2>1 DEF vfs_unlink, shm_destroy, TypeOK
  <2>3. ASSUME NEW m \in Name, node'[m] # NO_NODE
        PROVE  used'[node'[m]] /\ name'[node'[m]] = m
    <3>1. m # n /\ node'[m] = node[m]
      BY <2>2, <2>3
    <3>2. node[m] \in Obj /\ used[node[m]] /\ name[node[m]] = m
      BY <2>3, <3>1 DEF NodesReachObjects, TypeOK
    <3>3. QED
      BY <2>1, <2>2, <3>1, <3>2
  <2>4. \A i, j \in Obj : used'[i] /\ used'[j] /\ name'[i] = name'[j] => i = j
    BY <2>1, <2>2 DEF NodesReachObjects
  <2>5. QED
    BY <2>3, <2>4 DEF NodesReachObjects
<1>6. CASE \E f \in Fd : vfs_close(f)
  BY <1>1, <1>6 DEF vfs_close, objects
<1>7. CASE \E f, g \in Fd : vfs_dup2(f, g)
  BY <1>1, <1>7 DEF vfs_dup2, objects
<1>8. CASE \E f \in Fd, i \in Obj, n \in Lengths : vfs_ftruncate(f, i, n)
  BY <1>1, <1>8 DEF vfs_ftruncate
<1>9. CASE \E f \in Fd, i \in Obj, c \in Counts : shm_read(f, i, c) \/ shm_write(f, i, c)
  BY <1>1, <1>9 DEF shm_read, shm_write, objects
<1>10. CASE \E f \in Fd, i \in Obj, a \in Page, c \in Counts : sys_mmap(f, i, a, c)
  BY <1>1, <1>10 DEF sys_mmap, objects
<1>11. CASE \E x \in Frame : sys_munmap(x) \/ pmm_alloc(x) \/ pmm_free(x)
  BY <1>1, <1>11 DEF sys_munmap, pmm_alloc, pmm_free, objects
<1>12. CASE UNCHANGED vars
  BY <1>1, <1>12 DEF vars
<1>13. QED
  BY <1>3, <1>4, <1>5, <1>6, <1>7, <1>8, <1>9, <1>10, <1>11, <1>12 DEF Next

-----------------------------------------------------------------------------
(* A mapping is of pages of an object when it is made, and objects only    *)
(* lose the pages that Pull records.                                       *)
LEMMA MappedStep ==
    ASSUME TypeOK, ObjectInv, MappedStaysShared, [Next]_vars
    PROVE  MappedStaysShared'
<1>1. ASSUME pages' = pages, pulled' = pulled, mapped' \subseteq mapped \cup Shared
      PROVE  MappedStaysShared'
  BY <1>1 DEF MappedStaysShared, Shared
<1>2. ASSUME NEW S, Pull(S), mapped' = mapped, Shared \subseteq Shared' \cup S
      PROVE  MappedStaysShared'
  BY <1>2 DEF MappedStaysShared, Pull
<1>3. ASSUME NEW i \in Obj, NEW n, shm_truncate(i, n), mapped' = mapped
      PROVE  MappedStaysShared'
  <2>1. PICK g \in [Grown(i, n) -> free] :
            pages' = [pages EXCEPT ![i] = PagesAfter(i, n, g)]
    BY <1>3 DEF shm_truncate
  <2>2. ASSUME NEW x \in Frame, NEW j \in Obj, NEW k \in Page, pages[j][k] = x
        PROVE  x \in Shared' \cup FramesOf(i, Dropped(i, n))
    <3>1. CASE j # i
      <4>1. pages'[j][k] = x
        BY <2>1, <2>2, <3>1 DEF TypeOK
      <4>2. QED
        BY <4>1 DEF Shared
    <3>2. CASE j = i
      <4>1. k \notin Grown(i, n)
        <5>1. k \in Nat /\ PagesOf(size[i]) \in Nat
          BY PagesOfNat, ShmAssumption DEF Page, TypeOK
        <5>2. k < PagesOf(size[i])
          BY <2>2, <3>2, ShmAssumption DEF ObjectInv, PagesExact
        <5>3. QED
          BY <5>1, <5>2 DEF Grown
      <4>2. CASE k \in Dropped(i, n)
        BY <2>2, <3>2, <4>2, ShmAssumption DEF FramesOf
      <4>3. CASE k \notin Dropped(i, n)
        <5>1. pages'[i][k] = x
          BY <2>1, <2>2, <3>2, <4>1, <4>3 DEF PagesAfter, TypeOK
        <5>2. QED
          BY <5>1 DEF Shared
      <4>4. QED
        BY <4>2, <4>3
    <3>3. QED
      BY <3>1, <3>2
  <2>3. Shared \subseteq Shared' \cup FramesOf(i, Dropped(i, n))
    BY <2>2 DEF Shared
  <2>4. Pull(FramesOf(i, Dropped(i, n)))
    BY <1>3 DEF shm_truncate
  <2>5. QED
    BY <1>2, <1>3, <2>3, <2>4
<1>4. ASSUME NEW i \in Obj, NEW n \in 0 .. SIZE_T - 1, used[i], truncate_oom(i, n),
             UNCHANGED <<used, name, others, mapped>>
      PROVE  MappedStaysShared'
  <2>1. Same
    BY <1>4, CutFailsKeeps DEF CutFails
  <2>2. QED
    BY <1>1, <1>4, <2>1 DEF Same, objects, truncate_oom
<1>5. CASE \E f \in Fd, i \in Obj, n \in Name : vfs_open(f, i, n)
  BY <1>1, <1>5, OpenedPages DEF vfs_open, ObjectInv
<1>6. CASE \E i \in Obj, n \in Name : open_fails(i, n)
  BY <1>1, <1>6, OpenedPages DEF open_fails, ObjectInv
<1>7. ASSUME NEW n \in Name, vfs_unlink(n) PROVE MappedStaysShared'
  <2>1. PICK i \in Obj : i = node[n]
    BY <1>7 DEF vfs_unlink, TypeOK
  <2>2. shm_destroy(i) /\ mapped' = mapped
    BY <1>7, <2>1 DEF vfs_unlink
  <2>3. ASSUME NEW x \in Frame, NEW j \in Obj, NEW k \in Page, pages[j][k] = x
        PROVE  x \in Shared' \cup FramesOf(i, Destroyed(i))
    <3>1. CASE j = i /\ k \in Destroyed(i)
      BY <2>3, <3>1, ShmAssumption DEF FramesOf
    <3>2. CASE ~(j = i /\ k \in Destroyed(i))
      <4>1. pages'[j][k] = x
        BY <2>2, <2>3, <3>2 DEF shm_destroy, TypeOK
      <4>2. QED
        BY <4>1 DEF Shared
    <3>3. QED
      BY <3>1, <3>2
  <2>4. Shared \subseteq Shared' \cup FramesOf(i, Destroyed(i))
    BY <2>3 DEF Shared
  <2>5. QED
    BY <1>2, <2>2, <2>4 DEF shm_destroy
<1>8. ASSUME NEW f \in Fd, NEW i \in Obj, NEW n \in Lengths, vfs_ftruncate(f, i, n)
      PROVE  MappedStaysShared'
  <2>1. n \in 0 .. SIZE_T - 1
    BY ShmAssumption
  <2>2. QED
    BY <1>3, <1>4, <1>8, <2>1 DEF vfs_ftruncate, Reaches
<1>9. ASSUME NEW f \in Fd, NEW i \in Obj, NEW c \in Counts, shm_write(f, i, c)
      PROVE  MappedStaysShared'
  <2>1. PICK n \in 0 .. SIZE_T - 1 : n = (offset[f] + c) % SIZE_T
    BY SumInRange
  <2>2. /\ UNCHANGED <<used, name, others, mapped>> /\ used[i]
        /\ \/ shm_truncate(i, n)
           \/ truncate_oom(i, n)
           \/ UNCHANGED <<pages, pulled>>
    BY <1>9, <2>1 DEF shm_write, Reaches
  <2>3. QED
    BY <1>1, <1>3, <1>4, <2>2
<1>10. ASSUME NEW f \in Fd, NEW i \in Obj, NEW a \in Page, NEW c \in Counts,
              sys_mmap(f, i, a, c)
       PROVE  MappedStaysShared'
  <2>1. FramesOf(i, MapsUpTo(i, a, c)) \subseteq Shared
    BY DEF FramesOf, MapsUpTo, Shared, TypeOK
  <2>2. QED
    BY <1>1, <1>10, <2>1 DEF sys_mmap, objects
<1>11. CASE \E x \in Frame : sys_munmap(x) \/ pmm_alloc(x) \/ pmm_free(x)
  BY <1>1, <1>11 DEF sys_munmap, pmm_alloc, pmm_free, objects
<1>12. CASE \E f \in Fd, i \in Obj, c \in Counts : shm_read(f, i, c)
  BY <1>1, <1>12 DEF shm_read, objects
<1>13. CASE \E f \in Fd : vfs_close(f)
  BY <1>1, <1>13 DEF vfs_close, objects
<1>14. CASE \E f, g \in Fd : vfs_dup2(f, g)
  BY <1>1, <1>14 DEF vfs_dup2, objects
<1>15. CASE UNCHANGED vars
  BY <1>1, <1>15 DEF vars
<1>16. QED
  BY <1>5, <1>6, <1>7, <1>8, <1>9, <1>10, <1>11, <1>12, <1>13, <1>14, <1>15
  DEF Next

-----------------------------------------------------------------------------
LEMMA ShmInvStep == ShmInv /\ [Next]_vars => ShmInv'
<1> SUFFICES ASSUME ShmInv, [Next]_vars PROVE ShmInv'
  OBVIOUS
<1>1. TypeOK /\ ObjectInv /\ NodesReachObjects /\ MappedStaysShared
  BY DEF ShmInv, ObjectInv
<1>2. ObjectInv'
  BY <1>1, StepKinds, SameKeeps, OpenedKeeps, GoneKeeps, CutKeeps,
     CutFailsKeeps, ElsewhereKeeps
<1>3. TypeOK' /\ NodesReachObjects' /\ MappedStaysShared'
  BY <1>1, TypeStep, NodesStep, MappedStep
<1>4. QED
  BY <1>2, <1>3 DEF ShmInv, ObjectInv

(* Whatever programs do with objects below /dev/shm, and wherever frames   *)
(* run out, the invariant of the object table holds.                       *)
THEOREM ShmInvariant == Spec => []ShmInv
  BY InitShmInv, ShmInvStep, PTL DEF Spec

(* An object has frames for exactly the pages of its size (shm.c:36-70).   *)
THEOREM PagesSafe == Spec => []PagesExact
<1>1. ShmInv => PagesExact
  BY DEF ShmInv
<1>2. QED
  BY <1>1, ShmInvariant, PTL

(* No frame is leaked, freed twice or shared by two objects.               *)
THEOREM FramesSafe == Spec => []FramesAccounted
<1>1. ShmInv => FramesAccounted
  BY DEF ShmInv
<1>2. QED
  BY <1>1, ShmInvariant, PTL

(* Unless a negative length wrapped around, every byte of an object is in  *)
(* a frame.                                                                *)
THEOREM BytesSafe == Spec => []BytesBacked
<1>1. ShmInv => BytesBacked
  BY DEF ShmInv
<1>2. QED
  BY <1>1, ShmInvariant, PTL

(* Unlinking a name destroys the object of that name, and no other.        *)
THEOREM NamesSafe == Spec => []NodesReachObjects
<1>1. ShmInv => NodesReachObjects
  BY DEF ShmInv
<1>2. QED
  BY <1>1, ShmInvariant, PTL

(* A mapping leads to the memory of an object until that is given back.    *)
THEOREM MappingsSafe == Spec => []MappedStaysShared
<1>1. ShmInv => MappedStaysShared
  BY DEF ShmInv
<1>2. QED
  BY <1>1, ShmInvariant, PTL
=============================================================================
