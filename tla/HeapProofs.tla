----------------------------- MODULE HeapProofs -----------------------------
(***************************************************************************)
(* Proofs about the kernel heap, for every page size, any requests and any *)
(* number of blocks: tiling, the free list, the payloads and the depth of  *)
(* the recursion of kmalloc.                                               *)
(***************************************************************************)
EXTENDS Heap, FiniteSetTheorems, TLAPS

Hdr == [size : Nat, used : BOOLEAN, prev : Nat, next : Nat]

(* The free list as a property of headers m, a head and the set F of its   *)
(* blocks: linked both ways, and in one run from the head.                 *)
WellLinked(m, head, F) ==
    /\ head \in F \cup {NULL}
    /\ head # NULL => m[head].prev = NULL
    /\ \A b \in F :
         /\ m[b].next \in F \cup {NULL}
         /\ m[b].prev \in F \cup {NULL}
         /\ m[b].next # NULL => m[m[b].next].prev = b
         /\ m[b].prev # NULL => m[m[b].prev].next = b
         /\ m[b].prev = NULL => head = b

Listed(m, head, F) ==
    \E n \in Nat : \E f \in Bijection(1 .. n, F) : ListIs(m, head, f, n)

(* free_list_remove of a linked block, field by field.                     *)
LEMMA UnlinkedFields ==
    ASSUME NEW m, m \in [DOMAIN m -> Hdr], NEW b \in DOMAIN m
    PROVE  /\ Unlinked(m, b) \in [DOMAIN m -> Hdr]
           /\ \A c \in DOMAIN m :
                /\ Unlinked(m, b)[c].size = m[c].size
                /\ Unlinked(m, b)[c].used = m[c].used
                /\ c # b => Unlinked(m, b)[c].next =
                              IF c = m[b].prev THEN m[b].next ELSE m[c].next
                /\ c # b => Unlinked(m, b)[c].prev =
                              IF c = m[b].next THEN m[b].prev ELSE m[c].prev
<1>1. ASSUME NEW c \in DOMAIN m
      PROVE  /\ Unlinked(m, b)[c] \in Hdr
             /\ Unlinked(m, b)[c].size = m[c].size
             /\ Unlinked(m, b)[c].used = m[c].used
             /\ c # b => Unlinked(m, b)[c].next =
                           IF c = m[b].prev THEN m[b].next ELSE m[c].next
             /\ c # b => Unlinked(m, b)[c].prev =
                           IF c = m[b].next THEN m[b].prev ELSE m[c].prev
  <2>1. m[c] \in Hdr /\ m[b] \in Hdr
    OBVIOUS
  <2>2. Unlinked(m, b)[c] =
          IF c = b THEN [m[c] EXCEPT !.prev = NULL, !.next = NULL]
          ELSE [m[c] EXCEPT !.next = IF c = m[b].prev THEN m[b].next ELSE @,
                            !.prev = IF c = m[b].next THEN m[b].prev ELSE @]
    BY DEF Unlinked
  <2>3. CASE c = b
    <3>1. Unlinked(m, b)[c] = [m[c] EXCEPT !.prev = NULL, !.next = NULL]
      BY <2>2, <2>3
    <3>2. NULL \in Nat
      BY DEF NULL
    <3>3. QED
      BY <2>1, <2>3, <3>1, <3>2 DEF Hdr
  <2>4. CASE c # b
    BY <2>1, <2>2, <2>4 DEF Hdr
  <2>5. QED
    BY <2>3, <2>4
<1>2. Unlinked(m, b) = [c \in DOMAIN m |-> Unlinked(m, b)[c]]
  BY DEF Unlinked
<1>3. QED
  BY <1>1, <1>2

(* free_list_insert, field by field.                                       *)
LEMMA LinkedFields ==
    ASSUME NEW m, m \in [DOMAIN m -> Hdr], NEW b \in DOMAIN m, b \in Nat,
           NEW head \in Nat
    PROVE  /\ Linked(m, head, b) \in [DOMAIN m -> Hdr]
           /\ \A c \in DOMAIN m :
                /\ Linked(m, head, b)[c].size = m[c].size
                /\ Linked(m, head, b)[c].used = m[c].used
                /\ Linked(m, head, b)[c].next = IF c = b THEN head
                                                ELSE m[c].next
                /\ Linked(m, head, b)[c].prev = IF c = b THEN NULL
                                                ELSE IF c = head THEN b
                                                ELSE m[c].prev
<1>1. ASSUME NEW c \in DOMAIN m
      PROVE  /\ Linked(m, head, b)[c] \in Hdr
             /\ Linked(m, head, b)[c].size = m[c].size
             /\ Linked(m, head, b)[c].used = m[c].used
             /\ Linked(m, head, b)[c].next = IF c = b THEN head
                                             ELSE m[c].next
             /\ Linked(m, head, b)[c].prev = IF c = b THEN NULL
                                             ELSE IF c = head THEN b
                                             ELSE m[c].prev
  <2>1. m[c] \in Hdr
    OBVIOUS
  <2>2. Linked(m, head, b)[c] =
          IF c = b THEN [m[c] EXCEPT !.prev = NULL, !.next = head]
          ELSE [m[c] EXCEPT !.prev = IF c = head THEN b ELSE @]
    BY DEF Linked
  <2>3. CASE c = b
    <3>1. Linked(m, head, b)[c] = [m[c] EXCEPT !.prev = NULL, !.next = head]
      BY <2>2, <2>3
    <3>2. NULL \in Nat
      BY DEF NULL
    <3>3. QED
      BY <2>1, <2>3, <3>1, <3>2 DEF Hdr
  <2>4. CASE c # b
    BY <2>1, <2>2, <2>4 DEF Hdr
  <2>5. QED
    BY <2>3, <2>4
<1>2. Linked(m, head, b) = [c \in DOMAIN m |-> Linked(m, head, b)[c]]
  BY DEF Linked
<1>3. QED
  BY <1>1, <1>2

(* A bijection from 1..n, spelled out.                                     *)
LEMMA Enumerates ==
    ASSUME NEW n \in Nat, NEW F, NEW f
    PROVE  f \in Bijection(1 .. n, F) <=>
             /\ f \in [1 .. n -> F]
             /\ \A j, k \in 1 .. n : f[j] = f[k] => j = k
             /\ \A c \in F : \E k \in 1 .. n : f[k] = c
BY DEF Bijection, Injection, Surjection, IsInjective, Range

(* A list of blocks that keep their links is the same list.                *)
LEMMA LinksKept ==
    ASSUME NEW m, NEW w, NEW head, NEW F, NULL \notin F,
           \A c \in F : w[c].next = m[c].next /\ w[c].prev = m[c].prev,
           WellLinked(m, head, F), Listed(m, head, F)
    PROVE  WellLinked(w, head, F) /\ Listed(w, head, F)
<1>1. WellLinked(w, head, F)
  BY DEF WellLinked
<1>2. PICK n \in Nat : \E f \in Bijection(1 .. n, F) : ListIs(m, head, f, n)
  BY DEF Listed
<1>3. PICK f \in Bijection(1 .. n, F) : ListIs(m, head, f, n)
  BY <1>2
<1>4. f \in [1 .. n -> F]
  BY <1>3, Enumerates
<1>5. ListIs(w, head, f, n)
  BY <1>3, <1>4 DEF ListIs
<1>6. QED
  BY <1>1, <1>3, <1>5 DEF Listed


(* free_list_remove takes one block out of the list.                       *)
LEMMA UnlinkKeeps ==
    ASSUME NEW m, m \in [DOMAIN m -> Hdr], NEW head, NEW F, NULL \notin F,
           F \subseteq DOMAIN m, NEW b \in F,
           WellLinked(m, head, F), Listed(m, head, F)
    PROVE  /\ WellLinked(Unlinked(m, b), HeadWithout(m, head, b), F \ {b})
           /\ Listed(Unlinked(m, b), HeadWithout(m, head, b), F \ {b})
<1> DEFINE w == Unlinked(m, b)
           new == HeadWithout(m, head, b)
<1>1. \A c \in F \ {b} :
        /\ w[c].next = IF c = m[b].prev THEN m[b].next ELSE m[c].next
        /\ w[c].prev = IF c = m[b].next THEN m[b].prev ELSE m[c].prev
  BY UnlinkedFields
<1>2. new = IF m[b].prev = NULL THEN m[b].next ELSE head
  BY DEF HeadWithout
<1> HIDE DEF w, new
<1>3. WellLinked(w, new, F \ {b})
  <2>1. new \in (F \ {b}) \cup {NULL}
    BY <1>2 DEF WellLinked
  <2>2. new # NULL => w[new].prev = NULL
    BY <1>1, <1>2, <2>1 DEF WellLinked
  <2>3. ASSUME NEW c \in F \ {b}
        PROVE  /\ w[c].next \in (F \ {b}) \cup {NULL}
               /\ w[c].prev \in (F \ {b}) \cup {NULL}
               /\ w[c].next # NULL => w[w[c].next].prev = c
               /\ w[c].prev # NULL => w[w[c].prev].next = c
               /\ w[c].prev = NULL => new = c
    BY <1>1, <1>2, <2>3 DEF WellLinked
  <2>4. QED
    BY <2>1, <2>2, <2>3 DEF WellLinked
<1>4. PICK n \in Nat : \E f \in Bijection(1 .. n, F) : ListIs(m, head, f, n)
  BY DEF Listed
<1>5. PICK f \in Bijection(1 .. n, F) : ListIs(m, head, f, n)
  BY <1>4
<1>6. /\ f \in [1 .. n -> F]
      /\ \A j, k \in 1 .. n : f[j] = f[k] => j = k
      /\ \A c \in F : \E k \in 1 .. n : f[k] = c
  BY <1>5, Enumerates
<1>7. PICK j \in 1 .. n : f[j] = b
  BY <1>6
<1>8. /\ m[b].next = IF j = n THEN NULL ELSE f[j + 1]
      /\ m[b].prev = IF j = 1 THEN NULL ELSE f[j - 1]
  <2>1. m[b].next = IF j = n THEN NULL ELSE f[j + 1]
    BY <1>5, <1>7 DEF ListIs
  <2>2. CASE j = 1
    <3>1. head = b
      BY <1>5, <1>7, <2>2 DEF ListIs
    <3>2. QED
      BY <2>1, <2>2, <3>1 DEF WellLinked
  <2>3. CASE j # 1
    <3>1. j - 1 \in 1 .. n /\ j - 1 # n /\ (j - 1) + 1 = j
      BY <2>3
    <3>2. f[j - 1] \in F /\ m[f[j - 1]].next = b
      BY <1>5, <1>6, <1>7, <3>1 DEF ListIs
    <3>3. QED
      BY <2>1, <2>3, <3>2 DEF WellLinked
  <2>4. QED
    BY <2>2, <2>3
<1> DEFINE g == [k \in 1 .. n - 1 |-> IF k < j THEN f[k] ELSE f[k + 1]]
<1>9. \A k \in 1 .. n - 1 : g[k] = IF k < j THEN f[k] ELSE f[k + 1]
  OBVIOUS
<1>10. g \in Bijection(1 .. n - 1, F \ {b})
  <2>1. n - 1 \in Nat
    BY <1>7
  <2>2. g \in [1 .. n - 1 -> F \ {b}]
    <3>1. ASSUME NEW k \in 1 .. n - 1
          PROVE  (IF k < j THEN f[k] ELSE f[k + 1]) \in F \ {b}
      BY <1>6, <1>7, <3>1
    <3>2. QED
      BY <3>1
  <2>3. ASSUME NEW k \in 1 .. n - 1, NEW l \in 1 .. n - 1, g[k] = g[l]
        PROVE  k = l
    <3> HIDE DEF g
    <3>1. k \in 1 .. n /\ l \in 1 .. n /\ k + 1 \in 1 .. n /\ l + 1 \in 1 .. n
      OBVIOUS
    <3>2. QED
      BY <1>6, <1>9, <2>3, <3>1
  <2>4. ASSUME NEW c \in F \ {b} PROVE \E k \in 1 .. n - 1 : g[k] = c
    <3> HIDE DEF g
    <3>1. PICK k \in 1 .. n : f[k] = c
      BY <1>6
    <3>2. k # j
      BY <1>7, <3>1, <2>4
    <3>3. CASE k < j
      <4>1. k \in 1 .. n - 1 /\ g[k] = c
        BY <1>9, <3>1, <3>3
      <4>2. QED
        BY <4>1
    <3>4. CASE k > j
      <4>1. k - 1 \in 1 .. n - 1 /\ ~(k - 1 < j) /\ (k - 1) + 1 = k
        BY <3>4
      <4>2. g[k - 1] = c
        BY <1>9, <3>1, <4>1
      <4>3. QED
        BY <4>1, <4>2
    <3>5. QED
      BY <3>2, <3>3, <3>4
  <2> HIDE DEF g
  <2>5. QED
    BY <2>1, <2>2, <2>3, <2>4, Enumerates
<1> HIDE DEF g
<1>11. ListIs(w, new, g, n - 1)
  <2>1. new = IF n - 1 = 0 THEN NULL ELSE g[1]
    <3>1. CASE j = 1
      BY <1>2, <1>8, <1>9, <3>1
    <3>2. CASE j # 1
      <4>1. f[j - 1] \in F
        BY <1>6, <3>2
      <4>2. new = head
        BY <1>2, <1>8, <3>2, <4>1
      <4>3. head = f[1] /\ 1 \in 1 .. n - 1 /\ 1 < j
        BY <1>5, <3>2 DEF ListIs
      <4>4. QED
        BY <1>9, <4>2, <4>3
    <3>3. QED
      BY <3>1, <3>2
  <2>2. ASSUME NEW k \in 1 .. n - 1
        PROVE  w[g[k]].next = IF k = n - 1 THEN NULL ELSE g[k + 1]
    <3>1. g[k] \in F \ {b}
      BY <1>10, Enumerates
    <3>2. CASE k < j - 1
      <4>1. /\ k \in 1 .. n /\ k # n /\ k + 1 \in 1 .. n - 1 /\ k + 1 < j
            /\ k # n - 1 /\ j - 1 \in 1 .. n /\ k < j /\ j # 1 /\ k # j - 1
        BY <3>2
      <4>2. g[k] = f[k] /\ g[k + 1] = f[k + 1]
        BY <1>9, <4>1
      <4>3. f[k] # f[j - 1]
        BY <1>6, <4>1
      <4>4. m[f[k]].next = f[k + 1]
        BY <1>5, <4>1 DEF ListIs
      <4>5. w[g[k]].next = m[f[k]].next
        BY <1>1, <1>8, <3>1, <4>1, <4>2, <4>3
      <4>6. QED
        BY <4>1, <4>2, <4>4, <4>5
    <3>3. CASE k = j - 1
      <4>1. k < j /\ j # 1
        BY <3>3
      <4>2. g[k] = f[j - 1]
        BY <1>9, <3>3, <4>1
      <4>3. w[g[k]].next = m[b].next
        BY <1>1, <1>8, <3>1, <4>1, <4>2
      <4>4. CASE k = n - 1
        <5>1. j = n
          BY <3>3, <4>4
        <5>2. QED
          BY <1>8, <4>3, <4>4, <5>1
      <4>5. CASE k # n - 1
        <5>1. j # n /\ k + 1 \in 1 .. n - 1 /\ ~(k + 1 < j)
              /\ (k + 1) + 1 = j + 1
          BY <3>3, <4>5
        <5>2. g[k + 1] = f[j + 1]
          BY <1>9, <5>1
        <5>3. QED
          BY <1>8, <4>3, <4>5, <5>1, <5>2
      <4>6. QED
        BY <4>4, <4>5
    <3>4. CASE k >= j
      <4>1. /\ ~(k < j) /\ k + 1 \in 1 .. n /\ (k + 1 = n <=> k = n - 1)
            /\ (j # 1 => j - 1 \in 1 .. n /\ k + 1 # j - 1)
            /\ (k # n - 1 => k + 1 \in 1 .. n - 1 /\ ~(k + 1 < j))
        BY <3>4
      <4>2. g[k] = f[k + 1]
        BY <1>9, <4>1
      <4>3. j # 1 => f[k + 1] # f[j - 1]
        BY <1>6, <4>1
      <4>4. f[k + 1] \in F
        BY <1>6, <4>1
      <4>5. w[g[k]].next = m[f[k + 1]].next
        BY <1>1, <1>8, <3>1, <4>2, <4>3, <4>4
      <4>6. m[f[k + 1]].next = IF k = n - 1 THEN NULL ELSE f[(k + 1) + 1]
        BY <1>5, <4>1 DEF ListIs
      <4>7. k # n - 1 => g[k + 1] = f[(k + 1) + 1]
        BY <1>9, <4>1
      <4>8. QED
        BY <4>5, <4>6, <4>7
    <3>5. QED
      BY <3>2, <3>3, <3>4
  <2>3. QED
    BY <2>1, <2>2 DEF ListIs
<1>12. n - 1 \in Nat
  BY <1>7
<1>13. Listed(w, new, F \ {b})
  BY <1>10, <1>11, <1>12 DEF Listed
<1>14. QED
  BY <1>3, <1>13 DEF w, new

(* free_list_insert puts one block in front of the list.                   *)
LEMMA LinkKeeps ==
    ASSUME NEW m, m \in [DOMAIN m -> Hdr], NEW head, NEW F, NULL \notin F,
           F \subseteq DOMAIN m, NEW b \in DOMAIN m, b \in Nat, b # NULL,
           b \notin F, head \in Nat,
           WellLinked(m, head, F), Listed(m, head, F)
    PROVE  /\ WellLinked(Linked(m, head, b), b, F \cup {b})
           /\ Listed(Linked(m, head, b), b, F \cup {b})
<1> DEFINE w == Linked(m, head, b)
<1>1. \A c \in F \cup {b} :
        /\ w[c].next = IF c = b THEN head ELSE m[c].next
        /\ w[c].prev = IF c = b THEN NULL
                       ELSE IF c = head THEN b ELSE m[c].prev
  BY LinkedFields
<1> HIDE DEF w
<1>2. WellLinked(w, b, F \cup {b})
  <2>1. w[b].prev = NULL
    BY <1>1
  <2>2. ASSUME NEW c \in F \cup {b}
        PROVE  /\ w[c].next \in F \cup {b} \cup {NULL}
               /\ w[c].prev \in F \cup {b} \cup {NULL}
               /\ w[c].next # NULL => w[w[c].next].prev = c
               /\ w[c].prev # NULL => w[w[c].prev].next = c
               /\ w[c].prev = NULL => b = c
    BY <1>1, <2>2 DEF WellLinked
  <2>3. QED
    BY <2>1, <2>2 DEF WellLinked
<1>3. PICK n \in Nat : \E f \in Bijection(1 .. n, F) : ListIs(m, head, f, n)
  BY DEF Listed
<1>4. PICK f \in Bijection(1 .. n, F) : ListIs(m, head, f, n)
  BY <1>3
<1>5. /\ f \in [1 .. n -> F]
      /\ \A j, k \in 1 .. n : f[j] = f[k] => j = k
      /\ \A c \in F : \E k \in 1 .. n : f[k] = c
  BY <1>4, Enumerates
<1> DEFINE g == [k \in 1 .. n + 1 |-> IF k = 1 THEN b ELSE f[k - 1]]
<1>6. \A k \in 1 .. n + 1 : g[k] = IF k = 1 THEN b ELSE f[k - 1]
  OBVIOUS
<1>7. g \in Bijection(1 .. n + 1, F \cup {b})
  <2>1. n + 1 \in Nat
    OBVIOUS
  <2>2. g \in [1 .. n + 1 -> F \cup {b}]
    <3>1. ASSUME NEW k \in 1 .. n + 1
          PROVE  (IF k = 1 THEN b ELSE f[k - 1]) \in F \cup {b}
      BY <1>5, <3>1
    <3>2. QED
      BY <3>1
  <2>3. ASSUME NEW k \in 1 .. n + 1, NEW l \in 1 .. n + 1, g[k] = g[l]
        PROVE  k = l
    <3> HIDE DEF g
    <3>1. /\ k # 1 => k - 1 \in 1 .. n /\ f[k - 1] \in F
          /\ l # 1 => l - 1 \in 1 .. n /\ f[l - 1] \in F
      BY <1>5
    <3>2. QED
      BY <1>5, <1>6, <2>3, <3>1
  <2>4. ASSUME NEW c \in F \cup {b} PROVE \E k \in 1 .. n + 1 : g[k] = c
    <3> HIDE DEF g
    <3>1. CASE c = b
      <4>1. 1 \in 1 .. n + 1 /\ g[1] = c
        BY <1>6, <3>1
      <4>2. QED
        BY <4>1
    <3>2. CASE c # b
      <4>1. PICK k \in 1 .. n : f[k] = c
        BY <1>5, <3>2
      <4>2. k + 1 \in 1 .. n + 1 /\ k + 1 # 1 /\ (k + 1) - 1 = k
        OBVIOUS
      <4>3. g[k + 1] = c
        BY <1>6, <4>1, <4>2
      <4>4. QED
        BY <4>2, <4>3
    <3>3. QED
      BY <3>1, <3>2
  <2> HIDE DEF g
  <2>5. QED
    BY <2>1, <2>2, <2>3, <2>4, Enumerates
<1> HIDE DEF g
<1>8. ListIs(w, b, g, n + 1)
  <2>1. b = IF n + 1 = 0 THEN NULL ELSE g[1]
    BY <1>6
  <2>2. ASSUME NEW k \in 1 .. n + 1
        PROVE  w[g[k]].next = IF k = n + 1 THEN NULL ELSE g[k + 1]
    <3>1. CASE k = 1
      <4>1. w[g[k]].next = head
        BY <1>1, <1>6, <3>1
      <4>2. CASE n = 0
        BY <1>4, <3>1, <4>1, <4>2 DEF ListIs
      <4>3. CASE n # 0
        <5>1. k + 1 \in 1 .. n + 1 /\ k + 1 # 1 /\ (k + 1) - 1 = 1
          BY <3>1, <4>3
        <5>2. g[k + 1] = f[1]
          BY <1>6, <5>1
        <5>3. head = f[1]
          BY <1>4, <4>3 DEF ListIs
        <5>4. QED
          BY <3>1, <4>1, <4>3, <5>2, <5>3
      <4>4. QED
        BY <4>2, <4>3
    <3>2. CASE k # 1
      <4>1. /\ k - 1 \in 1 .. n /\ (k - 1 = n <=> k = n + 1)
            /\ (k - 1) + 1 = k
            /\ (k # n + 1 => k + 1 \in 1 .. n + 1 /\ k + 1 # 1
                              /\ (k + 1) - 1 = k)
        BY <3>2
      <4>2. g[k] = f[k - 1] /\ f[k - 1] \in F
        BY <1>5, <1>6, <3>2, <4>1
      <4>3. w[g[k]].next = m[f[k - 1]].next
        BY <1>1, <4>2
      <4>4. m[f[k - 1]].next = IF k = n + 1 THEN NULL ELSE f[k]
        BY <1>4, <4>1 DEF ListIs
      <4>5. k # n + 1 => g[k + 1] = f[k]
        BY <1>6, <4>1
      <4>6. QED
        BY <4>3, <4>4, <4>5
    <3>3. QED
      BY <3>1, <3>2
  <2>3. QED
    BY <2>1, <2>2 DEF ListIs
<1>9. n + 1 \in Nat
  OBVIOUS
<1>10. Listed(w, b, F \cup {b})
  BY <1>7, <1>8, <1>9 DEF Listed
<1>11. QED
  BY <1>2, <1>10 DEF w
-----------------------------------------------------------------------------
(* The blocks m cover the heap up to end.                                  *)
Tiled(m, end) ==
    /\ Base \in DOMAIN m
    /\ \A b \in DOMAIN m :
         /\ Base <= b /\ m[b].size >= MIN_BLOCK
         /\ b + m[b].size \in DOMAIN m \cup {end}
         /\ b < end
         /\ \A c \in DOMAIN m : b < c => b + m[b].size <= c

LEMMA SameTiles ==
    ASSUME NEW m, NEW w, NEW end, Tiled(m, end), DOMAIN w = DOMAIN m,
           \A c \in DOMAIN m : w[c].size = m[c].size
    PROVE  Tiled(w, end)
BY DEF Tiled

(* kmalloc splits a block.                                                 *)
LEMMA SplitTiles ==
    ASSUME NEW m, NEW w, NEW end \in Nat, Tiled(m, end), DOMAIN m \subseteq Nat,
           \A c \in DOMAIN m : m[c].size \in Nat,
           NEW b \in DOMAIN m, NEW n \in Nat, n >= MIN_BLOCK,
           m[b].size - n >= MIN_BLOCK,
           DOMAIN w = DOMAIN m \cup {b + n},
           w[b].size = n, w[b + n].size = m[b].size - n,
           \A c \in DOMAIN m : c # b => w[c].size = m[c].size
    PROVE  b + n \notin DOMAIN m /\ Tiled(w, end)
<1> DEFINE r == b + n
           s == m[b].size
<1>1. /\ b \in Nat /\ s \in Nat /\ MIN_BLOCK \in Nat /\ MIN_BLOCK > 0
      /\ Base \in Nat
  BY HeapAssumption DEF MIN_BLOCK, OVERHEAD, Base
<1>2. b < r /\ r < b + s /\ r + (s - n) = b + s /\ b + n = r /\ r \in Nat
  BY <1>1
<1>3. \A c \in DOMAIN m : b < c => b + s <= c
  BY DEF Tiled
<1>4. r \notin DOMAIN m
  BY <1>1, <1>2, <1>3
<1>5. b + s \in DOMAIN m \cup {end} /\ Base <= b /\ b < end
  BY DEF Tiled
<1>6. b + s <= end
  BY <1>1, <1>5 DEF Tiled
<1>7. /\ DOMAIN w = DOMAIN m \cup {r} /\ w[b].size = n /\ w[r].size = s - n
      /\ s - n >= MIN_BLOCK
  OBVIOUS
<1>8. ASSUME NEW c \in DOMAIN m, c # b
      PROVE  /\ w[c].size = m[c].size
             /\ Base <= c /\ m[c].size >= MIN_BLOCK
             /\ c + m[c].size \in DOMAIN m \cup {end} /\ c < end
             /\ \A d \in DOMAIN m : c < d => c + m[c].size <= d
             /\ c < b \/ b + s <= c
             /\ c < b => c + m[c].size <= b
             /\ c \in Nat /\ m[c].size \in Nat
  BY <1>1, <1>3, <1>8 DEF Tiled
<1> HIDE DEF r, s
<1>9. ASSUME NEW c \in DOMAIN w
      PROVE  /\ Base <= c /\ w[c].size >= MIN_BLOCK
             /\ c + w[c].size \in DOMAIN w \cup {end} /\ c < end
             /\ \A d \in DOMAIN w : c < d => c + w[c].size <= d
  <2>1. CASE c = b
    <3>1. b + n = r /\ r \in DOMAIN w
      BY <1>2, <1>7
    <3>2. ASSUME NEW d \in DOMAIN w, b < d PROVE b + n <= d
      <4>1. d \in Nat
        BY <1>2, <1>7
      <4>2. d = r \/ b + s <= d
        BY <1>3, <1>7, <3>2
      <4>3. QED
        BY <1>1, <1>2, <4>1, <4>2
    <3>3. QED
      BY <1>5, <1>7, <2>1, <3>1, <3>2
  <2>2. CASE c = r
    <3>1. Base <= r /\ r < end
      BY <1>1, <1>2, <1>5, <1>6
    <3>2. r + w[r].size = b + s
      BY <1>2, <1>7
    <3>3. ASSUME NEW d \in DOMAIN w, r < d PROVE b + s <= d
      <4>1. d \in DOMAIN m /\ d \in Nat
        BY <1>2, <1>7, <3>3
      <4>2. b < d
        BY <1>1, <1>2, <3>3, <4>1
      <4>3. QED
        BY <1>3, <4>1, <4>2
    <3>4. QED
      BY <1>5, <1>7, <2>2, <3>1, <3>2, <3>3
  <2>3. CASE c # b /\ c # r
    <3>1. c \in DOMAIN m
      BY <1>7, <2>3
    <3>2. ASSUME NEW d \in DOMAIN w, c < d PROVE c + m[c].size <= d
      <4>1. CASE d = r
        <5>1. c < b
          BY <1>1, <1>2, <1>8, <2>3, <3>1, <3>2, <4>1
        <5>2. QED
          BY <1>1, <1>2, <1>8, <2>3, <3>1, <4>1, <5>1
      <4>2. CASE d # r
        BY <1>7, <1>8, <2>3, <3>1, <3>2, <4>2
      <4>3. QED
        BY <4>1, <4>2
    <3>3. QED
      BY <1>7, <1>8, <2>3, <3>1, <3>2
  <2>4. QED
    BY <2>1, <2>2, <2>3
<1>10. Base \in DOMAIN w
  BY <1>7 DEF Tiled
<1>11. Tiled(w, end)
  BY <1>9, <1>10 DEF Tiled
<1>12. QED
  BY <1>4, <1>11 DEF r

(* heap_expand adds a block at the end.                                    *)
LEMMA GrowTiles ==
    ASSUME NEW m, NEW w, NEW end \in Nat, Tiled(m, end), DOMAIN m \subseteq Nat,
           \A c \in DOMAIN m : m[c].size \in Nat,
           NEW n \in Nat, n >= MIN_BLOCK,
           DOMAIN w = DOMAIN m \cup {end}, w[end].size = n,
           \A c \in DOMAIN m : w[c].size = m[c].size
    PROVE  end \notin DOMAIN m /\ Tiled(w, end + n)
<1>1. MIN_BLOCK \in Nat /\ MIN_BLOCK > 0 /\ Base \in Nat
  BY HeapAssumption DEF MIN_BLOCK, OVERHEAD, Base
<1>2. ASSUME NEW c \in DOMAIN m
      PROVE  /\ Base <= c /\ m[c].size >= MIN_BLOCK
             /\ c + m[c].size \in DOMAIN m \cup {end} /\ c < end
             /\ c + m[c].size <= end
             /\ \A d \in DOMAIN m : c < d => c + m[c].size <= d
             /\ c \in Nat /\ m[c].size \in Nat
  BY <1>1, <1>2 DEF Tiled
<1>3. end \notin DOMAIN m
  BY <1>2
<1>4. Base \in DOMAIN m /\ Base < end
  BY <1>2 DEF Tiled
<1>5. ASSUME NEW c \in DOMAIN w
      PROVE  /\ Base <= c /\ w[c].size >= MIN_BLOCK
             /\ c + w[c].size \in DOMAIN w \cup {end + n} /\ c < end + n
             /\ \A d \in DOMAIN w : c < d => c + w[c].size <= d
  <2>1. CASE c = end
    <3>1. \A d \in DOMAIN w : ~(end < d)
      BY <1>2
    <3>2. end < end + n /\ Base <= end
      BY <1>1, <1>4
    <3>3. QED
      BY <2>1, <3>1, <3>2
  <2>2. CASE c \in DOMAIN m
    <3>1. c < end + n
      BY <1>1, <1>2, <2>2
    <3>2. QED
      BY <1>2, <2>2, <3>1
  <2>3. QED
    BY <2>1, <2>2
<1>6. QED
  BY <1>3, <1>4, <1>5 DEF Tiled

(* kfree merges a block with the one behind it.                            *)
LEMMA MergeTiles ==
    ASSUME NEW m, NEW w, NEW end \in Nat, Tiled(m, end), DOMAIN m \subseteq Nat,
           \A c \in DOMAIN m : m[c].size \in Nat,
           NEW b \in DOMAIN m, NEW n \in DOMAIN m, n = b + m[b].size,
           DOMAIN w = DOMAIN m \ {n}, w[b].size = m[b].size + m[n].size,
           \A c \in DOMAIN m : c # b /\ c # n => w[c].size = m[c].size
    PROVE  b # n /\ Tiled(w, end)
<1>1. /\ MIN_BLOCK \in Nat /\ MIN_BLOCK > 0 /\ Base \in Nat
      /\ b \in Nat /\ n \in Nat /\ m[b].size \in Nat /\ m[n].size \in Nat
  BY HeapAssumption DEF MIN_BLOCK, OVERHEAD, Base
<1>2. ASSUME NEW c \in DOMAIN m
      PROVE  /\ Base <= c /\ m[c].size >= MIN_BLOCK
             /\ c + m[c].size \in DOMAIN m \cup {end} /\ c < end
             /\ \A d \in DOMAIN m : c < d => c + m[c].size <= d
             /\ c \in Nat /\ m[c].size \in Nat
  BY <1>2 DEF Tiled
<1>3. b < n /\ Base <= b
  BY <1>1, <1>2
<1>4. Base \in DOMAIN w
  BY <1>1, <1>3 DEF Tiled
<1>5. b + w[b].size = n + m[n].size /\ w[b].size >= MIN_BLOCK
  BY <1>1, <1>2
<1>6. n + m[n].size # n
  BY <1>1, <1>2
<1>7. ASSUME NEW c \in DOMAIN w
      PROVE  /\ Base <= c /\ w[c].size >= MIN_BLOCK
             /\ c + w[c].size \in DOMAIN w \cup {end} /\ c < end
             /\ \A d \in DOMAIN w : c < d => c + w[c].size <= d
  <2>1. CASE c = b
    <3>1. n + m[n].size \in DOMAIN w \cup {end}
      BY <1>2, <1>6
    <3>2. ASSUME NEW d \in DOMAIN w, b < d PROVE n + m[n].size <= d
      <4>1. d \in DOMAIN m /\ d # n /\ d \in Nat
        OBVIOUS
      <4>2. n <= d
        BY <1>2, <3>2, <4>1
      <4>3. n < d
        BY <1>1, <4>1, <4>2
      <4>4. QED
        BY <1>2, <4>1, <4>3
    <3>3. QED
      BY <1>2, <1>5, <2>1, <3>1, <3>2
  <2>2. CASE c # b
    <3>1. c \in DOMAIN m /\ c # n /\ w[c].size = m[c].size
      BY <2>2
    <3>2. c + m[c].size # n
      <4>1. CASE c < b
        BY <1>1, <1>2, <1>3, <3>1, <4>1
      <4>2. CASE b < c
        <5>1. n <= c
          BY <1>2, <3>1, <4>2
        <5>2. QED
          BY <1>1, <1>2, <3>1, <5>1
      <4>3. QED
        BY <1>1, <1>2, <2>2, <3>1, <4>1, <4>2
    <3>3. QED
      BY <1>2, <3>1, <3>2
  <2>3. QED
    BY <2>1, <2>2
<1>8. QED
  BY <1>1, <1>3, <1>4, <1>7 DEF Tiled

(* ALIGN_UP: at least as much, and a natural number.                       *)
LEMMA AlignUpFits ==
    ASSUME NEW n \in Nat
    PROVE  AlignUp(n) \in Nat /\ AlignUp(n) >= n
<1>1. PAGE_SIZE \in Nat /\ PAGE_SIZE > 0
  BY HeapAssumption DEF MIN_BLOCK, OVERHEAD
<1> DEFINE x == n + PAGE_SIZE - 1
<1>2. x \in Nat
  BY <1>1
<1> DEFINE q == x \div PAGE_SIZE
           r == x % PAGE_SIZE
<1> HIDE DEF x
<1>3. q \in Nat /\ r \in 0 .. PAGE_SIZE - 1 /\ x = PAGE_SIZE * q + r
  BY <1>1, <1>2
<1> HIDE DEF q, r
<1>4. q * PAGE_SIZE \in Nat /\ q * PAGE_SIZE = PAGE_SIZE * q
  BY <1>1, <1>3
<1>5. PAGE_SIZE * q >= n
  BY <1>1, <1>3, <1>4 DEF x
<1>6. AlignUp(n) = q * PAGE_SIZE
  BY DEF AlignUp, q, x
<1>7. QED
  BY <1>4, <1>5, <1>6
-----------------------------------------------------------------------------
(* What a race cannot break: a caller frees only what is its own, and its  *)
(* local size is that of a block.                                          *)
Locals ==
    \A a \in Actor :
        /\ \A x \in victim[a] : x.by = a
        /\ pc[a] \in {"search", "carve"} => size[a] >= MIN_BLOCK

HeapTypes ==
    /\ blk \in [DOMAIN blk -> Hdr] /\ DOMAIN blk \subseteq Nat
    /\ free_list \in Nat /\ heap_end \in Nat

CallerTypes ==
    /\ \A x \in held : x.ptr \in Nat /\ x.want \in Nat /\ x.by \in Actor
    /\ pc \in [Actor -> {"idle", "free"} \cup Inside]
    /\ h \in [Actor -> Nat]
    /\ size \in [Actor -> Nat] /\ want \in [Actor -> Nat]
    /\ victim \in [Actor -> SUBSET held]
    /\ tries \in [Actor -> Nat]
    /\ raced \in BOOLEAN /\ panicked \in BOOLEAN

LEMMA TypesSplit == TypeOK <=> HeapTypes /\ CallerTypes
BY DEF TypeOK, HeapTypes, CallerTypes, Blocks, Hdr

(* The headers after each step are headers.                                *)
LEMMA HeadersKept ==
    ASSUME TypeOK
    PROVE  /\ blk \in [DOMAIN blk -> Hdr] /\ DOMAIN blk \subseteq Nat
           /\ free_list \in Nat /\ heap_end \in Nat /\ NULL \in Nat
           /\ \A b \in DOMAIN blk :
                /\ blk[b].size \in Nat /\ blk[b].next \in Nat
                /\ blk[b].prev \in Nat /\ blk[b].used \in BOOLEAN
                /\ HeadWithout(blk, free_list, b) \in Nat
BY DEF TypeOK, Blocks, Hdr, NULL, HeadWithout

LEMMA BlockSizeFits ==
    ASSUME NEW n \in Nat
    PROVE  /\ BlockSize(n) \in Nat /\ BlockSize(n) >= MIN_BLOCK
           /\ BlockSize(n) >= n + OVERHEAD /\ BlockSize(n) <= n + MIN_BLOCK
BY DEF BlockSize, MIN_BLOCK, OVERHEAD

(* The size of an expansion is enough for the second search, although the  *)
(* overhead is added once more.                                            *)
LEMMA ExtraFits ==
    ASSUME NEW n \in Nat
    PROVE  /\ Extra(n) \in Nat /\ Extra(n) >= MIN_BLOCK
           /\ Extra(n) >= BlockSize(n)
<1>1. PAGE_SIZE \in Nat /\ PAGE_SIZE >= MIN_BLOCK /\ MIN_BLOCK \in Nat
  BY HeapAssumption DEF MIN_BLOCK, OVERHEAD
<1>2. n + PAGE_SIZE \in Nat
  BY <1>1
<1>3. Extra(n) \in Nat /\ Extra(n) >= n + PAGE_SIZE
  BY <1>2, AlignUpFits DEF Extra
<1>4. QED
  BY <1>1, <1>3, BlockSizeFits

(* What is left of the blocks when one of them is split, or a new one is   *)
(* added.                                                                  *)
IsSplit(w, b, n) ==
    /\ w \in [DOMAIN w -> Hdr] /\ DOMAIN w = Blocks \cup {b + n}
    /\ DOMAIN w \subseteq Nat
    /\ w[b].size = n /\ w[b].used
    /\ w[b + n].size = blk[b].size - n /\ ~w[b + n].used
    /\ \A c \in Blocks \ {b, b + n} : w[c] = blk[c]

LEMMA SplitFields ==
    ASSUME TypeOK, NEW b \in Blocks, NEW n \in Nat, Splits(b, n), n # 0
    PROVE  IsSplit(SplitAt(b, n), b, n)
<1> DEFINE w == SplitAt(b, n)
           s == blk[b].size
<1>1. b \in Nat /\ s \in Nat /\ b + n # b /\ b + n \in Nat
  BY HeadersKept DEF Blocks
<1>2. s - n \in Nat
  BY <1>1 DEF Splits, MIN_BLOCK, OVERHEAD
<1>3. /\ Header(n, TRUE, NULL, NULL) \in Hdr
      /\ Header(n, TRUE, NULL, NULL).size = n
      /\ Header(n, TRUE, NULL, NULL).used = TRUE
  BY DEF Header, Hdr, NULL
<1>4. /\ Header(s - n, FALSE, NULL, NULL) \in Hdr
      /\ Header(s - n, FALSE, NULL, NULL).size = s - n
      /\ Header(s - n, FALSE, NULL, NULL).used = FALSE
  BY <1>2 DEF Header, Hdr, NULL
<1>5. DOMAIN w = Blocks \cup {b + n}
  BY DEF SplitAt
<1>6. /\ w[b] = Header(n, TRUE, NULL, NULL)
      /\ w[b + n] = Header(s - n, FALSE, NULL, NULL)
      /\ \A c \in Blocks \ {b, b + n} : w[c] = blk[c]
  BY <1>1 DEF SplitAt
<1>7. w = [c \in Blocks \cup {b + n} |-> w[c]]
  BY DEF SplitAt
<1> HIDE DEF s, w
<1>8. \A c \in Blocks : blk[c] \in Hdr
  BY HeadersKept DEF Blocks
<1>9. ASSUME NEW c \in Blocks \cup {b + n} PROVE w[c] \in Hdr
  BY <1>3, <1>4, <1>6, <1>8, <1>9
<1>10. w \in [DOMAIN w -> Hdr]
  BY <1>5, <1>7, <1>9
<1>11. DOMAIN w \subseteq Nat
  BY <1>1, <1>5, HeadersKept DEF Blocks
<1>12. QED
  <2>1. IsSplit(w, b, n)
    BY <1>3, <1>4, <1>5, <1>6, <1>10, <1>11 DEF s, IsSplit
  <2>2. QED
    BY <2>1 DEF w

(* The block n behind b is swallowed.                                      *)
IsMerged(w, b, n) ==
    /\ w \in [DOMAIN w -> Hdr] /\ DOMAIN w = Blocks \ {n}
    /\ b # n => w[b].size = blk[b].size + blk[n].size
    /\ b # n => w[b].used = blk[b].used
    /\ \A c \in Blocks \ {b, n} : w[c] = Unlinked(blk, n)[c]

LEMMA MergedFields ==
    ASSUME TypeOK, NEW b \in Blocks, NEW n \in Blocks
    PROVE  IsMerged(MergedInto(b, n), b, n)
<1> DEFINE w == MergedInto(b, n)
           r == [blk[b] EXCEPT !.size = @ + blk[n].size]
<1>1. blk[b] \in Hdr /\ blk[n].size \in Nat
  BY HeadersKept DEF Blocks
<1>2. /\ r \in Hdr /\ r.size = blk[b].size + blk[n].size
      /\ r.used = blk[b].used
  BY <1>1 DEF Hdr
<1>3. Unlinked(blk, n) \in [Blocks -> Hdr]
  BY HeadersKept, UnlinkedFields DEF Blocks
<1>4. w = [c \in Blocks \ {n} |-> IF c = b THEN r ELSE Unlinked(blk, n)[c]]
  BY DEF MergedInto
<1> HIDE DEF w, r
<1>5. DOMAIN w = Blocks \ {n} /\ w \in [Blocks \ {n} -> Hdr]
  BY <1>2, <1>3, <1>4
<1>6. b # n => w[b] = r
  BY <1>4
<1>7. \A c \in Blocks \ {b, n} : w[c] = Unlinked(blk, n)[c]
  BY <1>4
<1>8. QED
  <2>1. IsMerged(w, b, n)
    BY <1>2, <1>5, <1>6, <1>7 DEF IsMerged
  <2>2. QED
    BY <2>1 DEF w

LEMMA InitTypes == Init => TypeOK /\ Locals
<1> SUFFICES ASSUME Init PROVE TypeOK /\ Locals
  OBVIOUS
<1>1. Base \in Nat /\ InitPages * PAGE_SIZE \in Nat
  BY HeapAssumption DEF Base
<1>2. Header(InitPages * PAGE_SIZE, FALSE, NULL, NULL) \in Hdr
  BY <1>1 DEF Header, Hdr, NULL
<1>3. HeapTypes
  <2>1. /\ DOMAIN blk = {Base}
        /\ blk[Base] = Header(InitPages * PAGE_SIZE, FALSE, NULL, NULL)
        /\ blk = [b \in DOMAIN blk |-> blk[b]]
    BY DEF Init
  <2>2. blk \in [DOMAIN blk -> Hdr]
    BY <1>2, <2>1
  <2>3. free_list \in Nat /\ heap_end \in Nat
    BY <1>1 DEF Init
  <2>4. QED
    BY <1>1, <2>1, <2>2, <2>3 DEF HeapTypes
<1>4. CallerTypes
  BY DEF Init, CallerTypes, Inside, NULL
<1>5. Locals
  BY DEF Init, Locals
<1>6. QED
  BY <1>3, <1>4, <1>5, TypesSplit

(* Types and locals survive every step, races included.                    *)
LEMMA TypesStep == TypeOK /\ Locals /\ [Next]_vars => (TypeOK /\ Locals)'
<1> SUFFICES ASSUME TypeOK, Locals, [Next]_vars
             PROVE  HeapTypes' /\ CallerTypes' /\ Locals'
  BY TypesSplit DEF TypeOK, HeapTypes, CallerTypes, Blocks, Hdr
<1>0. HeapTypes /\ CallerTypes
  BY TypesSplit
<1>1. ASSUME NEW a \in Actor, NEW n \in Requests, NEW x \in SUBSET held,
             \A y \in x : y.by = a, kmalloc(a, n, x)
      PROVE  HeapTypes' /\ CallerTypes' /\ Locals'
  <2>1. n \in Nat /\ BlockSize(n) \in Nat /\ BlockSize(n) >= MIN_BLOCK
    BY HeapAssumption, BlockSizeFits
  <2>2. HeapTypes' /\ free_list \in Nat
    BY <1>0, <1>1 DEF HeapTypes, kmalloc, heapVars
  <2>3. raced' \in BOOLEAN
    BY <1>0, <1>1 DEF kmalloc, Touch, CallerTypes
  <2>4. CallerTypes'
    BY <1>0, <1>1, <2>1, <2>2, <2>3 DEF CallerTypes, kmalloc, Inside
  <2>5. Locals'
    BY <1>0, <1>1, <2>1 DEF CallerTypes, Locals, kmalloc
  <2>6. QED
    BY <2>2, <2>4, <2>5
<1>2. ASSUME NEW a \in Actor, kmalloc_next(a)
      PROVE  HeapTypes' /\ CallerTypes' /\ Locals'
  <2>1. blk[h[a]].next \in Nat
    BY <1>2, HeadersKept DEF kmalloc_next, Blocks
  <2>2. QED
    BY <1>0, <1>2, <2>1
       DEF HeapTypes, CallerTypes, Locals, kmalloc_next, heapVars
<1>3. ASSUME NEW a \in Actor, kmalloc_fit(a)
      PROVE  HeapTypes' /\ CallerTypes' /\ Locals'
  <2>1. blk' \in [DOMAIN blk -> Hdr] /\ DOMAIN blk' = DOMAIN blk
    BY <1>3, HeadersKept, UnlinkedFields DEF kmalloc_fit, Blocks
  <2>2. HeapTypes'
    BY <1>0, <1>3, <2>1, HeadersKept DEF HeapTypes, kmalloc_fit, Blocks
  <2>3. CallerTypes'
    BY <1>0, <1>3 DEF CallerTypes, kmalloc_fit, Inside
  <2>4. Locals'
    BY <1>0, <1>3 DEF CallerTypes, Locals, kmalloc_fit
  <2>5. QED
    BY <2>2, <2>3, <2>4
<1>4. ASSUME NEW a \in Actor, kmalloc_carve(a)
      PROVE  HeapTypes' /\ CallerTypes' /\ Locals'
  <2>1. h[a] \in Blocks /\ size[a] \in Nat /\ size[a] # 0 /\ h[a] \in Nat
    BY <1>0, <1>4 DEF kmalloc_carve, CallerTypes, Locals, MIN_BLOCK, OVERHEAD
  <2>2. ASSUME Splits(h[a], size[a]),
               blk' = Linked(SplitAt(h[a], size[a]), free_list,
                             h[a] + size[a]),
               free_list' = h[a] + size[a]
        PROVE  HeapTypes'
    <3> DEFINE w == SplitAt(h[a], size[a])
               b == h[a] + size[a]
    <3>1. w \in [DOMAIN w -> Hdr] /\ b \in DOMAIN w /\ DOMAIN w \subseteq Nat
      <4> HIDE DEF w, b
      <4>1. w = SplitAt(h[a], size[a]) /\ b = h[a] + size[a]
        BY DEF w, b
      <4>2. IsSplit(w, h[a], size[a])
        BY <2>1, <2>2, <4>1, SplitFields
      <4>3. QED
        BY <4>1, <4>2 DEF IsSplit
    <3>2. b \in Nat /\ free_list \in Nat
      BY <1>0, <2>1 DEF HeapTypes
    <3> HIDE DEF w, b
    <3>3. Linked(w, free_list, b) \in [DOMAIN w -> Hdr]
      BY <3>1, <3>2, LinkedFields
    <3>4. blk' = Linked(w, free_list, b) /\ free_list' = b
      BY <2>2 DEF w, b
    <3>5. heap_end' = heap_end
      BY <1>4 DEF kmalloc_carve
    <3>6. QED
      BY <1>0, <3>1, <3>2, <3>3, <3>4, <3>5 DEF HeapTypes
  <2>3. ASSUME blk' = [blk EXCEPT ![h[a]].used = TRUE], UNCHANGED free_list
        PROVE  HeapTypes'
    <3>1. [blk[h[a]] EXCEPT !.used = TRUE] \in Hdr
      BY <1>0, <2>1 DEF HeapTypes, Blocks, Hdr
    <3>2. blk' \in [DOMAIN blk -> Hdr]
      BY <1>0, <2>1, <2>3, <3>1 DEF HeapTypes, Blocks
    <3>3. QED
      BY <1>0, <1>4, <2>3, <3>2 DEF HeapTypes, kmalloc_carve
  <2>4. HeapTypes'
    BY <1>4, <2>2, <2>3 DEF kmalloc_carve
  <2> DEFINE new == [ptr |-> h[a], want |-> want[a], by |-> a]
  <2>5. held' = held \cup {new} /\ new.ptr \in Nat /\ new.want \in Nat
        /\ new.by \in Actor
    BY <1>0, <1>4, <2>1 DEF kmalloc_carve, CallerTypes
  <2> HIDE DEF new
  <2>6. /\ pc' \in [Actor -> {"idle", "free"} \cup Inside]
        /\ pc' = [pc EXCEPT ![a] = pc'[a]] /\ pc'[a] \in {"idle", "free"}
    BY <1>0, <1>4 DEF kmalloc_carve, CallerTypes
  <2>7. /\ h' \in [Actor -> Nat] /\ size' \in [Actor -> Nat]
        /\ want' \in [Actor -> Nat] /\ tries' \in [Actor -> Nat]
        /\ size' = [size EXCEPT ![a] = 0]
        /\ UNCHANGED <<victim, raced, panicked>>
    BY <1>0, <1>4 DEF kmalloc_carve, CallerTypes, NULL
  <2>8. CallerTypes'
    BY <1>0, <2>5, <2>6, <2>7 DEF CallerTypes
  <2>9. Locals'
    BY <1>0, <2>6, <2>7 DEF CallerTypes, Locals
  <2>10. QED
    BY <2>4, <2>8, <2>9
<1>5. ASSUME NEW a \in Actor, kmalloc_expand(a)
      PROVE  HeapTypes' /\ CallerTypes' /\ Locals'
  <2>1. size[a] \in Nat /\ Extra(size[a]) \in Nat /\ heap_end \in Nat
    BY <1>0, ExtraFits DEF CallerTypes, HeapTypes
  <2> DEFINE w == [c \in Blocks \cup {heap_end} |->
                     IF c = heap_end
                     THEN Header(Extra(size[a]), FALSE, NULL, NULL)
                     ELSE blk[c]]
  <2>2. Header(Extra(size[a]), FALSE, NULL, NULL) \in Hdr
    BY <2>1 DEF Header, Hdr, NULL
  <2>3. /\ w \in [DOMAIN w -> Hdr] /\ heap_end \in DOMAIN w
        /\ DOMAIN w \subseteq Nat
    BY <1>0, <2>1, <2>2 DEF HeapTypes, Blocks
  <2>4. blk' = Linked(w, free_list, heap_end)
    BY <1>5 DEF kmalloc_expand
  <2> HIDE DEF w
  <2>5. Linked(w, free_list, heap_end) \in [DOMAIN w -> Hdr]
    BY <1>0, <2>1, <2>3, LinkedFields DEF HeapTypes
  <2>6. HeapTypes'
    <3>1. free_list' = heap_end /\ heap_end' = heap_end + Extra(size[a])
      BY <1>5 DEF kmalloc_expand
    <3>2. QED
      BY <2>1, <2>3, <2>4, <2>5, <3>1 DEF HeapTypes
  <2>7. BlockSize(size[a]) \in Nat /\ BlockSize(size[a]) >= MIN_BLOCK
    BY <2>1, BlockSizeFits
  <2>8. CallerTypes'
    BY <1>0, <1>5, <2>1, <2>7 DEF CallerTypes, kmalloc_expand
  <2>9. Locals'
    BY <1>0, <1>5, <2>7 DEF CallerTypes, Locals, kmalloc_expand
  <2>10. QED
    BY <2>6, <2>8, <2>9
<1>6. ASSUME NEW a \in Actor, kmalloc_oom(a)
      PROVE  HeapTypes' /\ CallerTypes' /\ Locals'
  BY <1>0, <1>6 DEF HeapTypes, CallerTypes, Locals, kmalloc_oom, heapVars
<1>7. ASSUME NEW a \in Actor, NEW x \in held, kfree(a, x)
      PROVE  HeapTypes' /\ CallerTypes' /\ Locals'
  <2>1. raced' \in BOOLEAN
    BY <1>0, <1>7 DEF kfree, Touch, CallerTypes
  <2>2. HeapTypes'
    BY <1>0, <1>7 DEF HeapTypes, kfree, heapVars
  <2>3. CallerTypes'
    BY <1>0, <1>7, <2>1 DEF CallerTypes, kfree
  <2>4. Locals'
    BY <1>0, <1>7 DEF CallerTypes, Locals, kfree
  <2>5. QED
    BY <2>2, <2>3, <2>4
<1>8. ASSUME NEW a \in Actor, NEW x \in victim[a], kfree_mark(a, x)
      PROVE  HeapTypes' /\ CallerTypes' /\ Locals'
  <2>1. x.ptr \in Blocks /\ blk' = [blk EXCEPT ![x.ptr].used = FALSE]
    BY <1>8 DEF kfree_mark
  <2>2. [blk[x.ptr] EXCEPT !.used = FALSE] \in Hdr
    BY <1>0, <2>1 DEF HeapTypes, Blocks, Hdr
  <2>3. blk' \in [DOMAIN blk -> Hdr]
    BY <1>0, <2>1, <2>2 DEF HeapTypes, Blocks
  <2>4. HeapTypes'
    BY <1>0, <1>8, <2>3 DEF HeapTypes, kfree_mark
  <2>5. ASSUME NEW c \in Actor PROVE victim'[c] \subseteq held'
    <3>1. CASE c = a
      BY <1>0, <1>8, <3>1 DEF CallerTypes, kfree_mark
    <3>2. CASE c # a
      <4>1. x.by = a /\ \A y \in victim[c] : y.by = c
        BY <1>8, <2>5 DEF Locals
      <4>2. x \notin victim[c]
        BY <3>2, <4>1
      <4>3. QED
        BY <1>0, <1>8, <2>5, <3>2, <4>2 DEF CallerTypes, kfree_mark
    <3>3. QED
      BY <3>1, <3>2
  <2>6. victim' \in [Actor -> SUBSET held']
    BY <1>0, <1>8, <2>5 DEF CallerTypes, kfree_mark
  <2>7. CallerTypes'
    BY <1>0, <1>8, <2>6 DEF CallerTypes, kfree_mark, Inside
  <2>8. Locals'
    BY <1>0, <1>8 DEF CallerTypes, Locals, kfree_mark
  <2>9. QED
    BY <2>4, <2>7, <2>8
<1>9. ASSUME NEW a \in Actor, NEW x \in victim[a], kfree_assert(a, x)
      PROVE  HeapTypes' /\ CallerTypes' /\ Locals'
  BY <1>0, <1>9 DEF HeapTypes, CallerTypes, Locals, kfree_assert, heapVars
<1>10. ASSUME NEW a \in Actor, kfree_link(a)
      PROVE  HeapTypes' /\ CallerTypes' /\ Locals'
  <2> DEFINE b == h[a]
             n == NextBlock(b)
  <2>1. b \in Blocks /\ n \in Blocks \cup {heap_end} /\ b \in Nat
    BY <1>0, <1>10 DEF kfree_link, HeapTypes, Blocks
  <2>2. \/ /\ Merges(n)
           /\ blk' = Linked(MergedInto(b, n),
                            HeadWithout(blk, free_list, n), b)
        \/ blk' = Linked(blk, free_list, b)
    BY <1>10 DEF kfree_link
  <2>3. free_list' = b /\ heap_end' = heap_end
    BY <1>10 DEF kfree_link
  <2> HIDE DEF b, n
  <2>4. ASSUME blk' = Linked(blk, free_list, b) PROVE HeapTypes'
    <3>1. blk' \in [DOMAIN blk -> Hdr]
      BY <1>0, <2>1, <2>4, LinkedFields DEF HeapTypes, Blocks
    <3>2. QED
      BY <1>0, <2>1, <2>3, <3>1 DEF HeapTypes
  <2>5. ASSUME Merges(n),
               blk' = Linked(MergedInto(b, n),
                             HeadWithout(blk, free_list, n), b)
        PROVE  HeapTypes'
    <3> DEFINE w == MergedInto(b, n)
               head == HeadWithout(blk, free_list, n)
    <3>1. n \in Blocks
      BY <1>0, <2>1, <2>5 DEF Merges, HeapTypes
    <3>2. w \in [DOMAIN w -> Hdr] /\ DOMAIN w = Blocks \ {n} /\ head \in Nat
      <4>1. IsMerged(w, b, n)
        BY <2>1, <3>1, MergedFields
      <4>2. head \in Nat
        BY <3>1, HeadersKept DEF Blocks
      <4>3. QED
        BY <4>1, <4>2 DEF IsMerged
    <3>3. blk' = Linked(w, head, b)
      BY <2>5
    <3> HIDE DEF w, head
    <3>4. \A c \in DOMAIN w : Linked(w, head, b)[c] \in Hdr
      <4>1. ASSUME NEW c \in DOMAIN w
            PROVE  /\ [w[c] EXCEPT !.prev = NULL, !.next = head] \in Hdr
                   /\ [w[c] EXCEPT !.prev = IF c = head THEN b ELSE @] \in Hdr
        <5>1. w[c] \in Hdr /\ NULL \in Nat
          BY <3>2, <4>1 DEF NULL
        <5>2. QED
          BY <2>1, <3>2, <5>1 DEF Hdr
      <4>2. QED
        BY <4>1 DEF Linked
    <3>5. Linked(w, head, b) \in [DOMAIN w -> Hdr]
      BY <3>4 DEF Linked
    <3>6. QED
      BY <1>0, <2>1, <2>3, <3>2, <3>3, <3>5 DEF HeapTypes, Blocks
  <2>6. CallerTypes'
    BY <1>0, <1>10 DEF CallerTypes, kfree_link, NULL
  <2>7. Locals'
    BY <1>0, <1>10 DEF CallerTypes, Locals, kfree_link
  <2>8. QED
    BY <2>2, <2>4, <2>5, <2>6, <2>7
<1>11. CASE UNCHANGED vars
  BY <1>0, <1>11 DEF HeapTypes, CallerTypes, Locals, vars
<1>12. ASSUME NEW a \in Actor, NEW n \in Requests, kmalloc(a, n, {})
       PROVE  HeapTypes' /\ CallerTypes' /\ Locals'
  BY <1>1, <1>12
<1>13. ASSUME NEW a \in Actor, NEW n \in Requests, NEW x \in held,
              krealloc(a, n, x)
       PROVE  HeapTypes' /\ CallerTypes' /\ Locals'
  <2>1. {x} \in SUBSET held /\ (\A y \in {x} : y.by = a)
        /\ kmalloc(a, n, {x})
    BY <1>13 DEF krealloc
  <2>2. QED
    BY <1>1, <2>1
<1>14. QED
  BY <1>2, <1>3, <1>4, <1>5, <1>6, <1>7, <1>8, <1>9, <1>10, <1>11, <1>12,
     <1>13 DEF Next
-----------------------------------------------------------------------------
(* What holds until a race: the shape of the heap, who holds the blocks,   *)
(* and what each caller knows of the block it is at.  A caller that has    *)
(* expanded the heap is at a block that is large enough.                   *)
Shape ==
    /\ Tiled(blk, heap_end)
    /\ WellLinked(blk, free_list, Free)
    /\ Listed(blk, free_list, Free)

HeldInv ==
    /\ \A x \in held : x.ptr \in Blocks /\ blk[x.ptr].used
                       /\ x.want + OVERHEAD <= blk[x.ptr].size
    /\ \A x, y \in held : x.ptr = y.ptr => x = y
    /\ \A b \in Blocks : blk[b].used => \E x \in held : x.ptr = b

CallInv(a) ==
    /\ pc[a] = "search" => h[a] \in Free \cup {NULL}
    /\ pc[a] \in {"search", "carve"} => size[a] >= want[a] + OVERHEAD
    /\ pc[a] \in {"carve", "link"} => h[a] \in Blocks /\ ~blk[h[a]].used
    /\ pc[a] = "carve" => blk[h[a]].size >= size[a]
    /\ pc[a] = "free" => victim[a] # {}
    /\ tries[a] <= 1
    /\ pc[a] = "search" /\ tries[a] = 1 =>
          h[a] \in Blocks /\ blk[h[a]].size >= size[a]

Apart == pc["shell"] \in Inside => pc["syscall"] = "idle"

Sound == Shape /\ HeldInv /\ (\A a \in Actor : CallInv(a)) /\ Apart

(* While a caller works, the other one is outside.                         *)
Quiet(a) == \A c \in Actor : c # a => pc[c] \in {"idle", "free"}

LEMMA CallerAlone ==
    ASSUME TypeOK, Apart, NEW a \in Actor, Turn(a),
           pc[a] # "idle" \/ (Touch(a) /\ ~raced')
    PROVE  Quiet(a) /\ (a = "syscall" => pc["shell"] \notin Inside)
<1>1. \A c \in Actor : pc[c] \in {"idle", "free"} \cup Inside
  BY DEF TypeOK
<1>2. CASE a = "shell"
  BY <1>2 DEF Turn, Quiet, Actor
<1>3. CASE a = "syscall"
  BY <1>1, <1>3 DEF Quiet, Actor, Touch, Apart
<1>4. QED
  BY <1>2, <1>3 DEF Actor

(* The block in hand is that of the one caller inside, before and after    *)
(* its step.                                                               *)
LEMMA HandBefore ==
    ASSUME NEW a \in Actor, Quiet(a)
    PROVE  InHand = IF pc[a] \in {"carve", "link"} THEN {h[a]} ELSE {}
<1>1. \A c \in Actor : pc[c] \in {"carve", "link"} => c = a
  BY DEF Quiet
<1>2. QED
  BY <1>1 DEF InHand

LEMMA HandAfter ==
    ASSUME TypeOK, NEW a \in Actor, Quiet(a), NEW p, pc' = [pc EXCEPT ![a] = p]
    PROVE  /\ InHand' = IF p \in {"carve", "link"} THEN {h'[a]} ELSE {}
           /\ pc'[a] = p /\ \A c \in Actor : c # a => pc'[c] = pc[c]
<1>1. pc'[a] = p /\ \A c \in Actor : c # a => pc'[c] = pc[c]
  BY DEF TypeOK
<1>2. \A c \in Actor : pc'[c] \in {"carve", "link"} => c = a
  BY <1>1 DEF Quiet
<1>3. QED
  BY <1>1, <1>2 DEF InHand

(* Nothing changes for a caller that is outside.                           *)
LEMMA OutsideKept ==
    ASSUME NEW c \in Actor, CallInv(c), pc[c] \in {"idle", "free"},
           pc'[c] = pc[c], victim'[c] = victim[c], tries'[c] = tries[c]
    PROVE  CallInv(c)'
BY DEF CallInv

(* The callers stay apart when one that is alone takes a step.             *)
LEMMA ApartKept ==
    ASSUME TypeOK, NEW a \in Actor, Quiet(a), Turn(a),
           a = "syscall" => pc["shell"] \notin Inside,
           \A c \in Actor : c # a => pc'[c] = pc[c]
    PROVE  Apart'
<1>1. "shell" \in Actor /\ "syscall" \in Actor /\ "shell" # "syscall"
  BY DEF Actor
<1>2. CASE a = "shell"
  BY <1>1, <1>2 DEF Turn, Apart
<1>3. CASE a = "syscall"
  BY <1>1, <1>3 DEF Apart
<1>4. QED
  BY <1>2, <1>3 DEF Actor

(* No block is at address 0, and free blocks are blocks.                   *)
LEMMA FreeBlocks ==
    ASSUME TypeOK, Shape
    PROVE  /\ NULL \notin Blocks /\ NULL \notin Free /\ Free \subseteq Blocks
           /\ \A b \in Blocks : b \in Nat /\ b # NULL /\ blk[b].size \in Nat
<1>1. \A b \in Blocks : Base <= b /\ b \in Nat /\ blk[b].size \in Nat
  BY HeadersKept DEF Shape, Tiled, Blocks
<1>2. Base \in Nat /\ Base > 0
  BY HeapAssumption DEF Base, MIN_BLOCK, OVERHEAD
<1>3. \A b \in Blocks : b # NULL
  BY <1>1, <1>2 DEF NULL
<1>4. QED
  BY <1>1, <1>3 DEF Free

(* Steps that leave the heap and what is held alone.                       *)
LEMMA HeapAlone ==
    ASSUME UNCHANGED <<blk, free_list, heap_end, held>>, InHand' = InHand,
           Shape, HeldInv
    PROVE  Shape' /\ HeldInv' /\ Free' = Free
<1>1. Free' = Free
  BY DEF Free, Blocks
<1>2. QED
  BY <1>1 DEF Shape, HeldInv, Blocks

(* Steps that leave the sizes and marks of the blocks and what is held     *)
(* alone.                                                                  *)
LEMMA HeldAlone ==
    ASSUME held' = held, DOMAIN blk' = DOMAIN blk, HeldInv,
           \A c \in Blocks : blk'[c].size = blk[c].size
                              /\ blk'[c].used = blk[c].used
    PROVE  HeldInv'
BY DEF HeldInv, Blocks

LEMMA MallocSound ==
    ASSUME TypeOK, Sound, NEW a \in Actor, NEW n \in Requests,
           NEW x \in SUBSET held, kmalloc(a, n, x), ~raced'
    PROVE  Sound'
<1>1. Turn(a) /\ Touch(a) /\ pc[a] = "idle"
  BY DEF kmalloc
<1>2. Quiet(a) /\ (a = "syscall" => pc["shell"] \notin Inside)
  BY <1>1, CallerAlone DEF Sound
<1>3. pc' = [pc EXCEPT ![a] = "search"]
  BY DEF kmalloc
<1>4. /\ InHand' = InHand /\ pc'[a] = "search"
      /\ \A c \in Actor : c # a => pc'[c] = pc[c]
  BY <1>1, <1>2, <1>3, HandBefore, HandAfter
<1>5. Shape' /\ HeldInv' /\ Free' = Free
  BY <1>4, HeapAlone DEF Sound, kmalloc, heapVars
<1>6. CallInv(a)'
  <2>1. n \in Nat /\ BlockSize(n) >= n + OVERHEAD
    BY HeapAssumption, BlockSizeFits
  <2>2. /\ h'[a] = free_list /\ size'[a] = BlockSize(n) /\ want'[a] = n
        /\ tries'[a] = 0
    BY DEF kmalloc, TypeOK
  <2>3. free_list \in Free \cup {NULL}
    BY DEF Sound, Shape, WellLinked
  <2>4. QED
    BY <1>4, <1>5, <2>1, <2>2, <2>3 DEF CallInv
<1>7. ASSUME NEW c \in Actor, c # a PROVE CallInv(c)'
  BY <1>2, <1>4, <1>7, OutsideKept DEF Sound, Quiet, kmalloc, TypeOK
<1>8. Apart'
  BY <1>1, <1>2, <1>4, ApartKept
<1>9. QED
  BY <1>5, <1>6, <1>7, <1>8 DEF Sound

LEMMA NextSound ==
    ASSUME TypeOK, Sound, NEW a \in Actor, kmalloc_next(a)
    PROVE  Sound'
<1>1. /\ Turn(a) /\ pc[a] = "search" /\ h[a] \in Blocks
      /\ h' = [h EXCEPT ![a] = blk[h[a]].next]
      /\ UNCHANGED <<blk, free_list, heap_end, held, pc, size, want, victim,
                     tries>>
  BY DEF kmalloc_next, heapVars
<1>2. Quiet(a) /\ (a = "syscall" => pc["shell"] \notin Inside)
  BY <1>1, CallerAlone DEF Sound
<1>3. pc' = [pc EXCEPT ![a] = "search"]
  BY <1>1 DEF TypeOK
<1>4. InHand' = InHand
  BY <1>1, <1>2, <1>3, HandBefore, HandAfter
<1>5. Shape' /\ HeldInv' /\ Free' = Free
  BY <1>1, <1>4, HeapAlone DEF Sound
<1>6. CallInv(a)'
  <2>1. CallInv(a) /\ h[a] \in Free
    BY <1>1, FreeBlocks DEF Sound, CallInv
  <2>2. h'[a] = blk[h[a]].next /\ h'[a] \in Free \cup {NULL}
    BY <1>1, <2>1 DEF TypeOK, Sound, Shape, WellLinked
  <2>3. blk[h[a]].size < size[a] /\ size[a] \in Nat /\ blk[h[a]].size \in Nat
    BY <1>1, FreeBlocks DEF kmalloc_next, TypeOK, Sound
  <2>4. tries[a] # 1
    BY <1>1, <2>1, <2>3 DEF CallInv
  <2>5. QED
    BY <1>1, <1>5, <2>1, <2>2, <2>4 DEF CallInv
<1>7. ASSUME NEW c \in Actor, c # a PROVE CallInv(c)'
  BY <1>1, <1>2, <1>7, OutsideKept DEF Sound, Quiet
<1>8. Apart'
  BY <1>1 DEF Sound, Apart
<1>9. QED
  BY <1>5, <1>6, <1>7, <1>8 DEF Sound

LEMMA FitSound ==
    ASSUME TypeOK, Sound, NEW a \in Actor, kmalloc_fit(a)
    PROVE  Sound'
<1> DEFINE b == h[a]
<1>1. /\ Turn(a) /\ pc[a] = "search" /\ b \in Blocks
      /\ blk[b].size >= size[a]
      /\ blk' = Unlinked(blk, b) /\ free_list' = HeadWithout(blk, free_list, b)
      /\ pc' = [pc EXCEPT ![a] = "carve"]
      /\ UNCHANGED <<heap_end, held, h, size, want, victim, tries>>
  BY DEF kmalloc_fit
<1>2. Quiet(a) /\ (a = "syscall" => pc["shell"] \notin Inside)
  BY <1>1, CallerAlone DEF Sound
<1>3. /\ InHand = {} /\ InHand' = {b} /\ pc'[a] = "carve"
      /\ \A c \in Actor : c # a => pc'[c] = pc[c]
  BY <1>1, <1>2, HandBefore, HandAfter
<1>4. b \in Free /\ CallInv(a)
  BY <1>1, FreeBlocks DEF Sound, CallInv
<1> HIDE DEF b
<1>5. /\ DOMAIN blk' = DOMAIN blk
      /\ \A c \in Blocks : blk'[c].size = blk[c].size
                            /\ blk'[c].used = blk[c].used
  BY <1>1, HeadersKept, UnlinkedFields DEF Blocks
<1>6. Free' = Free \ {b}
  BY <1>3, <1>5 DEF Free, Blocks
<1>7. Shape'
  <2>1. Tiled(blk', heap_end')
    BY <1>1, <1>5, SameTiles DEF Sound, Shape, Blocks
  <2>2. /\ WellLinked(blk', free_list', Free')
        /\ Listed(blk', free_list', Free')
    <3>1. NULL \notin Free /\ Free \subseteq DOMAIN blk
      BY FreeBlocks DEF Sound, Blocks
    <3>2. QED
      BY <1>1, <1>4, <1>6, <3>1, HeadersKept, UnlinkKeeps DEF Sound, Shape
  <2>3. QED
    BY <2>1, <2>2 DEF Shape
<1>8. HeldInv'
  BY <1>1, <1>5, HeldAlone DEF Sound
<1>9. CallInv(a)'
  <2>1. /\ b \in Blocks' /\ blk'[b].size = blk[b].size
        /\ blk'[b].used = blk[b].used
    BY <1>1, <1>5 DEF Blocks
  <2>2. ~blk[b].used /\ h'[a] = b
    BY <1>1, <1>4 DEF Free, b
  <2>3. QED
    BY <1>1, <1>3, <1>4, <2>1, <2>2 DEF CallInv
<1>10. ASSUME NEW c \in Actor, c # a PROVE CallInv(c)'
  BY <1>1, <1>2, <1>3, <1>10, OutsideKept DEF Sound, Quiet
<1>11. Apart'
  BY <1>1, <1>2, <1>3, ApartKept
<1>12. QED
  BY <1>7, <1>8, <1>9, <1>10, <1>11 DEF Sound

(* The block is held by a once it is marked; m are the headers afterwards. *)
LEMMA CarveHeld ==
    ASSUME TypeOK, HeldInv, NEW a \in Actor, NEW b \in Blocks, ~blk[b].used,
           NEW n \in Nat, blk'[b].used, n + OVERHEAD <= blk'[b].size,
           held' = held \cup {[ptr |-> b, want |-> n, by |-> a]},
           Blocks \subseteq Blocks',
           \A c \in Blocks : c # b => blk'[c].size = blk[c].size
                                      /\ blk'[c].used = blk[c].used,
           \A c \in Blocks' : c \notin Blocks => ~blk'[c].used
    PROVE  HeldInv'
<1> DEFINE new == [ptr |-> b, want |-> n, by |-> a]
<1>1. held' = held \cup {new} /\ new.ptr = b /\ new.want = n
  OBVIOUS
<1> HIDE DEF new
<1>2. \A x \in held : x.ptr \in Blocks /\ x.ptr # b
  BY DEF HeldInv
<1>3. \A x \in held' : x.ptr \in Blocks' /\ blk'[x.ptr].used
                       /\ x.want + OVERHEAD <= blk'[x.ptr].size
  BY <1>1, <1>2 DEF HeldInv
<1>4. \A x, y \in held' : x.ptr = y.ptr => x = y
  BY <1>1, <1>2 DEF HeldInv
<1>5. \A c \in Blocks' : blk'[c].used => \E x \in held' : x.ptr = c
  BY <1>1 DEF HeldInv
<1>6. QED
  BY <1>3, <1>4, <1>5 DEF HeldInv

LEMMA CarveSound ==
    ASSUME TypeOK, Locals, Sound, NEW a \in Actor, kmalloc_carve(a)
    PROVE  Sound'
<1> DEFINE b == h[a]
           n == size[a]
           r == b + n
<1>1. /\ Turn(a) /\ pc[a] = "carve" /\ b \in Blocks /\ blk[b].size >= n
      /\ held' = held \cup {[ptr |-> b, want |-> want[a], by |-> a]}
      /\ UNCHANGED <<heap_end, victim>> /\ tries' = [tries EXCEPT ![a] = 0]
      /\ \/ /\ Splits(b, n) /\ free_list' = r
            /\ blk' = Linked(SplitAt(b, n), free_list, r)
         \/ blk' = [blk EXCEPT ![b].used = TRUE] /\ UNCHANGED free_list
  BY DEF kmalloc_carve
<1>2. PICK p \in {"idle", "free"} :
         /\ pc' = [pc EXCEPT ![a] = p]
         /\ p = "free" => victim[a] # {}
  BY DEF kmalloc_carve
<1>3. Quiet(a) /\ (a = "syscall" => pc["shell"] \notin Inside)
  BY <1>1, CallerAlone DEF Sound
<1>4. /\ InHand = {b} /\ InHand' = {} /\ pc'[a] = p
      /\ \A c \in Actor : c # a => pc'[c] = pc[c]
  BY <1>1, <1>2, <1>3, HandBefore, HandAfter
<1>5. /\ ~blk[b].used /\ b \notin Free /\ n \in Nat /\ n >= MIN_BLOCK
      /\ want[a] \in Nat /\ n >= want[a] + OVERHEAD
      /\ b \in Nat /\ blk[b].size \in Nat
  BY <1>1, <1>4, FreeBlocks DEF Sound, CallInv, Locals, TypeOK, Free
<1> HIDE DEF b, n
<1>6. /\ DOMAIN blk = Blocks /\ blk \in [Blocks -> Hdr] /\ Blocks \subseteq Nat
      /\ Free \subseteq Blocks /\ NULL \notin Free /\ free_list \in Nat
      /\ heap_end \in Nat /\ Tiled(blk, heap_end)
      /\ \A c \in Blocks : blk[c].size \in Nat
  BY HeadersKept, FreeBlocks DEF Blocks, Sound, Shape
<1>7. ASSUME Splits(b, n), free_list' = r,
             blk' = Linked(SplitAt(b, n), free_list, r)
      PROVE  Shape' /\ HeldInv'
  <2>1. MIN_BLOCK \in Nat /\ MIN_BLOCK > 0 /\ OVERHEAD \in Nat
    BY DEF MIN_BLOCK, OVERHEAD
  <2>2. n # 0 /\ r # b /\ r \in Nat /\ r # NULL
    BY <1>5, <2>1 DEF NULL
  <2>3. PICK w : w = SplitAt(b, n)
    OBVIOUS
  <2>4. /\ w \in [DOMAIN w -> Hdr] /\ DOMAIN w = Blocks \cup {r}
        /\ w[b].size = n /\ w[b].used
        /\ w[r].size = blk[b].size - n /\ ~w[r].used
        /\ \A c \in Blocks \ {b, r} : w[c] = blk[c]
    <3>1. b \in Blocks /\ n \in Nat /\ n # 0 /\ Splits(b, n)
      BY <1>1, <1>5, <1>7, <2>2
    <3>2. IsSplit(w, b, n)
      BY <2>3, <3>1, SplitFields
    <3>3. QED
      BY <3>2 DEF IsSplit, r
  <2>5. blk[b].size - n >= MIN_BLOCK
    BY <1>7 DEF Splits
  <2> HIDE DEF r
  <2>6. r \notin Blocks /\ Tiled(w, heap_end)
    <3>1. r = b + n
      BY DEF r
    <3>2. \A c \in DOMAIN blk : c # b /\ c # r => w[c].size = blk[c].size
      BY <1>6, <2>4
    <3>3. r \notin DOMAIN blk
      <4>1. b + blk[b].size > r /\ b < r
        BY <1>5, <2>1, <2>5, <3>1
      <4>2. QED
        BY <1>1, <1>5, <1>6, <2>2, <4>1 DEF Tiled
    <3>4. \A c \in DOMAIN blk : c # b => w[c].size = blk[c].size
      BY <3>2, <3>3
    <3>5. Tiled(w, heap_end)
      BY <1>1, <1>5, <1>6, <2>4, <2>5, <3>1, <3>4, SplitTiles
    <3>6. QED
      BY <1>6, <3>3, <3>5
  <2>7. r \in DOMAIN w /\ Free \subseteq DOMAIN w /\ r \notin Free
    BY <1>6, <2>4, <2>6
  <2>8. \A c \in Free : w[c] = blk[c]
    BY <1>5, <1>6, <2>4, <2>6
  <2>9. blk' = Linked(w, free_list, r)
    BY <1>7, <2>3
  <2>10. /\ blk' \in [DOMAIN w -> Hdr] /\ DOMAIN blk' = DOMAIN w
         /\ \A c \in DOMAIN w : blk'[c].size = w[c].size
                                /\ blk'[c].used = w[c].used
    BY <1>6, <2>2, <2>4, <2>7, <2>9, LinkedFields
  <2>11. Tiled(blk', heap_end')
    BY <1>1, <2>6, <2>10, SameTiles
  <2>12. WellLinked(w, free_list, Free) /\ Listed(w, free_list, Free)
    BY <1>6, <2>8, LinksKept DEF Sound, Shape
  <2>13. WellLinked(blk', r, Free \cup {r}) /\ Listed(blk', r, Free \cup {r})
    BY <1>6, <2>2, <2>4, <2>7, <2>9, <2>12, LinkKeeps
  <2>14. Blocks' = Blocks \cup {r}
    BY <2>4, <2>10 DEF Blocks
  <2>15. /\ \A c \in Blocks : c # b => blk'[c].size = blk[c].size
                                       /\ blk'[c].used = blk[c].used
         /\ blk'[b].used /\ blk'[b].size = n /\ ~blk'[r].used
    BY <1>1, <2>4, <2>6, <2>10
  <2>16. Free' = Free \cup {r}
    BY <1>4, <1>5, <2>2, <2>6, <2>14, <2>15 DEF Free
  <2>17. Shape'
    BY <1>7, <2>11, <2>13, <2>16 DEF Shape
  <2>18. HeldInv'
    <3>1. want[a] + OVERHEAD <= blk'[b].size
      BY <1>5, <2>1, <2>15
    <3>2. QED
      BY <1>1, <1>5, <2>14, <2>15, <3>1, CarveHeld DEF Sound
  <2>19. QED
    BY <2>17, <2>18
<1>8. ASSUME blk' = [blk EXCEPT ![b].used = TRUE], UNCHANGED free_list
      PROVE  Shape' /\ HeldInv'
  <2>1. /\ DOMAIN blk' = Blocks /\ Blocks' = Blocks
        /\ \A c \in Blocks : c # b => blk'[c] = blk[c]
        /\ blk'[b] = [blk[b] EXCEPT !.used = TRUE]
    BY <1>1, <1>6, <1>8 DEF Blocks
  <2>2. /\ blk'[b].size = blk[b].size /\ blk'[b].used
        /\ blk'[b].prev = blk[b].prev /\ blk'[b].next = blk[b].next
    BY <1>1, <1>6, <2>1 DEF Hdr
  <2>3. Free' = Free
    BY <1>4, <2>1, <2>2 DEF Free
  <2>4. Tiled(blk', heap_end')
    <3>1. \A c \in DOMAIN blk : blk'[c].size = blk[c].size
      BY <1>6, <2>1, <2>2
    <3>2. DOMAIN blk' = DOMAIN blk /\ heap_end' = heap_end
      BY <1>1, <1>6, <2>1
    <3>3. QED
      BY <1>6, <3>1, <3>2, SameTiles
  <2>5. \A c \in Free : blk'[c].next = blk[c].next /\ blk'[c].prev = blk[c].prev
    BY <1>6, <2>1, <2>2
  <2>6. WellLinked(blk', free_list, Free) /\ Listed(blk', free_list, Free)
    BY <1>6, <2>5, LinksKept DEF Sound, Shape
  <2>7. Shape'
    BY <1>8, <2>3, <2>4, <2>6 DEF Shape
  <2>8. want[a] + OVERHEAD <= blk'[b].size
    BY <1>1, <1>5, <2>2 DEF OVERHEAD
  <2>9. HeldInv'
    <3>1. /\ \A c \in Blocks : c # b => blk'[c].size = blk[c].size
                                      /\ blk'[c].used = blk[c].used
          /\ Blocks \subseteq Blocks'
          /\ \A c \in Blocks' : c \notin Blocks => ~blk'[c].used
      BY <2>1
    <3>2. QED
      BY <1>1, <1>5, <2>2, <2>8, <3>1, CarveHeld DEF Sound
  <2>10. QED
    BY <2>7, <2>9
<1>9. Shape' /\ HeldInv'
  BY <1>1, <1>7, <1>8
<1>10. CallInv(a)'
  BY <1>1, <1>2, <1>4 DEF CallInv, TypeOK
<1>11. ASSUME NEW c \in Actor, c # a PROVE CallInv(c)'
  BY <1>1, <1>3, <1>4, <1>11, OutsideKept DEF Sound, Quiet, TypeOK
<1>12. Apart'
  BY <1>1, <1>3, <1>4, ApartKept
<1>13. QED
  BY <1>9, <1>10, <1>11, <1>12 DEF Sound

LEMMA ExpandSound ==
    ASSUME TypeOK, Locals, Sound, NEW a \in Actor, kmalloc_expand(a)
    PROVE  Sound'
<1> DEFINE n == size[a]
           e == heap_end
           w == [c \in Blocks \cup {e} |->
                   IF c = e THEN Header(Extra(n), FALSE, NULL, NULL)
                   ELSE blk[c]]
<1>1. /\ Turn(a) /\ pc[a] = "search" /\ h[a] = NULL
      /\ blk' = Linked(w, free_list, e) /\ free_list' = e
      /\ heap_end' = e + Extra(n) /\ h' = [h EXCEPT ![a] = e]
      /\ size' = [size EXCEPT ![a] = BlockSize(n)]
      /\ tries' = [tries EXCEPT ![a] = @ + 1]
      /\ UNCHANGED <<held, pc, want, victim>>
  BY DEF kmalloc_expand, TypeOK
<1>2. /\ n \in Nat /\ e \in Nat /\ Extra(n) \in Nat /\ Extra(n) >= MIN_BLOCK
      /\ Extra(n) >= BlockSize(n) /\ BlockSize(n) \in Nat
      /\ BlockSize(n) >= n + OVERHEAD
  BY ExtraFits, BlockSizeFits, HeadersKept DEF TypeOK
<1>3. Quiet(a) /\ (a = "syscall" => pc["shell"] \notin Inside)
  BY <1>1, CallerAlone DEF Sound
<1>4. pc' = [pc EXCEPT ![a] = "search"] /\ pc'[a] = "search"
  BY <1>1 DEF TypeOK
<1>5. InHand = {} /\ InHand' = {}
  BY <1>1, <1>3, <1>4, HandBefore, HandAfter
<1>6. /\ DOMAIN blk = Blocks /\ blk \in [Blocks -> Hdr] /\ Blocks \subseteq Nat
      /\ Free \subseteq Blocks /\ NULL \notin Free /\ NULL \notin Blocks
      /\ free_list \in Nat /\ Tiled(blk, e)
      /\ \A c \in Blocks : blk[c].size \in Nat
  BY HeadersKept, FreeBlocks DEF Blocks, Sound, Shape
<1>7. e \notin Blocks /\ e # NULL
  <2>1. \A c \in Blocks : c < e
    BY <1>6 DEF Tiled
  <2>2. Base \in Blocks /\ Base \in Nat
    BY <1>6 DEF Tiled
  <2>3. QED
    BY <1>2, <1>6, <2>1, <2>2 DEF NULL
<1>8. /\ Header(Extra(n), FALSE, NULL, NULL) \in Hdr
      /\ Header(Extra(n), FALSE, NULL, NULL).size = Extra(n)
      /\ ~Header(Extra(n), FALSE, NULL, NULL).used
  BY <1>2 DEF Header, Hdr, NULL
<1>9. /\ DOMAIN w = Blocks \cup {e}
      /\ w[e] = Header(Extra(n), FALSE, NULL, NULL)
      /\ \A c \in Blocks : w[c] = blk[c]
  BY <1>7
<1>10. w \in [DOMAIN w -> Hdr]
  BY <1>6, <1>8
<1> HIDE DEF w, n, e
<1>11. Tiled(w, e + Extra(n))
  <2>1. w[e].size = Extra(n) /\ \A c \in DOMAIN blk : w[c].size = blk[c].size
    BY <1>6, <1>8, <1>9
  <2>2. QED
    BY <1>2, <1>6, <1>9, <2>1, GrowTiles
<1>12. /\ DOMAIN blk' = DOMAIN w
       /\ \A c \in DOMAIN w : blk'[c].size = w[c].size
                              /\ blk'[c].used = w[c].used
  <2>1. e \in DOMAIN w /\ e \in Nat /\ free_list \in Nat
    BY <1>2, <1>6, <1>9
  <2>2. QED
    BY <1>1, <1>10, <2>1, LinkedFields
<1>13. Blocks' = Blocks \cup {e}
  BY <1>9, <1>12 DEF Blocks
<1>14. /\ \A c \in Blocks : blk'[c].size = blk[c].size
                             /\ blk'[c].used = blk[c].used
       /\ blk'[e].size = Extra(n) /\ ~blk'[e].used
  BY <1>8, <1>9, <1>12
<1>15. Free' = Free \cup {e}
  BY <1>5, <1>7, <1>13, <1>14 DEF Free
<1>16. Shape'
  <2>1. Tiled(blk', heap_end')
    BY <1>1, <1>11, <1>12, SameTiles
  <2>2. WellLinked(w, free_list, Free) /\ Listed(w, free_list, Free)
    <3>1. \A c \in Free : w[c].next = blk[c].next /\ w[c].prev = blk[c].prev
      BY <1>6, <1>9
    <3>2. QED
      BY <1>6, <3>1, LinksKept DEF Sound, Shape
  <2>3. /\ Free \subseteq DOMAIN w /\ e \in DOMAIN w /\ e \notin Free
    BY <1>6, <1>7, <1>9
  <2>4. WellLinked(blk', e, Free \cup {e}) /\ Listed(blk', e, Free \cup {e})
    BY <1>1, <1>2, <1>6, <1>7, <1>10, <2>2, <2>3, LinkKeeps
  <2>5. QED
    BY <1>1, <1>15, <2>1, <2>4 DEF Shape
<1>17. HeldInv'
  <2>1. \A x \in held : x.ptr \in Blocks /\ x.ptr \in Blocks'
    BY <1>13 DEF Sound, HeldInv
  <2>2. \A x \in held : blk'[x.ptr].used
                        /\ x.want + OVERHEAD <= blk'[x.ptr].size
    BY <1>14, <2>1 DEF Sound, HeldInv
  <2>3. \A c \in Blocks' : blk'[c].used => \E x \in held : x.ptr = c
    BY <1>13, <1>14 DEF Sound, HeldInv
  <2>4. QED
    BY <1>1, <2>1, <2>2, <2>3 DEF Sound, HeldInv
<1>18. CallInv(a)'
  <2>1. CallInv(a) /\ tries[a] \in Nat /\ want[a] \in Nat
    BY DEF Sound, TypeOK
  <2>2. tries[a] = 0
    BY <1>1, <1>6, <2>1 DEF CallInv
  <2>3. /\ h'[a] = e /\ size'[a] = BlockSize(n) /\ tries'[a] = 1
        /\ want'[a] = want[a]
    BY <1>1, <2>2 DEF TypeOK
  <2>4. BlockSize(n) >= want[a] + OVERHEAD
    <3>1. n >= want[a] + OVERHEAD
      BY <1>1, <2>1 DEF CallInv, n
    <3>2. QED
      BY <1>2, <2>1, <3>1 DEF OVERHEAD
  <2>5. e \in Free' /\ e \in Blocks' /\ blk'[e].size >= BlockSize(n)
    BY <1>2, <1>13, <1>14, <1>15
  <2>6. QED
    BY <1>4, <2>3, <2>4, <2>5 DEF CallInv
<1>19. ASSUME NEW c \in Actor, c # a PROVE CallInv(c)'
  BY <1>1, <1>3, <1>19, OutsideKept DEF Sound, Quiet, TypeOK
<1>20. Apart'
  BY <1>1 DEF Sound, Apart
<1>21. QED
  BY <1>16, <1>17, <1>18, <1>19, <1>20 DEF Sound

LEMMA FreeSound ==
    ASSUME TypeOK, Sound, NEW a \in Actor, NEW x \in held, kfree(a, x),
           ~raced'
    PROVE  Sound'
<1>1. Turn(a) /\ Touch(a) /\ pc[a] = "idle"
  BY DEF kfree
<1>2. Quiet(a) /\ (a = "syscall" => pc["shell"] \notin Inside)
  BY <1>1, CallerAlone DEF Sound
<1>3. pc' = [pc EXCEPT ![a] = "free"]
  BY DEF kfree
<1>4. /\ InHand' = InHand /\ pc'[a] = "free"
      /\ \A c \in Actor : c # a => pc'[c] = pc[c]
  BY <1>1, <1>2, <1>3, HandBefore, HandAfter
<1>5. Shape' /\ HeldInv'
  BY <1>4, HeapAlone DEF Sound, kfree, heapVars
<1>6. CallInv(a)'
  <2>1. victim'[a] = {x} /\ tries'[a] = tries[a] /\ tries[a] <= 1
    BY DEF kfree, TypeOK, Sound, CallInv
  <2>2. QED
    BY <1>4, <2>1 DEF CallInv
<1>7. ASSUME NEW c \in Actor, c # a PROVE CallInv(c)'
  BY <1>2, <1>4, <1>7, OutsideKept DEF Sound, Quiet, kfree, TypeOK
<1>8. Apart'
  BY <1>1, <1>2, <1>4, ApartKept
<1>9. QED
  BY <1>5, <1>6, <1>7, <1>8 DEF Sound

LEMMA MarkSound ==
    ASSUME TypeOK, Sound, NEW a \in Actor, NEW x \in victim[a],
           kfree_mark(a, x)
    PROVE  Sound'
<1> DEFINE b == x.ptr
<1>1. /\ Turn(a) /\ pc[a] = "free" /\ b \in Blocks /\ blk[b].used
      /\ blk' = [blk EXCEPT ![b].used = FALSE] /\ held' = held \ {x}
      /\ victim' = [victim EXCEPT ![a] = {}] /\ h' = [h EXCEPT ![a] = b]
      /\ pc' = [pc EXCEPT ![a] = "link"]
      /\ UNCHANGED <<free_list, heap_end, size, want, tries>>
  BY DEF kfree_mark
<1>2. Quiet(a) /\ (a = "syscall" => pc["shell"] \notin Inside)
  BY <1>1, CallerAlone DEF Sound
<1>3. /\ InHand = {} /\ InHand' = {b} /\ pc'[a] = "link" /\ h'[a] = b
      /\ \A c \in Actor : c # a => pc'[c] = pc[c]
  BY <1>1, <1>2, HandBefore, HandAfter DEF TypeOK
<1>4. x \in held /\ \A y \in held : y # x => y.ptr # b
  BY DEF TypeOK, Sound, HeldInv
<1> HIDE DEF b
<1>5. /\ DOMAIN blk = Blocks /\ blk \in [Blocks -> Hdr]
      /\ Free \subseteq Blocks /\ NULL \notin Free
  BY HeadersKept, FreeBlocks DEF Blocks, Sound
<1>6. /\ DOMAIN blk' = Blocks /\ Blocks' = Blocks
      /\ \A c \in Blocks : c # b => blk'[c] = blk[c]
      /\ blk'[b] = [blk[b] EXCEPT !.used = FALSE]
  BY <1>1, <1>5 DEF Blocks
<1>7. /\ blk'[b].size = blk[b].size /\ ~blk'[b].used
      /\ blk'[b].prev = blk[b].prev /\ blk'[b].next = blk[b].next
  BY <1>1, <1>5, <1>6 DEF Hdr
<1>8. Free' = Free
  BY <1>1, <1>3, <1>6, <1>7 DEF Free
<1>9. Shape'
  <2>1. \A c \in DOMAIN blk : blk'[c].size = blk[c].size
    BY <1>5, <1>6, <1>7
  <2>2. Tiled(blk', heap_end')
    BY <1>1, <1>5, <1>6, <2>1, SameTiles DEF Sound, Shape
  <2>3. \A c \in Free : blk'[c].next = blk[c].next /\ blk'[c].prev = blk[c].prev
    BY <1>5, <1>6, <1>7
  <2>4. WellLinked(blk', free_list, Free) /\ Listed(blk', free_list, Free)
    BY <1>5, <2>3, LinksKept DEF Sound, Shape
  <2>5. QED
    BY <1>1, <1>8, <2>2, <2>4 DEF Shape
<1>10. HeldInv'
  <2>1. \A y \in held' : y \in held /\ y.ptr \in Blocks /\ y.ptr # b
    BY <1>1, <1>4 DEF Sound, HeldInv
  <2>2. \A y \in held' : y.ptr \in Blocks' /\ blk'[y.ptr].used
                        /\ y.want + OVERHEAD <= blk'[y.ptr].size
    BY <1>6, <2>1 DEF Sound, HeldInv
  <2>3. \A y, z \in held' : y.ptr = z.ptr => y = z
    BY <2>1 DEF Sound, HeldInv
  <2>4. ASSUME NEW c \in Blocks', blk'[c].used
        PROVE  \E y \in held' : y.ptr = c
    <3>1. c \in Blocks /\ c # b /\ blk[c].used
      BY <1>6, <1>7, <2>4
    <3>2. PICK y \in held : y.ptr = c
      BY <3>1 DEF Sound, HeldInv
    <3>3. y # x
      BY <3>1, <3>2 DEF b
    <3>4. QED
      BY <1>1, <3>2, <3>3
  <2>5. QED
    BY <2>2, <2>3, <2>4 DEF HeldInv
<1>11. CallInv(a)'
  <2>1. tries'[a] <= 1
    BY <1>1 DEF Sound, CallInv
  <2>2. b \in Blocks' /\ ~blk'[b].used
    BY <1>1, <1>6, <1>7
  <2>3. QED
    BY <1>3, <2>1, <2>2 DEF CallInv
<1>12. ASSUME NEW c \in Actor, c # a PROVE CallInv(c)'
  BY <1>1, <1>2, <1>3, <1>12, OutsideKept DEF Sound, Quiet, TypeOK
<1>13. Apart'
  BY <1>1, <1>2, <1>3, ApartKept
<1>14. QED
  BY <1>9, <1>10, <1>11, <1>12, <1>13 DEF Sound

LEMMA LinkSound ==
    ASSUME TypeOK, Sound, NEW a \in Actor, kfree_link(a)
    PROVE  Sound'
<1> DEFINE b == h[a]
           n == NextBlock(b)
           head == HeadWithout(blk, free_list, n)
<1>1. /\ Turn(a) /\ pc[a] = "link" /\ b \in Blocks
      /\ n \in Blocks \cup {heap_end} /\ free_list' = b
      /\ pc' = [pc EXCEPT ![a] = "idle"]
      /\ UNCHANGED <<heap_end, held, size, want, victim, tries>>
      /\ \/ Merges(n) /\ blk' = Linked(MergedInto(b, n), head, b)
         \/ blk' = Linked(blk, free_list, b)
  BY DEF kfree_link
<1>2. Quiet(a) /\ (a = "syscall" => pc["shell"] \notin Inside)
  BY <1>1, CallerAlone DEF Sound
<1>3. /\ InHand = {b} /\ InHand' = {} /\ pc'[a] = "idle"
      /\ \A c \in Actor : c # a => pc'[c] = pc[c]
  BY <1>1, <1>2, HandBefore, HandAfter
<1>4. ~blk[b].used /\ b \notin Free /\ n = b + blk[b].size
  BY <1>1, <1>3 DEF Sound, CallInv, Free, NextBlock
<1> HIDE DEF b, n, head
<1>5. /\ DOMAIN blk = Blocks /\ blk \in [Blocks -> Hdr] /\ Blocks \subseteq Nat
      /\ Free \subseteq Blocks /\ NULL \notin Free /\ NULL \notin Blocks
      /\ free_list \in Nat /\ heap_end \in Nat /\ Tiled(blk, heap_end)
      /\ \A c \in Blocks : blk[c].size \in Nat
  BY HeadersKept, FreeBlocks DEF Blocks, Sound, Shape
<1>6. b \in Nat /\ b # NULL
  BY <1>1, <1>5
<1>7. ASSUME blk' = Linked(blk, free_list, b) PROVE Shape' /\ HeldInv'
  <2>1. /\ DOMAIN blk' = DOMAIN blk
        /\ \A c \in DOMAIN blk : blk'[c].size = blk[c].size
                                 /\ blk'[c].used = blk[c].used
    BY <1>1, <1>5, <1>6, <1>7, LinkedFields
  <2>2. Tiled(blk', heap_end')
    BY <1>1, <1>5, <2>1, SameTiles
  <2>3. /\ WellLinked(blk', b, Free \cup {b})
        /\ Listed(blk', b, Free \cup {b})
    BY <1>1, <1>4, <1>5, <1>6, <1>7, LinkKeeps DEF Sound, Shape
  <2>4. Blocks' = Blocks
    BY <2>1 DEF Blocks
  <2>5. Free' = Free \cup {b}
    BY <1>1, <1>3, <1>4, <1>5, <2>1, <2>4 DEF Free
  <2>6. Shape'
    BY <1>1, <2>2, <2>3, <2>5 DEF Shape
  <2>7. HeldInv'
    BY <1>1, <1>5, <2>1, HeldAlone DEF Sound
  <2>8. QED
    BY <2>6, <2>7
<1>8. ASSUME Merges(n), blk' = Linked(MergedInto(b, n), head, b)
      PROVE  Shape' /\ HeldInv'
  <2>1. n \in Blocks /\ ~blk[n].used
    BY <1>1, <1>5, <1>8 DEF Merges
  <2>2. PICK w : w = MergedInto(b, n)
    OBVIOUS
  <2>3. /\ w \in [DOMAIN w -> Hdr] /\ DOMAIN w = Blocks \ {n}
        /\ b # n => w[b].size = blk[b].size + blk[n].size
        /\ b # n => w[b].used = blk[b].used
        /\ \A c \in Blocks \ {b, n} : w[c] = Unlinked(blk, n)[c]
    <3>1. IsMerged(w, b, n)
      BY <1>1, <2>1, <2>2, MergedFields
    <3>2. QED
      BY <3>1 DEF IsMerged
  <2>4. /\ Unlinked(blk, n) \in [Blocks -> Hdr]
        /\ \A c \in Blocks : Unlinked(blk, n)[c].size = blk[c].size
                             /\ Unlinked(blk, n)[c].used = blk[c].used
    BY <1>5, <2>1, UnlinkedFields
  <2>5. b # n
    <3>1. blk[b].size >= MIN_BLOCK /\ MIN_BLOCK > 0 /\ MIN_BLOCK \in Nat
      BY <1>1, <1>5 DEF Tiled, MIN_BLOCK, OVERHEAD
    <3>2. QED
      BY <1>1, <1>4, <1>5, <1>6, <3>1
  <2>6. /\ \A c \in Blocks : c # b /\ c # n => w[c].size = blk[c].size
                                               /\ w[c].used = blk[c].used
        /\ w[b].size = blk[b].size + blk[n].size /\ w[b].used = blk[b].used
    BY <2>3, <2>4, <2>5
  <2>7. Tiled(w, heap_end)
    BY <1>1, <1>4, <1>5, <2>1, <2>3, <2>6, MergeTiles
  <2>8. n \in Free
    BY <1>3, <2>1, <2>5 DEF Free
  <2> DEFINE F == Free \ {n}
  <2>9. WellLinked(w, head, F) /\ Listed(w, head, F)
    <3>1. /\ WellLinked(Unlinked(blk, n), head, F)
          /\ Listed(Unlinked(blk, n), head, F)
      BY <1>5, <2>8, UnlinkKeeps DEF Sound, Shape, head
    <3>2. \A c \in F : w[c].next = Unlinked(blk, n)[c].next
                       /\ w[c].prev = Unlinked(blk, n)[c].prev
      BY <1>4, <1>5, <2>3
    <3>3. NULL \notin F
      BY <1>5
    <3>4. QED
      BY <3>1, <3>2, <3>3, LinksKept
  <2>10. head \in Nat
    BY <2>1, HeadersKept DEF head, Blocks
  <2>11. blk' = Linked(w, head, b)
    BY <1>8, <2>2
  <2>12. /\ b \in DOMAIN w /\ F \subseteq DOMAIN w /\ b \notin F
         /\ NULL \notin F
    BY <1>1, <1>4, <1>5, <2>3, <2>5
  <2> HIDE DEF F
  <2>13. /\ DOMAIN blk' = DOMAIN w
         /\ \A c \in DOMAIN w : blk'[c].size = w[c].size
                                /\ blk'[c].used = w[c].used
    BY <1>6, <2>3, <2>10, <2>11, <2>12, LinkedFields
  <2>14. WellLinked(blk', b, F \cup {b}) /\ Listed(blk', b, F \cup {b})
    BY <1>6, <2>3, <2>9, <2>10, <2>11, <2>12, LinkKeeps
  <2>15. Tiled(blk', heap_end')
    BY <1>1, <2>7, <2>13, SameTiles
  <2>16. Blocks' = Blocks \ {n}
    BY <2>3, <2>13 DEF Blocks
  <2>17. /\ \A c \in Blocks' : blk'[c].used = blk[c].used
         /\ \A c \in Blocks' : c # b => blk'[c].size = blk[c].size
    BY <2>3, <2>6, <2>13, <2>16
  <2>18. Free' = F \cup {b}
    BY <1>1, <1>3, <1>4, <2>5, <2>16, <2>17 DEF Free, F
  <2>19. Shape'
    BY <1>1, <2>14, <2>15, <2>18 DEF Shape
  <2>20. HeldInv'
    <3>1. \A x \in held : x.ptr \in Blocks' /\ x.ptr # b
      BY <1>4, <2>1, <2>16 DEF Sound, HeldInv
    <3>2. \A x \in held : blk'[x.ptr].used
                         /\ x.want + OVERHEAD <= blk'[x.ptr].size
      BY <2>17, <3>1 DEF Sound, HeldInv
    <3>3. \A c \in Blocks' : blk'[c].used => \E x \in held : x.ptr = c
      BY <2>16, <2>17 DEF Sound, HeldInv
    <3>4. QED
      BY <1>1, <3>1, <3>2, <3>3 DEF Sound, HeldInv
  <2>21. QED
    BY <2>19, <2>20
<1>9. Shape' /\ HeldInv'
  BY <1>1, <1>7, <1>8
<1>10. CallInv(a)'
  <2>1. tries'[a] <= 1
    BY <1>1 DEF Sound, CallInv
  <2>2. QED
    BY <1>3, <2>1 DEF CallInv
<1>11. ASSUME NEW c \in Actor, c # a PROVE CallInv(c)'
  BY <1>1, <1>2, <1>3, <1>11, OutsideKept DEF Sound, Quiet
<1>12. Apart'
  BY <1>1, <1>2, <1>3, ApartKept
<1>13. QED
  BY <1>9, <1>10, <1>11, <1>12 DEF Sound
-----------------------------------------------------------------------------
HeapIInv == TypeOK /\ Locals /\ (~raced => Sound)

LEMMA InitSound == Init => HeapIInv
<1> SUFFICES ASSUME Init PROVE Sound
  BY InitTypes DEF HeapIInv
<1>1. /\ DOMAIN blk = {Base} /\ free_list = Base
      /\ blk[Base] = Header(InitPages * PAGE_SIZE, FALSE, NULL, NULL)
      /\ heap_end = Base + InitPages * PAGE_SIZE
      /\ held = {} /\ \A a \in Actor : pc[a] = "idle" /\ tries[a] = 0
  BY DEF Init
<1> DEFINE s == InitPages * PAGE_SIZE
<1>2. blk[Base].size = s /\ ~blk[Base].used /\ blk[Base].prev = NULL
      /\ blk[Base].next = NULL
  BY <1>1 DEF Header
<1>3. s \in Nat /\ s >= MIN_BLOCK /\ MIN_BLOCK \in Nat /\ MIN_BLOCK > 0
  <2>1. /\ InitPages \in Nat /\ InitPages >= 1 /\ PAGE_SIZE \in Nat
        /\ PAGE_SIZE >= MIN_BLOCK /\ MIN_BLOCK \in Nat /\ MIN_BLOCK > 0
    BY HeapAssumption DEF MIN_BLOCK, OVERHEAD
  <2>2. InitPages * PAGE_SIZE \in Nat /\ InitPages * PAGE_SIZE >= PAGE_SIZE
    BY <2>1
  <2>3. QED
    BY <2>1, <2>2
<1>4. Base \in Nat /\ Base > 0
  BY HeapAssumption DEF Base, MIN_BLOCK, OVERHEAD
<1>5. heap_end = Base + s
  BY <1>1
<1> HIDE DEF s
<1>6. InHand = {}
  BY <1>1 DEF InHand
<1>7. Free = {Base} /\ Blocks = {Base}
  BY <1>1, <1>2, <1>6 DEF Free, Blocks
<1>8. Tiled(blk, heap_end)
  <2>1. ASSUME NEW b \in DOMAIN blk
        PROVE  /\ Base <= b /\ blk[b].size >= MIN_BLOCK /\ b < heap_end
               /\ b + blk[b].size = heap_end
               /\ \A c \in DOMAIN blk : ~(b < c)
    <3>1. b = Base /\ \A c \in DOMAIN blk : c = Base
      BY <1>1
    <3>2. Base < Base + s /\ Base <= Base /\ ~(Base < Base)
      BY <1>3, <1>4
    <3>3. QED
      BY <1>2, <1>3, <1>5, <3>1, <3>2
  <2>2. QED
    BY <1>1, <2>1 DEF Tiled
<1>9. WellLinked(blk, free_list, Free)
  BY <1>1, <1>2, <1>4, <1>7 DEF WellLinked, NULL
<1>10. Listed(blk, free_list, Free)
  <2> DEFINE f == [k \in 1 .. 1 |-> Base]
  <2>1. \A k \in 1 .. 1 : k = 1
    OBVIOUS
  <2>2. f \in [1 .. 1 -> Free] /\ 1 \in 1 .. 1 /\ f[1] = Base /\ 1 \in Nat
    BY <1>7
  <2> HIDE DEF f
  <2>3. f \in Bijection(1 .. 1, Free)
    <3>1. \A j, k \in 1 .. 1 : f[j] = f[k] => j = k
      BY <2>1
    <3>2. \A c \in Free : \E k \in 1 .. 1 : f[k] = c
      BY <1>7, <2>2
    <3>3. QED
      BY <2>2, <3>1, <3>2, Enumerates
  <2>4. ListIs(blk, free_list, f, 1)
    <3>1. ASSUME NEW k \in 1 .. 1
          PROVE  blk[f[k]].next = IF k = 1 THEN NULL ELSE f[k + 1]
      <4>1. k = 1
        BY <2>1
      <4>2. blk[f[1]].next = NULL
        BY <1>2, <2>2
      <4>3. QED
        BY <4>1, <4>2
    <3>2. free_list = IF 1 = 0 THEN NULL ELSE f[1]
      BY <1>1, <2>2
    <3>3. QED
      BY <3>1, <3>2 DEF ListIs
  <2>5. QED
    BY <2>2, <2>3, <2>4 DEF Listed
<1>11. HeldInv
  BY <1>1, <1>2, <1>7 DEF HeldInv
<1>12. \A a \in Actor : CallInv(a)
  BY <1>1 DEF CallInv
<1>13. Apart
  BY <1>1 DEF Apart, Inside, Actor
<1>14. QED
  BY <1>8, <1>9, <1>10, <1>11, <1>12, <1>13 DEF Sound, Shape

(* The inductive step: types survive everything, the rest every step that  *)
(* is not a race.                                                          *)
LEMMA HeapStep == HeapIInv /\ [Next]_vars => HeapIInv'
<1> SUFFICES ASSUME HeapIInv, [Next]_vars, ~raced' PROVE Sound'
  BY TypesStep DEF HeapIInv
<1>1. ~raced
  BY DEF Next, vars, kmalloc, krealloc, kmalloc_next, kmalloc_fit,
         kmalloc_carve, kmalloc_expand, kmalloc_oom, kfree, kfree_mark,
         kfree_assert, kfree_link, Touch
<1>2. TypeOK /\ Locals /\ Sound
  BY <1>1 DEF HeapIInv
<1>3. ASSUME NEW a \in Actor, NEW n \in Requests, kmalloc(a, n, {})
      PROVE  Sound'
  BY <1>2, <1>3, MallocSound
<1>4. ASSUME NEW a \in Actor, NEW n \in Requests, NEW x \in held,
             krealloc(a, n, x)
      PROVE  Sound'
  <2>1. kmalloc(a, n, {x}) /\ {x} \in SUBSET held
    BY <1>4 DEF krealloc
  <2>2. QED
    BY <1>2, <2>1, MallocSound
<1>5. ASSUME UNCHANGED <<blk, free_list, heap_end, held, pc, h, size, want,
                         victim, tries>>
      PROVE  Sound'
  <2>1. InHand' = InHand /\ Blocks' = Blocks /\ Free' = Free
    BY <1>5 DEF InHand, Blocks, Free
  <2>2. QED
    BY <1>2, <1>5, <2>1
       DEF Sound, Shape, HeldInv, CallInv, Apart
<1>6. ASSUME NEW a \in Actor, kmalloc_oom(a) PROVE Sound'
  BY <1>5, <1>6 DEF kmalloc_oom, heapVars
<1>7. ASSUME NEW a \in Actor, NEW x \in victim[a], kfree_assert(a, x)
      PROVE  Sound'
  BY <1>5, <1>7 DEF kfree_assert, heapVars
<1>8. CASE UNCHANGED vars
  BY <1>5, <1>8 DEF vars
<1>9. QED
  BY <1>2, <1>3, <1>4, <1>6, <1>7, <1>8, NextSound, FitSound, CarveSound,
     ExpandSound, FreeSound, MarkSound, LinkSound DEF Next

LEMMA HeapIInvariant == Spec => []HeapIInv
BY InitSound, HeapStep, PTL DEF Spec

(* The blocks tile the heap, the free list is linked both ways, and every  *)
(* block is free, held once or in the hands of a call, for any number of   *)
(* blocks and any page size, until a system call uses the heap while the   *)
(* shell is inside; types survive even that (heap.c:60-194).               *)
THEOREM HeapInvariant == Spec => []HeapInv
<1>1. HeapIInv => HeapInv
  <2> SUFFICES ASSUME HeapIInv, ~raced
               PROVE  TilingInv /\ LinksInv /\ CallersInv
    BY DEF HeapIInv, HeapInv
  <2>1. TypeOK /\ Locals /\ Sound
    BY DEF HeapIInv
  <2>2. TilingInv
    BY <2>1 DEF Sound, Shape, Tiled, TilingInv, Blocks, NextBlock
  <2>3. LinksInv
    BY <2>1 DEF Sound, Shape, WellLinked, LinksInv
  <2>4. CallersInv
    <3>1. \A a \in Actor : \A x \in victim[a] : x \in held /\ x.by = a
      BY <2>1 DEF TypeOK, Locals
    <3>2. QED
      BY <2>1, <3>1 DEF Sound, HeldInv, CallInv, Apart, Locals, CallersInv
  <2>5. QED
    BY <2>2, <2>3, <2>4
<1>2. QED
  BY HeapIInvariant, <1>1, PTL

(* What kmalloc returns is memory of its own, inside the heap and as large *)
(* as asked for, and ASSERT(blk_used(h)) of kfree holds                    *)
(* (heap.c:121-194).                                                       *)
THEOREM PayloadsAreDisjoint == Spec => []PayloadsDisjoint
<1>1. HeapIInv => PayloadsDisjoint
  <2> SUFFICES ASSUME HeapIInv, ~raced, NEW x \in held
               PROVE  /\ Base <= x.ptr /\ x.ptr + HDR + x.want <= heap_end
                      /\ \A y \in held : y # x =>
                            \/ x.ptr + HDR + x.want <= y.ptr
                            \/ y.ptr + HDR + y.want <= x.ptr
                      /\ x.ptr \in Blocks /\ blk[x.ptr].used
    BY DEF PayloadsDisjoint
  <2>1. TypeOK /\ Tiled(blk, heap_end) /\ HeldInv
    BY DEF HeapIInv, Sound, Shape
  <2>2. ASSUME NEW z \in held
        PROVE  /\ z.ptr \in Blocks /\ blk[z.ptr].used /\ Base <= z.ptr
               /\ z.ptr \in Nat /\ z.want \in Nat /\ blk[z.ptr].size \in Nat
               /\ z.want + OVERHEAD <= blk[z.ptr].size
               /\ z.ptr + blk[z.ptr].size \in Blocks \cup {heap_end}
               /\ \A c \in Blocks : z.ptr < c => z.ptr + blk[z.ptr].size <= c
    BY <2>1, <2>2, HeadersKept DEF HeldInv, Tiled, Blocks, TypeOK
  <2>3. ASSUME NEW z \in held
        PROVE  z.ptr + HDR + z.want <= z.ptr + blk[z.ptr].size
    BY <2>2, <2>3 DEF HDR, OVERHEAD
  <2>4. x.ptr + blk[x.ptr].size <= heap_end
    <3>1. \A c \in Blocks : c < heap_end /\ c \in Nat
      BY <2>1, HeadersKept DEF Tiled, Blocks
    <3>2. heap_end \in Nat
      BY <2>1, HeadersKept
    <3>3. QED
      BY <2>2, <3>1, <3>2
  <2>5. x.ptr + HDR + x.want <= heap_end
    <3>1. heap_end \in Nat
      BY <2>1, HeadersKept
    <3>2. QED
      BY <2>2, <2>3, <2>4, <3>1 DEF HDR
  <2>6. ASSUME NEW y \in held, y # x
        PROVE  \/ x.ptr + HDR + x.want <= y.ptr
               \/ y.ptr + HDR + y.want <= x.ptr
    <3>1. y.ptr # x.ptr
      BY <2>1, <2>6 DEF HeldInv
    <3>2. /\ x.ptr \in Nat /\ y.ptr \in Nat /\ x.want \in Nat
          /\ y.want \in Nat /\ blk[x.ptr].size \in Nat
          /\ blk[y.ptr].size \in Nat
          /\ x.ptr < y.ptr => x.ptr + blk[x.ptr].size <= y.ptr
          /\ y.ptr < x.ptr => y.ptr + blk[y.ptr].size <= x.ptr
      BY <2>2
    <3>3. /\ x.ptr + HDR + x.want <= x.ptr + blk[x.ptr].size
          /\ y.ptr + HDR + y.want <= y.ptr + blk[y.ptr].size
      BY <2>3
    <3>4. QED
      BY <3>1, <3>2, <3>3 DEF HDR
  <2>7. QED
    BY <2>2, <2>5, <2>6
<1>2. QED
  BY HeapIInvariant, <1>1, PTL

(* Followed from its head, the free list reaches every free block exactly  *)
(* once and ends, so that every search of kmalloc ends (heap.c:60-74).     *)
THEOREM FreeListIsExact == Spec => []FreeListExact
<1>1. HeapIInv => FreeListExact
  <2> SUFFICES ASSUME HeapIInv, ~raced
               PROVE  \E f \in Bijection(1 .. Cardinality(Free), Free) :
                         ListIs(blk, free_list, f, Cardinality(Free))
    BY DEF FreeListExact
  <2>1. PICK n \in Nat : \E f \in Bijection(1 .. n, Free) :
                            ListIs(blk, free_list, f, n)
    BY DEF HeapIInv, Sound, Shape, Listed
  <2>2. PICK f \in Bijection(1 .. n, Free) : ListIs(blk, free_list, f, n)
    BY <2>1
  <2>3. ExistsBijection(1 .. n, Free)
    BY <2>2 DEF ExistsBijection
  <2>4. Cardinality(Free) = n
    BY <2>3, FS_CountingElements
  <2>5. QED
    BY <2>2, <2>4
<1>2. QED
  BY HeapIInvariant, <1>1, PTL

(* The retry after heap_expand succeeds, for every page size and request:  *)
(* the recursion of kmalloc is one level deep (heap.c:148-150).            *)
THEOREM OneExpansionIsEnough == Spec => []OneExpansion
<1>1. HeapIInv => OneExpansion
  BY DEF HeapIInv, Sound, CallInv, OneExpansion
<1>2. QED
  BY HeapIInvariant, <1>1, PTL
=============================================================================
