-------------------------------- MODULE Heap --------------------------------
(***************************************************************************)
(* The kernel heap (mm/heap.c): blocks that follow one another from the    *)
(* base to heap_end, the free ones in a doubly linked list; first fit,     *)
(* split, expansion by pages, merging with the following block.            *)
(*                                                                         *)
(* Sizes and addresses are counted in units of 8 bytes, so that ALIGN8 is  *)
(* in the requests.  The footers are written and never read (prev_block    *)
(* has no caller); they are left out.  A header that a merge has swallowed *)
(* is no block any more.                                                   *)
(*                                                                         *)
(* The callers are the shell, which the timer may preempt anywhere, and    *)
(* system calls, which run to their end with interrupts disabled.  After   *)
(* such a race the shell's local h may be no block any more, or too small  *)
(* for what it was about to do: undefined behaviour, where the model stops *)
(* (the guards on h in the steps below).                                   *)
(***************************************************************************)
EXTENDS Integers, FiniteSets, Functions

CONSTANTS
    PAGE_SIZE,   \* units per page
    InitPages,   \* pages mapped by heap_init
    MaxPages,    \* pages the frame allocator can supply in all
    Requests,    \* payload sizes asked for
    MaxHeld      \* bound: pointers held at the same time

HDR == 3                    \* sizeof(BlockHeader)
OVERHEAD == 4               \* sizeof(BlockHeader) + sizeof(BlockFooter)
MIN_BLOCK == OVERHEAD + 2

ASSUME HeapAssumption ==
    /\ PAGE_SIZE \in Nat /\ PAGE_SIZE >= MIN_BLOCK
    /\ InitPages \in Nat \ {0}
    /\ MaxPages \in Nat
    /\ Requests \subseteq Nat \ {0}

NULL == 0
Base == PAGE_SIZE
Actor == {"shell", "syscall"}

VARIABLES
    blk,         \* blk[b]: the header at address b
    free_list,
    heap_end,
    held,        \* pointers the callers hold (history)
    pc,          \* where each caller is
    h,           \* its local `h', or `nxt' after free
    size,        \* its local `size'
    want,        \* the payload it asked for
    victim,      \* the pointer it gives to kfree: at most one
    tries,       \* expansions in this call of kmalloc (history)
    raced,       \* a system call used the heap while the shell was inside
                 \* kmalloc or kfree (history)
    panicked     \* kpanic or a failed ASSERT: the machine stops

heapVars == <<blk, free_list, heap_end>>
vars == <<blk, free_list, heap_end, held, pc, h, size, want, victim, tries,
          raced, panicked>>

Blocks == DOMAIN blk
AlignUp(n) == ((n + PAGE_SIZE - 1) \div PAGE_SIZE) * PAGE_SIZE

Header(n, u, p, x) == [size |-> n, used |-> u, prev |-> p, next |-> x]
-----------------------------------------------------------------------------
(* heap_init: one free block.                                              *)
Init ==
    /\ blk = [b \in {Base} |-> Header(InitPages * PAGE_SIZE, FALSE, NULL, NULL)]
    /\ free_list = Base
    /\ heap_end = Base + InitPages * PAGE_SIZE
    /\ held = {}
    /\ pc = [a \in Actor |-> "idle"]
    /\ h = [a \in Actor |-> NULL]
    /\ size = [a \in Actor |-> 0]
    /\ want = [a \in Actor |-> 0]
    /\ victim = [a \in Actor |-> {}]
    /\ tries = [a \in Actor |-> 0]
    /\ raced = FALSE
    /\ panicked = FALSE

(* Mutant: the block behind keeps its back pointer. *)
Unlinked_Mutant(m, b) ==
    [c \in DOMAIN m |->
        IF c = b THEN [m[c] EXCEPT !.prev = NULL, !.next = NULL]
        ELSE IF c = m[b].prev THEN [m[c] EXCEPT !.next = m[b].next]
        ELSE m[c]]

(* free_list_remove and free_list_insert: the headers afterwards, and the  *)
(* head of the list.                                                       *)
Unlinked(m, b) ==
    [c \in DOMAIN m |->
        IF c = b THEN [m[c] EXCEPT !.prev = NULL, !.next = NULL]
        ELSE [m[c] EXCEPT !.next = IF c = m[b].prev THEN m[b].next ELSE @,
                          !.prev = IF c = m[b].next THEN m[b].prev ELSE @]]

HeadWithout(m, head, b) == IF m[b].prev = NULL THEN m[b].next ELSE head

Linked(m, head, b) ==
    [c \in DOMAIN m |->
        IF c = b THEN [m[c] EXCEPT !.prev = NULL, !.next = head]
        ELSE [m[c] EXCEPT !.prev = IF c = head THEN b ELSE @]]

(* Interrupts are off inside a system call: nobody else moves.             *)
Turn(a) == ~panicked /\ (a = "shell" => pc["syscall"] = "idle")

Inside == {"search", "carve", "link"}

(* A system call enters the heap while the shell is inside.                *)
Touch(a) == raced' = (raced \/ (a = "syscall" /\ pc["shell"] \in Inside))
-----------------------------------------------------------------------------
BlockSize(n) == IF n + OVERHEAD < MIN_BLOCK THEN MIN_BLOCK ELSE n + OVERHEAD

(* kmalloc: round the size up and start the search.  x is empty, or the    *)
(* pointer that krealloc frees afterwards.                                 *)
kmalloc(a, n, x) ==
    /\ Turn(a) /\ pc[a] = "idle"
    /\ Cardinality(held) < MaxHeld
    /\ pc' = [pc EXCEPT ![a] = "search"]
    /\ want' = [want EXCEPT ![a] = n]
    /\ size' = [size EXCEPT ![a] = BlockSize(n)]
    /\ h' = [h EXCEPT ![a] = free_list]
    /\ tries' = [tries EXCEPT ![a] = 0]
    /\ victim' = [victim EXCEPT ![a] = x]
    /\ Touch(a)
    /\ UNCHANGED <<heapVars, held, panicked>>

(* krealloc of a pointer: kmalloc, copy, kfree of the old one.             *)
krealloc(a, n, x) == x.by = a /\ kmalloc(a, n, {x})

kmalloc_next(a) ==
    /\ Turn(a) /\ pc[a] = "search"
    /\ h[a] \in Blocks
    /\ blk[h[a]].size < size[a]
    /\ h' = [h EXCEPT ![a] = blk[h[a]].next]
    /\ UNCHANGED <<heapVars, held, pc, size, want, victim, tries, raced,
                   panicked>>

kmalloc_fit(a) ==
    /\ Turn(a) /\ pc[a] = "search"
    /\ h[a] \in Blocks
    /\ blk[h[a]].size >= size[a]
    /\ blk' = Unlinked(blk, h[a])
    /\ free_list' = HeadWithout(blk, free_list, h[a])
    /\ pc' = [pc EXCEPT ![a] = "carve"]
    /\ UNCHANGED <<heap_end, held, h, size, want, victim, tries, raced,
                   panicked>>

Splits(b, n) == blk[b].size - n >= MIN_BLOCK

(* The two blocks a split leaves, before the second is inserted.           *)
SplitAt(b, n) ==
    [c \in Blocks \cup {b + n} |->
        IF c = b THEN Header(n, TRUE, NULL, NULL)
        ELSE IF c = b + n THEN Header(blk[b].size - n, FALSE, NULL, NULL)
        ELSE blk[c]]

(* Mark the block used and return it; the locals of the call are gone.     *)
kmalloc_carve(a) ==
    /\ Turn(a) /\ pc[a] = "carve"
    /\ h[a] \in Blocks /\ blk[h[a]].size >= size[a]
    /\ \/ /\ Splits(h[a], size[a])
          /\ blk' = Linked(SplitAt(h[a], size[a]), free_list, h[a] + size[a])
          /\ free_list' = h[a] + size[a]
       \/ /\ ~Splits(h[a], size[a])
          /\ blk' = [blk EXCEPT ![h[a]].used = TRUE]
          /\ UNCHANGED free_list
    /\ held' = held \cup {[ptr |-> h[a], want |-> want[a], by |-> a]}
    /\ pc' = [pc EXCEPT ![a] = IF victim[a] = {} THEN "idle" ELSE "free"]
    /\ h' = [h EXCEPT ![a] = NULL]
    /\ size' = [size EXCEPT ![a] = 0]
    /\ want' = [want EXCEPT ![a] = 0]
    /\ tries' = [tries EXCEPT ![a] = 0]
    /\ UNCHANGED <<heap_end, victim, raced, panicked>>

(* Mutant: the expansion leaves no room for the header that the retry adds *)
(* once more.                                                              *)
Extra_Mutant(n) == AlignUp(n)

Extra(n) == AlignUp(n + PAGE_SIZE)

(* No fit: heap_expand, then kmalloc again with the size that already      *)
(* contains the overhead.  Without enough frames the kernel panics.        *)
kmalloc_expand(a) ==
    /\ Turn(a) /\ pc[a] = "search"
    /\ h[a] = NULL
    /\ heap_end - Base + Extra(size[a]) <= MaxPages * PAGE_SIZE
    /\ LET new == [c \in Blocks \cup {heap_end} |->
                      IF c = heap_end
                      THEN Header(Extra(size[a]), FALSE, NULL, NULL)
                      ELSE blk[c]]
       IN  blk' = Linked(new, free_list, heap_end)
    /\ free_list' = heap_end
    /\ heap_end' = heap_end + Extra(size[a])
    /\ h' = [h EXCEPT ![a] = heap_end]
    /\ size' = [size EXCEPT ![a] = BlockSize(@)]
    /\ tries' = [tries EXCEPT ![a] = @ + 1]
    /\ UNCHANGED <<held, pc, want, victim, raced, panicked>>

kmalloc_oom(a) ==
    /\ Turn(a) /\ pc[a] = "search"
    /\ h[a] = NULL
    /\ heap_end - Base + Extra(size[a]) > MaxPages * PAGE_SIZE
    /\ panicked' = TRUE
    /\ UNCHANGED <<heapVars, held, pc, h, size, want, victim, tries, raced>>
-----------------------------------------------------------------------------
kfree(a, x) ==
    /\ Turn(a) /\ pc[a] = "idle"
    /\ x.by = a
    /\ victim' = [victim EXCEPT ![a] = {x}]
    /\ pc' = [pc EXCEPT ![a] = "free"]
    /\ Touch(a)
    /\ UNCHANGED <<heapVars, held, h, size, want, tries, panicked>>

(* ASSERT(blk_used(h)) and the clearing of the flag.                       *)
kfree_mark(a, x) ==
    /\ Turn(a) /\ pc[a] = "free"
    /\ x \in victim[a]
    /\ x.ptr \in Blocks /\ blk[x.ptr].used
    /\ blk' = [blk EXCEPT ![x.ptr].used = FALSE]
    /\ held' = held \ {x}
    /\ victim' = [victim EXCEPT ![a] = {}]
    /\ h' = [h EXCEPT ![a] = x.ptr]
    /\ pc' = [pc EXCEPT ![a] = "link"]
    /\ UNCHANGED <<free_list, heap_end, size, want, tries, raced, panicked>>

kfree_assert(a, x) ==
    /\ Turn(a) /\ pc[a] = "free"
    /\ x \in victim[a]
    /\ ~(x.ptr \in Blocks /\ blk[x.ptr].used)
    /\ panicked' = TRUE
    /\ UNCHANGED <<heapVars, held, pc, h, size, want, victim, tries, raced>>

(* Mutant: the following block is merged even when it is in use. *)
Merges_Mutant(n) == n < heap_end

Merges(n) == n < heap_end /\ ~blk[n].used

(* Mutant: the following block stays in the list. *)
MergedInto_Mutant(b, n) ==
    [c \in Blocks \ {n} |->
        IF c = b THEN [blk[c] EXCEPT !.size = @ + blk[n].size] ELSE blk[c]]

(* Block n leaves the list and becomes the end of block b.                 *)
MergedInto(b, n) ==
    [c \in Blocks \ {n} |->
        IF c = b THEN [blk[c] EXCEPT !.size = @ + blk[n].size]
                 ELSE Unlinked(blk, n)[c]]

NextBlock(b) == b + blk[b].size

kfree_link(a) ==
    /\ Turn(a) /\ pc[a] = "link"
    /\ h[a] \in Blocks
    /\ NextBlock(h[a]) \in Blocks \cup {heap_end}
    /\ LET b == h[a]
           n == NextBlock(b)
       IN  \/ /\ Merges(n)
              /\ LET head == HeadWithout(blk, free_list, n)
                 IN  blk' = Linked(MergedInto(b, n), head, b)
           \/ /\ ~Merges(n)
              /\ blk' = Linked(blk, free_list, b)
    /\ free_list' = h[a]
    /\ pc' = [pc EXCEPT ![a] = "idle"]
    /\ h' = [h EXCEPT ![a] = NULL]
    /\ UNCHANGED <<heap_end, held, size, want, victim, tries, raced, panicked>>

Next ==
    \E a \in Actor :
        \/ \E n \in Requests : kmalloc(a, n, {})
        \/ \E n \in Requests, x \in held : krealloc(a, n, x)
        \/ kmalloc_next(a)
        \/ kmalloc_fit(a)
        \/ kmalloc_carve(a)
        \/ kmalloc_expand(a)
        \/ kmalloc_oom(a)
        \/ \E x \in held : kfree(a, x)
        \/ \E x \in victim[a] : kfree_mark(a, x)
        \/ \E x \in victim[a] : kfree_assert(a, x)
        \/ kfree_link(a)

Spec == Init /\ [][Next]_vars
-----------------------------------------------------------------------------
(* Types of the heap and of its callers (heap.c:21-31).                    *)
TypeOK ==
    /\ Blocks \subseteq Nat
    /\ blk \in [Blocks -> [size : Nat, used : BOOLEAN, prev : Nat, next : Nat]]
    /\ free_list \in Nat /\ heap_end \in Nat
    /\ \A x \in held : x.ptr \in Nat /\ x.want \in Nat /\ x.by \in Actor
    /\ pc \in [Actor -> {"idle", "free"} \cup Inside]
    /\ h \in [Actor -> Nat]
    /\ size \in [Actor -> Nat] /\ want \in [Actor -> Nat]
    /\ victim \in [Actor -> SUBSET held]
    /\ tries \in [Actor -> Nat]
    /\ raced \in BOOLEAN /\ panicked \in BOOLEAN

(* The block a caller has taken out of the list and not yet marked, or     *)
(* marked free and not yet inserted.                                       *)
InHand == {h[a] : a \in {c \in Actor : pc[c] \in {"carve", "link"}}}

Free == {b \in Blocks : ~blk[b].used} \ InHand

(* The blocks cover the heap without gap or overlap.                       *)
TilingInv ==
    /\ Base \in Blocks
    /\ \A b \in Blocks :
         /\ Base <= b /\ blk[b].size >= MIN_BLOCK
         /\ NextBlock(b) \in Blocks \cup {heap_end}
         /\ b < heap_end
         /\ \A c \in Blocks : b < c => NextBlock(b) <= c

(* Neighbours in the free list point at each other and only free blocks    *)
(* are linked.                                                             *)
LinksInv ==
    /\ free_list \in Free \cup {NULL}
    /\ free_list # NULL => blk[free_list].prev = NULL
    /\ \A b \in Free :
         /\ blk[b].next \in Free \cup {NULL}
         /\ blk[b].prev \in Free \cup {NULL}
         /\ blk[b].next # NULL => blk[blk[b].next].prev = b
         /\ blk[b].prev # NULL => blk[blk[b].prev].next = b
         /\ blk[b].prev = NULL => free_list = b

CallersInv ==
    /\ \A x \in held : x.ptr \in Blocks /\ blk[x.ptr].used
                       /\ x.want + OVERHEAD <= blk[x.ptr].size
    /\ \A x, y \in held : x.ptr = y.ptr => x = y
    /\ \A b \in Blocks : blk[b].used => \E x \in held : x.ptr = b
    /\ \A a \in Actor :
         /\ pc[a] = "search" => h[a] \in Free \cup {NULL}
         /\ pc[a] \in {"search", "carve"} => size[a] >= MIN_BLOCK
                                             /\ size[a] >= want[a] + OVERHEAD
         /\ pc[a] \in {"carve", "link"} => h[a] \in Blocks /\ ~blk[h[a]].used
         /\ pc[a] = "carve" => blk[h[a]].size >= size[a]
         /\ pc[a] = "free" => victim[a] # {}
         /\ \A x \in victim[a] : x \in held /\ x.by = a
    /\ pc["shell"] \in Inside => pc["syscall"] = "idle"

(* What every call preserves, until a system call uses the heap while the  *)
(* shell is inside: the blocks tile it, the list is linked both ways, and  *)
(* nothing leaks: a block is free, held once, or in the hands of a call    *)
(* (heap.c:60-194).                                                        *)
HeapInv == TypeOK /\ (~raced => TilingInv /\ LinksInv /\ CallersInv)

(* What kmalloc returns is memory of its own: the payloads held are inside *)
(* the heap and disjoint, and each as large as was asked for, through      *)
(* every order of splitting, expanding and merging (heap.c:121-194), and   *)
(* ASSERT(blk_used(h)) of kfree (heap.c:177) holds.  Not so once a system  *)
(* call has used the heap while the shell was inside.                      *)
PayloadsDisjoint ==
    ~raced => \A x \in held :
        /\ Base <= x.ptr /\ x.ptr + HDR + x.want <= heap_end
        /\ \A y \in held : y # x =>
              \/ x.ptr + HDR + x.want <= y.ptr
              \/ y.ptr + HDR + y.want <= x.ptr
        /\ x.ptr \in Blocks /\ blk[x.ptr].used

(* The list of headers m that starts at head is f[1], ..., f[n].           *)
ListIs(m, head, f, n) ==
    /\ head = IF n = 0 THEN NULL ELSE f[1]
    /\ \A k \in 1 .. n : m[f[k]].next = IF k = n THEN NULL ELSE f[k + 1]

(* The free list reaches every free block exactly once and then ends: no   *)
(* block is lost to later searches and the search terminates               *)
(* (heap.c:60-74).                                                         *)
FreeListExact ==
    ~raced => LET n == Cardinality(Free)
              IN  \E f \in Bijection(1 .. n, Free) :
                     ListIs(blk, free_list, f, n)

(* The retry after heap_expand always succeeds, although kmalloc adds the  *)
(* overhead to its size a second time (heap.c:148-150): the recursion is   *)
(* one level deep.                                                         *)
OneExpansion == ~raced => \A a \in Actor : tries[a] <= 1
=============================================================================
