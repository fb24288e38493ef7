----------------------------- MODULE MemoryProofs -----------------------------
(***************************************************************************)
(* Proofs about the memory: of the frame allocator, for any memory size,   *)
(* any reserved regions and any number of frames, and of the address       *)
(* spaces of user programs, for any number of tasks, frames and pages and  *)
(* any programs.                                                           *)
(***************************************************************************)
EXTENDS Pmm, Uspace, FiniteSetTheorems, WellFoundedInduction, TLAPS

LEMMA FrameFinite == IsFiniteSet(Frame) /\ Cardinality(Frame) = MAX_FRAMES
<1>1. 0 \in Int /\ MAX_FRAMES - 1 \in Int /\ 0 <= MAX_FRAMES - 1
  BY PmmAssumption
<1>2. QED
  BY <1>1, FS_Interval, PmmAssumption DEF Frame

(* Every set of frames is finite and has fewer elements than the counter   *)
(* can hold.                                                               *)
LEMMA FrameSubset ==
    ASSUME NEW S, S \subseteq Frame
    PROVE  IsFiniteSet(S) /\ Cardinality(S) \in 0 .. WORD - 1
<1>1. IsFiniteSet(S) /\ Cardinality(S) <= Cardinality(Frame)
  BY FrameFinite, FS_Subset
<1>2. Cardinality(S) \in Nat
  BY <1>1, FS_CardinalityType
<1>3. QED
  BY <1>1, <1>2, FrameFinite, PmmAssumption

LEMMA ModIdentity ==
    ASSUME NEW n \in 0 .. WORD - 1
    PROVE  n % WORD = n
BY PmmAssumption

LEMMA ModInRange ==
    ASSUME NEW n \in Int
    PROVE  n % WORD \in 0 .. WORD - 1
BY PmmAssumption

LEMMA CoveredFrames ==
    ASSUME NEW r
    PROVE  Covered(r) \subseteq Frame
BY DEF Covered
-----------------------------------------------------------------------------
LEMMA InitPmmInv == Init => PmmInv
<1> SUFFICES ASSUME Init PROVE PmmInv
  OBVIOUS
<1> USE PmmAssumption
<1>1. total_frames \in 0 .. MAX_FRAMES
  BY DEF Init
<1>2. Usable(total_frames) \subseteq Frame
  BY DEF Usable
<1>3. Clear = Usable(total_frames)
  BY <1>2 DEF Init, Clear
<1>4. free_frames = Cardinality(Clear) /\ free_frames \in 0 .. WORD - 1
  BY <1>2, <1>3, FrameSubset DEF Init
<1>5. booting \in BOOLEAN /\ raced \in BOOLEAN
  BY DEF Init
<1>6. TypeOK
  BY <1>1, <1>4, <1>5 DEF Init, TypeOK, Actor
<1>7. BitmapInv
  BY <1>3, <1>6 DEF Init, BitmapInv
<1>8. OwnerInv
  BY <1>4 DEF Init, OwnerInv
<1>9. QED
  BY <1>7, <1>8 DEF PmmInv

LEMMA TypeStep == TypeOK /\ [Next]_vars => TypeOK'
<1> SUFFICES ASSUME TypeOK, [Next]_vars PROVE TypeOK'
  OBVIOUS
<1> USE PmmAssumption
<1>0. free_frames \in Int
  BY DEF TypeOK
<1>1. ASSUME NEW r \in Regions, pmm_reserve(r) PROVE TypeOK'
  <2>1. IsFiniteSet(NewlyReserved(r)) /\ Cardinality(NewlyReserved(r)) \in Int
    BY CoveredFrames, FrameSubset DEF NewlyReserved
  <2>2. free_frames' \in 0 .. WORD - 1
    BY <1>0, <1>1, <2>1, ModInRange DEF pmm_reserve
  <2>3. QED
    BY <1>1, <2>2, CoveredFrames DEF pmm_reserve, TypeOK
<1>2. CASE boot_done
  BY <1>2 DEF boot_done, TypeOK
<1>3. ASSUME NEW f \in Frame, sys_alloc(f) PROVE TypeOK'
  <2>1. free_frames' \in 0 .. WORD - 1
    BY <1>0, <1>3, ModInRange DEF sys_alloc, Take
  <2>2. owners' \in [Frame -> SUBSET Actor]
    BY <1>3 DEF sys_alloc, Take, TypeOK, Actor
  <2>3. raced' \in BOOLEAN
    BY <1>3 DEF sys_alloc, TypeOK
  <2>4. QED
    BY <1>3, <2>1, <2>2, <2>3 DEF sys_alloc, Take, TypeOK
<1>4. CASE alloc_start
  BY <1>4 DEF alloc_start, TypeOK
<1>5. CASE alloc_next
  BY <1>5 DEF alloc_next, TypeOK
<1>6. CASE alloc_found
  BY <1>6 DEF alloc_found, TypeOK
<1>7. CASE alloc_none
  BY <1>7 DEF alloc_none, TypeOK
<1>8. CASE alloc_take
  <2>1. free_frames' \in 0 .. WORD - 1
    BY <1>0, <1>8, ModInRange DEF alloc_take, Take
  <2>2. owners' \in [Frame -> SUBSET Actor]
    BY <1>8 DEF alloc_take, Take, TypeOK, Actor
  <2>3. QED
    BY <1>8, <2>1, <2>2 DEF alloc_take, Take, TypeOK
<1>9. ASSUME NEW f \in Frame, NEW a \in Actor, pmm_free(f, a) PROVE TypeOK'
  <2>1. free_frames' \in 0 .. WORD - 1
    BY <1>0, <1>9, ModInRange DEF pmm_free, TypeOK
  <2>2. owners' \in [Frame -> SUBSET Actor]
    BY <1>9 DEF pmm_free, TypeOK
  <2>3. QED
    BY <1>9, <2>1, <2>2 DEF pmm_free, TypeOK
<1>10. CASE UNCHANGED vars
  BY <1>10 DEF vars, TypeOK
<1>11. QED
  BY <1>1, <1>2, <1>3, <1>4, <1>5, <1>6, <1>7, <1>8, <1>9, <1>10 DEF Next

-----------------------------------------------------------------------------
(* A set bit, a reservation and a holder change in step: what is reserved  *)
(* is never clear, so no allocation finds it.                              *)
LEMMA BitmapStep == BitmapInv /\ [Next]_vars => BitmapInv'
<1> SUFFICES ASSUME BitmapInv, [Next]_vars PROVE BitmapInv'
  OBVIOUS
<1>t. TypeOK /\ TypeOK'
  BY TypeStep DEF BitmapInv
<1>0. ASSUME total_frames' = total_frames
      PROVE  /\ Usable(total_frames)' = Usable(total_frames)
             /\ \A r : Covered(r)' = Covered(r)
  BY <1>0 DEF Usable, Covered
<1>1. ASSUME NEW r \in Regions, pmm_reserve(r) PROVE BitmapInv'
  <2>1. Clear' \subseteq Clear
    BY <1>1 DEF pmm_reserve, Clear
  <2>2. Covered(r) \subseteq Frame
    BY CoveredFrames
  <2>3. owners' = owners /\ owners = [f \in Frame |-> {}] /\ shellPc' = "idle"
        /\ shellPc = "idle" /\ booting' = booting /\ total_frames' = total_frames
    BY <1>1 DEF pmm_reserve, BitmapInv
  <2>4. \A q \in reserved' : \A f \in Covered(q)' : f \in bitmap' /\ owners'[f] = {}
    BY <1>0, <1>1, <2>2, <2>3, CoveredFrames DEF pmm_reserve, BitmapInv
  <2>5. QED
    BY <1>0, <1>t, <2>1, <2>3, <2>4 DEF BitmapInv
<1>2. CASE boot_done
  BY <1>0, <1>t, <1>2 DEF boot_done, BitmapInv, Clear
<1>3. ASSUME NEW f \in Frame, sys_alloc(f) PROVE BitmapInv'
  <2>1. f \in Clear /\ f \notin bitmap /\ f \in Usable(total_frames)
    BY <1>3 DEF sys_alloc, IsFirstClear, Clear, BitmapInv
  <2>2. /\ bitmap' = bitmap \cup {f} /\ total_frames' = total_frames
        /\ reserved' = reserved /\ booting' = booting /\ ~booting
        /\ shellPc' = shellPc /\ pos' = pos
    BY <1>3 DEF sys_alloc, Take
  <2>3. /\ \A g \in Frame : g # f => owners'[g] = owners[g]
        /\ \A r \in reserved : f \notin Covered(r)
    BY <1>3, <1>t, <2>1 DEF sys_alloc, Take, TypeOK, BitmapInv
  <2>4. \A g \in Clear' : g \in Usable(total_frames)'
    BY <1>0, <2>2 DEF Clear, BitmapInv
  <2>5. \A r \in reserved' : \A g \in Covered(r)' : g \in bitmap' /\ owners'[g] = {}
    BY <1>0, <2>2, <2>3, CoveredFrames DEF BitmapInv
  <2>6. \A g \in Frame : owners'[g] # {} => g \in Usable(total_frames)'
    BY <1>0, <2>1, <2>2, <2>3 DEF BitmapInv
  <2>7. QED
    BY <1>0, <1>t, <2>2, <2>4, <2>5, <2>6 DEF BitmapInv
<1>4. CASE alloc_start
  BY <1>0, <1>t, <1>4 DEF alloc_start, BitmapInv, Clear
<1>5. CASE alloc_next
  BY <1>0, <1>t, <1>5 DEF alloc_next, BitmapInv, Clear
<1>6. CASE alloc_found
  <2>1. pos \in Clear
    BY <1>6, <1>t, PmmAssumption DEF alloc_found, Clear, Frame, TypeOK
  <2>2. pos \in Usable(total_frames) /\ \A r \in reserved : pos \notin Covered(r)
    BY <2>1 DEF BitmapInv, Clear
  <2>3. QED
    BY <1>0, <1>t, <1>6, <2>2 DEF alloc_found, BitmapInv, Clear
<1>7. CASE alloc_none
  BY <1>0, <1>t, <1>7 DEF alloc_none, BitmapInv, Clear
<1>8. CASE alloc_take
  <2>1. pos \in Usable(total_frames) /\ \A r \in reserved : pos \notin Covered(r)
    BY <1>8 DEF alloc_take, BitmapInv
  <2>2. /\ bitmap' = bitmap \cup {pos} /\ total_frames' = total_frames
        /\ reserved' = reserved /\ booting' = booting /\ ~booting
        /\ shellPc' = "idle"
    BY <1>8 DEF alloc_take, Take, BitmapInv
  <2>3. \A g \in Frame : g # pos => owners'[g] = owners[g]
    BY <1>8, <1>t DEF alloc_take, Take, TypeOK
  <2>4. \A g \in Clear' : g \in Usable(total_frames)'
    BY <1>0, <2>2 DEF Clear, BitmapInv
  <2>5. \A r \in reserved' : \A g \in Covered(r)' : g \in bitmap' /\ owners'[g] = {}
    BY <1>0, <2>1, <2>2, <2>3, CoveredFrames DEF BitmapInv
  <2>6. \A g \in Frame : owners'[g] # {} => g \in Usable(total_frames)'
    BY <1>0, <2>1, <2>2, <2>3 DEF BitmapInv
  <2>7. QED
    BY <1>0, <1>t, <2>2, <2>4, <2>5, <2>6 DEF BitmapInv
<1>9. ASSUME NEW f \in Frame, NEW a \in Actor, pmm_free(f, a) PROVE BitmapInv'
  <2>1. f \in Usable(total_frames) /\ \A r \in reserved : f \notin Covered(r)
    BY <1>9 DEF pmm_free, BitmapInv
  <2>2. /\ bitmap' = bitmap \ {f} /\ total_frames' = total_frames
        /\ reserved' = reserved /\ booting' = booting /\ ~booting
        /\ shellPc' = shellPc /\ pos' = pos
    BY <1>9 DEF pmm_free, BitmapInv
  <2>3. /\ \A g \in Frame : g # f => owners'[g] = owners[g]
        /\ \A g \in Frame : owners'[g] \subseteq owners[g]
    BY <1>9, <1>t DEF pmm_free, TypeOK
  <2>4. \A g \in Clear' : g \in Usable(total_frames)'
    BY <1>0, <2>1, <2>2 DEF Clear, BitmapInv
  <2>5. \A r \in reserved' : \A g \in Covered(r)' : g \in bitmap' /\ owners'[g] = {}
    BY <1>0, <2>1, <2>2, <2>3, CoveredFrames DEF BitmapInv
  <2>6. \A g \in Frame : owners'[g] # {} => g \in Usable(total_frames)'
    BY <1>0, <2>2, <2>3 DEF BitmapInv
  <2>7. QED
    BY <1>0, <1>t, <2>2, <2>4, <2>5, <2>6 DEF BitmapInv
<1>10. CASE UNCHANGED vars
  BY <1>0, <1>t, <1>10 DEF vars, BitmapInv, Clear
<1>11. QED
  BY <1>1, <1>2, <1>3, <1>4, <1>5, <1>6, <1>7, <1>8, <1>9, <1>10 DEF Next

-----------------------------------------------------------------------------
(* Setting a clear bit and decrementing, and clearing a set bit and        *)
(* incrementing, keep the count exact, and the counter never wraps.        *)
LEMMA CountTake ==
    ASSUME TypeOK, free_frames = Cardinality(Clear),
           NEW f \in Frame, f \notin bitmap,
           bitmap' = bitmap \cup {f},
           free_frames' = (free_frames - 1) % WORD
    PROVE  free_frames' = Cardinality(Clear')
<1>1. Clear' = Clear \ {f} /\ f \in Clear
  BY DEF Clear
<1>2. IsFiniteSet(Clear) /\ Cardinality(Clear) \in 0 .. WORD - 1
  BY FrameSubset DEF Clear
<1>3. Cardinality(Clear') = Cardinality(Clear) - 1
  BY <1>1, <1>2, FS_RemoveElement
<1>4. Cardinality(Clear') \in 0 .. WORD - 1
  <2>1. Clear \ {f} \subseteq Frame
    BY DEF Clear
  <2>2. QED
    BY <1>1, <2>1, FrameSubset
<1>5. (free_frames - 1) % WORD = free_frames - 1
  BY <1>3, <1>4, ModIdentity
<1>6. QED
  BY <1>3, <1>5

LEMMA CountFree ==
    ASSUME TypeOK, free_frames = Cardinality(Clear),
           NEW f \in Frame, f \in bitmap,
           bitmap' = bitmap \ {f},
           free_frames' = (free_frames + 1) % WORD
    PROVE  free_frames' = Cardinality(Clear')
<1>1. Clear' = Clear \cup {f} /\ f \notin Clear
  BY DEF Clear
<1>2. IsFiniteSet(Clear) /\ Cardinality(Clear) \in 0 .. WORD - 1
  BY FrameSubset DEF Clear
<1>3. Cardinality(Clear') = Cardinality(Clear) + 1
  BY <1>1, <1>2, FS_AddElement
<1>4. Cardinality(Clear') \in 0 .. WORD - 1
  <2>1. Clear \cup {f} \subseteq Frame
    BY DEF Clear
  <2>2. QED
    BY <1>1, <2>1, FrameSubset
<1>5. (free_frames + 1) % WORD = free_frames + 1
  BY <1>3, <1>4, ModIdentity
<1>6. QED
  BY <1>3, <1>5

LEMMA CountReserve ==
    ASSUME TypeOK, free_frames = Cardinality(Clear), NEW r, pmm_reserve(r)
    PROVE  free_frames' = Cardinality(Clear')
<1>1. Clear' = Clear \ NewlyReserved(r) /\ NewlyReserved(r) \subseteq Clear
  BY CoveredFrames DEF pmm_reserve, Clear, NewlyReserved
<1>2. Clear \subseteq Frame /\ Clear \ NewlyReserved(r) \subseteq Frame
  BY DEF Clear
<1>3. /\ IsFiniteSet(Clear) /\ IsFiniteSet(NewlyReserved(r))
      /\ Cardinality(Clear) \in 0 .. WORD - 1
      /\ Cardinality(NewlyReserved(r)) \in 0 .. WORD - 1
      /\ Cardinality(Clear \ NewlyReserved(r)) \in 0 .. WORD - 1
  BY <1>1, <1>2, FrameSubset
<1>4. Clear \cap NewlyReserved(r) = NewlyReserved(r)
  BY <1>1
<1>5. Cardinality(Clear \ NewlyReserved(r))
        = Cardinality(Clear) - Cardinality(NewlyReserved(r))
  BY <1>3, <1>4, FS_Difference
<1>6. (free_frames - Cardinality(NewlyReserved(r))) % WORD
        = free_frames - Cardinality(NewlyReserved(r))
  BY <1>3, <1>5, ModIdentity
<1>7. QED
  BY <1>1, <1>5, <1>6 DEF pmm_reserve

(* Without a race, holders, bits and the counter agree.                    *)
LEMMA OwnerStep == PmmInv /\ [Next]_vars => (~raced' => OwnerInv')
<1> SUFFICES ASSUME PmmInv, [Next]_vars, ~raced' PROVE OwnerInv'
  OBVIOUS
<1>t. TypeOK /\ BitmapInv
  BY DEF PmmInv, BitmapInv
<1>0. ~raced
  BY DEF Next, vars, pmm_reserve, boot_done, sys_alloc, alloc_start,
         alloc_next, alloc_found, alloc_none, alloc_take, pmm_free
<1>o. OwnerInv
  BY <1>0 DEF PmmInv
<1>1. ASSUME NEW r \in Regions, pmm_reserve(r) PROVE OwnerInv'
  <2>1. /\ owners' = owners /\ owners = [f \in Frame |-> {}]
        /\ shellPc' = "idle"
    BY <1>1, <1>t DEF pmm_reserve, BitmapInv
  <2>2. free_frames' = Cardinality(Clear')
    BY <1>1, <1>t, <1>o, CountReserve DEF OwnerInv
  <2>3. QED
    BY <2>1, <2>2 DEF OwnerInv
<1>2. CASE boot_done
  BY <1>o, <1>2 DEF boot_done, OwnerInv, Clear
<1>3. ASSUME NEW f \in Frame, sys_alloc(f) PROVE OwnerInv'
  <2>1. f \notin bitmap /\ owners[f] = {} /\ ~(shellPc = "take" /\ pos = f)
    BY <1>3, <1>o DEF sys_alloc, IsFirstClear, Clear, OwnerInv
  <2>2. /\ bitmap' = bitmap \cup {f} /\ shellPc' = shellPc /\ pos' = pos
        /\ free_frames' = (free_frames - 1) % WORD
    BY <1>3 DEF sys_alloc, Take
  <2>3. /\ \A g \in Frame : g # f => owners'[g] = owners[g]
        /\ owners'[f] = {"syscall"}
    BY <1>3, <1>t, <2>1 DEF sys_alloc, Take, TypeOK
  <2>4. free_frames' = Cardinality(Clear')
    BY <1>t, <1>o, <2>1, <2>2, CountTake DEF OwnerInv
  <2>5. \A g \in Frame : owners'[g] # {} => g \in bitmap'
    BY <1>o, <2>2, <2>3 DEF OwnerInv
  <2>6. \A g \in Frame, a, b \in Actor :
           a \in owners'[g] /\ b \in owners'[g] => a = b
    BY <1>o, <2>3 DEF OwnerInv
  <2>7. shellPc' = "take" => pos' \notin bitmap'
    BY <1>o, <2>1, <2>2 DEF OwnerInv
  <2>8. QED
    BY <2>4, <2>5, <2>6, <2>7 DEF OwnerInv
<1>4. CASE alloc_start
  BY <1>o, <1>4 DEF alloc_start, OwnerInv, Clear
<1>5. CASE alloc_next
  BY <1>o, <1>5 DEF alloc_next, OwnerInv, Clear
<1>6. CASE alloc_found
  BY <1>o, <1>6 DEF alloc_found, OwnerInv, Clear
<1>7. CASE alloc_none
  BY <1>o, <1>7 DEF alloc_none, OwnerInv, Clear
<1>8. CASE alloc_take
  <2>1. pos \in Frame /\ pos \notin bitmap /\ owners[pos] = {}
    BY <1>8, <1>t, <1>o DEF alloc_take, BitmapInv, OwnerInv, Usable
  <2>2. /\ bitmap' = bitmap \cup {pos} /\ shellPc' = "idle"
        /\ free_frames' = (free_frames - 1) % WORD
    BY <1>8 DEF alloc_take, Take
  <2>3. /\ \A g \in Frame : g # pos => owners'[g] = owners[g]
        /\ owners'[pos] = {"shell"}
    BY <1>8, <1>t, <2>1 DEF alloc_take, Take, TypeOK
  <2>4. free_frames' = Cardinality(Clear')
    BY <1>t, <1>o, <2>1, <2>2, CountTake DEF OwnerInv
  <2>5. \A g \in Frame : owners'[g] # {} => g \in bitmap'
    BY <1>o, <2>2, <2>3 DEF OwnerInv
  <2>6. \A g \in Frame, a, b \in Actor :
           a \in owners'[g] /\ b \in owners'[g] => a = b
    BY <1>o, <2>3 DEF OwnerInv
  <2>7. QED
    BY <2>2, <2>4, <2>5, <2>6 DEF OwnerInv
<1>9. ASSUME NEW f \in Frame, NEW a \in Actor, pmm_free(f, a) PROVE OwnerInv'
  <2>1. f \in bitmap /\ owners[f] = {a}
    BY <1>9, <1>t, <1>o DEF pmm_free, OwnerInv, TypeOK
  <2>2. /\ bitmap' = bitmap \ {f} /\ shellPc' = shellPc /\ pos' = pos
        /\ free_frames' = (free_frames + 1) % WORD
    BY <1>9, <2>1 DEF pmm_free
  <2>3. /\ \A g \in Frame : g # f => owners'[g] = owners[g]
        /\ owners'[f] = {}
    BY <1>9, <1>t, <2>1 DEF pmm_free, TypeOK
  <2>4. free_frames' = Cardinality(Clear')
    BY <1>t, <1>o, <2>1, <2>2, CountFree DEF OwnerInv
  <2>5. \A g \in Frame : owners'[g] # {} => g \in bitmap'
    BY <1>o, <2>2, <2>3 DEF OwnerInv
  <2>6. \A g \in Frame, c, b \in Actor :
           c \in owners'[g] /\ b \in owners'[g] => c = b
    BY <1>o, <2>3 DEF OwnerInv
  <2>7. shellPc' = "take" => pos' \notin bitmap'
    BY <1>o, <2>2 DEF OwnerInv
  <2>8. QED
    BY <2>4, <2>5, <2>6, <2>7 DEF OwnerInv
<1>10. CASE UNCHANGED vars
  BY <1>o, <1>10 DEF vars, OwnerInv, Clear
<1>11. QED
  BY <1>1, <1>2, <1>3, <1>4, <1>5, <1>6, <1>7, <1>8, <1>9, <1>10 DEF Next

(* The inductive invariant of mm/pmm.c, for any memory and any number of   *)
(* overlapping boot reservations.                                          *)
THEOREM PmmInvariant == Spec => []PmmInv
<1>1. PmmInv /\ [Next]_vars => PmmInv'
  BY BitmapStep, OwnerStep DEF PmmInv
<1>2. QED
  BY InitPmmInv, <1>1, PTL DEF Spec

(* No frame has two holders or is held and free, unless a system call took *)
(* the frame the shell had just found in pmm_alloc.                        *)
THEOREM FramesExclusive == Spec => []Exclusive
<1>1. PmmInv => Exclusive
  BY DEF PmmInv, OwnerInv, Exclusive
<1>2. QED
  BY PmmInvariant, <1>1, PTL

(* pmm_free_pages reports the number of clear bits.                        *)
THEOREM FreeCountExact == Spec => []CountExact
<1>1. PmmInv => CountExact
  BY DEF PmmInv, OwnerInv, CountExact
<1>2. QED
  BY PmmInvariant, <1>1, PTL
-----------------------------------------------------------------------------
LEMMA QuotientBounds ==
    ASSUME NEW x \in Nat, NEW p \in Nat \ {0}
    PROVE  /\ x \div p \in Nat
           /\ p * (x \div p) <= x
           /\ x < p * (x \div p) + p
  OBVIOUS

LEMMA QuotientMonotone ==
    ASSUME NEW x \in Nat, NEW y \in Nat, NEW p \in Nat \ {0}, x <= y
    PROVE  x \div p <= y \div p
  BY QuotientBounds

LEMMA QuotientBelow ==
    ASSUME NEW x \in Nat, NEW y \in Nat, NEW p \in Nat \ {0}, x + p <= y
    PROVE  x \div p < y \div p
  BY QuotientBounds

(* pmm_reserve keeps every frame that a reserved region touches away from  *)
(* pmm_alloc, whatever the alignment of the region.                        *)
THEOREM ReservedNeverHandedOut == Spec => []ReservedSafe
<1>1. PmmInv => ReservedSafe
  <2> SUFFICES ASSUME PmmInv, NEW f \in Frame, owners[f] # {},
                      NEW r \in reserved,
                      NEW x \in r[1] .. r[1] + r[2] - 1,
                      x \div PAGE_SIZE = f
               PROVE  FALSE
    BY DEF ReservedSafe
  <2>1. r[1] \in Nat /\ r[2] \in Nat /\ PAGE_SIZE \in Nat \ {0}
    BY PmmAssumption DEF PmmInv, BitmapInv, TypeOK
  <2>2. x \in Nat /\ r[1] <= x /\ x + PAGE_SIZE <= r[1] + r[2] + PAGE_SIZE - 1
    BY <2>1
  <2>3. r[1] \div PAGE_SIZE <= f
    BY <2>1, <2>2, QuotientMonotone
  <2>4. f < (r[1] + r[2] + PAGE_SIZE - 1) \div PAGE_SIZE
    <3>1. r[1] + r[2] + PAGE_SIZE - 1 \in Nat
      BY <2>1
    <3>2. QED
      BY <2>1, <2>2, <3>1, QuotientBelow
  <2>5. f < total_frames
    BY DEF PmmInv, BitmapInv, Usable
  <2>6. f \in Covered(r)
    BY <2>3, <2>4, <2>5 DEF Covered
  <2>7. QED
    BY <2>6 DEF PmmInv, BitmapInv
<1>2. QED
  BY PmmInvariant, <1>1, PTL
-----------------------------------------------------------------------------
(* Part two: the address spaces.                                           *)
Reason == {"areas", "brk", "fixed", "threads", "segments"}

(* The types of the address spaces.                                        *)
SpaceTypes ==
    /\ load \in Loads
    /\ free \subseteq AllFrames /\ held \subseteq AllFrames
    /\ lost \subseteq AllFrames
    /\ pt \in [AllFrames -> [Page -> AllFrames \cup {NONE}]]
    /\ excuse \in [AllFrames -> SUBSET Reason]
    /\ made \subseteq Task /\ task \subseteq made
    /\ cr3 \in [Task -> AllFrames \cup {NONE}]
    /\ brk_start \in [Task -> Nat] /\ brk_end \in [Task -> Nat]
    /\ mmap_next \in [Task -> Nat]
    /\ pc \in [Loader -> {"idle", "load", "task"}]
    /\ root \in [Loader -> AllFrames \cup {NONE}]
    /\ prog \in [Loader -> Seq(Segments)]
    /\ seg \in [Loader -> Nat] /\ max_end \in [Loader -> Nat]

(* Roots: a live task and a busy loader have one, a loader's is its own,   *)
(* and a task that executes a program is alive.                            *)
RootsApart ==
    /\ \A t \in task : cr3[t] # NONE
    /\ \A l \in Loader : root[l] = NONE <=> pc[l] = "idle"
    /\ \A l \in Loader, t \in task : root[l] # cr3[t]
    /\ \A l, k \in Loader : root[l] # NONE /\ root[l] = root[k] => l = k
    /\ \A t \in Task : pc[t] # "idle" => t \in task

(* A frame that may become a root holds an empty table.                    *)
UnusedEmpty == \A r \in free \cup held : pt[r] = Empty

(* Where a space that has no excuse has pages: a task's below the break b  *)
(* and the mappings, in the mappings, which go up to m so far, and in the  *)
(* stack; ...                                                              *)
Laid(T, b, m) ==
    /\ MMAP_BASE <= m
    /\ \A p \in Page : T[p] # NONE =>
          \/ p < b /\ p < MMAP_BASE
          \/ MMAP_BASE <= p /\ p < m
          \/ STACK_BASE <= p

(* ...a loader's in the segments before the k-th one of P, which lie below *)
(* the mappings and the break e to be, and when they are all loaded in the *)
(* stack.                                                                  *)
InSegments(P, k, p) == \E j \in 1 .. k - 1 : p \in Area(P[j].at, P[j].n)
LaidLoad(T, where, P, k, e) ==
    \A p \in Page : T[p] # NONE =>
        \/ /\ p < e /\ p < MMAP_BASE
           /\ where = "load" => InSegments(P, k, p)
        \/ where = "task" /\ STACK_BASE <= p

(* A task in such a space is the only one in it.                           *)
TaskLayout ==
    \A t \in task : excuse[cr3[t]] = {} =>
        Alone(t) /\ Laid(pt[cr3[t]], brk_end[t], mmap_next[t])
LoaderLayout ==
    \A l \in Loader : root[l] # NONE /\ excuse[root[l]] = {} =>
        LaidLoad(pt[root[l]], pc[l], prog[l], seg[l], max_end[l])
Progress ==
    \A l \in Loader :
        /\ pc[l] = "load" => seg[l] \in 1 .. Len(prog[l]) + 1
        /\ pc[l] = "idle" => max_end[l] = 0
Layout == Progress /\ TaskLayout /\ LoaderLayout

(* The inductive invariant of the address spaces.                          *)
SpaceInv == SpaceTypes /\ RootsApart /\ UnusedEmpty /\ FramesKept /\ Layout
-----------------------------------------------------------------------------
(* A set of natural numbers that is not empty has a least member.          *)
LEMMA LeastNat ==
    ASSUME NEW S \in SUBSET Nat, S # {}
    PROVE  \E x \in S : \A y \in S : x <= y
<1> DEFINE Less == {ss \in Nat \X Nat : ss[1] < ss[2]}
<1>1. IsWellFoundedOn(Less, Nat)
  BY NatLessThanWellFounded, Zenon DEF OpToRel, Less
<1>2. PICK x \in S : \A y \in S : ~(<<y, x>> \in Less)
  BY <1>1, WFMin
<1>3. ASSUME NEW y \in S
      PROVE  x <= y
  <2>1. x \in Nat /\ y \in Nat /\ ~(<<y, x>> \in Less)
    BY <1>2
  <2> QED
    BY <2>1 DEF Less
<1> QED
  BY <1>3

(* The numbers of S below f.                                               *)
Below(S, f) == {g \in S : g < f}

(* The frame behind the first j ones of a bitmap: there is one as long as  *)
(* the bitmap has more than j.                                             *)
LEMMA NthExists ==
    ASSUME NEW S \in SUBSET Nat, IsFiniteSet(S),
           NEW j \in Nat, j < Cardinality(S)
    PROVE  \E f \in S : Cardinality(Below(S, f)) = j
<1> DEFINE Has(i) == \E f \in S : Cardinality(Below(S, f)) = i
           Bad == {i \in Nat : i < Cardinality(S) /\ ~Has(i)}
<1> SUFFICES ASSUME j \in Bad PROVE FALSE
  OBVIOUS
<1>0. Cardinality(S) \in Nat
  BY FS_CardinalityType
<1>1. PICK i \in Bad : \A k \in Bad : i <= k
  <2>1. Bad \in SUBSET Nat /\ Bad # {}
    OBVIOUS
  <2> HIDE DEF Bad
  <2> QED
    BY <2>1, LeastNat
<1>2. i \in Nat /\ i < Cardinality(S) /\ ~Has(i)
  OBVIOUS
<1>3. CASE i = 0
  <2>1. S # {}
    BY <1>2, <1>3, FS_EmptySet
  <2>2. PICK f \in S : \A g \in S : f <= g
    BY <2>1, LeastNat
  <2>3. Below(S, f) = {}
    <3>1. ASSUME NEW g \in S PROVE ~(g < f)
      <4>1. f \in Nat /\ g \in Nat /\ f <= g
        BY <2>2
      <4> QED
        BY <4>1
    <3> QED
      BY <3>1 DEF Below
  <2> QED
    BY <1>2, <1>3, <2>3, FS_EmptySet
<1>4. CASE i # 0
  <2>1. i - 1 \in Nat /\ i - 1 < Cardinality(S) /\ ~(i <= i - 1)
    BY <1>0, <1>2, <1>4
  <2>2. Has(i - 1)
    BY <1>1, <2>1
  <2>3. PICK f \in S : Cardinality(Below(S, f)) = i - 1
    BY <2>2
  <2> DEFINE B == Below(S, f)
  <2>4. IsFiniteSet(B) /\ B \subseteq S /\ f \notin B /\ f \in Nat
    BY FS_Subset DEF Below
  <2>5. IsFiniteSet(B \cup {f}) /\ Cardinality(B \cup {f}) = i
    <3>1. Cardinality(B \cup {f}) = Cardinality(B) + 1
      BY <2>4, FS_AddElement
    <3> QED
      BY <1>2, <2>3, <2>4, <3>1, FS_AddElement
  <2> DEFINE Above == {g \in S : f < g}
  <2>6. Above # {}
    <3>1. ASSUME Above = {} PROVE S = B \cup {f}
      <4>1. ASSUME NEW g \in S PROVE g \in B \cup {f}
        <5>1. g \in Nat /\ ~(f < g)
          BY <3>1
        <5> QED
          BY <2>4, <5>1 DEF Below
      <4> QED
        BY <2>4, <4>1
    <3> QED
      BY <1>2, <1>0, <2>5, <3>1
  <2>7. PICK g \in Above : \A h \in Above : g <= h
    <3>1. Above \in SUBSET Nat
      OBVIOUS
    <3> HIDE DEF Above
    <3> QED
      BY <2>6, <3>1, LeastNat
  <2>8. Below(S, g) = B \cup {f}
    <3>1. ASSUME NEW h \in S, h < g PROVE h \in B \cup {f}
      <4>1. h \in Nat /\ g \in Nat /\ ~(f < h)
        BY <2>7, <3>1
      <4> QED
        BY <2>4, <4>1 DEF Below
    <3>2. ASSUME NEW h \in B PROVE h \in S /\ h < g
      <4>1. h \in Nat /\ g \in Nat /\ h < f /\ f < g
        BY <2>7 DEF Below
      <4> QED
        BY <2>4, <4>1
    <3> QED
      BY <3>1, <3>2 DEF Below
  <2> QED
    BY <1>2, <2>5, <2>7, <2>8
<1> QED
  BY <1>3, <1>4

(* So Nth(S, 0), Nth(S, 1) and so on are different frames of S.            *)
LEMMA NthIn ==
    ASSUME NEW S \in SUBSET Nat, IsFiniteSet(S),
           NEW j \in Nat, j < Cardinality(S)
    PROVE  Nth(S, j) \in S /\ Cardinality(Below(S, Nth(S, j))) = j
BY NthExists, Zenon DEF Nth, Below

LEMMA NthApart ==
    ASSUME NEW S \in SUBSET Nat, IsFiniteSet(S),
           NEW i \in Nat, i < Cardinality(S),
           NEW j \in Nat, j < Cardinality(S), Nth(S, i) = Nth(S, j)
    PROVE  i = j
<1>1. Cardinality(Below(S, Nth(S, i))) = i
  BY NthIn
<1>2. Cardinality(Below(S, Nth(S, j))) = j
  BY NthIn
<1> QED
  BY <1>1, <1>2

(* Nth(S, 0) is the least.                                                 *)
LEMMA NthZero ==
    ASSUME NEW S \in SUBSET Nat, IsFiniteSet(S),
           NEW f \in S, \A g \in S : f <= g
    PROVE  Nth(S, 0) = f
<1>1. Cardinality(S) \in Nat /\ Cardinality(S) # 0
  BY FS_CardinalityType, FS_EmptySet
<1>2. Nth(S, 0) \in S /\ Cardinality(Below(S, Nth(S, 0))) = 0
  BY <1>1, NthIn
<1>3. IsFiniteSet(Below(S, Nth(S, 0)))
  BY FS_Subset DEF Below
<1>4. Below(S, Nth(S, 0)) = {}
  BY <1>2, <1>3, FS_EmptySet
<1>5. ~(f < Nth(S, 0)) /\ f <= Nth(S, 0)
  BY <1>2, <1>4 DEF Below
<1>6. f \in Nat /\ Nth(S, 0) \in Nat
  BY <1>2
<1> QED
  BY <1>5, <1>6
(* No two numbers have as many below them.                                 *)
LEMMA RankApart ==
    ASSUME NEW S \in SUBSET Nat, IsFiniteSet(S), NEW f \in S, NEW g \in S,
           Cardinality(Below(S, f)) = Cardinality(Below(S, g))
    PROVE  f = g
<1>1. ASSUME NEW x \in S, NEW y \in S, x < y
      PROVE  Cardinality(Below(S, x)) # Cardinality(Below(S, y))
  <2>1. /\ IsFiniteSet(Below(S, x)) /\ IsFiniteSet(Below(S, y))
        /\ x \notin Below(S, x) /\ x \in Nat /\ y \in Nat
    BY FS_Subset DEF Below
  <2>2. Below(S, x) \cup {x} \subseteq Below(S, y)
    <3>1. \A z \in S : z < x => z < y
      BY <1>1, <2>1
    <3> QED
      BY <1>1, <3>1 DEF Below
  <2>3. Cardinality(Below(S, x) \cup {x}) = Cardinality(Below(S, x)) + 1
    BY <2>1, FS_AddElement
  <2>4. Cardinality(Below(S, x) \cup {x}) <= Cardinality(Below(S, y))
    BY <2>1, <2>2, FS_Subset
  <2>5. Cardinality(Below(S, x)) \in Nat /\ Cardinality(Below(S, y)) \in Nat
    BY <2>1, FS_CardinalityType
  <2> QED
    BY <2>3, <2>4, <2>5
<1>2. f \in Nat /\ g \in Nat
  OBVIOUS
<1>3. ~(f < g) /\ ~(g < f)
  BY <1>1
<1> QED
  BY <1>2, <1>3

(* One frame of the bitmap taken after the other, always the first one     *)
(* that is clear (pmm.c:71-80), are the frames that the loops over pages   *)
(* of the address spaces use (Filled): the first is Nth(S, 0), and once it *)
(* is taken, the next ones are those that came after it.                   *)
THEOREM FramesInOrder ==
    ASSUME NEW S \in SUBSET Nat, IsFiniteSet(S),
           NEW f \in S, \A g \in S : f <= g,
           NEW j \in Nat, j + 1 < Cardinality(S)
    PROVE  Nth(S, 0) = f /\ Nth(S \ {f}, j) = Nth(S, j + 1)
<1> DEFINE R == S \ {f}
           x == Nth(S, j + 1)
<1>1. Nth(S, 0) = f /\ Cardinality(S) \in Nat
  BY NthZero, FS_CardinalityType
<1>2. x \in S /\ Cardinality(Below(S, x)) = j + 1
  BY NthIn
<1>3. /\ R \in SUBSET Nat /\ IsFiniteSet(R)
      /\ Cardinality(R) = Cardinality(S) - 1
  BY FS_RemoveElement
<1>4. x # f
  <2>1. Cardinality(Below(S, f)) = 0
    BY <1>1, NthIn
  <2> QED
    BY <1>2, <2>1
<1>5. Cardinality(Below(R, x)) = j
  <2>1. f < x
    <3>1. f \in Nat /\ x \in Nat /\ f <= x
      BY <1>2
    <3> QED
      BY <1>4, <3>1
  <2>2. Below(R, x) = Below(S, x) \ {f} /\ f \in Below(S, x)
    BY <2>1 DEF Below
  <2>3. IsFiniteSet(Below(S, x))
    BY FS_Subset DEF Below
  <2>4. Cardinality(Below(S, x) \ {f}) = Cardinality(Below(S, x)) - 1
    BY <2>2, <2>3, FS_RemoveElement
  <2> QED
    BY <1>2, <2>2, <2>4
<1>6. j < Cardinality(R)
  BY <1>1, <1>3
<1> HIDE DEF R, x
<1>7. Nth(R, j) \in R /\ Cardinality(Below(R, Nth(R, j))) = j
  BY <1>3, <1>6, NthIn
<1>8. x \in R
  BY <1>2, <1>4 DEF R
<1>9. Nth(R, j) = x
  BY <1>3, <1>5, <1>7, <1>8, RankApart
<1> QED
  BY <1>1, <1>9 DEF R, x
-----------------------------------------------------------------------------
LEMMA FramesFinite ==
    ASSUME NEW S, S \subseteq AllFrames
    PROVE  S \in SUBSET Nat /\ IsFiniteSet(S) /\ Cardinality(S) \in Nat
<1>1. Frames \in Int /\ 1 \in Int
  BY UspaceAssumption
<1>2. IsFiniteSet(AllFrames)
  BY <1>1, FS_Interval DEF AllFrames
<1>3. AllFrames \subseteq Nat
  BY UspaceAssumption DEF AllFrames
<1> QED
  BY <1>2, <1>3, FS_Subset, FS_CardinalityType

(* A new root is a free frame.                                             *)
LEMMA NewRootIn ==
    ASSUME NEW S, S \subseteq AllFrames, S # {}
    PROVE  Nth(S, 0) \in S
<1>1. S \in SUBSET Nat /\ IsFiniteSet(S) /\ Cardinality(S) \in Nat
  BY FramesFinite
<1>2. 0 < Cardinality(S)
  BY <1>1, FS_EmptySet
<1> QED
  BY <1>1, <1>2, NthIn

Table == [Page -> AllFrames \cup {NONE}]

(* A table in which no frame is on two pages.                              *)
Single(T) == \A p, q \in Page : T[p] # NONE /\ T[p] = T[q] => p = q

LEMMA NoneIsNone == NONE \notin AllFrames
BY UspaceAssumption DEF AllFrames

(* Filled is what the loop over pages does (vmm.c:100-106 with pmm_alloc,  *)
(* as in syscall.c:281-290): it ends when there is no page left or no      *)
(* frame; else it takes the first clear frame for the first page, and goes *)
(* on behind it with the frames that remain.                               *)
THEOREM LoopUnrolls ==
    ASSUME NEW T \in Table, NEW S, S \subseteq AllFrames,
           NEW a \in Page, NEW n \in Nat
    PROVE  /\ n = 0 \/ S = {} => Filled(T, S, a, n) = T
           /\ n # 0 /\ S # {} =>
                Filled(T, S, a, n) =
                   Filled([T EXCEPT ![a] = Nth(S, 0)], S \ {Nth(S, 0)},
                          a + 1, n - 1)
<1>1. S \in SUBSET Nat /\ IsFiniteSet(S) /\ Cardinality(S) \in Nat
  BY FramesFinite
<1>2. Page \subseteq Nat /\ a \in Nat
  BY UspaceAssumption DEF Page
<1>3. ASSUME n = 0 \/ S = {}
      PROVE  Filled(T, S, a, n) = T
  <2>1. Count(S, n) = 0
    <3>1. n = 0 \/ Cardinality(S) = 0
      BY <1>3, FS_EmptySet
    <3> QED
      BY <1>1, <3>1 DEF Count
  <2>2. \A p \in Page : p \notin Area(a, 0)
    BY <1>2 DEF Area
  <2> QED
    BY <2>1, <2>2 DEF Filled, Table
<1>4. ASSUME n # 0, S # {}
      PROVE  Filled(T, S, a, n) =
                Filled([T EXCEPT ![a] = Nth(S, 0)], S \ {Nth(S, 0)},
                       a + 1, n - 1)
  <2>1. PICK f \in S : \A g \in S : f <= g
    BY <1>1, <1>4, LeastNat
  <2>2. Nth(S, 0) = f
    BY <1>1, <2>1, NthZero
  <2> DEFINE R == S \ {f}
             U == [T EXCEPT ![a] = f]
             c == Count(S, n)
             d == Count(R, n - 1)
  <2>3. /\ Cardinality(S) # 0
        /\ Cardinality(R) = Cardinality(S) - 1
    BY <1>1, <1>4, FS_EmptySet, FS_RemoveElement
  <2>4. c \in Nat /\ c # 0 /\ c <= Cardinality(S) /\ d = c - 1
    BY <1>1, <1>4, <2>3 DEF Count
  <2> HIDE DEF c, d
  <2>5. ASSUME NEW p \in Page
        PROVE  (IF p \in Area(a, c) THEN Nth(S, p - a) ELSE T[p]) =
               (IF p \in Area(a + 1, d) THEN Nth(R, p - (a + 1)) ELSE U[p])
    <3>1. p \in Nat
      BY <1>2
    <3>2. CASE p = a
      <4>1. p \in Area(a, c) /\ p \notin Area(a + 1, d) /\ p - a = 0
        BY <1>2, <2>4, <3>2 DEF Area
      <4>2. U[p] = f
        BY <3>2 DEF Table
      <4> QED
        BY <2>2, <4>1, <4>2
    <3>3. CASE p # a /\ p \in Area(a, c)
      <4> DEFINE j == p - (a + 1)
      <4>1. /\ j \in Nat /\ j + 1 = p - a /\ j + 1 < Cardinality(S)
            /\ p \in Area(a + 1, d)
        BY <1>1, <1>2, <2>4, <3>1, <3>3 DEF Area
      <4> HIDE DEF j
      <4>2. Nth(R, j) = Nth(S, j + 1)
        BY <1>1, <2>1, <4>1, FramesInOrder
      <4> QED
        BY <3>3, <4>1, <4>2 DEF j
    <3>4. CASE p # a /\ p \notin Area(a, c)
      <4>1. p \notin Area(a + 1, d)
        BY <1>2, <2>4, <3>1, <3>4 DEF Area
      <4>2. U[p] = T[p]
        BY <3>4 DEF Table
      <4> QED
        BY <3>4, <4>1, <4>2
    <3> QED
      BY <3>2, <3>3, <3>4
  <2>6. Filled(T, S, a, n) = Filled(U, R, a + 1, n - 1)
    BY <2>5 DEF Filled, c, d
  <2> QED
    BY <2>2, <2>6
<1> QED
  BY <1>3, <1>4

(* What the loop over pages leaves: every page of the table has what it    *)
(* had, or is in the area and has a frame of S, a different one each.      *)
LEMMA FilledIs ==
    ASSUME NEW T \in Table, Single(T), NEW S, S \subseteq AllFrames,
           InUse(T) \cap S = {}, NEW a \in Nat, NEW n \in Nat
    PROVE  /\ Filled(T, S, a, n) \in Table
           /\ Single(Filled(T, S, a, n))
           /\ \A p \in Page :
                 \/ Filled(T, S, a, n)[p] = T[p]
                 \/ /\ p \in Area(a, n)
                    /\ Filled(T, S, a, n)[p] \in S
<1> DEFINE c == Count(S, n)
           F == Filled(T, S, a, n)
<1>1. S \in SUBSET Nat /\ IsFiniteSet(S) /\ Cardinality(S) \in Nat
  BY FramesFinite
<1>2. c \in Nat /\ c <= n /\ c <= Cardinality(S)
  BY <1>1 DEF Count
<1>3. \A p \in Page : F[p] = IF p \in Area(a, c) THEN Nth(S, p - a) ELSE T[p]
  BY DEF Filled
<1>4. \A p \in Page : p \in Int
  BY UspaceAssumption DEF Page
<1> HIDE DEF c
<1>5. ASSUME NEW p \in Page, p \in Area(a, c)
      PROVE  /\ p - a \in Nat /\ p - a < Cardinality(S)
             /\ p \in Area(a, n) /\ Nth(S, p - a) \in S
  <2>1. p - a \in Nat /\ p - a < Cardinality(S) /\ p \in Area(a, n)
    BY <1>1, <1>2, <1>4, <1>5 DEF Area
  <2> QED
    BY <1>1, <2>1, NthIn
<1>6. \A p \in Page : F[p] = T[p] \/ (p \in Area(a, n) /\ F[p] \in S)
  BY <1>3, <1>5
<1>7. F \in Table
  <2>1. \A p \in Page : F[p] \in AllFrames \cup {NONE}
    BY <1>6 DEF Table
  <2> QED
    BY <2>1 DEF Table, Filled
<1>8. ASSUME NEW p \in Page, NEW q \in Page, F[p] # NONE, F[p] = F[q]
      PROVE  p = q
  <2>1. CASE p \in Area(a, c) /\ q \in Area(a, c)
    <3>1. Nth(S, p - a) = Nth(S, q - a)
      BY <1>3, <1>8, <2>1
    <3>2. p - a = q - a
      BY <1>1, <1>5, <2>1, <3>1, NthApart
    <3> QED
      BY <1>4, <3>2
  <2>2. CASE p \notin Area(a, c) /\ q \notin Area(a, c)
    BY <1>3, <1>8, <2>2 DEF Single
  <2>3. ASSUME NEW x \in Page, NEW y \in Page, x \in Area(a, c),
               y \notin Area(a, c), F[x] = F[y]
        PROVE  FALSE
    <3>1. F[x] \in S /\ F[y] = T[y]
      BY <1>3, <1>5, <2>3
    <3>2. F[x] # NONE
      BY <3>1, NoneIsNone
    <3> QED
      BY <2>3, <3>1, <3>2 DEF InUse
  <2> QED
    BY <1>8, <2>1, <2>2, <2>3
<1> HIDE DEF F
<1>9. Single(F)
  BY <1>8 DEF Single
<1> QED
  BY <1>6, <1>7, <1>9 DEF F

LEMMA ClearedIs ==
    ASSUME NEW T \in Table, Single(T), NEW a, NEW n
    PROVE  /\ Cleared(T, a, n) \in Table
           /\ Single(Cleared(T, a, n))
           /\ \A p \in Page :
                 Cleared(T, a, n)[p] = T[p] \/ Cleared(T, a, n)[p] = NONE
BY DEF Cleared, Single, Table

-----------------------------------------------------------------------------
(* FramesKept for tables T with the roots L, and the sets F, H and X of    *)
(* free, held and lost frames.                                             *)
Reach(T, r) == {r} \cup InUse(T[r])
Kept(L, T, F, H, X) ==
    /\ \A r \in L : Reach(T, r) \cap (F \cup H \cup X) = {}
    /\ \A f \in AllFrames \ (F \cup H \cup X) : \E r \in L : f \in Reach(T, r)
    /\ F \cap X = {} /\ H \cap (F \cup X) = {}
    /\ \A r, s \in L : r # s => Reach(T, r) \cap Reach(T, s) = {}
    /\ \A r \in L : r \notin InUse(T[r]) /\ Single(T[r])

LEMMA InUseIn ==
    ASSUME NEW T \in Table
    PROVE  InUse(T) \subseteq AllFrames
BY DEF InUse, Table

FramesKeptIn(L, T, F, H, X) ==
    /\ UNION {{r} \cup InUse(T[r]) : r \in L} = AllFrames \ (F \cup H \cup X)
    /\ F \cap X = {} /\ H \cap (F \cup X) = {}
    /\ \A r, s \in L : r # s =>
          ({r} \cup InUse(T[r])) \cap ({s} \cup InUse(T[s])) = {}
    /\ \A r \in L : \A p, q \in Page : T[r][p] # NONE =>
          T[r][p] # r /\ (T[r][p] = T[r][q] => p = q)

LEMMA KeptMeans ==
    ASSUME NEW L, L \subseteq AllFrames, NEW T \in [AllFrames -> Table],
           NEW F, NEW H, NEW X
    PROVE  Kept(L, T, F, H, X) <=> FramesKeptIn(L, T, F, H, X)
<1> DEFINE G == F \cup H \cup X
<1>1. \A r : {r} \cup InUse(T[r]) = Reach(T, r)
  BY DEF Reach
<1>2. \A r \in L : Reach(T, r) \subseteq AllFrames
  BY InUseIn DEF Reach
<1> HIDE DEF G
<1>3. (UNION {Reach(T, r) : r \in L} = AllFrames \ G)
      <=> /\ \A r \in L : Reach(T, r) \cap G = {}
          /\ \A f \in AllFrames \ G : \E r \in L : f \in Reach(T, r)
  <2>1. ASSUME UNION {Reach(T, r) : r \in L} = AllFrames \ G
        PROVE  /\ \A r \in L : Reach(T, r) \cap G = {}
               /\ \A f \in AllFrames \ G : \E r \in L : f \in Reach(T, r)
    BY <2>1
  <2>2. ASSUME \A r \in L : Reach(T, r) \cap G = {},
               \A f \in AllFrames \ G : \E r \in L : f \in Reach(T, r)
        PROVE  UNION {Reach(T, r) : r \in L} = AllFrames \ G
    BY <1>2, <2>2
  <2> QED
    BY <2>1, <2>2
<1>4. ASSUME NEW r \in L
      PROVE  (r \notin InUse(T[r]) /\ Single(T[r]))
             <=> \A p, q \in Page : T[r][p] # NONE =>
                    T[r][p] # r /\ (T[r][p] = T[r][q] => p = q)
  <2>1. r # NONE
    BY NoneIsNone
  <2> QED
    BY <2>1 DEF InUse, Single
<1>5. {{r} \cup InUse(T[r]) : r \in L} = {Reach(T, r) : r \in L}
  BY <1>1
<1>6. (\A r \in L : r \notin InUse(T[r]) /\ Single(T[r]))
      <=> \A r \in L : \A p, q \in Page : T[r][p] # NONE =>
             T[r][p] # r /\ (T[r][p] = T[r][q] => p = q)
  BY <1>4
<1> QED
  BY <1>1, <1>3, <1>5, <1>6 DEF Kept, FramesKeptIn, G

LEMMA LiveIn ==
    ASSUME SpaceTypes, RootsApart
    PROVE  Live \subseteq AllFrames /\ pt \in [AllFrames -> Table]
BY DEF SpaceTypes, RootsApart, Live, Table

LEMMA KeptNow ==
    ASSUME SpaceTypes, RootsApart, FramesKept
    PROVE  Kept(Live, pt, free, held, lost)
<1>1. FramesKeptIn(Live, pt, free, held, lost)
  BY DEF FramesKept, FramesKeptIn, Reached
<1> QED
  BY <1>1, LiveIn, KeptMeans

LEMMA KeptNext ==
    ASSUME SpaceTypes', RootsApart', Kept(Live', pt', free', held', lost')
    PROVE  FramesKept'
<1>1. Live' \subseteq AllFrames /\ pt' \in [AllFrames -> Table]
  BY DEF SpaceTypes, RootsApart, Live, Table
<1>2. FramesKeptIn(Live', pt', free', held', lost')
  BY <1>1, KeptMeans
<1> QED
  BY <1>2, Zenon DEF FramesKept, Reached, FramesKeptIn

(* A root gets a table that keeps, drops or adds free frames.              *)
LEMMA KeptRemap ==
    ASSUME NEW T \in [AllFrames -> Table], NEW L, L \subseteq AllFrames,
           NEW F, F \subseteq AllFrames, NEW H, NEW X, Kept(L, T, F, H, X),
           NEW r \in L, NEW new \in Table, Single(new),
           \A p \in Page : new[p] \in {T[r][p], NONE} \cup F
    PROVE  Kept(L, [T EXCEPT ![r] = new], F \ InUse(new), H,
                X \cup (InUse(T[r]) \ InUse(new)))
<1> DEFINE T2 == [T EXCEPT ![r] = new]
           F2 == F \ InUse(new)
           X2 == X \cup (InUse(T[r]) \ InUse(new))
<1>1. T2[r] = new /\ \A s \in L \ {r} : T2[s] = T[s]
  OBVIOUS
<1>2. InUse(new) \subseteq InUse(T[r]) \cup F
  BY DEF InUse
<1>3. Reach(T2, r) = {r} \cup InUse(new) /\ Reach(T, r) = {r} \cup InUse(T[r])
  BY <1>1 DEF Reach
<1>4. \A s \in L \ {r} : Reach(T2, s) = Reach(T, s)
  BY <1>1 DEF Reach
<1>5. \A s \in L : Reach(T, s) \cap (F \cup H \cup X) = {}
  BY DEF Kept
<1>6. \A s \in L \ {r} : Reach(T, s) \cap Reach(T, r) = {}
  BY DEF Kept
<1>7. F \cap X = {} /\ H \cap (F \cup X) = {} /\ r \notin InUse(T[r])
  BY DEF Kept
<1>8. r \notin InUse(new)
  BY <1>2, <1>3, <1>5, <1>7
<1> HIDE DEF T2
<1>9. \A s \in L : Reach(T2, s) \cap (F2 \cup H \cup X2) = {}
  <2>1. Reach(T2, r) \cap (F2 \cup H \cup X2) = {}
    BY <1>2, <1>3, <1>5, <1>7, <1>8
  <2>2. ASSUME NEW s \in L \ {r}
        PROVE  Reach(T2, s) \cap (F2 \cup H \cup X2) = {}
    BY <1>3, <1>4, <1>5, <1>6
  <2> QED
    BY <2>1, <2>2
<1>10. ASSUME NEW f \in AllFrames, f \notin F2 \cup H \cup X2
       PROVE  \E s \in L : f \in Reach(T2, s)
  <2>1. CASE f \in InUse(new)
    BY <1>3, <2>1
  <2>2. CASE f \notin InUse(new)
    <3>1. f \notin F \cup H \cup X \cup InUse(T[r])
      BY <1>10, <2>2
    <3>2. PICK s \in L : f \in Reach(T, s)
      BY <3>1 DEF Kept
    <3>3. CASE s = r
      BY <1>3, <3>1, <3>2, <3>3
    <3>4. CASE s # r
      BY <1>4, <3>2, <3>4
    <3> QED
      BY <3>3, <3>4
  <2> QED
    BY <2>1, <2>2
<1>11. F2 \cap X2 = {} /\ H \cap (F2 \cup X2) = {}
  BY <1>3, <1>5, <1>7
<1>12. ASSUME NEW s \in L, NEW u \in L, s # u
       PROVE  Reach(T2, s) \cap Reach(T2, u) = {}
  <2>1. ASSUME NEW v \in L \ {r} PROVE Reach(T2, v) \cap Reach(T2, r) = {}
    BY <1>2, <1>3, <1>4, <1>5, <1>6
  <2>2. CASE s = r
    BY <1>12, <2>1, <2>2
  <2>3. CASE u = r
    BY <1>12, <2>1, <2>3
  <2>4. CASE s # r /\ u # r
    BY <1>4, <1>12, <2>4 DEF Kept
  <2> QED
    BY <2>2, <2>3, <2>4
<1>13. \A s \in L : s \notin InUse(T2[s]) /\ Single(T2[s])
  BY <1>1, <1>8 DEF Kept
<1> HIDE DEF F2, X2
<1>14. Kept(L, T2, F2, H, X2)
  BY <1>9, <1>10, <1>11, <1>12, <1>13 DEF Kept
<1> QED
  BY <1>14 DEF T2, F2, X2

(* A space is given up.                                                    *)
LEMMA KeptDrop ==
    ASSUME NEW T, NEW L, NEW F, NEW H, NEW X, Kept(L, T, F, H, X), NEW r \in L
    PROVE  Kept(L \ {r}, T, F, H, X \cup Reach(T, r))
<1>1. \A s \in L : Reach(T, s) \cap (F \cup H \cup X) = {}
  BY DEF Kept
<1>2. \A s, u \in L : s # u => Reach(T, s) \cap Reach(T, u) = {}
  BY DEF Kept
<1>3. \A s \in L \ {r} :
         Reach(T, s) \cap (F \cup H \cup (X \cup Reach(T, r))) = {}
  BY <1>1, <1>2
<1>4. ASSUME NEW f \in AllFrames \ (F \cup H \cup (X \cup Reach(T, r)))
      PROVE  \E s \in L \ {r} : f \in Reach(T, s)
  <2>1. PICK s \in L : f \in Reach(T, s)
    BY DEF Kept
  <2> QED
    BY <2>1
<1>5. /\ F \cap (X \cup Reach(T, r)) = {}
      /\ H \cap (F \cup (X \cup Reach(T, r))) = {}
  BY <1>1 DEF Kept
<1>6. \A s \in L : s \notin InUse(T[s]) /\ Single(T[s])
  BY DEF Kept
<1> QED
  BY <1>2, <1>3, <1>4, <1>5, <1>6 DEF Kept

(* A free frame becomes the root of an empty table.                        *)
LEMMA KeptNew ==
    ASSUME NEW T, NEW L, NEW F, NEW H, NEW X, Kept(L, T, F, H, X),
           NEW r \in F, T[r] = Empty
    PROVE  Kept(L \cup {r}, T, F \ {r}, H, X)
<1>1. InUse(T[r]) = {} /\ Single(T[r])
  BY DEF InUse, Empty, Single
<1>2. Reach(T, r) = {r}
  BY <1>1 DEF Reach
<1>3. \A s \in L : Reach(T, s) \cap (F \cup H \cup X) = {}
  BY DEF Kept
<1>4. \A s, u \in L : s # u => Reach(T, s) \cap Reach(T, u) = {}
  BY DEF Kept
<1>5. F \cap X = {} /\ H \cap (F \cup X) = {}
  BY DEF Kept
<1>6. \A s \in L \cup {r} : Reach(T, s) \cap ((F \ {r}) \cup H \cup X) = {}
  BY <1>2, <1>3, <1>5
<1>7. ASSUME NEW f \in AllFrames \ ((F \ {r}) \cup H \cup X)
      PROVE  \E s \in L \cup {r} : f \in Reach(T, s)
  <2>1. CASE f = r
    BY <1>2, <2>1
  <2>2. CASE f # r
    <3>1. PICK s \in L : f \in Reach(T, s)
      BY <2>2 DEF Kept
    <3> QED
      BY <3>1
  <2> QED
    BY <2>1, <2>2
<1>8. ASSUME NEW s \in L \cup {r}, NEW u \in L \cup {r}, s # u
      PROVE  Reach(T, s) \cap Reach(T, u) = {}
  <2>1. \A v \in L : r \notin Reach(T, v)
    BY <1>3
  <2> QED
    BY <1>2, <1>4, <1>8, <2>1
<1>9. \A s \in L \cup {r} : s \notin InUse(T[s]) /\ Single(T[s])
  BY <1>1 DEF Kept
<1> QED
  BY <1>5, <1>6, <1>7, <1>8, <1>9 DEF Kept

(* Held frames become free.                                                *)
LEMMA KeptRelease ==
    ASSUME NEW T, NEW L, NEW F, NEW H, NEW X, Kept(L, T, F, H, X)
    PROVE  Kept(L, T, F \cup H, {}, X)
<1>1. F \cup H \cup {} \cup X = F \cup H \cup X
  OBVIOUS
<1> QED
  BY <1>1 DEF Kept

-----------------------------------------------------------------------------
(* What a space has when n pages from a on are mapped in it.               *)
LEMMA FilledSpace ==
    ASSUME SpaceInv, NEW r \in Live, NEW a \in Nat, NEW n \in Nat
    PROVE  /\ Filled(pt[r], free, a, n) \in Table
           /\ Single(Filled(pt[r], free, a, n))
           /\ \A p \in Page :
                 \/ Filled(pt[r], free, a, n)[p] = pt[r][p]
                 \/ /\ p \in Area(a, n)
                    /\ Filled(pt[r], free, a, n)[p] \in free
           /\ \A p \in Page :
                 Filled(pt[r], free, a, n)[p] \in {pt[r][p], NONE} \cup free
<1>1. r \in AllFrames /\ pt[r] \in Table
  BY LiveIn DEF SpaceInv
<1>2. Single(pt[r]) /\ InUse(pt[r]) \cap free = {}
  BY KeptNow DEF SpaceInv, Kept, Reach
<1>3. free \subseteq AllFrames
  BY DEF SpaceInv, SpaceTypes
<1> HIDE DEF SpaceInv
<1> QED
  BY <1>1, <1>2, <1>3, FilledIs

(* A call that gives the space with root r a table it may have.            *)
LEMMA RemapKeeps ==
    ASSUME SpaceInv, NEW r \in Live, NEW new \in Table, Single(new),
           \A p \in Page : new[p] \in {pt[r][p], NONE} \cup free,
           NEW left, left = {} \/ left = {r} \cup InUse(new),
           Becomes(r, new, left), held' = held
    PROVE  /\ free' \subseteq AllFrames /\ lost' \subseteq AllFrames
           /\ pt' \in [AllFrames -> Table]
           /\ \A s \in AllFrames \ {r} : pt'[s] = pt[s]
           /\ pt'[r] = new
           /\ \A s \in free' \cup held' : pt'[s] = Empty
           /\ left = {} => Kept(Live, pt', free', held', lost')
           /\ left # {} => Kept(Live \ {r}, pt', free', held', lost')
<1> DEFINE T2 == [pt EXCEPT ![r] = new]
           F2 == free \ InUse(new)
           X2 == lost \cup (InUse(pt[r]) \ InUse(new))
<1>1. Live \subseteq AllFrames /\ pt \in [AllFrames -> Table]
  BY LiveIn DEF SpaceInv
<1>2. free \subseteq AllFrames /\ lost \subseteq AllFrames
  BY DEF SpaceInv, SpaceTypes
<1>3. Kept(Live, pt, free, held, lost)
  BY KeptNow DEF SpaceInv
<1>4. Kept(Live, T2, F2, held, X2)
  BY <1>1, <1>2, <1>3, KeptRemap
<1>5. pt' = T2 /\ free' = F2 /\ lost' = X2 \cup left
  BY DEF Becomes
<1>6. InUse(new) \subseteq AllFrames /\ InUse(pt[r]) \subseteq AllFrames
  BY <1>1, InUseIn
<1>7. left \subseteq AllFrames
  BY <1>1, <1>6
<1>8. \A s \in AllFrames \ {r} : T2[s] = pt[s]
  BY <1>1
<1>9. T2[r] = new /\ T2 \in [AllFrames -> Table]
  BY <1>1
<1>10. r \notin free \cup held
  BY <1>3 DEF Kept, Reach
<1>11. ASSUME NEW s \in F2 \cup held PROVE T2[s] = Empty
  <2>1. s \in free \cup held /\ s # r /\ s \in AllFrames
    BY <1>2, <1>10 DEF SpaceInv, SpaceTypes
  <2> QED
    BY <1>8, <2>1 DEF SpaceInv, UnusedEmpty
<1>12. ASSUME left # {} PROVE Kept(Live \ {r}, T2, F2, held, X2 \cup left)
  <2>1. left = Reach(T2, r)
    BY <1>9, <1>12 DEF Reach
  <2> HIDE DEF T2, F2, X2
  <2> QED
    BY <1>4, <2>1, KeptDrop
<1>13. ASSUME left = {} PROVE X2 \cup left = X2
  BY <1>13
<1> HIDE DEF T2, F2, X2
<1>14. F2 \subseteq AllFrames /\ X2 \cup left \subseteq AllFrames
  BY <1>2, <1>6, <1>7 DEF F2, X2
<1>15. left = {} => Kept(Live, T2, F2, held, X2 \cup left)
  BY <1>4, <1>13
<1> QED
  BY <1>5, <1>8, <1>9, <1>11, <1>12, <1>14, <1>15

(* A call of task t that changes its own space only.                       *)
LEMMA TaskCall ==
    ASSUME SpaceInv, NEW t \in task, NEW new \in Table, Single(new),
           \A p \in Page : new[p] \in {pt[cr3[t]][p], NONE} \cup free,
           Becomes(cr3[t], new, {}),
           UNCHANGED <<load, held, task, made, cr3, brk_start, loaders>>,
           brk_end' \in [Task -> Nat], mmap_next' \in [Task -> Nat],
           \A u \in Task \ {t} :
              brk_end'[u] = brk_end[u] /\ mmap_next'[u] = mmap_next[u],
           NEW why, why \subseteq Reason, Excused(cr3[t], why),
           Laid(pt[cr3[t]], brk_end[t], mmap_next[t]) /\ why = {} =>
              Laid(new, brk_end'[t], mmap_next'[t])
    PROVE  SpaceInv'
<1> DEFINE r == cr3[t]
<1> USE DEF loaders
<1>1. r \in Live /\ r \in AllFrames
  BY LiveIn DEF SpaceInv, Live
<1>2. /\ free' \subseteq AllFrames /\ lost' \subseteq AllFrames
      /\ pt' \in [AllFrames -> Table]
      /\ \A s \in AllFrames \ {r} : pt'[s] = pt[s]
      /\ pt'[r] = new
      /\ \A s \in free' \cup held' : pt'[s] = Empty
      /\ Kept(Live, pt', free', held', lost')
  BY <1>1, RemapKeeps
<1>3. /\ excuse' \in [AllFrames -> SUBSET Reason]
      /\ \A s \in AllFrames \ {r} : excuse'[s] = excuse[s]
      /\ excuse'[r] = excuse[r] \cup why
  BY <1>1 DEF SpaceInv, SpaceTypes, Excused
<1>4. SpaceTypes'
  BY <1>2, <1>3 DEF SpaceInv, SpaceTypes, Table
<1>5. RootsApart'
  BY DEF SpaceInv, RootsApart
<1>6. UnusedEmpty'
  BY <1>2 DEF UnusedEmpty
<1>7. Live' = Live
  BY DEF Live
<1>8. FramesKept'
  BY <1>2, <1>4, <1>5, <1>7, KeptNext
<1>9. TaskLayout'
  <2> SUFFICES ASSUME NEW u \in task, excuse'[cr3[u]] = {}
               PROVE  Alone(u)' /\ Laid(pt'[cr3[u]], brk_end'[u], mmap_next'[u])
    BY DEF TaskLayout
  <2>1. u \in Task /\ cr3[u] \in AllFrames
    BY DEF SpaceInv, SpaceTypes, RootsApart
  <2>2. excuse[cr3[u]] = {} /\ (cr3[u] = r => why = {})
    BY <1>3, <2>1
  <2>3. Alone(u) /\ Laid(pt[cr3[u]], brk_end[u], mmap_next[u])
    BY <2>2 DEF SpaceInv, Layout, TaskLayout
  <2>4. Alone(u)'
    BY <2>3 DEF Alone
  <2>5. CASE u = t
    BY <1>2, <2>2, <2>3, <2>4, <2>5
  <2>6. CASE u # t
    <3>1. cr3[u] # r
      BY <2>3, <2>6 DEF Alone
    <3> QED
      BY <1>2, <2>1, <2>3, <2>4, <2>6, <3>1
  <2> QED
    BY <2>5, <2>6
<1>10. LoaderLayout'
  <2> SUFFICES ASSUME NEW l \in Loader, root[l] # NONE, excuse'[root[l]] = {}
               PROVE  LaidLoad(pt'[root[l]], pc[l], prog[l], seg[l],
                               max_end[l])
    BY DEF LoaderLayout
  <2>1. root[l] \in AllFrames \ {r}
    BY DEF SpaceInv, SpaceTypes, RootsApart
  <2> QED
    BY <1>2, <1>3, <2>1 DEF SpaceInv, Layout, LoaderLayout
<1>11. Progress'
  BY DEF SpaceInv, Layout, Progress
<1> QED
  BY <1>4, <1>5, <1>6, <1>8, <1>9, <1>10, <1>11 DEF SpaceInv, Layout

(* What NoClobber says of a step.                                          *)
NotClobbered ==
    \A r \in AllFrames, p \in Page :
        pt[r][p] # NONE /\ pt'[r][p] \notin {pt[r][p], NONE} => excuse'[r] # {}

(* Pages are only replaced in the area that a call maps.                   *)
LEMMA MappedArea ==
    ASSUME SpaceInv, NEW r \in Live, NEW a \in Nat, NEW n \in Nat, NEW left,
           Becomes(r, Filled(pt[r], free, a, n), left),
           excuse'[r] = {} =>
              \A p \in Page : p \in Area(a, n) => pt[r][p] = NONE
    PROVE  NotClobbered
<1>1. r \in AllFrames /\ pt \in [AllFrames -> Table]
  BY LiveIn DEF SpaceInv
<1>2. /\ pt'[r] = Filled(pt[r], free, a, n)
      /\ \A s \in AllFrames \ {r} : pt'[s] = pt[s]
  BY <1>1 DEF Becomes
<1>3. \A p \in Page : pt'[r][p] = pt[r][p] \/ p \in Area(a, n)
  BY <1>2, FilledSpace
<1> QED
  BY <1>2, <1>3 DEF NotClobbered

LEMMA PagesNat == Page \subseteq Nat
BY UspaceAssumption DEF Page

LEMMA BasesNat == /\ MMAP_BASE \in Nat /\ STACK_BASE \in Nat
                  /\ STACK_PAGES \in Nat /\ THREAD_PAGES \in Nat \ {0}
                  /\ MMAP_BASE <= STACK_BASE
BY UspaceAssumption

LEMMA TaskOf ==
    ASSUME SpaceInv, NEW t \in task
    PROVE  /\ t \in Task /\ cr3[t] \in Live /\ cr3[t] \in AllFrames
           /\ brk_end[t] \in Nat /\ mmap_next[t] \in Nat
BY DEF SpaceInv, SpaceTypes, RootsApart, Live

LEMMA LoadOf ==
    ASSUME SpaceInv
    PROVE  /\ \A p \in load.progs : p \in Seq(Segments)
           /\ load.lens \subseteq Nat \ {0} /\ load.at \subseteq Nat
           /\ load.breaks \subseteq Nat
BY UspaceAssumption DEF SpaceInv, SpaceTypes

(* A task that maps n pages from a on; b and m are its break and the end   *)
(* of its mappings afterwards.                                             *)
LEMMA LaidMore ==
    ASSUME NEW T \in Table, NEW F \in Table, NEW b0 \in Nat, NEW m0 \in Nat,
           Laid(T, b0, m0), NEW a \in Nat, NEW n \in Nat,
           \A p \in Page : F[p] = T[p] \/ p \in Area(a, n),
           NEW b \in Nat, NEW m \in Nat, b0 <= b, m0 <= m,
           \/ n = 0 \/ (a + n <= b /\ a + n <= MMAP_BASE)
           \/ MMAP_BASE <= a /\ a + n <= m
    PROVE  Laid(F, b, m)
<1>1. MMAP_BASE <= m
  BY BasesNat DEF Laid
<1>2. ASSUME NEW p \in Page, F[p] # NONE
      PROVE  \/ p < b /\ p < MMAP_BASE
             \/ MMAP_BASE <= p /\ p < m
             \/ STACK_BASE <= p
  <2>1. p \in Nat
    BY PagesNat
  <2>2. CASE F[p] = T[p]
    <3>1. \/ p < b0 /\ p < MMAP_BASE
          \/ MMAP_BASE <= p /\ p < m0
          \/ STACK_BASE <= p
      BY <1>2, <2>2 DEF Laid
    <3> QED
      BY <2>1, <3>1, BasesNat
  <2>3. CASE p \in Area(a, n)
    BY <2>1, <2>3, BasesNat DEF Area
  <2> QED
    BY <2>2, <2>3
<1> QED
  BY <1>1, <1>2 DEF Laid

(* Such a task has nothing between its break and the mappings, nor between *)
(* the mappings and the stack.                                             *)
LEMMA LaidFree ==
    ASSUME NEW T \in Table, NEW b \in Nat, NEW m \in Nat, Laid(T, b, m),
           NEW a \in Nat, NEW n \in Nat,
           \/ a = b /\ (n = 0 \/ a + n <= MMAP_BASE)
           \/ a = m /\ a + n <= STACK_BASE,
           NEW p \in Page, p \in Area(a, n)
    PROVE  T[p] = NONE
<1>1. p \in Nat /\ a <= p /\ p < a + n /\ n # 0
  BY PagesNat DEF Area
<1>2. MMAP_BASE <= m
  BY DEF Laid
<1>3. /\ ~(p < b /\ p < MMAP_BASE) /\ ~(MMAP_BASE <= p /\ p < m)
      /\ ~(STACK_BASE <= p)
  BY <1>1, <1>2, BasesNat
<1> QED
  BY <1>3 DEF Laid

LEMMA NotPast ==
    ASSUME NEW a, NEW n, NEW limit, Past(a, n, limit) = {}, n > 0
    PROVE  ~(a + n > limit)
BY DEF Past

LEMMA PastReason == ASSUME NEW a, NEW n, NEW limit
                    PROVE  Past(a, n, limit) \subseteq Reason
BY DEF Past, Reason

-----------------------------------------------------------------------------
LEMMA BrkStep ==
    ASSUME SpaceInv, NEW t, NEW nb \in load.breaks, sys_brk(t, nb),
           UNCHANGED <<load, held>>
    PROVE  SpaceInv' /\ NotClobbered
<1> DEFINE r == cr3[t]
           b == brk_end[t]
           n == IF nb > b THEN nb - b ELSE 0
           new == Filled(pt[r], free, b, n)
           why == Past(b, n, MMAP_BASE) \cup
                     (IF Fits(n) /\ nb >= b THEN {} ELSE {"brk"})
<1>1. /\ t \in task /\ t \in Task /\ r \in Live /\ r \in AllFrames
      /\ b \in Nat /\ mmap_next[t] \in Nat /\ nb \in Nat
  BY TaskOf, LoadOf DEF sys_brk
<1>2. n \in Nat /\ (n # 0 => b + n = nb) /\ (nb >= b => b + n = nb)
  BY <1>1
<1>3. /\ Becomes(r, new, {}) /\ Excused(r, why)
      /\ brk_end' = IF Fits(n) THEN [brk_end EXCEPT ![t] = nb] ELSE brk_end
      /\ UNCHANGED <<task, made, cr3, brk_start, mmap_next, loaders>>
  BY DEF sys_brk
<1>4. why \subseteq Reason
  BY PastReason DEF Reason
<1>5. /\ brk_end \in [Task -> Nat] /\ mmap_next \in [Task -> Nat]
      /\ pt[r] \in Table
  BY <1>1, LiveIn DEF SpaceInv, SpaceTypes
<1>6. /\ brk_end' \in [Task -> Nat]
      /\ \A u \in Task \ {t} : brk_end'[u] = brk_end[u]
  BY <1>1, <1>3, <1>5
<1>7. ASSUME why = {}
      PROVE  Fits(n) /\ nb >= b /\ (n = 0 \/ b + n <= MMAP_BASE)
  <2>1. Fits(n) /\ nb >= b /\ Past(b, n, MMAP_BASE) = {}
    BY <1>7
  <2> HIDE DEF n
  <2>2. n = 0 \/ ~(b + n > MMAP_BASE)
    BY <1>2, <2>1, NotPast
  <2> QED
    BY <1>1, <1>2, <2>1, <2>2, BasesNat
<1> HIDE DEF n, why
<1>8. /\ new \in Table /\ Single(new)
      /\ \A p \in Page : new[p] = pt[r][p] \/ p \in Area(b, n)
      /\ \A p \in Page : new[p] \in {pt[r][p], NONE} \cup free
  BY <1>1, <1>2, FilledSpace
<1> HIDE DEF new
<1>9. ASSUME Laid(pt[r], b, mmap_next[t]), why = {}
      PROVE  Laid(new, brk_end'[t], mmap_next'[t])
  <2>1. Fits(n) /\ nb >= b /\ (n = 0 \/ b + n <= MMAP_BASE)
    BY <1>7, <1>9
  <2>2. brk_end'[t] = nb /\ mmap_next'[t] = mmap_next[t]
    BY <1>1, <1>3, <1>5, <2>1
  <2>3. n = 0 \/ (b + n <= nb /\ b + n <= MMAP_BASE)
    BY <1>1, <1>2, <2>1, BasesNat
  <2>4. Laid(new, nb, mmap_next[t])
    <3>1. b <= nb /\ mmap_next[t] <= mmap_next[t]
      BY <1>1, <2>1
    <3> HIDE DEF b, r
    <3>2. Laid(pt[r], b, mmap_next[t])
      BY <1>9
    <3> QED
      BY <1>1, <1>2, <1>5, <1>8, <2>3, <3>1, <3>2, LaidMore
  <2> QED
    BY <2>2, <2>4
<1>10. SpaceInv'
  <2>1. mmap_next' \in [Task -> Nat]
    BY <1>3, <1>5
  <2>2. \A u \in Task \ {t} : mmap_next'[u] = mmap_next[u]
    BY <1>3
  <2>3. UNCHANGED <<load, held, task, made, cr3, brk_start, loaders>>
    BY <1>3
  <2> QED
    BY <1>1, <1>3, <1>4, <1>6, <1>8, <1>9, <2>1, <2>2, <2>3, TaskCall
<1>11. NotClobbered
  <2>1. ASSUME excuse'[r] = {}, NEW p \in Page, p \in Area(b, n)
        PROVE  pt[r][p] = NONE
    <3>1. excuse[r] = {} /\ why = {}
      BY <1>1, <1>3, <2>1 DEF Excused, SpaceInv, SpaceTypes
    <3>2. Laid(pt[r], b, mmap_next[t])
      BY <1>1, <3>1 DEF SpaceInv, Layout, TaskLayout
    <3> QED
      BY <1>1, <1>2, <1>5, <1>7, <2>1, <3>1, <3>2, LaidFree
  <2> QED
    BY <1>1, <1>2, <1>3, <2>1, MappedArea DEF new
<1> QED
  BY <1>10, <1>11

(* A mapping, or the stack of a thread, at the end of the mappings so far. *)
LEMMA AreaStep ==
    ASSUME SpaceInv, NEW t \in task, NEW n \in Nat \ {0},
           Becomes(cr3[t], Filled(pt[cr3[t]], free, mmap_next[t], n), {}),
           NEW why, why \subseteq Reason,
           Past(mmap_next[t], n, STACK_BASE) \subseteq why,
           Excused(cr3[t], why)
    PROVE  NotClobbered
<1> DEFINE r == cr3[t]
           m == mmap_next[t]
<1>1. /\ t \in Task /\ r \in Live /\ r \in AllFrames
      /\ brk_end[t] \in Nat /\ m \in Nat
  BY TaskOf
<1>2. pt[r] \in Table
  BY <1>1, LiveIn DEF SpaceInv
<1>3. ASSUME excuse'[r] = {}, NEW p \in Page, p \in Area(m, n)
      PROVE  pt[r][p] = NONE
  <2>1. excuse[r] = {} /\ why = {}
    BY <1>1, <1>3 DEF Excused, SpaceInv, SpaceTypes
  <2>2. Laid(pt[r], brk_end[t], m)
    BY <2>1 DEF SpaceInv, Layout, TaskLayout
  <2>3. ~(m + n > STACK_BASE)
    BY <2>1, NotPast
  <2>4. m + n <= STACK_BASE
    BY <1>1, <2>3, BasesNat
  <2> QED
    BY <1>1, <1>2, <1>3, <2>2, <2>4, LaidFree
<1>4. n \in Nat /\ Becomes(r, Filled(pt[r], free, m, n), {})
  OBVIOUS
<1>5. excuse'[r] = {} =>
         \A p \in Page : p \in Area(m, n) => pt[r][p] = NONE
  BY <1>3
<1> HIDE DEF r, m
<1> QED
  BY <1>1, <1>4, <1>5, MappedArea

(* And the layout of its space afterwards.                                 *)
LEMMA AreaLaid ==
    ASSUME SpaceInv, NEW t \in task, NEW n \in Nat \ {0},
           Laid(pt[cr3[t]], brk_end[t], mmap_next[t])
    PROVE  Laid(Filled(pt[cr3[t]], free, mmap_next[t], n),
                brk_end[t], mmap_next[t] + n)
<1> DEFINE r == cr3[t]
           m == mmap_next[t]
           new == Filled(pt[r], free, m, n)
<1>1. /\ t \in Task /\ r \in Live /\ r \in AllFrames
      /\ brk_end[t] \in Nat /\ m \in Nat
  BY TaskOf
<1>2. pt[r] \in Table
  BY <1>1, LiveIn DEF SpaceInv
<1>3. new \in Table /\ \A p \in Page : new[p] = pt[r][p] \/ p \in Area(m, n)
  BY <1>1, FilledSpace
<1>4. MMAP_BASE <= m
  BY DEF Laid
<1> HIDE DEF new, m, r
<1>5. Laid(pt[r], brk_end[t], m)
  BY DEF m, r
<1>6. m + n \in Nat /\ m <= m + n /\ brk_end[t] <= brk_end[t] /\ m + n <= m + n
  BY <1>1
<1>7. Laid(new, brk_end[t], m + n)
  BY <1>1, <1>2, <1>3, <1>4, <1>5, <1>6, LaidMore
<1> QED
  BY <1>7 DEF new, m, r

LEMMA MmapStep ==
    ASSUME SpaceInv, NEW t, NEW n \in load.lens, sys_mmap(t, n),
           UNCHANGED <<load, held>>
    PROVE  SpaceInv' /\ NotClobbered
<1> DEFINE r == cr3[t]
           m == mmap_next[t]
           new == Filled(pt[r], free, m, n)
           why == Past(m, n, STACK_BASE)
<1>1. /\ t \in task /\ t \in Task /\ r \in Live /\ r \in AllFrames
      /\ brk_end[t] \in Nat /\ m \in Nat /\ n \in Nat \ {0}
  BY TaskOf, LoadOf DEF sys_mmap
<1>2. /\ Becomes(r, new, {}) /\ Excused(r, why)
      /\ mmap_next' = [mmap_next EXCEPT ![t] = m + n]
      /\ UNCHANGED <<task, made, cr3, brk_start, brk_end, loaders>>
  BY DEF sys_mmap, NextArea
<1>3. why \subseteq Reason
  BY PastReason
<1>4. brk_end \in [Task -> Nat] /\ mmap_next \in [Task -> Nat]
  BY DEF SpaceInv, SpaceTypes
<1>5. /\ new \in Table /\ Single(new)
      /\ \A p \in Page : new[p] \in {pt[r][p], NONE} \cup free
  BY <1>1, FilledSpace
<1>6. ASSUME Laid(pt[r], brk_end[t], m)
      PROVE  Laid(new, brk_end[t], m + n)
  BY <1>1, <1>6, AreaLaid
<1>7. NotClobbered
  BY <1>1, <1>2, <1>3, AreaStep
<1> HIDE DEF new, why, m
<1>8. mmap_next' \in [Task -> Nat] /\ mmap_next'[t] = m + n
  BY <1>1, <1>2, <1>4
<1>9. \A u \in Task \ {t} :
         brk_end'[u] = brk_end[u] /\ mmap_next'[u] = mmap_next[u]
  BY <1>2, <1>4
<1>10. UNCHANGED <<load, held, task, made, cr3, brk_start, loaders>>
  BY <1>2
<1>11. brk_end' \in [Task -> Nat] /\ brk_end'[t] = brk_end[t]
  BY <1>2, <1>4
<1>12. Laid(pt[r], brk_end[t], mmap_next[t]) /\ why = {} =>
          Laid(new, brk_end'[t], mmap_next'[t])
  BY <1>6, <1>8, <1>11 DEF m
<1>13. SpaceInv'
  BY <1>1, <1>2, <1>3, <1>5, <1>8, <1>9, <1>10, <1>11, <1>12, TaskCall
<1> QED
  BY <1>7, <1>13

LEMMA SpaceOf ==
    ASSUME SpaceInv, NEW r \in Live
    PROVE  /\ r \in AllFrames /\ pt[r] \in Table /\ Single(pt[r])
           /\ InUse(pt[r]) \cap free = {} /\ r \notin free \cup held
BY LiveIn, KeptNow DEF SpaceInv, Kept, Reach

LEMMA RefusedStep ==
    ASSUME SpaceInv, NEW t, NEW n \in load.lens, mmap_refused(t, n),
           UNCHANGED <<load, held>>
    PROVE  SpaceInv' /\ NotClobbered
<1> DEFINE r == cr3[t]
           m == mmap_next[t]
<1>1. /\ t \in task /\ t \in Task /\ r \in Live /\ r \in AllFrames
      /\ brk_end[t] \in Nat /\ m \in Nat /\ n \in Nat
  BY TaskOf, LoadOf DEF mmap_refused
<1>2. /\ mmap_next' = [mmap_next EXCEPT ![t] = m + n]
      /\ UNCHANGED <<free, pt, task, made, cr3, brk_start, brk_end, loaders,
                     lost, excuse>>
  BY DEF mmap_refused, NextArea
<1>3. /\ brk_end \in [Task -> Nat] /\ mmap_next \in [Task -> Nat]
      /\ pt \in [AllFrames -> Table] /\ excuse \in [AllFrames -> SUBSET Reason]
  BY LiveIn DEF SpaceInv, SpaceTypes
<1>4. /\ pt[r] \in Table /\ Single(pt[r]) /\ InUse(pt[r]) \cap free = {}
  BY <1>1, SpaceOf
<1>5. Becomes(r, pt[r], {}) /\ Excused(r, {})
  <2>1. [pt EXCEPT ![r] = pt[r]] = pt /\ free \ InUse(pt[r]) = free
    BY <1>1, <1>3, <1>4
  <2>2. lost \cup (InUse(pt[r]) \ InUse(pt[r])) \cup {} = lost
    OBVIOUS
  <2>3. [excuse EXCEPT ![r] = @ \cup {}] = excuse
    BY <1>1, <1>3
  <2> QED
    BY <1>2, <2>1, <2>2, <2>3 DEF Becomes, Excused
<1>6. \A p \in Page : pt[r][p] \in {pt[r][p], NONE} \cup free
  OBVIOUS
<1> HIDE DEF m
<1>7. mmap_next' \in [Task -> Nat] /\ mmap_next'[t] = m + n
  BY <1>1, <1>2, <1>3
<1>8. \A u \in Task \ {t} :
         brk_end'[u] = brk_end[u] /\ mmap_next'[u] = mmap_next[u]
  BY <1>2, <1>3
<1>9. UNCHANGED <<load, held, task, made, cr3, brk_start, loaders>>
  BY <1>2
<1>10. brk_end' \in [Task -> Nat] /\ brk_end'[t] = brk_end[t]
  BY <1>2, <1>3
<1>11. ASSUME Laid(pt[r], brk_end[t], mmap_next[t])
       PROVE  Laid(pt[r], brk_end'[t], mmap_next'[t])
  <2>1. brk_end[t] <= brk_end[t] /\ m <= m + n
    BY <1>1
  <2>2. m + n \in Nat /\ 0 \in Nat
    BY <1>1
  <2>3. Laid(pt[r], brk_end[t], m)
    BY <1>11 DEF m
  <2> HIDE DEF r
  <2>4. Laid(pt[r], brk_end[t], m + n)
    BY <1>1, <1>4, <2>1, <2>2, <2>3, LaidMore
  <2> QED
    BY <1>7, <1>10, <2>4
<1>12. SpaceInv'
  <2>1. {} \subseteq Reason
    OBVIOUS
  <2> QED
    BY <1>1, <1>4, <1>5, <1>6, <1>7, <1>8, <1>9, <1>10, <1>11, <2>1, TaskCall
<1>13. NotClobbered
  BY <1>2 DEF NotClobbered
<1> QED
  BY <1>12, <1>13

(* The tasks' break and mappings stay, as do all other tasks and spaces.   *)
LEMMA FixedStep ==
    ASSUME SpaceInv, NEW t, NEW a \in load.at, NEW n \in load.lens,
           mmap_fixed(t, a, n), UNCHANGED <<load, held>>
    PROVE  SpaceInv' /\ NotClobbered
<1> DEFINE r == cr3[t]
           new == Filled(pt[r], free, a, n)
           why == {"fixed"}
<1>1. /\ t \in task /\ t \in Task /\ r \in Live /\ r \in AllFrames
      /\ a \in Nat /\ n \in Nat
  BY TaskOf, LoadOf DEF mmap_fixed
<1>2. /\ Becomes(r, new, {}) /\ Excused(r, why)
      /\ UNCHANGED <<task, made, cr3, brk_start, brk_end, mmap_next, loaders>>
  BY DEF mmap_fixed, spaces
<1>3. why \subseteq Reason /\ why # {}
  BY DEF Reason
<1>4. /\ new \in Table /\ Single(new)
      /\ \A p \in Page : new[p] \in {pt[r][p], NONE} \cup free
  BY <1>1, FilledSpace
<1>5. excuse'[r] # {}
  BY <1>1, <1>2 DEF Excused, SpaceInv, SpaceTypes
<1>6. NotClobbered
  BY <1>1, <1>2, <1>5, MappedArea
<1>7. brk_end' \in [Task -> Nat] /\ mmap_next' \in [Task -> Nat]
  BY <1>2 DEF SpaceInv, SpaceTypes
<1>8. /\ \A u \in Task \ {t} :
            brk_end'[u] = brk_end[u] /\ mmap_next'[u] = mmap_next[u]
      /\ UNCHANGED <<load, held, task, made, cr3, brk_start, loaders>>
  BY <1>2
<1> HIDE DEF new, why
<1>9. SpaceInv'
  BY <1>1, <1>2, <1>3, <1>4, <1>7, <1>8, TaskCall
<1> QED
  BY <1>6, <1>9

LEMMA MunmapStep ==
    ASSUME SpaceInv, NEW t, NEW a, NEW n, sys_munmap(t, a, n),
           UNCHANGED <<load, held>>
    PROVE  SpaceInv' /\ NotClobbered
<1> DEFINE r == cr3[t]
           new == Cleared(pt[r], a, n)
<1>1. t \in task /\ t \in Task /\ r \in Live /\ r \in AllFrames
  BY TaskOf DEF sys_munmap
<1>2. /\ Becomes(r, new, {})
      /\ UNCHANGED <<task, made, cr3, brk_start, brk_end, mmap_next, loaders,
                     excuse>>
  BY DEF sys_munmap, spaces
<1>3. /\ pt \in [AllFrames -> Table] /\ excuse \in [AllFrames -> SUBSET Reason]
      /\ pt[r] \in Table /\ Single(pt[r])
  BY <1>1, LiveIn, SpaceOf DEF SpaceInv, SpaceTypes
<1>4. /\ new \in Table /\ Single(new)
      /\ \A p \in Page : new[p] = pt[r][p] \/ new[p] = NONE
  BY <1>3, ClearedIs
<1> HIDE DEF new
<1>5. \A p \in Page : new[p] \in {pt[r][p], NONE} \cup free
  BY <1>4
<1>6. NotClobbered
  <2>1. pt'[r] = new /\ \A s \in AllFrames \ {r} : pt'[s] = pt[s]
    BY <1>1, <1>2, <1>3 DEF Becomes
  <2> QED
    BY <1>4, <2>1 DEF NotClobbered
<1>7. Excused(r, {})
  <2>1. [excuse EXCEPT ![r] = @ \cup {}] = excuse
    BY <1>1, <1>3
  <2> QED
    BY <1>2, <2>1 DEF Excused
<1>8. brk_end' \in [Task -> Nat] /\ mmap_next' \in [Task -> Nat]
  BY <1>2 DEF SpaceInv, SpaceTypes
<1>9. /\ \A u \in Task \ {t} :
            brk_end'[u] = brk_end[u] /\ mmap_next'[u] = mmap_next[u]
      /\ UNCHANGED <<load, held, task, made, cr3, brk_start, loaders>>
  BY <1>2
<1>10. Laid(pt[r], brk_end[t], mmap_next[t]) =>
          Laid(new, brk_end'[t], mmap_next'[t])
  BY <1>2, <1>4 DEF Laid
<1>11. {} \subseteq Reason
  OBVIOUS
<1>12. SpaceInv'
  BY <1>1, <1>2, <1>4, <1>5, <1>7, <1>8, <1>9, <1>10, <1>11, TaskCall
<1> QED
  BY <1>6, <1>12

(* The spaces of the loaders stay when a task's space changes.             *)
LEMMA LoadersStay ==
    ASSUME SpaceInv, NEW r \in AllFrames, \A l \in Loader : root[l] # r,
           \A s \in AllFrames \ {r} : pt'[s] = pt[s] /\ excuse'[s] = excuse[s],
           UNCHANGED loaders
    PROVE  LoaderLayout' /\ Progress'
<1>1. UNCHANGED <<pc, root, prog, seg, max_end>>
  BY DEF loaders
<1>2. ASSUME NEW l \in Loader, root[l] # NONE, excuse'[root[l]] = {}
      PROVE  LaidLoad(pt'[root[l]], pc[l], prog[l], seg[l], max_end[l])
  <2>1. root[l] \in AllFrames \ {r}
    BY <1>2 DEF SpaceInv, SpaceTypes
  <2> QED
    BY <1>2, <2>1 DEF SpaceInv, Layout, LoaderLayout
<1>3. LoaderLayout'
  BY <1>1, <1>2 DEF LoaderLayout
<1>4. Progress'
  BY <1>1 DEF SpaceInv, Layout, Progress
<1> QED
  BY <1>3, <1>4

LEMMA CreateStep ==
    ASSUME SpaceInv, NEW t, sys_task_create(t), UNCHANGED <<load, held>>
    PROVE  SpaceInv' /\ NotClobbered
<1> DEFINE r == cr3[t]
           m == mmap_next[t]
           n == THREAD_PAGES
           new == Filled(pt[r], free, m, n)
           past == Past(m, n, STACK_BASE)
           next == [mmap_next EXCEPT ![t] = m + n]
<1>1. /\ t \in task /\ t \in Task /\ r \in Live /\ r \in AllFrames
      /\ brk_end[t] \in Nat /\ m \in Nat /\ n \in Nat \ {0} /\ n \in Nat
  BY TaskOf, BasesNat DEF sys_task_create
<1>2. Becomes(r, new, {}) /\ UNCHANGED loaders
  BY DEF sys_task_create
<1>3. past \subseteq Reason /\ {"threads"} \cup past \subseteq Reason
  BY PastReason DEF Reason
<1>4. /\ new \in Table /\ Single(new)
      /\ \A p \in Page : new[p] \in {pt[r][p], NONE} \cup free
  BY <1>1, FilledSpace
<1>5. /\ brk_end \in [Task -> Nat] /\ mmap_next \in [Task -> Nat]
      /\ brk_start \in [Task -> Nat] /\ next \in [Task -> Nat]
  BY <1>1 DEF SpaceInv, SpaceTypes
<1>6. ASSUME Laid(pt[r], brk_end[t], m)
      PROVE  Laid(new, brk_end[t], m + n)
  BY <1>1, <1>6, AreaLaid
<1>7. ASSUME mmap_next' = next, Excused(r, past),
             UNCHANGED <<task, made, cr3, brk_start, brk_end>>
      PROVE  SpaceInv' /\ NotClobbered
  <2>1. NotClobbered
    BY <1>1, <1>2, <1>3, <1>7, AreaStep
  <2>2. next[t] = m + n /\ \A u \in Task \ {t} : next[u] = mmap_next[u]
    BY <1>1, <1>5
  <2> HIDE DEF new, past, next
  <2>3. \A u \in Task \ {t} :
           brk_end'[u] = brk_end[u] /\ mmap_next'[u] = mmap_next[u]
    BY <1>7, <2>2
  <2>4. UNCHANGED <<load, held, task, made, cr3, brk_start, loaders>>
    BY <1>2, <1>7
  <2>5. brk_end' \in [Task -> Nat] /\ mmap_next' \in [Task -> Nat]
    BY <1>5, <1>7
  <2>6. Laid(pt[r], brk_end[t], mmap_next[t]) /\ past = {} =>
           Laid(new, brk_end'[t], mmap_next'[t])
    BY <1>6, <1>7, <2>2
  <2>7. SpaceInv'
    BY <1>1, <1>2, <1>3, <1>4, <1>7, <2>3, <2>4, <2>5, <2>6, TaskCall
  <2> QED
    BY <2>1, <2>7
<1>8. ASSUME NEW u \in Task,
             task_create_user(u, r, brk_start[t], brk_end[t]),
             mmap_next' = [next EXCEPT ![u] = MMAP_BASE],
             Excused(r, {"threads"} \cup past)
      PROVE  SpaceInv' /\ NotClobbered
  <2>1. NotClobbered
    BY <1>1, <1>2, <1>3, <1>8, AreaStep
  <2> HIDE DEF new, past, next
  <2>2. /\ free' \subseteq AllFrames /\ lost' \subseteq AllFrames
        /\ pt' \in [AllFrames -> Table]
        /\ \A s \in AllFrames \ {r} : pt'[s] = pt[s]
        /\ \A s \in free' \cup held' : pt'[s] = Empty
        /\ Kept(Live, pt', free', held', lost')
    BY <1>1, <1>2, <1>4, RemapKeeps
  <2>3. /\ excuse' \in [AllFrames -> SUBSET Reason]
        /\ \A s \in AllFrames \ {r} : excuse'[s] = excuse[s]
        /\ excuse'[r] # {}
    BY <1>1, <1>3, <1>8 DEF SpaceInv, SpaceTypes, Excused
  <2>4. /\ u \notin made /\ task' = task \cup {u} /\ made' = made \cup {u}
        /\ cr3' = [cr3 EXCEPT ![u] = r]
        /\ brk_start' = [brk_start EXCEPT ![u] = brk_start[t]]
        /\ brk_end' = [brk_end EXCEPT ![u] = brk_end[t]]
    BY <1>8 DEF task_create_user, Slot
  <2>5. u \notin task /\ cr3'[u] = r /\ \A v \in task : cr3'[v] = cr3[v]
    BY <2>4 DEF SpaceInv, SpaceTypes
  <2>6. UNCHANGED <<pc, root, prog, seg, max_end>>
    BY <1>2 DEF loaders
  <2>7. SpaceTypes'
    <3>1. /\ mmap_next' \in [Task -> Nat] /\ brk_start' \in [Task -> Nat]
          /\ brk_end' \in [Task -> Nat]
          /\ cr3' \in [Task -> AllFrames \cup {NONE}]
      BY <1>1, <1>5, <1>8, <2>4, BasesNat DEF SpaceInv, SpaceTypes
    <3>2. task' \subseteq made' /\ made' \subseteq Task
      BY <2>4 DEF SpaceInv, SpaceTypes
    <3> QED
      BY <2>2, <2>3, <2>6, <3>1, <3>2 DEF SpaceInv, SpaceTypes, Table
  <2>8. RootsApart'
    BY <1>1, <2>4, <2>5, <2>6, NoneIsNone DEF SpaceInv, RootsApart
  <2>9. UnusedEmpty'
    BY <2>2 DEF UnusedEmpty
  <2>10. Live' = Live
    <3>1. {cr3'[v] : v \in task'} = {cr3[v] : v \in task}
      BY <1>1, <2>4, <2>5
    <3> QED
      BY <2>6, <3>1 DEF Live
  <2>11. FramesKept'
    BY <2>2, <2>7, <2>8, <2>10, KeptNext
  <2>12. TaskLayout'
    <3> SUFFICES ASSUME NEW v \in task', excuse'[cr3'[v]] = {}
                 PROVE  Alone(v)' /\
                        Laid(pt'[cr3'[v]], brk_end'[v], mmap_next'[v])
      BY DEF TaskLayout
    <3>1. v \in task /\ v # u /\ cr3'[v] = cr3[v] /\ cr3[v] # r /\ v # t
      BY <2>3, <2>4, <2>5
    <3>2. v \in Task /\ cr3[v] \in AllFrames
      BY <3>1 DEF SpaceInv, SpaceTypes, RootsApart
    <3>3. excuse[cr3[v]] = {} /\ pt'[cr3[v]] = pt[cr3[v]]
      BY <2>2, <2>3, <3>1, <3>2
    <3>4. Alone(v) /\ Laid(pt[cr3[v]], brk_end[v], mmap_next[v])
      BY <3>1, <3>3 DEF SpaceInv, Layout, TaskLayout
    <3>5. Alone(v)'
      BY <2>4, <2>5, <3>1, <3>4 DEF Alone
    <3>6. brk_end'[v] = brk_end[v] /\ mmap_next'[v] = mmap_next[v]
      BY <1>5, <1>8, <2>4, <3>1, <3>2 DEF next
    <3> QED
      BY <3>1, <3>3, <3>4, <3>5, <3>6
  <2>13. LoaderLayout' /\ Progress'
    <3>1. \A l \in Loader : root[l] # r
      BY <1>1 DEF SpaceInv, RootsApart
    <3> QED
      BY <1>1, <1>2, <2>2, <2>3, <3>1, LoadersStay
  <2> QED
    BY <2>1, <2>7, <2>8, <2>9, <2>11, <2>12, <2>13 DEF SpaceInv, Layout
<1> QED
  <2>1. \/ mmap_next' = next /\ Excused(r, past)
           /\ UNCHANGED <<task, made, cr3, brk_start, brk_end>>
        \/ /\ Excused(r, {"threads"} \cup past)
           /\ \E u \in Task :
                 /\ task_create_user(u, r, brk_start[t], brk_end[t])
                 /\ mmap_next' = [next EXCEPT ![u] = MMAP_BASE]
    BY DEF sys_task_create
  <2> QED
    BY <1>7, <1>8, <2>1

LEMMA ExitStep ==
    ASSUME SpaceInv, NEW t, task_exit(t), \A u \in Task : pc[u] = "idle",
           UNCHANGED <<load, held>>
    PROVE  SpaceInv' /\ NotClobbered
<1>1. /\ t \in task /\ task' = task \ {t} /\ lost' = lost \cup Left(t)
      /\ UNCHANGED <<free, pt, made, cr3, brk_start, brk_end, mmap_next,
                     loaders, excuse>>
  BY DEF task_exit, spaces
<1>2. UNCHANGED <<pc, root, prog, seg, max_end>>
  BY <1>1 DEF loaders
<1>3. /\ t \in Task /\ cr3[t] \in Live /\ cr3[t] \in AllFrames
      /\ pt[cr3[t]] \in Table
  BY <1>1, TaskOf, SpaceOf
<1>4. Left(t) \subseteq AllFrames
  BY <1>3, InUseIn DEF Left, Reached
<1>5. SpaceTypes'
  BY <1>1, <1>2, <1>4 DEF SpaceInv, SpaceTypes
<1>6. RootsApart'
  BY <1>1, <1>2 DEF SpaceInv, RootsApart
<1>7. UnusedEmpty'
  BY <1>1 DEF SpaceInv, UnusedEmpty
<1>8. Kept(Live, pt, free, held, lost)
  BY KeptNow DEF SpaceInv
<1>9. Kept(Live', pt', free', held', lost')
  <2>1. CASE Alone(t)
    <3>1. Live' = Live \ {cr3[t]}
      <4>1. {cr3[u] : u \in task \ {t}} = {cr3[u] : u \in task} \ {cr3[t]}
        BY <2>1 DEF Alone
      <4>2. cr3[t] \notin {root[l] : l \in Loader}
        BY <1>1 DEF SpaceInv, RootsApart
      <4> QED
        BY <1>1, <1>2, <4>1, <4>2 DEF Live
    <3>2. Left(t) = Reach(pt, cr3[t])
      BY <2>1 DEF Left, Reached, Reach
    <3> QED
      BY <1>1, <1>3, <1>8, <3>1, <3>2, KeptDrop
  <2>2. CASE ~Alone(t)
    <3>1. Live' = Live
      <4>1. {cr3[u] : u \in task \ {t}} = {cr3[u] : u \in task}
        BY <2>2 DEF Alone
      <4> QED
        BY <1>1, <1>2, <4>1 DEF Live
    <3>2. lost' = lost
      BY <1>1, <2>2 DEF Left
    <3> QED
      BY <1>1, <1>8, <3>1, <3>2
  <2> QED
    BY <2>1, <2>2
<1>10. FramesKept'
  BY <1>5, <1>6, <1>9, KeptNext
<1>11. TaskLayout'
  BY <1>1 DEF SpaceInv, Layout, TaskLayout, Alone
<1>12. LoaderLayout' /\ Progress'
  BY <1>1, <1>2 DEF SpaceInv, Layout, LoaderLayout, Progress
<1>13. NotClobbered
  BY <1>1 DEF NotClobbered
<1> QED
  BY <1>5, <1>6, <1>7, <1>10, <1>11, <1>12, <1>13 DEF SpaceInv, Layout

LEMMA ReleaseStep ==
    ASSUME SpaceInv, shm_release, UNCHANGED load
    PROVE  SpaceInv' /\ NotClobbered
<1>1. /\ free' = free \cup held /\ held' = {}
      /\ UNCHANGED <<pt, task, made, cr3, brk_start, brk_end, mmap_next,
                     pc, root, prog, seg, max_end, lost, excuse>>
  BY DEF shm_release, spaces, loaders
<1>2. SpaceTypes'
  BY <1>1 DEF SpaceInv, SpaceTypes
<1>3. RootsApart'
  BY <1>1 DEF SpaceInv, RootsApart
<1>4. UnusedEmpty'
  BY <1>1 DEF SpaceInv, UnusedEmpty
<1>5. Kept(Live, pt, free, held, lost) /\ Live' = Live
  BY <1>1, KeptNow DEF SpaceInv, Live
<1>6. FramesKept'
  BY <1>1, <1>2, <1>3, <1>5, KeptRelease, KeptNext
<1>7. TaskLayout'
  BY <1>1 DEF SpaceInv, Layout, TaskLayout, Alone
<1>8. LoaderLayout' /\ Progress'
  BY <1>1 DEF SpaceInv, Layout, LoaderLayout, Progress
<1>9. NotClobbered
  BY <1>1 DEF NotClobbered
<1> QED
  BY <1>2, <1>3, <1>4, <1>6, <1>7, <1>8, <1>9 DEF SpaceInv, Layout

-----------------------------------------------------------------------------
LEMMA LoaderOf ==
    ASSUME SpaceInv, NEW l \in Loader, pc[l] # "idle"
    PROVE  /\ root[l] \in Live /\ root[l] \in AllFrames /\ root[l] # NONE
           /\ \A k \in Loader \ {l} : root[k] # root[l]
           /\ \A t \in task : cr3[t] # root[l]
           /\ prog[l] \in Seq(Segments) /\ seg[l] \in Nat /\ max_end[l] \in Nat
BY DEF SpaceInv, SpaceTypes, RootsApart, Live

LEMMA RootStep ==
    ASSUME SpaceInv, NEW l \in Loader, l \in Task => l \in task,
           NEW p \in load.progs, load_root(l, p), UNCHANGED <<load, held>>
    PROVE  SpaceInv' /\ NotClobbered
<1> DEFINE r == NewRoot
<1>1. /\ pc[l] = "idle" /\ free # {}
      /\ pc' = [pc EXCEPT ![l] = "load"] /\ root' = [root EXCEPT ![l] = r]
      /\ prog' = [prog EXCEPT ![l] = p] /\ seg' = [seg EXCEPT ![l] = 1]
      /\ free' = free \ {r}
      /\ UNCHANGED <<pt, task, made, cr3, brk_start, brk_end, mmap_next,
                     max_end, lost, excuse>>
  BY DEF load_root, spaces
<1>2. r \in free /\ r \in AllFrames
  BY <1>1, NewRootIn DEF NewRoot, SpaceInv, SpaceTypes
<1> HIDE DEF r
<1>3. pt[r] = Empty /\ p \in Seq(Segments) /\ Len(p) \in Nat
  BY <1>2, LoadOf DEF SpaceInv, UnusedEmpty
<1>4. root[l] = NONE /\ max_end[l] = 0
  BY <1>1 DEF SpaceInv, RootsApart, Layout, Progress
<1>5. Kept(Live, pt, free, held, lost)
  BY KeptNow DEF SpaceInv
<1>6. r \notin Live
  BY <1>2, <1>5 DEF Kept, Reach
<1>7. SpaceTypes'
  BY <1>1, <1>2, <1>3 DEF SpaceInv, SpaceTypes
<1>8. /\ pc'[l] = "load" /\ root'[l] = r /\ prog'[l] = p /\ seg'[l] = 1
      /\ \A k \in Loader \ {l} :
            /\ pc'[k] = pc[k] /\ root'[k] = root[k] /\ prog'[k] = prog[k]
            /\ seg'[k] = seg[k]
  BY <1>1 DEF SpaceInv, SpaceTypes
<1>9. /\ \A t \in task : cr3[t] # r
      /\ \A k \in Loader : root[k] # r
  BY <1>2, <1>6, NoneIsNone DEF Live
<1>10. RootsApart'
  <2>1. \A t \in task' : cr3'[t] # NONE
    BY <1>1 DEF SpaceInv, RootsApart
  <2>2. \A k \in Loader : root'[k] = NONE <=> pc'[k] = "idle"
    BY <1>2, <1>8, NoneIsNone DEF SpaceInv, RootsApart
  <2>3. \A k \in Loader, t \in task' : root'[k] # cr3'[t]
    BY <1>1, <1>8, <1>9 DEF SpaceInv, RootsApart
  <2>4. \A i, k \in Loader : root'[i] # NONE /\ root'[i] = root'[k] => i = k
    BY <1>8, <1>9 DEF SpaceInv, RootsApart
  <2>5. \A t \in Task : pc'[t] # "idle" => t \in task'
    BY <1>1, <1>8 DEF SpaceInv, RootsApart, Loader
  <2> QED
    BY <2>1, <2>2, <2>3, <2>4, <2>5 DEF RootsApart
<1>11. Live' = Live \cup {r}
  <2>1. {root'[k] : k \in Loader} \ {NONE}
           = ({root[k] : k \in Loader} \ {NONE}) \cup {r}
    BY <1>2, <1>4, <1>8, NoneIsNone
  <2> QED
    BY <1>1, <2>1 DEF Live
<1>12. FramesKept'
  BY <1>1, <1>2, <1>3, <1>5, <1>7, <1>10, <1>11, KeptNew, KeptNext
<1>13. UnusedEmpty'
  BY <1>1 DEF SpaceInv, UnusedEmpty
<1>14. TaskLayout'
  BY <1>1 DEF SpaceInv, Layout, TaskLayout, Alone
<1>15. LoaderLayout'
  <2> SUFFICES ASSUME NEW k \in Loader, root'[k] # NONE, excuse[root'[k]] = {}
               PROVE  LaidLoad(pt[root'[k]], pc'[k], prog'[k], seg'[k],
                               max_end[k])
    BY <1>1 DEF LoaderLayout
  <2>1. CASE k = l
    <3>1. \A q \in Page : pt[r][q] = NONE
      BY <1>3 DEF Empty
    <3>2. LaidLoad(pt[r], "load", p, 1, 0)
      BY <3>1 DEF LaidLoad
    <3> QED
      BY <1>4, <1>8, <2>1, <3>2
  <2>2. CASE k # l
    BY <1>8, <2>2 DEF SpaceInv, Layout, LoaderLayout
  <2> QED
    BY <2>1, <2>2
<1>16. Progress'
  <2>1. 1 \in 1 .. Len(p) + 1
    BY <1>3
  <2>2. ASSUME NEW k \in Loader
        PROVE  /\ pc'[k] = "load" => seg'[k] \in 1 .. Len(prog'[k]) + 1
               /\ pc'[k] = "idle" => max_end[k] = 0
    BY <1>8, <2>1 DEF SpaceInv, Layout, Progress
  <2> QED
    BY <1>1, <2>2 DEF Progress
<1>17. NotClobbered
  BY <1>1 DEF NotClobbered
<1> QED
  BY <1>7, <1>10, <1>12, <1>13, <1>14, <1>15, <1>16, <1>17 DEF SpaceInv, Layout

(* A loader maps a segment or the stack.                                   *)
LEMMA LoaderMaps ==
    ASSUME SpaceInv, NEW l \in Loader, pc[l] # "idle",
           NEW new \in Table, Single(new),
           \A p \in Page : new[p] \in {pt[root[l]][p], NONE} \cup free,
           Becomes(root[l], new, {}),
           UNCHANGED <<load, held, task, made, spaces, root, prog>>,
           pc' \in [Loader -> {"idle", "load", "task"}],
           seg' \in [Loader -> Nat], max_end' \in [Loader -> Nat],
           \A k \in Loader \ {l} : /\ pc'[k] = pc[k] /\ seg'[k] = seg[k]
                                   /\ max_end'[k] = max_end[k],
           pc'[l] # "idle",
           pc'[l] = "load" => seg'[l] \in 1 .. Len(prog[l]) + 1,
           NEW why, why \subseteq Reason, Excused(root[l], why),
           LaidLoad(pt[root[l]], pc[l], prog[l], seg[l], max_end[l])
              /\ why = {} =>
              LaidLoad(new, pc'[l], prog[l], seg'[l], max_end'[l])
    PROVE  SpaceInv'
<1> DEFINE r == root[l]
<1>1. /\ r \in Live /\ r \in AllFrames /\ r # NONE
      /\ \A k \in Loader \ {l} : root[k] # r
      /\ \A t \in task : cr3[t] # r
  BY LoaderOf
<1>2. /\ free' \subseteq AllFrames /\ lost' \subseteq AllFrames
      /\ pt' \in [AllFrames -> Table]
      /\ \A s \in AllFrames \ {r} : pt'[s] = pt[s]
      /\ pt'[r] = new
      /\ \A s \in free' \cup held' : pt'[s] = Empty
      /\ Kept(Live, pt', free', held', lost')
  BY <1>1, RemapKeeps
<1>3. /\ excuse' \in [AllFrames -> SUBSET Reason]
      /\ \A s \in AllFrames \ {r} : excuse'[s] = excuse[s]
      /\ excuse'[r] = excuse[r] \cup why
  BY <1>1 DEF SpaceInv, SpaceTypes, Excused
<1>4. UNCHANGED <<cr3, brk_start, brk_end, mmap_next>>
  BY DEF spaces
<1>5. SpaceTypes'
  BY <1>2, <1>3, <1>4 DEF SpaceInv, SpaceTypes, Table
<1>6. RootsApart'
  <2>1. \A k \in Loader : root[k] = NONE <=> pc'[k] = "idle"
    BY <1>1 DEF SpaceInv, RootsApart
  <2>2. \A t \in Task : pc'[t] # "idle" => t \in task
    BY DEF SpaceInv, RootsApart, Loader
  <2> QED
    BY <1>4, <2>1, <2>2 DEF SpaceInv, RootsApart
<1>7. UnusedEmpty'
  BY <1>2 DEF UnusedEmpty
<1>8. Live' = Live
  BY <1>4 DEF Live
<1>9. FramesKept'
  BY <1>2, <1>5, <1>6, <1>8, KeptNext
<1>10. TaskLayout'
  <2> SUFFICES ASSUME NEW u \in task, excuse'[cr3[u]] = {}
               PROVE  Alone(u)' /\ Laid(pt'[cr3[u]], brk_end[u], mmap_next[u])
    BY <1>4 DEF TaskLayout
  <2>1. cr3[u] \in AllFrames \ {r}
    BY <1>1, TaskOf
  <2>2. Alone(u) /\ Laid(pt[cr3[u]], brk_end[u], mmap_next[u])
    BY <1>3, <2>1 DEF SpaceInv, Layout, TaskLayout
  <2>3. Alone(u)'
    BY <1>4, <2>2 DEF Alone
  <2> QED
    BY <1>2, <2>1, <2>2, <2>3
<1>11. LoaderLayout'
  <2> SUFFICES ASSUME NEW k \in Loader, root[k] # NONE, excuse'[root[k]] = {}
               PROVE  LaidLoad(pt'[root[k]], pc'[k], prog[k], seg'[k],
                               max_end'[k])
    BY DEF LoaderLayout
  <2>1. CASE k = l
    <3>1. excuse[r] = {} /\ why = {}
      BY <1>3, <2>1
    <3>2. LaidLoad(pt[r], pc[l], prog[l], seg[l], max_end[l])
      BY <1>1, <3>1 DEF SpaceInv, Layout, LoaderLayout
    <3> QED
      BY <1>2, <2>1, <3>1, <3>2
  <2>2. CASE k # l
    <3>1. root[k] \in AllFrames \ {r}
      BY <1>1, <2>2 DEF SpaceInv, SpaceTypes
    <3>2. LaidLoad(pt[root[k]], pc[k], prog[k], seg[k], max_end[k])
      BY <1>3, <3>1 DEF SpaceInv, Layout, LoaderLayout
    <3> QED
      BY <1>2, <2>2, <3>1, <3>2
  <2> QED
    BY <2>1, <2>2
<1>12. Progress'
  <2>1. ASSUME NEW k \in Loader
        PROVE  /\ pc'[k] = "load" => seg'[k] \in 1 .. Len(prog[k]) + 1
               /\ pc'[k] = "idle" => max_end'[k] = 0
    BY DEF SpaceInv, Layout, Progress
  <2> QED
    BY <2>1 DEF Progress
<1> QED
  BY <1>5, <1>6, <1>7, <1>9, <1>10, <1>11, <1>12 DEF SpaceInv, Layout

LEMMA EndIs ==
    ASSUME SpaceInv, NEW l \in Loader, load_end(l)
    PROVE  /\ pc' \in [Loader -> {"idle", "load", "task"}]
           /\ root' \in [Loader -> AllFrames \cup {NONE}]
           /\ prog' \in [Loader -> Seq(Segments)]
           /\ seg' \in [Loader -> Nat] /\ max_end' \in [Loader -> Nat]
           /\ pc'[l] = "idle" /\ root'[l] = NONE /\ max_end'[l] = 0
           /\ \A k \in Loader \ {l} :
                 /\ pc'[k] = pc[k] /\ root'[k] = root[k]
                 /\ prog'[k] = prog[k] /\ seg'[k] = seg[k]
                 /\ max_end'[k] = max_end[k]
<1>1. <<>> \in Seq(Segments)
  OBVIOUS
<1> QED
  BY <1>1 DEF SpaceInv, SpaceTypes, load_end

(* The other loaders when one returns.                                     *)
LEMMA OthersLoad ==
    ASSUME SpaceInv, NEW l \in Loader, pc[l] # "idle", load_end(l),
           \A s \in AllFrames \ {root[l]} :
              pt'[s] = pt[s] /\ excuse'[s] = excuse[s]
    PROVE  LoaderLayout' /\ Progress'
<1>1. /\ pc'[l] = "idle" /\ root'[l] = NONE /\ max_end'[l] = 0
      /\ \A k \in Loader \ {l} :
            /\ pc'[k] = pc[k] /\ root'[k] = root[k]
            /\ prog'[k] = prog[k] /\ seg'[k] = seg[k]
            /\ max_end'[k] = max_end[k]
  BY EndIs
<1>2. LoaderLayout'
  <2> SUFFICES ASSUME NEW k \in Loader, root'[k] # NONE,
                      excuse'[root'[k]] = {}
               PROVE  LaidLoad(pt'[root'[k]], pc'[k], prog'[k], seg'[k],
                               max_end'[k])
    BY DEF LoaderLayout
  <2>1. k # l /\ root'[k] = root[k]
    BY <1>1
  <2>2. root[k] \in AllFrames \ {root[l]}
    BY <2>1, LoaderOf DEF SpaceInv, SpaceTypes
  <2>3. LaidLoad(pt[root[k]], pc[k], prog[k], seg[k], max_end[k])
    BY <2>1, <2>2 DEF SpaceInv, Layout, LoaderLayout
  <2> QED
    BY <1>1, <2>1, <2>2, <2>3
<1>3. Progress'
  <2>1. ASSUME NEW k \in Loader
        PROVE  /\ pc'[k] = "load" => seg'[k] \in 1 .. Len(prog'[k]) + 1
               /\ pc'[k] = "idle" => max_end'[k] = 0
    BY <1>1 DEF SpaceInv, Layout, Progress
  <2> QED
    BY <2>1 DEF Progress
<1> QED
  BY <1>2, <1>3

(* A load fails: its space is lost.                                        *)
LEMMA LoaderFails ==
    ASSUME SpaceInv, NEW l \in Loader, pc[l] # "idle",
           NEW new \in Table, Single(new),
           \A p \in Page : new[p] \in {pt[root[l]][p], NONE} \cup free,
           load_fails(l, new),
           UNCHANGED <<load, held, task, made, brk_start, brk_end, mmap_next>>,
           NEW why, why \subseteq Reason, Excused(root[l], why)
    PROVE  SpaceInv'
<1> DEFINE r == root[l]
           left == {r} \cup InUse(new)
<1>0. /\ Becomes(r, new, left) /\ left # {}
      /\ cr3' = cr3 /\ load_end(l)
  BY DEF load_fails, KeptTable
<1>1. /\ r \in Live /\ r \in AllFrames /\ r # NONE
      /\ \A k \in Loader \ {l} : root[k] # r
      /\ \A t \in task : cr3[t] # r
  BY LoaderOf
<1>2. /\ free' \subseteq AllFrames /\ lost' \subseteq AllFrames
      /\ pt' \in [AllFrames -> Table]
      /\ \A s \in AllFrames \ {r} : pt'[s] = pt[s]
      /\ \A s \in free' \cup held' : pt'[s] = Empty
      /\ Kept(Live \ {r}, pt', free', held', lost')
  BY <1>0, <1>1, RemapKeeps
<1>3. /\ excuse' \in [AllFrames -> SUBSET Reason]
      /\ \A s \in AllFrames \ {r} : excuse'[s] = excuse[s]
  BY <1>1 DEF SpaceInv, SpaceTypes, Excused
<1>4. /\ pc' \in [Loader -> {"idle", "load", "task"}]
      /\ root' \in [Loader -> AllFrames \cup {NONE}]
      /\ prog' \in [Loader -> Seq(Segments)]
      /\ seg' \in [Loader -> Nat] /\ max_end' \in [Loader -> Nat]
      /\ pc'[l] = "idle" /\ root'[l] = NONE
      /\ \A k \in Loader \ {l} : pc'[k] = pc[k] /\ root'[k] = root[k]
  BY <1>0, EndIs
<1>5. SpaceTypes'
  BY <1>0, <1>2, <1>3, <1>4 DEF SpaceInv, SpaceTypes, Table
<1>6. RootsApart'
  <2>1. \A t \in task' : cr3'[t] # NONE
    BY <1>0 DEF SpaceInv, RootsApart
  <2>2. \A k \in Loader : root'[k] = NONE <=> pc'[k] = "idle"
    BY <1>4 DEF SpaceInv, RootsApart
  <2>3. \A k \in Loader, t \in task' : root'[k] # cr3'[t]
    BY <1>0, <1>4, <2>1 DEF SpaceInv, RootsApart
  <2>4. \A i, k \in Loader : root'[i] # NONE /\ root'[i] = root'[k] => i = k
    BY <1>4 DEF SpaceInv, RootsApart
  <2>5. \A t \in Task : pc'[t] # "idle" => t \in task'
    BY <1>4 DEF SpaceInv, RootsApart, Loader
  <2> QED
    BY <2>1, <2>2, <2>3, <2>4, <2>5 DEF RootsApart
<1>7. UnusedEmpty'
  BY <1>2 DEF UnusedEmpty
<1>8. Live' = Live \ {r}
  <2>1. {root'[k] : k \in Loader} \ {NONE}
           = ({root[k] : k \in Loader} \ {NONE}) \ {r}
    <3>1. \A k \in Loader : root'[k] # NONE => root'[k] = root[k] /\ root[k] # r
      BY <1>1, <1>4
    <3>2. \A k \in Loader : root[k] # r => root'[k] = root[k]
      BY <1>4
    <3> QED
      BY <3>1, <3>2
  <2>2. r \notin {cr3[t] : t \in task}
    BY <1>1
  <2> QED
    BY <1>0, <2>1, <2>2 DEF Live
<1>9. FramesKept'
  BY <1>2, <1>5, <1>6, <1>8, KeptNext
<1>10. TaskLayout'
  <2> SUFFICES ASSUME NEW u \in task, excuse'[cr3[u]] = {}
               PROVE  Alone(u)' /\ Laid(pt'[cr3[u]], brk_end[u], mmap_next[u])
    BY <1>0 DEF TaskLayout
  <2>1. cr3[u] \in AllFrames \ {r}
    BY <1>1, TaskOf
  <2>2. Alone(u) /\ Laid(pt[cr3[u]], brk_end[u], mmap_next[u])
    BY <1>3, <2>1 DEF SpaceInv, Layout, TaskLayout
  <2>3. Alone(u)'
    BY <1>0, <2>2 DEF Alone
  <2> QED
    BY <1>2, <2>1, <2>2, <2>3
<1>11. LoaderLayout' /\ Progress'
  BY <1>0, <1>2, <1>3, OthersLoad
<1> QED
  BY <1>5, <1>6, <1>7, <1>9, <1>10, <1>11 DEF SpaceInv, Layout

LEMMA SegmentStep ==
    ASSUME SpaceInv, NEW l \in Loader, load_segment(l), UNCHANGED <<load, held>>
    PROVE  SpaceInv' /\ NotClobbered
<1> DEFINE r == root[l]
           s == prog[l][seg[l]]
           new == Filled(pt[r], free, s.at, s.n)
           why == Past(s.at, s.n, MMAP_BASE) \cup
                     (IF Shares(l, s) THEN {"segments"} ELSE {})
<1>1. /\ pc[l] = "load" /\ pc[l] # "idle" /\ seg[l] <= Len(prog[l])
      /\ Excused(r, why)
      /\ UNCHANGED <<task, made, brk_start, brk_end, mmap_next>>
  BY DEF load_segment
<1>2. /\ r \in Live /\ r \in AllFrames /\ prog[l] \in Seq(Segments)
      /\ seg[l] \in Nat /\ max_end[l] \in Nat /\ r # NONE
  BY <1>1, LoaderOf
<1>3. seg[l] \in 1 .. Len(prog[l]) + 1
  BY <1>1 DEF SpaceInv, Layout, Progress
<1>4. Len(prog[l]) \in Nat /\ seg[l] \in 1 .. Len(prog[l])
  BY <1>1, <1>2, <1>3
<1>5. s \in Segments
  BY <1>2, <1>4
<1>6. s.at \in Nat /\ s.n \in Nat
  BY <1>5 DEF Segments
<1>7. /\ new \in Table /\ Single(new)
      /\ \A p \in Page : new[p] = pt[r][p] \/ p \in Area(s.at, s.n)
      /\ \A p \in Page : new[p] \in {pt[r][p], NONE} \cup free
  BY <1>2, <1>6, FilledSpace
<1>8. why \subseteq Reason
  BY PastReason DEF Reason
<1>9. ASSUME excuse'[r] = {}
      PROVE  \A p \in Page : p \in Area(s.at, s.n) => pt[r][p] = NONE
  <2>1. excuse[r] = {} /\ why = {}
    BY <1>1, <1>2, <1>9 DEF Excused, SpaceInv, SpaceTypes
  <2>2. LaidLoad(pt[r], pc[l], prog[l], seg[l], max_end[l])
    BY <1>2, <2>1 DEF SpaceInv, Layout, LoaderLayout
  <2>3. ~Shares(l, s)
    BY <2>1
  <2>4. \A p \in Page : pt[r][p] # NONE => InSegments(prog[l], seg[l], p)
    BY <1>1, <2>2 DEF LaidLoad
  <2>5. \A p \in Page :
           InSegments(prog[l], seg[l], p) => p \notin Area(s.at, s.n)
    BY <2>3 DEF Shares, InSegments
  <2> QED
    BY <2>4, <2>5
<1>10. ASSUME LaidLoad(pt[r], pc[l], prog[l], seg[l], max_end[l]), why = {}
       PROVE  LaidLoad(new, "load", prog[l], seg[l] + 1,
                       Later(max_end[l], s.at + s.n))
  <2> SUFFICES ASSUME NEW p \in Page, new[p] # NONE
               PROVE  /\ p < Later(max_end[l], s.at + s.n)
                      /\ p < MMAP_BASE
                      /\ InSegments(prog[l], seg[l] + 1, p)
    BY DEF LaidLoad
  <2>1. p \in Nat
    BY PagesNat
  <2>2. CASE new[p] = pt[r][p]
    <3>1. p < max_end[l] /\ p < MMAP_BASE /\ InSegments(prog[l], seg[l], p)
      BY <1>1, <1>10, <2>2 DEF LaidLoad
    <3>2. p < Later(max_end[l], s.at + s.n)
      BY <1>2, <1>6, <2>1, <3>1 DEF Later
    <3>3. \A j \in 1 .. seg[l] - 1 : j \in 1 .. (seg[l] + 1) - 1
      BY <1>2
    <3>4. InSegments(prog[l], seg[l] + 1, p)
      BY <3>1, <3>3, Zenon DEF InSegments
    <3> QED
      BY <3>1, <3>2, <3>4
  <2>3. CASE p \in Area(s.at, s.n)
    <3>1. s.at <= p /\ p < s.at + s.n /\ s.n > 0
      BY <1>6, <2>1, <2>3 DEF Area
    <3>2. ~(s.at + s.n > MMAP_BASE)
      BY <1>10, <3>1, NotPast
    <3>3. p < MMAP_BASE /\ p < Later(max_end[l], s.at + s.n)
      <4> DEFINE x == s.at + s.n
      <4>1. x \in Nat /\ p < x /\ ~(x > MMAP_BASE)
        BY <1>6, <3>1, <3>2
      <4> HIDE DEF x
      <4>2. p < MMAP_BASE
        BY <2>1, <4>1, BasesNat
      <4>3. p < Later(max_end[l], x)
        BY <1>2, <2>1, <4>1 DEF Later
      <4> QED
        BY <4>2, <4>3 DEF x
    <3>4. seg[l] \in 1 .. (seg[l] + 1) - 1
      BY <1>2, <1>4
    <3>5. InSegments(prog[l], seg[l] + 1, p)
      BY <2>3, <3>4, Zenon DEF InSegments
    <3> QED
      BY <3>3, <3>5
  <2> QED
    BY <1>7, <2>2, <2>3
<1>11. ASSUME NEW left, Becomes(r, new, left) PROVE NotClobbered
  BY <1>2, <1>6, <1>9, <1>11, MappedArea
<1>12. \/ /\ Becomes(r, new, {})
          /\ seg' = [seg EXCEPT ![l] = @ + 1]
          /\ max_end' = [max_end EXCEPT ![l] = Later(@, s.at + s.n)]
          /\ UNCHANGED <<pc, root, prog, cr3>>
       \/ load_fails(l, new)
  BY DEF load_segment
<1> HIDE DEF new, why
<1>13. ASSUME Becomes(r, new, {}), seg' = [seg EXCEPT ![l] = @ + 1],
              max_end' = [max_end EXCEPT ![l] = Later(@, s.at + s.n)],
              UNCHANGED <<pc, root, prog, cr3>>
       PROVE  SpaceInv'
  <2>1. /\ pc \in [Loader -> {"idle", "load", "task"}]
        /\ seg \in [Loader -> Nat] /\ max_end \in [Loader -> Nat]
    BY DEF SpaceInv, SpaceTypes
  <2>2. Later(max_end[l], s.at + s.n) \in Nat /\ seg[l] + 1 \in Nat
    BY <1>2, <1>6 DEF Later
  <2> DEFINE e == Later(max_end[l], s.at + s.n)
  <2> HIDE DEF e
  <2>3. /\ seg' \in [Loader -> Nat] /\ max_end' \in [Loader -> Nat]
        /\ seg'[l] = seg[l] + 1 /\ max_end'[l] = e /\ pc'[l] = "load"
        /\ \A k \in Loader \ {l} : /\ pc'[k] = pc[k] /\ seg'[k] = seg[k]
                                   /\ max_end'[k] = max_end[k]
    BY <1>1, <1>13, <2>1, <2>2 DEF e
  <2>4. seg'[l] \in 1 .. Len(prog[l]) + 1
    BY <1>2, <1>4, <2>3
  <2>5. UNCHANGED <<load, held, task, made, spaces, root, prog>>
    BY <1>1, <1>13 DEF spaces
  <2>6. pc' \in [Loader -> {"idle", "load", "task"}] /\ pc'[l] # "idle"
    BY <1>13, <2>1, <2>3
  <2>7. LaidLoad(pt[r], pc[l], prog[l], seg[l], max_end[l]) /\ why = {} =>
           LaidLoad(new, pc'[l], prog[l], seg'[l], max_end'[l])
    BY <1>10, <2>3 DEF e
  <2> QED
    BY <1>1, <1>7, <1>8, <1>13, <2>3, <2>4, <2>5, <2>6, <2>7, LoaderMaps
<1>14. ASSUME load_fails(l, new) PROVE SpaceInv'
  BY <1>1, <1>7, <1>8, <1>14, LoaderFails
<1>15. NotClobbered
  BY <1>11, <1>12 DEF load_fails
<1> QED
  BY <1>12, <1>13, <1>14, <1>15

LEMMA StackStep ==
    ASSUME SpaceInv, NEW l \in Loader, load_stack(l), UNCHANGED <<load, held>>
    PROVE  SpaceInv' /\ NotClobbered
<1> DEFINE r == root[l]
           new == Filled(pt[r], free, STACK_BASE, STACK_PAGES)
<1>1. /\ pc[l] = "load" /\ pc[l] # "idle"
      /\ UNCHANGED <<task, made, brk_start, brk_end, mmap_next, excuse>>
  BY DEF load_stack
<1>2. /\ r \in Live /\ r \in AllFrames /\ prog[l] \in Seq(Segments)
      /\ seg[l] \in Nat /\ max_end[l] \in Nat /\ r # NONE
  BY <1>1, LoaderOf
<1>3. Excused(r, {})
  <2>1. [excuse EXCEPT ![r] = @ \cup {}] = excuse
    BY <1>2 DEF SpaceInv, SpaceTypes
  <2> QED
    BY <1>1, <2>1 DEF Excused
<1>4. /\ new \in Table /\ Single(new)
      /\ \A p \in Page :
            new[p] = pt[r][p] \/ p \in Area(STACK_BASE, STACK_PAGES)
      /\ \A p \in Page : new[p] \in {pt[r][p], NONE} \cup free
  BY <1>2, BasesNat, FilledSpace
<1>5. \A p \in Page : p \in Area(STACK_BASE, STACK_PAGES) =>
         p \in Nat /\ STACK_BASE <= p /\ ~(p < MMAP_BASE)
  BY PagesNat, BasesNat DEF Area
<1>6. ASSUME excuse'[r] = {}
      PROVE  \A p \in Page : p \in Area(STACK_BASE, STACK_PAGES) =>
                pt[r][p] = NONE
  <2>1. excuse[r] = {}
    BY <1>1, <1>6
  <2>2. LaidLoad(pt[r], pc[l], prog[l], seg[l], max_end[l])
    BY <1>2, <2>1 DEF SpaceInv, Layout, LoaderLayout
  <2> QED
    BY <1>1, <1>5, <2>2 DEF LaidLoad
<1>7. ASSUME LaidLoad(pt[r], pc[l], prog[l], seg[l], max_end[l])
      PROVE  LaidLoad(new, "task", prog[l], seg[l], max_end[l])
  <2> SUFFICES ASSUME NEW p \in Page, new[p] # NONE
               PROVE  (p < max_end[l] /\ p < MMAP_BASE) \/ STACK_BASE <= p
    BY DEF LaidLoad
  <2>1. CASE new[p] = pt[r][p]
    BY <1>1, <1>7, <2>1 DEF LaidLoad
  <2>2. CASE p \in Area(STACK_BASE, STACK_PAGES)
    BY <1>5, <2>2
  <2> QED
    BY <1>4, <2>1, <2>2
<1>8. ASSUME NEW left, Becomes(r, new, left) PROVE NotClobbered
  BY <1>2, <1>6, <1>8, BasesNat, MappedArea
<1>9. \/ /\ Becomes(r, new, {}) /\ pc' = [pc EXCEPT ![l] = "task"]
         /\ UNCHANGED <<root, prog, seg, max_end, cr3>>
      \/ load_fails(l, new)
  BY DEF load_stack
<1> HIDE DEF new
<1>10. {} \subseteq Reason
  OBVIOUS
<1>11. ASSUME Becomes(r, new, {}), pc' = [pc EXCEPT ![l] = "task"],
              UNCHANGED <<root, prog, seg, max_end, cr3>>
       PROVE  SpaceInv'
  <2>1. /\ pc \in [Loader -> {"idle", "load", "task"}]
        /\ seg' \in [Loader -> Nat] /\ max_end' \in [Loader -> Nat]
    BY <1>11 DEF SpaceInv, SpaceTypes
  <2>2. /\ pc' \in [Loader -> {"idle", "load", "task"}] /\ pc'[l] = "task"
        /\ \A k \in Loader \ {l} : /\ pc'[k] = pc[k] /\ seg'[k] = seg[k]
                                   /\ max_end'[k] = max_end[k]
    BY <1>11, <2>1
  <2>3. UNCHANGED <<load, held, task, made, spaces, root, prog>>
    BY <1>1, <1>11 DEF spaces
  <2>4. pc'[l] # "idle" /\ pc'[l] # "load"
    BY <2>2
  <2>5. LaidLoad(pt[r], pc[l], prog[l], seg[l], max_end[l]) =>
           LaidLoad(new, pc'[l], prog[l], seg'[l], max_end'[l])
    BY <1>7, <1>11, <2>2
  <2> QED
    BY <1>1, <1>3, <1>4, <1>10, <1>11, <2>1, <2>2, <2>3, <2>4, <2>5, LoaderMaps
<1>12. ASSUME load_fails(l, new) PROVE SpaceInv'
  BY <1>1, <1>3, <1>4, <1>10, <1>12, LoaderFails
<1>13. NotClobbered
  BY <1>8, <1>9 DEF load_fails
<1> QED
  BY <1>9, <1>11, <1>12, <1>13

(* The layout of a loaded space is that of a task with its break at the    *)
(* end of the segments and no mapping.                                     *)
LEMMA LoadedLaid ==
    ASSUME NEW T, NEW P, NEW k, NEW e, LaidLoad(T, "task", P, k, e)
    PROVE  Laid(T, e, MMAP_BASE)
BY BasesNat DEF LaidLoad, Laid

(* A loaded space becomes that of task t, which is new or leaves its own.  *)
LEMMA Installed ==
    ASSUME SpaceInv, NEW l \in Loader, pc[l] = "task", load_end(l),
           NEW t \in Task, l = t \/ t \notin task,
           task' = task \cup {t}, made' = made \cup {t},
           cr3' = [cr3 EXCEPT ![t] = root[l]],
           brk_start' = [brk_start EXCEPT ![t] = max_end[l]],
           brk_end' = [brk_end EXCEPT ![t] = max_end[l]],
           mmap_next' = [mmap_next EXCEPT ![t] = MMAP_BASE],
           lost' \subseteq AllFrames,
           Kept(Live', pt, free, held, lost'),
           UNCHANGED <<load, held, free, pt, excuse>>
    PROVE  SpaceInv' /\ NotClobbered
<1> DEFINE r == root[l]
<1>1. /\ r \in Live /\ r \in AllFrames /\ r # NONE
      /\ \A k \in Loader \ {l} : root[k] # r
      /\ \A u \in task : cr3[u] # r
      /\ max_end[l] \in Nat
  BY LoaderOf
<1>2. /\ pc' \in [Loader -> {"idle", "load", "task"}]
      /\ root' \in [Loader -> AllFrames \cup {NONE}]
      /\ prog' \in [Loader -> Seq(Segments)]
      /\ seg' \in [Loader -> Nat] /\ max_end' \in [Loader -> Nat]
      /\ pc'[l] = "idle" /\ root'[l] = NONE
      /\ \A k \in Loader \ {l} : pc'[k] = pc[k] /\ root'[k] = root[k]
  BY EndIs
<1>3. /\ cr3 \in [Task -> AllFrames \cup {NONE}]
      /\ brk_start \in [Task -> Nat] /\ brk_end \in [Task -> Nat]
      /\ mmap_next \in [Task -> Nat]
      /\ task \subseteq made /\ made \subseteq Task
  BY DEF SpaceInv, SpaceTypes
<1>4. /\ cr3' \in [Task -> AllFrames \cup {NONE}]
      /\ brk_start' \in [Task -> Nat] /\ brk_end' \in [Task -> Nat]
      /\ mmap_next' \in [Task -> Nat]
  BY <1>1, <1>3, BasesNat
<1>5. SpaceTypes'
  BY <1>2, <1>3, <1>4 DEF SpaceInv, SpaceTypes
<1>6. /\ cr3'[t] = r /\ brk_end'[t] = max_end[l] /\ mmap_next'[t] = MMAP_BASE
      /\ \A u \in Task \ {t} : /\ cr3'[u] = cr3[u] /\ brk_end'[u] = brk_end[u]
                               /\ mmap_next'[u] = mmap_next[u]
  BY <1>3
<1>7. RootsApart'
  <2>1. \A u \in task' : cr3'[u] # NONE
    BY <1>1, <1>3, <1>6 DEF SpaceInv, RootsApart
  <2>2. \A k \in Loader : root'[k] = NONE <=> pc'[k] = "idle"
    BY <1>2 DEF SpaceInv, RootsApart
  <2>3. ASSUME NEW k \in Loader, NEW u \in task' PROVE root'[k] # cr3'[u]
    <3>1. CASE k = l
      BY <1>2, <2>1, <3>1
    <3>2. CASE k # l /\ u = t
      <4>1. root'[k] = root[k] /\ root[k] # r /\ cr3'[u] = r
        BY <1>1, <1>2, <1>6, <3>2
      <4> QED
        BY <4>1
    <3>3. CASE k # l /\ u # t
      <4>1. root'[k] = root[k] /\ u \in task /\ cr3'[u] = cr3[u]
        BY <1>2, <1>3, <1>6, <3>3
      <4>2. root[k] # cr3[u]
        BY <4>1 DEF SpaceInv, RootsApart
      <4> QED
        BY <4>1, <4>2
    <3> QED
      BY <3>1, <3>2, <3>3
  <2>4. ASSUME NEW i \in Loader, NEW k \in Loader, root'[i] # NONE,
               root'[i] = root'[k]
        PROVE  i = k
    <3>1. i # l /\ k # l
      BY <1>2, <2>4
    <3>2. root[i] # NONE /\ root[i] = root[k]
      BY <1>2, <2>4, <3>1
    <3> QED
      BY <3>2 DEF SpaceInv, RootsApart
  <2>5. \A u \in Task : pc'[u] # "idle" => u \in task'
    BY <1>2 DEF SpaceInv, RootsApart, Loader
  <2> QED
    BY <2>1, <2>2, <2>3, <2>4, <2>5 DEF RootsApart
<1>8. UnusedEmpty'
  BY DEF SpaceInv, UnusedEmpty
<1>9. FramesKept'
  BY <1>5, <1>7, KeptNext
<1>10. TaskLayout'
  <2> SUFFICES ASSUME NEW u \in task', excuse[cr3'[u]] = {}
               PROVE  Alone(u)' /\
                      Laid(pt[cr3'[u]], brk_end'[u], mmap_next'[u])
    BY DEF TaskLayout
  <2>1. u \in Task
    BY <1>3
  <2>2. CASE u = t
    <3>1. \A v \in task' \ {u} : cr3'[v] # cr3'[u]
      BY <1>1, <1>3, <1>6, <2>2
    <3>2. Alone(u)'
      BY <3>1 DEF Alone
    <3>3. LaidLoad(pt[r], "task", prog[l], seg[l], max_end[l])
      BY <1>1, <1>6, <2>2 DEF SpaceInv, Layout, LoaderLayout
    <3>4. Laid(pt[r], max_end[l], MMAP_BASE)
      BY <3>3, LoadedLaid
    <3> QED
      BY <1>6, <2>2, <3>2, <3>4
  <2>3. CASE u # t
    <3>1. u \in task /\ cr3'[u] = cr3[u]
      BY <1>6, <2>1, <2>3
    <3>2. Alone(u) /\ Laid(pt[cr3[u]], brk_end[u], mmap_next[u])
      BY <3>1 DEF SpaceInv, Layout, TaskLayout
    <3>3. \A v \in task' \ {u} : cr3'[v] # cr3'[u]
      BY <1>1, <1>3, <1>6, <3>1, <3>2 DEF Alone
    <3>4. Alone(u)'
      BY <3>3 DEF Alone
    <3> QED
      BY <1>6, <2>1, <2>3, <3>1, <3>2, <3>4
  <2> QED
    BY <2>2, <2>3
<1>11. LoaderLayout' /\ Progress'
  BY OthersLoad
<1>12. NotClobbered
  BY DEF NotClobbered
<1> QED
  BY <1>5, <1>7, <1>8, <1>9, <1>10, <1>11, <1>12 DEF SpaceInv, Layout

LEMMA SpawnStep ==
    ASSUME SpaceInv, spawn_task, UNCHANGED <<load, held>>
    PROVE  SpaceInv' /\ NotClobbered
<1> DEFINE l == SHELL
           r == root[l]
<1>1. /\ l \in Loader /\ pc[l] = "task" /\ pc[l] # "idle" /\ load_end(l)
      /\ UNCHANGED <<free, pt, excuse>>
  BY DEF spawn_task, Loader
<1> HIDE DEF l
<1>2. /\ r \in Live /\ r \in AllFrames /\ r # NONE
      /\ \A k \in Loader \ {l} : root[k] # r
      /\ \A u \in task : cr3[u] # r
  BY <1>1, LoaderOf
<1>3. root'[l] = NONE /\ \A k \in Loader \ {l} : root'[k] = root[k]
  BY <1>1, EndIs
<1>4. Kept(Live, pt, free, held, lost) /\ lost \subseteq AllFrames
  BY KeptNow DEF SpaceInv, SpaceTypes
<1>5. {root'[k] : k \in Loader} \ {NONE}
         = ({root[k] : k \in Loader} \ {NONE}) \ {r}
  <2>1. \A k \in Loader : root'[k] # NONE => root'[k] = root[k] /\ root[k] # r
    BY <1>2, <1>3
  <2>2. \A k \in Loader : root[k] # r => root'[k] = root[k]
    BY <1>3
  <2> QED
    BY <2>1, <2>2
<1>6. ASSUME NEW t \in Task, task_create_user(t, r, max_end[l], max_end[l]),
             mmap_next' = [mmap_next EXCEPT ![t] = MMAP_BASE], lost' = lost
      PROVE  SpaceInv' /\ NotClobbered
  <2>1. /\ t \notin made /\ task' = task \cup {t} /\ made' = made \cup {t}
        /\ cr3' = [cr3 EXCEPT ![t] = r]
        /\ brk_start' = [brk_start EXCEPT ![t] = max_end[l]]
        /\ brk_end' = [brk_end EXCEPT ![t] = max_end[l]]
    BY <1>6 DEF task_create_user, Slot
  <2>2. t \notin task /\ cr3'[t] = r /\ \A u \in task : cr3'[u] = cr3[u]
    BY <2>1 DEF SpaceInv, SpaceTypes
  <2>3. {cr3'[u] : u \in task'} = {cr3[u] : u \in task} \cup {r}
    BY <2>1, <2>2
  <2>4. Live' = Live
    BY <1>1, <1>2, <1>5, <2>3 DEF Live
  <2>5. lost' \subseteq AllFrames /\ Kept(Live', pt, free, held, lost')
    BY <1>4, <1>6, <2>4
  <2> QED
    BY <1>1, <1>6, <2>1, <2>2, <2>5, Installed
<1>7. ASSUME lost' = lost \cup Reached(r), UNCHANGED <<task, made, spaces>>
      PROVE  SpaceInv' /\ NotClobbered
  <2>1. UNCHANGED <<cr3, brk_start, brk_end, mmap_next>>
    BY <1>7 DEF spaces
  <2>2. /\ pc' \in [Loader -> {"idle", "load", "task"}]
        /\ root' \in [Loader -> AllFrames \cup {NONE}]
        /\ prog' \in [Loader -> Seq(Segments)]
        /\ seg' \in [Loader -> Nat] /\ max_end' \in [Loader -> Nat]
        /\ pc'[l] = "idle" /\ \A k \in Loader \ {l} : pc'[k] = pc[k]
    BY <1>1, EndIs
  <2>3. Reached(r) \subseteq AllFrames
    BY <1>2, SpaceOf, InUseIn DEF Reached
  <2>4. SpaceTypes'
    BY <1>1, <1>7, <2>1, <2>2, <2>3 DEF SpaceInv, SpaceTypes
  <2>5. RootsApart'
    <3>1. \A k \in Loader : root'[k] = NONE <=> pc'[k] = "idle"
      BY <1>3, <2>2 DEF SpaceInv, RootsApart
    <3>2. \A k \in Loader, u \in task : root'[k] # cr3[u]
      BY <1>3 DEF SpaceInv, RootsApart
    <3>3. \A i, k \in Loader : root'[i] # NONE /\ root'[i] = root'[k] => i = k
      BY <1>3 DEF SpaceInv, RootsApart
    <3>4. \A u \in Task : pc'[u] # "idle" => u \in task
      BY <2>2 DEF SpaceInv, RootsApart, Loader
    <3> QED
      BY <1>7, <2>1, <3>1, <3>2, <3>3, <3>4 DEF SpaceInv, RootsApart
  <2>6. UnusedEmpty'
    BY <1>1 DEF SpaceInv, UnusedEmpty
  <2>7. Live' = Live \ {r}
    <3>1. r \notin {cr3[u] : u \in task}
      BY <1>2
    <3> QED
      BY <1>5, <1>7, <2>1, <3>1 DEF Live
  <2>8. lost' = lost \cup Reach(pt, r)
    BY <1>7 DEF Reached, Reach
  <2>9. FramesKept'
    BY <1>1, <1>2, <1>4, <2>4, <2>5, <2>7, <2>8, KeptDrop, KeptNext
  <2>10. TaskLayout'
    BY <1>1, <1>7, <2>1 DEF SpaceInv, Layout, TaskLayout, Alone
  <2>11. LoaderLayout' /\ Progress'
    BY <1>1, OthersLoad
  <2>12. NotClobbered
    BY <1>1 DEF NotClobbered
  <2> QED
    BY <2>4, <2>5, <2>6, <2>9, <2>10, <2>11, <2>12 DEF SpaceInv, Layout
<1> QED
  BY <1>6, <1>7 DEF spawn_task, l

LEMMA ExecStep ==
    ASSUME SpaceInv, NEW t \in Task, exec_done(t), UNCHANGED <<load, held>>
    PROVE  SpaceInv' /\ NotClobbered
<1> DEFINE r == root[t]
<1>1. /\ pc[t] = "task" /\ pc[t] # "idle" /\ load_end(t)
      /\ cr3' = [cr3 EXCEPT ![t] = r]
      /\ brk_start' = [brk_start EXCEPT ![t] = max_end[t]]
      /\ brk_end' = [brk_end EXCEPT ![t] = max_end[t]]
      /\ mmap_next' = [mmap_next EXCEPT ![t] = MMAP_BASE]
      /\ lost' = lost \cup Left(t)
      /\ UNCHANGED <<free, pt, task, made, excuse>>
  BY DEF exec_done
<1>2. t \in Loader /\ t \in task /\ t \in made
  BY <1>1 DEF Loader, SpaceInv, SpaceTypes, RootsApart
<1>3. /\ r \in Live /\ r \in AllFrames /\ r # NONE
      /\ \A k \in Loader \ {t} : root[k] # r
      /\ \A u \in task : cr3[u] # r
  BY <1>1, <1>2, LoaderOf
<1>4. root'[t] = NONE /\ \A k \in Loader \ {t} : root'[k] = root[k]
  BY <1>1, <1>2, EndIs
<1>5. Kept(Live, pt, free, held, lost) /\ lost \subseteq AllFrames
  BY KeptNow DEF SpaceInv, SpaceTypes
<1>6. /\ cr3[t] \in Live /\ cr3[t] \in AllFrames /\ pt[cr3[t]] \in Table
      /\ \A k \in Loader : root[k] # cr3[t]
  BY <1>2, TaskOf, SpaceOf DEF SpaceInv, RootsApart
<1>7. {root'[k] : k \in Loader} \ {NONE}
         = ({root[k] : k \in Loader} \ {NONE}) \ {r}
  <2>1. \A k \in Loader : root'[k] # NONE => root'[k] = root[k] /\ root[k] # r
    BY <1>3, <1>4
  <2>2. \A k \in Loader : root[k] # r => root'[k] = root[k]
    BY <1>4
  <2> QED
    BY <2>1, <2>2
<1>8. cr3'[t] = r /\ \A u \in task \ {t} : cr3'[u] = cr3[u]
  BY <1>1 DEF SpaceInv, SpaceTypes
<1>9. {cr3'[u] : u \in task'} = {cr3[u] : u \in task \ {t}} \cup {r}
  BY <1>1, <1>2, <1>8
<1>10. Live' = {cr3[u] : u \in task \ {t}}
                  \cup ({root[k] : k \in Loader} \ {NONE})
  BY <1>2, <1>3, <1>7, <1>9 DEF Live
<1>11. Left(t) \subseteq AllFrames
  BY <1>6, InUseIn DEF Left, Reached
<1>12. Kept(Live', pt, free, held, lost')
  <2>1. CASE Alone(t)
    <3>1. Live' = Live \ {cr3[t]}
      <4>1. {cr3[u] : u \in task \ {t}} = {cr3[u] : u \in task} \ {cr3[t]}
        BY <2>1 DEF Alone
      <4> QED
        BY <1>6, <1>10, <4>1 DEF Live
    <3>2. Left(t) = Reach(pt, cr3[t])
      BY <2>1 DEF Left, Reached, Reach
    <3> QED
      BY <1>1, <1>5, <1>6, <3>1, <3>2, KeptDrop
  <2>2. CASE ~Alone(t)
    <3>1. Live' = Live
      <4>1. {cr3[u] : u \in task \ {t}} = {cr3[u] : u \in task}
        BY <2>2 DEF Alone
      <4> QED
        BY <1>10, <4>1 DEF Live
    <3>2. lost' = lost
      BY <1>1, <2>2 DEF Left
    <3> QED
      BY <1>5, <3>1, <3>2
  <2> QED
    BY <2>1, <2>2
<1>13. task' = task \cup {t} /\ made' = made \cup {t}
  BY <1>1, <1>2
<1>14. lost' \subseteq AllFrames /\ UNCHANGED <<load, held, free, pt, excuse>>
  BY <1>1, <1>5, <1>11
<1> QED
  BY <1>1, <1>2, <1>12, <1>13, <1>14, Installed
-----------------------------------------------------------------------------
LEMMA SpaceInitial == SpaceInit => SpaceInv
<1> SUFFICES ASSUME SpaceInit PROVE SpaceInv
  OBVIOUS
<1> USE DEF SpaceInit
<1>1. Held \subseteq AllFrames /\ \A l \in Loader : pc[l] = "idle"
  BY UspaceAssumption DEF AllFrames
<1>2. SpaceTypes
  <2>1. Empty \in [Page -> AllFrames \cup {NONE}] /\ <<>> \in Seq(Segments)
    BY DEF Empty
  <2> QED
    BY <1>1, <2>1 DEF SpaceTypes
<1>3. RootsApart
  BY DEF RootsApart, Loader
<1>4. UnusedEmpty
  BY <1>1 DEF UnusedEmpty
<1>5. Live = {}
  BY DEF Live
<1>6. FramesKept
  BY <1>1, <1>5 DEF FramesKept
<1>7. Layout
  BY DEF Layout, Progress, TaskLayout, LoaderLayout
<1> QED
  BY <1>2, <1>3, <1>4, <1>6, <1>7 DEF SpaceInv

LEMMA SpaceStep ==
    ASSUME SpaceInv, [SpaceNext]_spaceVars
    PROVE  SpaceInv' /\ NotClobbered
<1>1. CASE UNCHANGED spaceVars
  <2>1. UNCHANGED <<load, free, held, pt, task, made, cr3, brk_start, brk_end,
                    mmap_next, pc, root, prog, seg, max_end, lost, excuse>>
    BY <1>1 DEF spaceVars, spaces, loaders
  <2>2. SpaceTypes' /\ RootsApart' /\ UnusedEmpty'
    BY <2>1 DEF SpaceInv, SpaceTypes, RootsApart, UnusedEmpty
  <2>3. FramesKept'
    <3>1. Live' = Live
      BY <2>1 DEF Live
    <3> QED
      BY <2>1, <2>2, <3>1, KeptNow, KeptNext DEF SpaceInv
  <2>4. Layout'
    BY <2>1 DEF SpaceInv, Layout, Progress, TaskLayout, LoaderLayout, Alone
  <2>5. NotClobbered
    BY <2>1 DEF NotClobbered
  <2> QED
    BY <2>2, <2>3, <2>4, <2>5 DEF SpaceInv
<1>2. ASSUME NEW t \in Task, Call(t), \A u \in Task : pc[u] = "idle",
             UNCHANGED <<load, held>>
      PROVE  SpaceInv' /\ NotClobbered
  <2>1. CASE \E nb \in load.breaks : sys_brk(t, nb)
    BY <1>2, <2>1, BrkStep
  <2>2. CASE \E n \in load.lens : sys_mmap(t, n) \/ mmap_refused(t, n)
    BY <1>2, <2>2, MmapStep, RefusedStep
  <2>3. CASE \E a \in load.at, n \in load.lens : mmap_fixed(t, a, n)
    BY <1>2, <2>3, FixedStep
  <2>4. CASE \E a \in load.at, n \in load.lens : sys_munmap(t, a, n)
    BY <1>2, <2>4, MunmapStep
  <2>5. CASE sys_task_create(t)
    BY <1>2, <2>5, CreateStep
  <2>6. CASE t \in task /\ \E p \in load.progs : load_root(t, p)
    BY <1>2, <2>6, RootStep DEF Loader
  <2>7. CASE task_exit(t)
    BY <1>2, <2>7, ExitStep
  <2> QED
    BY <1>2, <2>1, <2>2, <2>3, <2>4, <2>5, <2>6, <2>7 DEF Call
<1>3. ASSUME NEW l \in Loader, Loading(l), UNCHANGED <<load, held>>
      PROVE  SpaceInv' /\ NotClobbered
  BY <1>3, SegmentStep, StackStep DEF Loading
<1>4. ASSUME Shell, UNCHANGED <<load, held>>
      PROVE  SpaceInv' /\ NotClobbered
  <2>1. SHELL \in Loader /\ SHELL \notin Task
    BY UspaceAssumption DEF Loader, SHELL
  <2>2. CASE \E p \in load.progs : load_root(SHELL, p)
    BY <1>4, <2>1, <2>2, RootStep
  <2>3. CASE Loading(SHELL)
    BY <1>3, <1>4, <2>1, <2>3
  <2>4. CASE spawn_task
    BY <1>4, <2>4, SpawnStep
  <2> QED
    BY <1>4, <2>2, <2>3, <2>4 DEF Shell
<1>5. CASE SpaceNext
  <2>1. UNCHANGED load
    BY <1>5 DEF SpaceNext
  <2>2. \/ /\ \A t \in Task : pc[t] = "idle"
           /\ \/ ((\E t \in Task : Call(t)) \/ Shell) /\ UNCHANGED held
              \/ shm_release
        \/ (\E t \in Task : Loading(t) \/ exec_done(t)) /\ UNCHANGED held
    BY <1>5 DEF SpaceNext
  <2>3. CASE shm_release
    BY <2>1, <2>3, ReleaseStep
  <2>4. ASSUME NEW t \in Task, exec_done(t), UNCHANGED held
        PROVE  SpaceInv' /\ NotClobbered
    BY <2>1, <2>4, ExecStep
  <2>5. ASSUME NEW t \in Task, Loading(t), UNCHANGED held
        PROVE  SpaceInv' /\ NotClobbered
    BY <1>3, <2>1, <2>5 DEF Loader
  <2> QED
    BY <1>2, <1>4, <2>1, <2>2, <2>3, <2>4, <2>5
<1> QED
  BY <1>1, <1>5

(* The inductive invariant of the address spaces: types, roots, tables and *)
(* layout, through every call, failure, load and exit.                     *)
THEOREM SpaceInvariant == SpaceSpec => []SpaceInv
<1>1. SpaceInv /\ [SpaceNext]_spaceVars => SpaceInv'
  BY SpaceStep
<1> QED
  BY SpaceInitial, <1>1, PTL DEF SpaceSpec

(* FramesKept: every frame is free, held by the object, on one page of one *)
(* space, or lost in one of the ways that the code loses frames            *)
(* (syscall.c:225-549, elf_load.c:56-153), for any programs that run.      *)
THEOREM FramesAreKept == SpaceSpec => []FramesKept
<1>1. SpaceInv => FramesKept
  BY DEF SpaceInv
<1> QED
  BY SpaceInvariant, <1>1, PTL

(* NoClobber: no step maps a page in use again, but in a space that has    *)
(* one of the reasons (syscall.c:240-289 and 384-398, elf_load.c:86-90).   *)
THEOREM PagesAreNotReplaced == SpaceSpec => NoClobber
<1>1. SpaceInv /\ [SpaceNext]_spaceVars => [NotClobbered]_spaceVars
  BY SpaceStep
<1>2. [SpaceNext]_spaceVars /\ SpaceInv =>
         [\A r \in AllFrames, p \in Page :
             pt[r][p] # NONE /\ pt'[r][p] \notin {pt[r][p], NONE} =>
                 excuse'[r] # {}]_spaceVars
  BY <1>1 DEF NotClobbered
<1> QED
  BY SpaceInvariant, <1>2, PTL DEF SpaceSpec, NoClobber

-----------------------------------------------------------------------------
(* The frame that pmm_alloc takes for a system call (pmm.c:71-80) is the   *)
(* one that a call on an address space gets next, and one less is clear    *)
(* afterwards.                                                             *)
THEOREM AllocTakesNext ==
    ASSUME PmmInv, NEW f \in Frame, sys_alloc(f)
    PROVE  f = Nth(Clear, 0) /\ Clear' = Clear \ {f}
<1>1. Clear \subseteq Frame /\ IsFiniteSet(Clear)
  BY FrameSubset DEF Clear
<1>2. Clear \in SUBSET Nat
  BY <1>1, PmmAssumption DEF Frame
<1>3. f \in Clear /\ \A g \in Clear : f <= g
  BY DEF sys_alloc, IsFirstClear
<1>4. Nth(Clear, 0) = f
  BY <1>1, <1>2, <1>3, NthZero
<1>5. bitmap' = bitmap \cup {f}
  BY DEF sys_alloc, Take
<1>6. Clear' = Clear \ {f}
  BY <1>5 DEF Clear
<1> QED
  BY <1>4, <1>6
=============================================================================
