-------------------------------- MODULE Pmm --------------------------------
(***************************************************************************)
(* The physical frame allocator (mm/pmm.c): a bitmap with one bit per      *)
(* frame and a counter of free frames.                                     *)
(*                                                                         *)
(* At boot the bitmap is built and regions are reserved; afterwards frames *)
(* are allocated and freed by system calls, which are atomic because       *)
(* interrupts are off, and by the shell (loading a program, growing the    *)
(* heap), which the timer may preempt inside pmm_alloc.                    *)
(***************************************************************************)
EXTENDS Integers, FiniteSets

CONSTANTS
    MAX_FRAMES,   \* bits of the bitmap
    FIRST_FREE,   \* first frame above 1 MiB
    PAGE_SIZE,    \* addresses per frame
    WORD,         \* 2^64: the range of the unsigned counter free_frames
    MemSizes,     \* possible sizes of the memory, in frames
    Regions       \* possible regions <<base, len>> given to pmm_reserve

ASSUME PmmAssumption ==
    /\ MAX_FRAMES \in Nat \ {0}
    /\ FIRST_FREE \in Nat
    /\ PAGE_SIZE \in Nat \ {0}
    /\ WORD \in Nat /\ WORD > MAX_FRAMES
    /\ MemSizes \subseteq Nat
    /\ Regions \subseteq Nat \X Nat

VARIABLES
    bitmap,        \* the frames whose bit is set: in use
    total_frames,
    free_frames,
    booting,       \* still before the first allocation
    reserved,      \* regions reserved at boot (history)
    owners,        \* who holds frame f (history)
    shellPc,       \* where the shell is in pmm_alloc
    pos,           \* the frame it looks at
    raced          \* a system call took the frame the shell had just found
                   \* free (history)

vars == <<bitmap, total_frames, free_frames, booting, reserved, owners,
          shellPc, pos, raced>>

Frame == 0 .. MAX_FRAMES - 1
Actor == {"shell", "syscall"}
-----------------------------------------------------------------------------
(* pmm_init: everything is in use, then the frames from 1 MiB to the end   *)
(* of the memory, cut off at MAX_FRAMES, are freed and counted.            *)
Usable(total) == {f \in Frame : FIRST_FREE <= f /\ f < total}

Init ==
    /\ \E mem \in MemSizes :
          total_frames = IF mem > MAX_FRAMES THEN MAX_FRAMES ELSE mem
    /\ bitmap = Frame \ Usable(total_frames)
    /\ free_frames = Cardinality(Usable(total_frames))
    /\ booting = TRUE
    /\ reserved = {}
    /\ owners = [f \in Frame |-> {}]
    /\ shellPc = "idle"
    /\ pos = 0
    /\ raced = FALSE

(* Mutant: the end of the region is rounded down. *)
Covered_Mutant(r) ==
    {f \in Frame : /\ r[1] \div PAGE_SIZE <= f
                   /\ f < (r[1] + r[2]) \div PAGE_SIZE
                   /\ f < total_frames}

(* The frames pmm_reserve goes through: base rounded down, the end rounded *)
(* up.                                                                     *)
Covered(r) ==
    {f \in Frame : /\ r[1] \div PAGE_SIZE <= f
                   /\ f < (r[1] + r[2] + PAGE_SIZE - 1) \div PAGE_SIZE
                   /\ f < total_frames}

(* Mutant: frames that were already in use are counted again. *)
NewlyReserved_Mutant(r) == Covered(r)

NewlyReserved(r) == Covered(r) \ bitmap

pmm_reserve(r) ==
    /\ booting
    /\ bitmap' = bitmap \cup Covered(r)
    /\ free_frames' = (free_frames - Cardinality(NewlyReserved(r))) % WORD
    /\ reserved' = reserved \cup {r}
    /\ UNCHANGED <<total_frames, booting, owners, shellPc, pos, raced>>

boot_done ==
    /\ booting
    /\ booting' = FALSE
    /\ UNCHANGED <<bitmap, total_frames, free_frames, reserved, owners,
                   shellPc, pos, raced>>
-----------------------------------------------------------------------------
Clear == Frame \ bitmap

(* The first clear bit; none, or one behind the memory, is out of memory.  *)
IsFirstClear(f) == f \in Clear /\ \A g \in Clear : f <= g

(* Mutant: the bit is not set. *)
Take_Mutant(f, a) ==
    /\ free_frames' = (free_frames - 1) % WORD
    /\ owners' = [owners EXCEPT ![f] = @ \cup {a}]
    /\ UNCHANGED bitmap

(* bm_set, free_frames--, and the frame belongs to the caller.             *)
Take(f, a) ==
    /\ bitmap' = bitmap \cup {f}
    /\ free_frames' = (free_frames - 1) % WORD
    /\ owners' = [owners EXCEPT ![f] = @ \cup {a}]

(* pmm_alloc from a system call.                                           *)
sys_alloc(f) ==
    /\ ~booting
    /\ IsFirstClear(f)
    /\ f < total_frames
    /\ Take(f, "syscall")
    /\ raced' = (raced \/ (shellPc = "take" /\ pos = f))
    /\ UNCHANGED <<total_frames, booting, reserved, shellPc, pos>>

(* pmm_alloc from the shell: start, one bit further, found a clear bit,    *)
(* set it.  The timer may come between any two of these steps.             *)
alloc_start ==
    /\ ~booting /\ shellPc = "idle"
    /\ shellPc' = "scan"
    /\ pos' = 0
    /\ UNCHANGED <<bitmap, total_frames, free_frames, booting, reserved,
                   owners, raced>>

alloc_next ==
    /\ shellPc = "scan" /\ pos < MAX_FRAMES
    /\ pos \in bitmap
    /\ pos' = pos + 1
    /\ UNCHANGED <<bitmap, total_frames, free_frames, booting, reserved,
                   owners, shellPc, raced>>

alloc_found ==
    /\ shellPc = "scan" /\ pos < MAX_FRAMES
    /\ pos \notin bitmap
    /\ shellPc' = IF pos < total_frames THEN "take" ELSE "idle"
    /\ UNCHANGED <<bitmap, total_frames, free_frames, booting, reserved,
                   owners, pos, raced>>

(* The whole bitmap is full: NULL.                                         *)
alloc_none ==
    /\ shellPc = "scan" /\ pos = MAX_FRAMES
    /\ shellPc' = "idle"
    /\ UNCHANGED <<bitmap, total_frames, free_frames, booting, reserved,
                   owners, pos, raced>>

alloc_take ==
    /\ shellPc = "take"
    /\ Take(pos, "shell")
    /\ shellPc' = "idle"
    /\ UNCHANGED <<total_frames, booting, reserved, pos, raced>>

(* pmm_free by a holder; a clear bit is the double-free guard.             *)
pmm_free(f, a) ==
    /\ a \in owners[f]
    /\ a = "shell" => shellPc = "idle"
    /\ owners' = [owners EXCEPT ![f] = @ \ {a}]
    /\ bitmap' = bitmap \ {f}
    /\ free_frames' = IF f \in bitmap THEN (free_frames + 1) % WORD
                                   ELSE free_frames
    /\ UNCHANGED <<total_frames, booting, reserved, shellPc, pos, raced>>

Next ==
    \/ \E r \in Regions : pmm_reserve(r)
    \/ boot_done
    \/ \E f \in Frame : sys_alloc(f)
    \/ alloc_start
    \/ alloc_next
    \/ alloc_found
    \/ alloc_none
    \/ alloc_take
    \/ \E f \in Frame, a \in Actor : pmm_free(f, a)

Spec == Init /\ [][Next]_vars
-----------------------------------------------------------------------------
(* Types of the bitmap and the counters (pmm.c:13-16).                     *)
TypeOK ==
    /\ bitmap \subseteq Frame
    /\ total_frames \in 0 .. MAX_FRAMES
    /\ free_frames \in 0 .. WORD - 1
    /\ booting \in BOOLEAN
    /\ reserved \subseteq Regions
    /\ owners \in [Frame -> SUBSET Actor]
    /\ shellPc \in {"idle", "scan", "take"}
    /\ pos \in 0 .. MAX_FRAMES
    /\ raced \in BOOLEAN

(* What holds besides the types in every state: during boot nobody holds a *)
(* frame; a clear bit is a usable, unreserved frame; the shell takes a     *)
(* frame inside the memory that is not reserved.                           *)
BitmapInv ==
    /\ TypeOK
    /\ booting => shellPc = "idle" /\ owners = [f \in Frame |-> {}]
    /\ \A f \in Clear : f \in Usable(total_frames)
    /\ \A r \in reserved : \A f \in Covered(r) : f \in bitmap /\ owners[f] = {}
    /\ \A f \in Frame : owners[f] # {} => f \in Usable(total_frames)
    /\ shellPc = "take" =>
         /\ pos \in Usable(total_frames)
         /\ \A r \in reserved : pos \notin Covered(r)

(* And as long as no system call took the frame the shell had just found.  *)
OwnerInv ==
    /\ \A f \in Frame : owners[f] # {} => f \in bitmap
    /\ \A f \in Frame, a, b \in Actor :
          a \in owners[f] /\ b \in owners[f] => a = b
    /\ shellPc = "take" => pos \notin bitmap
    /\ free_frames = Cardinality(Clear)

(* The inductive invariant of the frame allocator. *)
PmmInv == BitmapInv /\ (~raced => OwnerInv)

(* No frame has two holders, and no held frame is still free to be handed  *)
(* out, unless the shell was preempted between finding a clear bit and     *)
(* setting it (pmm_alloc, pmm.c:72-78).                                    *)
Exclusive ==
    ~raced => \A f \in Frame :
        /\ \A a, b \in Actor : a \in owners[f] /\ b \in owners[f] => a = b
        /\ owners[f] # {} => f \in bitmap

(* free_frames, which pmm_free_pages reports, is the number of clear bits  *)
(* through every order of reservations, which may overlap, allocations and *)
(* frees.                                                                  *)
CountExact == ~raced => free_frames = Cardinality(Clear)

(* No address of a region reserved at boot (the kernel image, the holes of *)
(* the memory map) lies in a frame that somebody got from pmm_alloc, even  *)
(* when the region is not aligned to frames and even after a race          *)
(* (pmm_reserve, pmm.c:55).                                                *)
ReservedSafe ==
    \A f \in Frame : owners[f] # {} =>
        \A r \in reserved :
            \A x \in r[1] .. r[1] + r[2] - 1 : x \div PAGE_SIZE # f
=============================================================================
