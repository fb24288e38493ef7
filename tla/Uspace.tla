------------------------------- MODULE Uspace -------------------------------
(***************************************************************************)
(* The address spaces of user programs (mm/uspace.c, mm/vmm.c, SYS_BRK,    *)
(* SYS_MMAP, SYS_MUNMAP, SYS_TASK_CREATE and SYS_EXECVE of                 *)
(* kernel/syscall.c, kernel/elf_load.c): page tables that threads share,   *)
(* and the frames they take from the allocator (module Pmm).               *)
(*                                                                         *)
(* A system call is one step, but for execve, whose steps nobody comes     *)
(* between.  The shell loads a program in the same steps with interrupts   *)
(* enabled.  A page table is a function from pages to frames; the tables   *)
(* between its root and the pages are left out, since running out of       *)
(* frames for them panics.  Addresses are in pages.  Mappings of shared    *)
(* memory are in module Shm.                                               *)
(***************************************************************************)
EXTENDS Integers, Sequences, FiniteSets

CONSTANTS
    Task,           \* slots of the task table for user tasks
    Frames,         \* physical frames
    Pages,          \* pages below this one are used (a bound)
    MMAP_BASE,      \* first page of mappings: 0x40000000
    STACK_BASE, STACK_PAGES, \* the stack: VNL_USER_STACK_BASE, ..._PAGES
    THREAD_PAGES,   \* the stack of a thread: 32 KB
    Loads,          \* what the programs do: the files they are loaded from
                    \* (progs: their segments), their calls (ops), the
                    \* lengths of mappings (lens), the addresses they name
                    \* (at) and the ends of their data (breaks)
    Held,           \* frames of a shared memory object
    NONE            \* no frame, no program

(* A segment: its first page, its length, and whether it ends behind the   *)
(* file.  A file whose header is bad has a first segment with no page that *)
(* does.                                                                   *)
Segments == {s \in [at : Nat, n : Nat, short : BOOLEAN] : s.at + s.n <= Pages}

ASSUME UspaceAssumption ==
    /\ Frames \in Nat /\ Pages \in Nat /\ Held \subseteq 1 .. Frames
    /\ Task \subseteq Nat \ {0}
    /\ STACK_BASE \in Nat /\ STACK_PAGES \in Nat
    /\ MMAP_BASE \in 0 .. STACK_BASE
    /\ STACK_BASE + STACK_PAGES <= Pages
    /\ THREAD_PAGES \in Nat \ {0}
    /\ NONE \notin 1 .. Frames
    /\ \A w \in Loads :
          /\ \A p \in w.progs : p \in Seq(Segments)
          /\ w.lens \subseteq Nat \ {0} /\ w.at \subseteq Nat
          /\ w.breaks \subseteq Nat

AllFrames == 1 .. Frames
Page == 0 .. Pages - 1

(* Who loads programs: the shell, which is task 0, and a task's execve.    *)
SHELL == 0
Loader == {SHELL} \cup Task

VARIABLES
    load,           \* what the programs of this behaviour do
    free,           \* frames of the allocator
    held,           \* frames of the shared memory object
    pt,             \* the page table with its root in a frame
    task,           \* slots in use, and not dead
    made,           \* slots ever used: num_tasks
    cr3, brk_start, brk_end, mmap_next, \* of each task
    pc, root, prog, seg, max_end, \* of each loader
    lost,           \* frames in use that no page table reaches (history)
    excuse          \* per root, what may have mapped a page twice (history)

spaces == <<cr3, brk_start, brk_end, mmap_next>>
loaders == <<pc, root, prog, seg, max_end>>
spaceVars == <<load, free, held, pt, task, made, spaces, loaders, lost,
               excuse>>

Empty == [p \in Page |-> NONE]

SpaceInit ==
    /\ load \in Loads
    /\ free = AllFrames \ Held /\ held = Held /\ lost = {}
    /\ pt = [r \in AllFrames |-> Empty]
    /\ excuse = [r \in AllFrames |-> {}]
    /\ task = {} /\ made = {}
    /\ cr3 = [t \in Task |-> NONE]
    /\ brk_start = [t \in Task |-> 0] /\ brk_end = [t \in Task |-> 0]
    /\ mmap_next = [t \in Task |-> 0]
    /\ pc = [l \in Loader |-> "idle"] /\ root = [l \in Loader |-> NONE]
    /\ prog = [l \in Loader |-> <<>>] /\ seg = [l \in Loader |-> 0]
    /\ max_end = [l \in Loader |-> 0]
-----------------------------------------------------------------------------
(* Frames are taken in the order of the bitmap.                            *)
Nth(S, j) == CHOOSE f \in S : Cardinality({g \in S : g < f}) = j

Area(a, n) == a .. a + n - 1

(* The loops of pmm_alloc and vmm_map_in_pml4: n pages from a on, in a     *)
(* table, until the frames of S end.                                       *)
Count(S, n) == IF n <= Cardinality(S) THEN n ELSE Cardinality(S)
Filled(table, S, a, n) ==
    [p \in Page |-> IF p \in Area(a, Count(S, n)) THEN Nth(S, p - a)
                                                  ELSE table[p]]

Cleared(table, a, n) ==
    [p \in Page |-> IF p \in Area(a, n) THEN NONE ELSE table[p]]

Fits(n) == n <= Cardinality(free)
InUse(table) == {table[p] : p \in Page} \ {NONE}

(* The memory when a call gives the table with root r new entries: frames  *)
(* that it had, and those that are left behind, are lost.                  *)
Becomes(r, new, left) ==
    /\ pt' = [pt EXCEPT ![r] = new]
    /\ free' = free \ InUse(new)
    /\ lost' = lost \cup (InUse(pt[r]) \ InUse(new)) \cup left

Excused(r, why) == excuse' = [excuse EXCEPT ![r] = @ \cup why]

(* An area of n pages from a on ends behind its limit.                     *)
Past(a, n, limit) == IF n > 0 /\ a + n > limit THEN {"areas"} ELSE {}

(* SYS_BRK: pages that are there when memory ends stay, and brk_end too.   *)
sys_brk(t, nb) ==
    /\ t \in task /\ brk_start[t] > 0 /\ nb >= brk_start[t] /\ nb <= Pages
    /\ LET n == IF nb > brk_end[t] THEN nb - brk_end[t] ELSE 0
       IN  /\ Becomes(cr3[t], Filled(pt[cr3[t]], free, brk_end[t], n), {})
           /\ brk_end' = IF Fits(n) THEN [brk_end EXCEPT ![t] = nb]
                                    ELSE brk_end
           /\ Excused(cr3[t], Past(brk_end[t], n, MMAP_BASE) \cup
                 (IF Fits(n) /\ nb >= brk_end[t] THEN {} ELSE {"brk"}))
    /\ UNCHANGED <<task, made, cr3, brk_start, mmap_next, loaders>>

(* Mutant: a mapping that fails is not skipped. *)
NextArea_Mutant(va, n, ok) == IF ok THEN va + n ELSE va

(* mmap_next moves before the frames are asked for.                        *)
NextArea(va, n, ok) == va + n

(* An anonymous SYS_MMAP: what is mapped when memory ends stays.           *)
sys_mmap(t, n) ==
    /\ t \in task /\ mmap_next[t] + n <= Pages
    /\ Becomes(cr3[t], Filled(pt[cr3[t]], free, mmap_next[t], n), {})
    /\ mmap_next' = [mmap_next EXCEPT ![t] = NextArea(@, n, Fits(n))]
    /\ Excused(cr3[t], Past(mmap_next[t], n, STACK_BASE))
    /\ UNCHANGED <<task, made, cr3, brk_start, brk_end, loaders>>

(* SYS_MMAP with an offset, or of no file: the address is gone too.        *)
mmap_refused(t, n) ==
    /\ t \in task /\ mmap_next[t] + n <= Pages
    /\ mmap_next' = [mmap_next EXCEPT ![t] = NextArea(@, n, FALSE)]
    /\ UNCHANGED <<free, pt, task, made, cr3, brk_start, brk_end, loaders,
                   lost, excuse>>

mmap_fixed(t, a, n) ==
    /\ t \in task /\ a + n <= Pages
    /\ Becomes(cr3[t], Filled(pt[cr3[t]], free, a, n), {})
    /\ Excused(cr3[t], {"fixed"})
    /\ UNCHANGED <<task, made, spaces, loaders>>

(* SYS_MUNMAP clears the entries and gives no frame back.                  *)
sys_munmap(t, a, n) ==
    /\ t \in task
    /\ Becomes(cr3[t], Cleared(pt[cr3[t]], a, n), {})
    /\ UNCHANGED <<task, made, spaces, loaders, excuse>>
-----------------------------------------------------------------------------
Reached(r) == {r} \cup InUse(pt[r])

(* The frames of the space of t, when t is the last task in it.            *)
Alone(t) == \A u \in task \ {t} : cr3[u] # cr3[t]
Left(t) == IF Alone(t) THEN Reached(cr3[t]) ELSE {}

(* task_create_user: the next slot, with a first mapping area of its own   *)
(* at the same address as every other task's.                              *)
Slot(t) == t \in Task \ made /\ \A u \in Task \ made : t <= u
task_create_user(t, r, start, end) ==
    /\ Slot(t)
    /\ task' = task \cup {t} /\ made' = made \cup {t}
    /\ cr3' = [cr3 EXCEPT ![t] = r]
    /\ brk_start' = [brk_start EXCEPT ![t] = start]
    /\ brk_end' = [brk_end EXCEPT ![t] = end]

(* SYS_TASK_CREATE: a stack from the creator's mapping area, then a task   *)
(* in the same space.  The stack stays when one of them fails: the table   *)
(* is full, or there is no kernel memory for the task.                     *)
sys_task_create(t) ==
    /\ t \in task /\ mmap_next[t] + THREAD_PAGES <= Pages
    /\ Becomes(cr3[t],
               Filled(pt[cr3[t]], free, mmap_next[t], THREAD_PAGES), {})
    /\ LET next == [mmap_next EXCEPT ![t] = @ + THREAD_PAGES]
           past == Past(mmap_next[t], THREAD_PAGES, STACK_BASE)
       IN  \/ /\ Fits(THREAD_PAGES)
              /\ \E u \in Task :
                    /\ task_create_user(u, cr3[t], brk_start[t], brk_end[t])
                    /\ mmap_next' = [next EXCEPT ![u] = MMAP_BASE]
              /\ Excused(cr3[t], {"threads"} \cup past)
           \/ /\ mmap_next' = next
              /\ Excused(cr3[t], past)
              /\ UNCHANGED <<task, made, cr3, brk_start, brk_end>>
    /\ UNCHANGED loaders

(* SYS_EXIT, or the shell's kill.                                          *)
task_exit(t) ==
    /\ t \in task
    /\ task' = task \ {t}
    /\ lost' = lost \cup Left(t)
    /\ UNCHANGED <<free, pt, made, spaces, loaders, excuse>>
-----------------------------------------------------------------------------
(* vnl_spawn_elf_path and SYS_EXECVE: a new page table, one frame for its  *)
(* root...                                                                 *)
NewRoot == Nth(free, 0)
load_root(l, p) ==
    /\ pc[l] = "idle" /\ free # {}
    /\ pc' = [pc EXCEPT ![l] = "load"]
    /\ root' = [root EXCEPT ![l] = NewRoot]
    /\ prog' = [prog EXCEPT ![l] = p] /\ seg' = [seg EXCEPT ![l] = 1]
    /\ free' = free \ {NewRoot}
    /\ UNCHANGED <<pt, task, made, spaces, max_end, lost, excuse>>

(* The call returns.                                                       *)
load_end(l) ==
    /\ pc' = [pc EXCEPT ![l] = "idle"] /\ root' = [root EXCEPT ![l] = NONE]
    /\ prog' = [prog EXCEPT ![l] = <<>>] /\ seg' = [seg EXCEPT ![l] = 0]
    /\ max_end' = [max_end EXCEPT ![l] = 0]

(* Mutant: the new table is installed before the program is loaded. *)
KeptTable_Mutant(l) == IF l = SHELL THEN cr3 ELSE [cr3 EXCEPT ![l] = root[l]]

(* The tables of the tasks when a load fails.                              *)
KeptTable(l) == cr3

(* The call fails: the new space is left, not taken apart.                 *)
load_fails(l, new) ==
    /\ Becomes(root[l], new, {root[l]} \cup InUse(new))
    /\ cr3' = KeptTable(l)
    /\ load_end(l)

(* ...the segments (elf_load_exec), each with new frames, also for a page  *)
(* that it shares with one before...                                       *)
Later(a, b) == IF a > b THEN a ELSE b
Shares(l, s) == \E j \in 1 .. seg[l] - 1 :
    Area(prog[l][j].at, prog[l][j].n) \cap Area(s.at, s.n) # {}

load_segment(l) ==
    /\ pc[l] = "load" /\ seg[l] <= Len(prog[l])
    /\ LET s == prog[l][seg[l]]
           new == Filled(pt[root[l]], free, s.at, s.n)
       IN  /\ \/ /\ Fits(s.n) /\ ~s.short
                 /\ Becomes(root[l], new, {})
                 /\ seg' = [seg EXCEPT ![l] = @ + 1]
                 /\ max_end' = [max_end EXCEPT ![l] = Later(@, s.at + s.n)]
                 /\ UNCHANGED <<pc, root, prog, cr3>>
              \/ ~(Fits(s.n) /\ ~s.short) /\ load_fails(l, new)
           /\ Excused(root[l], Past(s.at, s.n, MMAP_BASE) \cup
                         (IF Shares(l, s) THEN {"segments"} ELSE {}))
    /\ UNCHANGED <<task, made, brk_start, brk_end, mmap_next>>

(* ...the stack...                                                         *)
load_stack(l) ==
    /\ pc[l] = "load" /\ seg[l] > Len(prog[l])
    /\ LET new == Filled(pt[root[l]], free, STACK_BASE, STACK_PAGES)
       IN  \/ /\ Fits(STACK_PAGES)
              /\ Becomes(root[l], new, {})
              /\ pc' = [pc EXCEPT ![l] = "task"]
              /\ UNCHANGED <<root, prog, seg, max_end, cr3>>
           \/ ~Fits(STACK_PAGES) /\ load_fails(l, new)
    /\ UNCHANGED <<task, made, brk_start, brk_end, mmap_next, excuse>>

(* ...and the task, if the table and the kernel's memory have room...      *)
spawn_task ==
    /\ pc[SHELL] = "task"
    /\ \/ /\ \E t \in Task :
                /\ task_create_user(t, root[SHELL], max_end[SHELL],
                                    max_end[SHELL])
                /\ mmap_next' = [mmap_next EXCEPT ![t] = MMAP_BASE]
          /\ UNCHANGED lost
       \/ /\ lost' = lost \cup Reached(root[SHELL])
          /\ UNCHANGED <<task, made, spaces>>
    /\ load_end(SHELL)
    /\ UNCHANGED <<free, pt, excuse>>

(* ...or the caller of execve in its new space.  The old one is left, not  *)
(* taken apart.                                                            *)
exec_done(t) ==
    /\ pc[t] = "task"
    /\ cr3' = [cr3 EXCEPT ![t] = root[t]]
    /\ brk_start' = [brk_start EXCEPT ![t] = max_end[t]]
    /\ brk_end' = [brk_end EXCEPT ![t] = max_end[t]]
    /\ mmap_next' = [mmap_next EXCEPT ![t] = MMAP_BASE]
    /\ lost' = lost \cup Left(t)
    /\ load_end(t)
    /\ UNCHANGED <<free, pt, task, made, excuse>>

(* The object is released: the only frames that come back (module Shm).    *)
shm_release ==
    /\ held # {}
    /\ free' = free \cup held /\ held' = {}
    /\ UNCHANGED <<pt, task, made, spaces, loaders, lost, excuse>>
-----------------------------------------------------------------------------
Call(t) ==
    \/ "brk" \in load.ops /\ \E nb \in load.breaks : sys_brk(t, nb)
    \/ "mmap" \in load.ops /\
          \E n \in load.lens : sys_mmap(t, n) \/ mmap_refused(t, n)
    \/ "fixed" \in load.ops /\
          \E a \in load.at, n \in load.lens : mmap_fixed(t, a, n)
    \/ "munmap" \in load.ops /\
          \E a \in load.at, n \in load.lens : sys_munmap(t, a, n)
    \/ "thread" \in load.ops /\ sys_task_create(t)
    \/ "exec" \in load.ops /\ t \in task /\
          \E p \in load.progs : load_root(t, p)
    \/ task_exit(t)

Loading(l) == load_segment(l) \/ load_stack(l)
Shell == (\E p \in load.progs : load_root(SHELL, p)) \/ Loading(SHELL)
         \/ spawn_task

(* An execve that was begun is ended before anyone else runs.              *)
SpaceNext ==
    /\ \/ /\ \A t \in Task : pc[t] = "idle"
          /\ \/ ((\E t \in Task : Call(t)) \/ Shell) /\ UNCHANGED held
             \/ shm_release
       \/ (\E t \in Task : Loading(t) \/ exec_done(t)) /\ UNCHANGED held
    /\ UNCHANGED load

SpaceSpec == SpaceInit /\ [][SpaceNext]_spaceVars
-----------------------------------------------------------------------------
Live == {cr3[t] : t \in task} \cup ({root[l] : l \in Loader} \ {NONE})

(* Every frame is free, in exactly one place of one page table that a task *)
(* or a loader uses, or lost, and the ways to lose one are: munmap, a page *)
(* mapped twice, the end of the last task of a space, and a load or an     *)
(* execve that fails, or succeeds in the last task of a space              *)
(* (syscall.c:244, 289, 351, 394 and 503-529, elf_load.c:87 and 131-152).  *)
(* So a call that fails in the middle leaves the spaces of the others as   *)
(* they were.                                                              *)
FramesKept ==
    /\ UNION {Reached(r) : r \in Live} = AllFrames \ (free \cup held \cup lost)
    /\ free \cap lost = {} /\ held \cap (free \cup lost) = {}
    /\ \A r, s \in Live : r # s => Reached(r) \cap Reached(s) = {}
    /\ \A r \in Live : \A p, q \in Page : pt[r][p] # NONE =>
          pt[r][p] # r /\ (pt[r][p] = pt[r][q] => p = q)

(* A page in use is never mapped again over what it holds, unless the      *)
(* space has threads, which map from the same address (sched.c:186), the   *)
(* break was moved back, failed half way, or ran into the mappings         *)
(* (syscall.c:240-252), a mapping is fixed or runs into the stack, or a    *)
(* segment shares a page with one before or reaches into the mappings      *)
(* (elf_load.c:86).                                                        *)
NoClobber ==
    [][\A r \in AllFrames, p \in Page :
          pt[r][p] # NONE /\ pt'[r][p] \notin {pt[r][p], NONE} =>
              excuse'[r] # {}]_spaceVars
=============================================================================
