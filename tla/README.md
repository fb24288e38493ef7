# A TLA+ verification project for the VNL kernel

VNL is a small x86-64 kernel with a shell, a preemptive scheduler, a frame
allocator, a heap, an in-memory file system, AF_UNIX sockets and user programs.
These modules model the parts where concurrency and long call sequences decide
whether the kernel is correct. Paths such as `sched.c:175` are below
`src/src/`; `PROJECT.json` has the exact source lines of every definition.

## 1. How the system runs

The facts about execution that every module uses:

* One CPU. `idt_set_gate` installs every vector as an interrupt gate, so
  handlers and system calls (`int 0x80`) run with IF = 0 and nothing
  interleaves with them, until they call `task_sleep`: it executes
  `sti; int 0x81`, and when the task is resumed the rest of the call runs with
  IF = 1.
* Task 0, the boot thread, becomes the shell. It calls the same kernel
  functions with IF = 1: the 1 ms timer may preempt it between any two
  instructions.
* There are no locks.

So the interleavings to study are: system calls of user tasks inside a
preempted function of the shell, and blocking system calls that have slept.

### Components

| Component | State | Operations | Hard behaviour | What makes it correct |
|---|---|---|---|---|
| Scheduler (`kernel/sched.c`, `cpu/sched.asm`) | task table, `num_tasks`, `current_idx`, `next_pid`, `tick_count` | tick, yield, sleep, exit, create, wait for a pid | ticks at any point of the shell; nobody ready; creation preempted | one running task; no starvation; sleepers wake; dead tasks stay dead; a pid names one task |
| Frame allocator (`mm/pmm.c`) | bitmap, `total_frames`, `free_frames` | init, reserve, alloc, free | shell preempted inside the scan; unaligned and overlapping reservations | a frame has one owner; the count is exact; reserved memory is never given out |
| Heap (`mm/heap.c`) | blocks, free list, `heap_end` | kmalloc, krealloc, kfree, expansion | shell preempted inside; long sequences of split and merge | payloads disjoint; list exact; no leak; the retry ends |
| AF_UNIX sockets (`net/un_socket.c`) | 24 sockets with peer, ring, queue, path | socket, pair, bind, listen, connect, accept, read, write, close, fcntl, eventfd, sendmsg, recvmsg, poll | calls that sleep while others close, connect and reuse slots | peers paired; FIFO rings; no slot lost; hang-up wakes readers |
| System calls, epoll (`kernel/syscall.c`) | epoll instances, a static event array | dispatch, epoll, brk, mmap, execve | `hlt` with IF = 0; waits that sleep; lists that change under a scan; partial failure | progress; a wait gets its own events and ends |
| File system (`fs/vfs.c`, `fs/devfs.c`) | nodes, descriptors, inode numbers | mkdir, open, close, dup, read, write, seek, truncate, unlink | unlink and truncate while open; the shell preempted inside an open | the tree is a tree; descriptors stay with their file and owner; reads stay inside |
| Shared memory (`kernel/shm.c`) | objects and their frames | open, truncate, read, write, map, destroy | frames run out in the middle; destroyed while mapped or open | tables of pages exact; no frame lost or shared; a name leads to its own object |
| Address spaces (`mm/vmm.c`, `mm/uspace.c`, `kernel/uaccess.c`) | page tables, `brk_end`, `mmap_next` | brk, mmap, munmap, thread stacks | threads share a table, not `mmap_next`; memory ends in the middle of a call | mappings do not replace one another; every frame accounted for |
| Program loading (`kernel/elf_load.c`, `kernel/user_task.c`) | none of its own | load, spawn, execve | failure in the middle | the caller keeps its space |
| Keyboard, mouse (`drivers/`) | rings, decoder state, packet | interrupt, poll, flush | one data port for both handlers; interrupted readers | FIFO, nothing overwritten; packets whole; shift does not stick |
| Shell (`shell/shell.c`), scripts (`shell/sh.c`) | line buffer, variables, functions | readline, run, wait, kill, sleep; blocks, loops | waits for children and keys while being preempted | comes back when the child ends, or a key is there |
| Console redirection (`lib/printf.c`) | one buffer | redirect, reset | nested use | output reaches its reader |
| Boot, display, PCI, ACPI, network card, installer, packages, games, libraries, `userspace/`, `ports/` | | | | not modelled, section 8 |

Interactions: system calls and the shell call the scheduler, the allocator, the
heap, sockets and the file system directly, over shared global state; the timer
and the keyboard reach them through interrupts. A task creation takes its
kernel stack from the heap; the heap takes its pages from the frame allocator;
a blocked socket call is woken by the scheduler's tick; `unix_bind` creates a
file; `sendmsg` duplicates descriptors of the file system; epoll polls sockets.

## 2. Modules

| Module | Content |
|---|---|
| `Sched` | the scheduler with its callers in the shell and in system calls |
| `SchedProofs` | its type invariant, inductive invariant and safety theorems |
| `Pmm` | the frame allocator |
| `Heap`, `HeapProofs` | the kernel heap and its theorems |
| `UnixSocket` | the sockets |
| `UnixMsg` | extends `UnixSocket` with messages that carry descriptors |
| `SocketProofs` | the theorems about both: pairs, paths, rings, slots, files, and that `UnixMsg` implements `UnixSocket` |
| `Shm`, `ShmProofs` | shared memory objects with the files and descriptors that reach them, and their theorems |
| `LossyQueue` | what an input queue promises: an abstract specification |
| `Input`, `InputProofs` | keyboard and mouse drivers with their readers; each ring implements `LossyQueue`; their theorems |
| `Epoll`, `EpollProofs` | epoll instances and waits, and their theorems |
| `Vfs`, `VfsProofs` | directories, regular files and descriptors, and their theorems |
| `Uspace` | page tables, breaks, mappings, threads, program loading |
| `MemoryProofs` | the theorems about `Pmm` and `Uspace`, and the link between them |
| `MCSched`, `MCPmm`, `MCHeap`, `MCSocket`, `MCMsg`, `MCShm`, `MCInput`, `MCEpoll`, `MCVfs`, `MCUspace` | constant values for TLC |

Each module's variables carry the names of the C variables; actions carry the
names of the functions. A function that can be preempted is split at its
accesses to shared state, and the parts are named after it (`spawn_check`,
`alloc_take`, `accept_shift`...). A program counter says where the caller is.

**Sched.** `state`, `pid` and `ticksLeft` are fields of `tasks[]`. The code only
compares `sleep_until` with `tick_count`, so the model keeps their difference.
The table has one slot more than `MAX_TASKS`: the memory behind it, which the
code reaches when two creations overlap. `do_switch` is an operator on the
states that its caller has already changed, because `task_sleep`, `task_exit`
and the tick all change the current task's state, or wake sleepers, before they
call it. `irqOn` is IF of the executing code: it becomes FALSE in
`sys_read_stdin`, where the kernel halts inside an interrupt gate.
`given` and `overlapped` are history variables.

**Pmm.** The bitmap is the set of frames whose bit is set. A system call's
`pmm_alloc` is one step; the shell's is a scan with a step per bit, then a step
that sets the bit. The counter is unsigned and wraps at `WORD`. Reservations
are made of addresses, not frames, so that rounding is part of the model.

**Heap.** `blk` maps the address of each header to its fields; sizes count
units of 8 bytes. kmalloc is: round up and read the list head; one step per
block that is too small; unlink; split or mark. kfree is: assertion and mark;
merge and insert. `krealloc` is a kmalloc whose caller then frees.
A system call runs these steps with nobody in between (`Turn`).
`kcalloc` is a kmalloc and memset.

**UnixSocket.** The fields of `USock` are one function each. A call is one step
until it sleeps; then the test of its loop, and what follows the loop, are
separate steps, because IF is 1 by then. A failing call without an effect is no
step; a failing `bind`, which leaves its path behind, and a refused connect,
which takes a slot and gives it back, are. `open` says which descriptors
programs know: the code has one descriptor space for all tasks. `pending` is
the queue the ring should be.

**Shm.** `used`, `name`, `size` and `pages` are the fields of `ShmObject`; `node`
is the device number of the file of each name, `file` and `offset` are the
descriptors. An inode is never used again, so `unlink` makes every descriptor
of the file stale at once. `PagesOf` is the rounding of `shm_truncate` in
`size_t` with its wrap-around. Growing is one step that succeeds
(`shm_truncate`) or one that runs out of frames and undoes its work
(`truncate_oom`). An open that fails after it has created the object is a step
too. The frame allocator is a set of free frames from which other parts of the
kernel take and give back.

**UnixMsg.** `fds_rx` is the descriptor ring of a socket as a sequence of at most
`FDS_CAP` - 1 items, files or sockets; `vfs` are the file descriptors in use
(module Vfs), `known` those a program can name. `sendmsg` writes its data as
`unix_sock_write` does, then duplicates and queues its descriptors one by one:
`Arrives` says what of a message the loop has queued when it ends, each
duplicate being the least number free after the earlier ones (`Dup`);
`recvmsg` reads as `unix_sock_read` does, and takes the descriptors at once, or,
when it has slept, in two steps each. The calls are built from the actions of
`UnixSocket`, so `MsgSpec => Spec` is a theorem about them.

**Input.** One controller holds one byte, `obf`, of the keyboard or the mouse,
with two interrupt lines. A handler reads bytes while there are some (`left`
bounds how many), decodes them and pushes to the rings. The shell's
`keyboard_poll`, `keyboard_getkey` and `mouse_flush` are cut at each access to a
ring; `user_read` is a read of `/dev/input` by a program. `Held` and `Delivered`
map a ring to the state of `LossyQueue` (`INSTANCE ... WITH`).

**Epoll.** `fds` is the list of each instance; `out_events` the static array.
The first scan of a wait runs in the system call and is one step; after a sleep
the read of an entry and its poll are two steps. A socket becomes ready
and not by `SocketEvent`, which stands for `unix_sock_poll`; a file always is.

**Vfs.** `nodes`, `next_inode`, `vfs_cwd` and `fds` are the C variables. A path is
a list of components, and a long component is the pieces `vfs_resolve` takes it
apart into. The data of a file is, for each byte, whether a program wrote it;
`holed` are the files (by their number in `born`, not by their slot or inode)
that were extended over bytes nobody wrote, `past` the descriptors that were
sought past the end or whose file was cut under them.
A system call is one step; the shell's `vfs_open` and `vfs_write` are cut.
`MaxInode` bounds the nodes ever created.

**Uspace.** `pt` maps a page to a frame for each root. `Filled` is the loop of
`pmm_alloc` and `vmm_map_in_pml4` that every call contains: the next frames of the
bitmap on the next pages, until the pages or the frames end. A program is loaded
in steps: the root (`load_root`), one segment at a time (`load_segment`), the
stack (`load_stack`), and then a task (`spawn_task`) or the caller's new space
(`exec_done`). The shell takes these steps with system calls in between; the same
steps of an execve come with nobody in between. A load may fail at each of them
(`load_fails`): no frame for the root, none for a page, a segment that is not in
the file, no slot or no kernel stack for the task. `mmap_next` moves also when a
call is refused (`mmap_refused`). `shm_release` is the only way frames come back: no
other code calls `pmm_free`. `lost` is the history of frames in use that no table
reaches, and `excuse` tells which of the ways to map a page twice a space has been
through. `elf_load_exec` has no upper limit for segments, so a program whose
segments reach into the mappings is one of them.

In `UnixMsg`, `Input`, `Vfs` and `Uspace` the variable `load` picks, at the start of
a behaviour, which of the calls its programs make: the product of all of them is
too large for TLC, and the loads put together what interferes.

### Histories in place of wishes

Some invariants fail after a race that the code does not exclude. Each such
race sets a history variable at the step where it happens, and the invariants
say what holds until then:

| Variable | Set when | Consequence in the code |
|---|---|---|
| `overlapped` (Sched) | a system call creates a task inside the shell's `task_create_user` | both take one slot; `num_tasks` may pass `MAX_TASKS` |
| `raced` (Pmm) | a system call takes the frame the shell has just found | two owners, a wrong count |
| `raced` (Heap) | a system call uses the heap while the shell is inside | a block handed out twice |
| `pulled` (UnixSocket) | a socket is closed under a blocked call | the call may sleep for ever |
| `orphaned` (UnixSocket) | a listener is closed with connections waiting | their slots are lost |
| `raced` (UnixSocket) | two tasks pass the loop of accept for one connection | a connection skipped, or `memmove` with a negative size |
| `pulled` (Shm) | an object is cut or destroyed while a program has the pages mapped | the program keeps access to frames that belong to others |
| `wrapped` (Shm) | `ftruncate` with a negative length | the size is huge and the table empty: reads fail or look past `pages[]` |
| `shared` (UnixMsg) | two tasks that slept in `recvmsg` take descriptors from one ring, or it is closed under one | a descriptor given twice, or a closed one; the model stops |
| `raced` (Input) | a program reads a ring while the shell is inside its poll | an item delivered twice or lost |
| `keyLost`, `moveLost` (Input) | a handler, or `mouse_flush`, reads and drops a byte of the other device | a release or a third of a packet is missing |
| `mixed` (Epoll) | another wait stores events in the static array | a task gets events of another |
| `shifted` (Epoll) | the list changes between the two reads of an entry | the data of another descriptor, or of none |
| `raced` (Vfs) | a program opens or creates inside an open of the shell | one descriptor, slot or inode number for two |
| `excuse` (Uspace) | threads; a break that fails, moves back or runs into the mappings; a fixed mapping; mappings that run into the stack; segments that share a page or reach into the mappings | a page in use is replaced, with what it holds |

Two of these were found to contradict the code's own words. The comment at
`sched.c:86` restricts the return of `do_switch` to tasks that are not
"dead/sleeping", but with nobody else ready it returns to a task that has just
put itself to sleep, and the shell's `sleep` ends at once: `CurrentRuns` excludes
behaviours in which the shell sleeps. `ASSERT(blk_used(h))` of `kfree` (`heap.c:177`)
fails after `raced` (Heap), for a caller that frees its own pointer once;
`PayloadsDisjoint` contains the assertion and shows that it holds otherwise.
After `overlapped`, `num_tasks` may pass `MAX_TASKS` by one.

`ReservedSafe`, `PeersPaired`, `PathsUnique`, `RingIsFifo`, `PagesExact`,
`FramesAccounted`, `NodesReachObjects`, `FramesKept`, `BytesWritten` and
`SleepsNoLonger` hold without a condition on races.

## 3. Runs

| Run | Properties | Bounds and why they are enough |
|---|---|---|
| `sched_safety` | `CurrentRuns`, `OneRunner`, `PidsKnown`, `DeadIsForever` | four slots: the shell, two user tasks and a creation in progress at the end of the table, all interleaved; sleeps of 1 and 2 ticks and one whose deadline wraps |
| `sched_live` | `SleepersWake`, `ReadyRuns`, `WaitReturns` | three slots; the last slot of a table that still grows; sleepers with different deadlines, one of them wrapped; the shell sleeps too, so that nobody may be ready |
| `sched_stdin` | `ReadyRuns` (violated) | the shell and one reader |
| `pmm` | `Exclusive`, `CountExact`, `ReservedSafe` | five frames: below 1 MiB, usable, and behind the end of memory; regions that overlap, end inside a frame and reach past the end; memory smaller and larger than the bitmap |
| `heap` | `HeapInv`, `PayloadsDisjoint`, `FreeListExact`, `OneExpansion` | pages of 8 units, two at first and five at most, so that there is one expansion before memory ends; requests below and above the minimum block; three pointers held, so that a merge has neighbours on both sides. `RaceBound` follows a heap that has been raced on only until it is expanded: nothing but types is stated of it |
| `socket_connect` | `PeersPaired`, `PathsUnique`, `NoSlotLost` | four slots (listener, client, waiting connection, and the one that is refused by a queue of one), two tasks that accept and read |
| `socket_msg` | `RingIsFifo`, `FilesOwned`, `HangupReturns` | two slots, rings of three bytes (two fit) and three descriptors (two fit), two file descriptors: empty, full, wrapped and partial transfers, duplicates that cannot be made, rings that are full in the middle of a message |
| `shm` | `PagesExact`, `FramesAccounted`, `NodesReachObjects`, `BytesBacked`, `MappedStaysShared` | two slots and two names, so that a slot is used again for another name; two pages of two bytes and sizes that fill a page or do not; three frames, one less than both objects can hold; a length that wraps |
| `input` | `RingsAreQueues`, `PacketsWhole`, `ShiftReleased`, `GetkeyReturns` | rings of two and three places, one byte per interrupt; nine loads, listed in `MCInput` |
| `epoll` | `OwnEvents`, `NamesPolled`, `SleepsNoLonger`, `WaitEnds` | one instance of two entries, two tasks, a socket and a file; timeouts negative, zero and one tick |
| `vfs` | `TreeOK`, `SameFile`, `OneOwner`, `ReadsInside`, `BytesWritten` | three slots and two descriptors: a directory and a file in it, or a file removed and another in its slot; offsets up to 4 and pages of 2 bytes, so that a buffer grows; four loads, listed in `MCVfs` |
| `uspace` | `FramesKept`, `NoClobber` | two task slots, seven frames, two of them in a shared object that is released once, so that a call fails and is tried again; five loads, listed in `MCUspace`: breaks, fixed mappings, threads, a program that reaches into the mappings, and executions of programs whose segments share a page or are not in the file |

The bounds on the number of tasks, slots, frames and pages are the program's
own limits made small. The bounds that are the model's own are `MaxHeld`,
`RaceBound`, `IrqBytes`, `FlushBytes`, `MaxInode`, `MaxOffset`, `Pages`, the loads, and
the finite sets of arguments.

Deadlock is checked where the system must go on. It is switched off in
`sched_safety` and `sched_stdin`, because `SYS_READ` of fd 0 can really stop the
machine; for the heap, which stops at a panic; for the sockets, where all
tasks may be blocked in calls; and for the devices, files and address spaces,
where all readers may wait, the bound on nodes is reached, or all programs end.

Every property of a passing run is also checked against a mutant: the operator
`X_Mutant` (or a named variant) next to a definition changes it the way a
plausible slip in that code would, and TLC then finds the property violated.

### Fairness

* `WF(sched_timer_c)`: the PIT interrupts every millisecond while IF = 1. This
  is the hardware's promise, and the action is disabled while IF = 0.
* `SF(wait_return)`: each time the shell is scheduled it has a time slice of a
  millisecond, long enough for one round of the loop in `sched_wait_pid`. The
  tick could otherwise preempt it each time before it looks.
* `WF(Woken(t))` in `UnixMsg` and `WF(Waiting(t))` in `Epoll`, for each task: a
  task that sleeps is woken and scheduled. `SleepersWake` and `ReadyRuns` of the
  scheduler state it.
* In `Input`: `SF` for the shell's steps and for the end of an interrupt, since
  interrupted code makes progress between interrupts; `SF` for the timer, which
  ends a `hlt`; `WF` for the handlers, which are faster than a PS/2 device.

No action of a program is fair: programs may stop calling.

## 4. What the runs show

The scheduler's table stays consistent through every interleaving of ticks,
sleeps, exits, kills and creations that do not overlap; ready tasks run;
sleepers wake, also with wrapped deadlines; a wait ends with its child. The
frame allocator's bitmap and count are exact and reserved memory is safe. The
heap's blocks tile it, the list is exact, payloads are disjoint and the retry
after an expansion succeeds although it adds the overhead twice, because the
expansion asks for a page more than needed. Connected sockets stay in pairs
through closing, refusing and reusing slots; rings are FIFO queues; a read or
recvmsg returns when its peer is gone; messages that fail half way neither leak
a file descriptor nor give one away twice. Shared memory objects hold exactly
the pages of their size, also after a shortage of frames, and no frame is lost.

The rings of the drivers are lossy queues, interrupted readers and `mouse_flush`
included; packets and shift are right as long as no handler took a byte of the
other device, and the packet assembly finds its start again after a loss. A
key that arrives just before the `hlt` of `keyboard_getkey` is seen at the next
tick. A wait of epoll ends while a descriptor stays ready, also when the list
moves under its scans. The tree of files stays a tree, no descriptor reaches a
file that took the place of the one it was opened on, and the reads that leave
a file are exactly those behind its end. A failing `mmap` loses pages but never
leads to a page mapped twice; a failing `execve` leaves the caller's space alone.

One run shows a disagreement between the code and what the repository says:
`sched_stdin`: `SYS_READ` of fd 0 halts inside an interrupt gate; the scheduler
that the README calls preemptive never runs again.

## 5. Proofs

TLAPS checks the theorems for every value of the constants.

**Scheduler** (`SchedProofs`; assumes `MAX_TASKS` positive and integer sleep
arguments). `SchedTypeCorrect` needs a little more than the types:
`current_idx` stays in the table because `num_tasks` never shrinks and
`do_switch` returns a remainder by it, and `num_tasks` stays within one of
`MAX_TASKS` because the shell, between its check and its increment, has seen a
free slot (`TypeInv`). `SchedInvariant` proves `SchedInv`. Its part `TableInv`
holds until creations overlap, and strengthens the properties by: the slot
behind the table belongs to the shell's creation in progress; that slot is
READY with a fresh pid before it is published; a dead current task is in its
`hlt`; and the shell is RUNNING or READY unless it sleeps, so that the scan of
`do_switch` never comes back empty. The lemma `SwitchEffect` says what
`do_switch` does for any table and is used by every action that switches.
`CurrentAlwaysRuns`, `SingleRunner` and `PidsStayKnown` follow from the
invariant; `DeadStayDead` is an action property, proved action by action.

**Frame allocator** (`MemoryProofs`, part one; assumes that the counter is wider than the
bitmap). `PmmInvariant` proves `BitmapInv` in all states and `OwnerInv` until a
race. The exact count needs cardinalities of finite sets: one lemma each for
taking, freeing and reserving. `FramesExclusive`, `FreeCountExact` and
`ReservedNeverHandedOut` follow; the last one holds even after a race, and
needs that rounding the base down and the end up covers every address of a
region (`QuotientBounds` and its neighbours).

**Address spaces** (`MemoryProofs`, part two; assumes that the stack lies behind the
first mapping and below the bound on pages, and that segments do too).
`SpaceInvariant` proves `SpaceInv`, for any tasks, frames, pages and programs.
`FramesKept` is a part of it and is not inductive alone:

* `RootsApart`: a table that is being loaded belongs to nobody else. Otherwise a
  load that fails would leave the space of a task behind.
* `UnusedEmpty`: a free frame, when it becomes a root, holds an empty table: this
  is where the `memset` of `uspace_create_pml4` counts.
* `Layout` says, for each space without an excuse, where its pages are: below the
  break, in the mappings made so far, or in the stack (`Laid`), and during a load
  in the segments done so far and below the break to be (`LaidLoad`); and that its
  task is alone in it. So a break and a mapping find empty pages.

`FramesAreKept` and `PagesAreNotReplaced` follow; the second is an action property,
proved with the invariant call by call (`BrkStep`, `MmapStep`, ...). `KeptRemap`,
`KeptDrop` and their neighbours say what each way to change hands does to the
account of frames, for any set of tables.

The calls are loops, and the loops are stated by what they leave. Two theorems
say that this is what the loops do. `FramesInOrder`: the frame `Nth(S, j + 1)` is
the one `Nth` finds at `j` when the least is gone. `LoopUnrolls`: `Filled` with no page
or no frame left changes nothing, and otherwise is one round of the loop, with the
first clear frame, followed by `Filled` for the rest. That every set of frames has
an `Nth` is shown without induction over data: the numbers for which there is none
would have a least, since `<` on the naturals is well founded, and the frame that
follows the one before it would be one. `AllocTakesNext` is the link to part one: the frame
that `pmm_alloc` hands to a system call in `Pmm` is `Nth(Clear, 0)`, the one
`Filled` takes, and the others stay clear.

**Heap** (`HeapProofs`; assumes pages of at least a minimal block and requests
that are not zero). `HeapIInv` is types in all states and, until a race, `Sound`:
the shape of the heap (`Tiled`, `WellLinked`, `Listed`), who holds which block
(`HeldInv`), and what a call in progress knows of the block it is at
(`CallInv`). `HeapInv` alone is not inductive. Doubly linked blocks may also
form a ring that nobody enters from the head, so `Listed` gives the list as a
sequence of all free blocks, and the lemmas `UnlinkKeeps` and `LinkKeeps` build
the new sequence. And `CallInv` says that a kmalloc that has expanded the heap
stands at a block large enough; `ExtraFits` and `GrowTiles` show it for every
page size. `HeapInvariant`, `PayloadsAreDisjoint`, `FreeListIsExact` and
`OneExpansionIsEnough` follow. `SplitTiles`, `GrowTiles` and `MergeTiles` are the
lemmas on cutting and joining blocks.

**Sockets** (`SocketProofs`). `PeerInvariant`: programs know only slots in use,
and a connected slot and its peer name each other. It is inductive as it
stands: close clears the other end exactly because the pair is symmetric.
`SocketsPaired` follows. `PathsStayUnique` needs only the types of the fields it
speaks of: no step but bind makes a bound socket, and bind looks at every used
slot (`NothingBound` covers all other steps). `RingsAreFifo`: `RingInv` states the
property for every slot, used or not, with indices inside the ring; it needs
`PeerInv` to know that a write goes to a slot. The arithmetic is in `Forward`,
`Distance` and `RoomLeft`, the places a write or a read touches in `PushPlaces`
and `PopPlaces`. `SlotsKept`: until a listener is orphaned or accepts race,
`SlotInv` adds that a slot waits in one place of one queue, and that what an
accept has read is still the head of its queue.

**Messages** (`SocketProofs`; assumes that the loads use lengths, bytes and flags
of the sockets). `MessagesImplementSockets` is the refinement `MsgSpec => Spec`:
each call of `UnixMsg` is one of `UnixSocket` or leaves the sockets alone.
`MessagesPaired` carries `PeersPaired`, `RingIsFifo` and `NoSlotLost` over.
`FilesHaveOneOwner` proves `FilesOwned` from `FilesInv`, which adds that a slot
without a socket has an empty ring (a new socket starts with none), and that
what a recvmsg has read is still the head of the ring when it removes it.
`OwnedBy` is the property for any rings and sets of files; `OwnedOpened`,
`OwnedClosed`, `OwnedDropped`, `OwnedTaken` and `OwnedSent` are one lemma for each
way in which files change hands, and `ArrivesFresh` says that the duplicates of
a message are unused and differ. `sendmsg` needs `PeerInv`, carried over by the
refinement: the files go to a slot in use.

**Input** (`InputProofs`; assumes rings of at least two places). `InputInv` has
what an interrupted reader has read of its ring (`PollInv`), the keyboard's
state against the decoder's with the code in flight between them (`ShiftInv`),
and the mouse's place in its packet against the handler's, with the byte in
flight (`PacketInv`). `ShiftDoesNotStick` and `PacketsAreWhole` follow.
`RingsAreLossyQueues` is the refinement: with `InputInv`, every step of the
drivers and of a reader is a put, a get, a switch or nothing for each of the
three queues (`QSteps`); `RingPut` and `RingGet` are the lemmas on rings of any
size, and a push into a full ring is nothing.

**Epoll** (`EpollProofs`; assumes that socket and file descriptors differ).
`EpollInv` adds to two of the properties that lists fit their arrays, that a wait
has stored no more events than it has looked at entries, and that it holds the
descriptor of the entry it is at unless the list has changed. `WaitsGetTheirOwn`
and `WaitsAreShort` follow, and `EventsNamePolled`, an action property.

**File system** (`VfsProofs`; assumes that `size_t` is wider than the offsets of a
run). `VfsInv` is types and `Marked` (the bytes of each file and the numbers of
files) in all states, and `Sound` until a race: numbers of nodes and descriptors
are below `next_inode`, nodes hang from older directories, names differ, a
descriptor reaches the file it was opened on with an offset inside it, and
`ShellInv`, what the shell has found out in the parts of an open or write that it
has done. `TreeIsATree`, `DescriptorsKeepTheirFile`, `DescriptorsHaveOneOwner`,
`ReadsStayInside` and `FilesHoldWhatWasWritten` follow. Names differ because
`vfs_resolve` finds nothing exactly when the directory has no such child, for a
path whose last component is one piece (`FollowOne`, `NewName`). Two of these
properties are stated with the histories the proof asked for: after a race two
files may have one number, so that a read may leave its file (`ReadsInside` holds
until then), and the mark of a hole must belong to a file and not to a slot.

**Shared memory** (`ShmProofs`; assumes that `size_t` is wider than the table of
pages). `ShmInvariant` proves the conjunction of the six invariants, which is
inductive as it stands: `PagesExact` is what makes the others survive, because
it says that the entries growing overwrites, the ones a failure clears and the
ones a new object forgets are empty. The lemma `Repaging` says when an
exchange of one table of pages keeps all frames accounted for; destroying and
truncating are instances of it. `RoundingUp` is the arithmetic of sizes and
pages. `PagesSafe`, `FramesSafe`, `BytesSafe`, `NamesSafe` and `MappingsSafe` follow.

Every safety property of the runs is proved. Only model-checked: the liveness
properties `SleepersWake`, `ReadyRuns`, `WaitReturns`, `HangupReturns`,
`GetkeyReturns` and `WaitEnds`, since the prover does not do fairness, and the
violation of `sched_stdin`. A fold is used only by `Vfs`, to walk a path, and the
proofs need no more of it than what it does with one component (`FollowOne`): what
it computes for a path of any length is an induction over data.

## 6. What could follow

1. An abstract allocator that `Heap` implements.
2. `Shm` over the nodes of `Vfs`, and `Shm` and `Uspace` over the bitmap of `Pmm` in
   one state, in place of sets of free frames; `AllocTakesNext` is the first step.

## 7. Abstractions

Left out because no property speaks of it: register frames, CR3 and stacks;
names of tasks; text; block footers (written, never read); the zeroing of
freshly taken ring bytes (never visible before they are overwritten). Paths and
bytes are model values. `vfs_open` in `unix_bind` may fail at any time.

In `Uspace` addresses are pages, and the tables between the root and the pages are
left out: running out of frames for one of them panics. A segment and a stack are
loaded in one step also by the shell: nobody else uses the table that it fills, so
that calls between two pages would only change which frames it gets; the race
inside `pmm_alloc` itself is `raced` of `Pmm`. In `Input` the decoder
knows one letter, one digit with its shifted form, an extended key, shift, caps
lock and the prefix; the tables of the other keys are data. In `Vfs` the device
files are left to `Shm` and `Input`. In `Epoll` a socket reports
something or nothing; which events is left out.

In `Shm`, names fit into an object's name (63 characters) and files below
`/dev/shm` are opened by absolute paths, as the code expects; the contents of
pages are left out, and so is the access mode of descriptors. Only system calls
are modelled there: the shell's own file commands, which are preemptible, belong
to the file system. A closed descriptor's offset is set to zero, which nobody
can see.

After a race in the heap or in accept, the code may follow pointers into the
middle of blocks or copy a negative size. The models stop there.

## 8. Not modelled

Boot code, descriptor tables, panics: straight-line hardware set-up, of which
only the order (reserve, then allocate) and the gate type matter. Screen,
framebuffer, desktop, fonts, generated resources: drawing. PCI, ACPI, network
card, serial line: register I/O. Installer, package tool, games: text programs.
String and math routines: directly testable. The script interpreter and
formatted output: sequential text processing. `userspace/`: clients, present as
tasks that make any call. `ports/`: vendored.

The repository is mostly vendored ports, headers and generated resources
(some 258,000 lines); the kernel's own files, listed in the component table,
are a few thousand, and the map covers a small share of the whole for that
reason. Within the modelled files the lines left out are text, drawing, device
set-up and argument checks without effect.
