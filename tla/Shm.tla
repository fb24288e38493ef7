-------------------------------- MODULE Shm --------------------------------
(***************************************************************************)
(* Shared memory objects (kernel/shm.c) and the system calls that reach    *)
(* them through device files below /dev/shm (fs/vfs.c, fs/devfs.c,         *)
(* kernel/syscall.c).  System calls run with interrupts disabled: each is  *)
(* one step.                                                               *)
(*                                                                         *)
(* A descriptor holds the inode of the device file, and inodes are never   *)
(* used again: after unlink every descriptor of the file is stale.  The    *)
(* frame allocator is external here: it hands out any free frame, and      *)
(* other parts of the kernel take and give back frames of their own.       *)
(***************************************************************************)
EXTENDS Integers, FiniteSets

CONSTANTS
    SHM_MAX_OBJECTS,
    SHM_MAX_PAGES,   \* pages of an object
    PAGE_SIZE,
    SIZE_T,          \* 2^64: sizes wrap around
    Name,            \* names of objects
    Fd,              \* descriptors programs open
    Frame,           \* physical frames
    Lengths,         \* arguments of ftruncate, as size_t
    Counts,          \* lengths of reads, writes and mappings
    NoFrame, Closed, Stale

ASSUME ShmAssumption ==
    /\ SHM_MAX_OBJECTS \in Nat \ {0}
    /\ SHM_MAX_PAGES \in Nat \ {0}
    /\ PAGE_SIZE \in Nat \ {0}
    /\ SIZE_T \in Nat /\ SIZE_T >= PAGE_SIZE * (SHM_MAX_PAGES + 2)
    /\ Lengths \subseteq 0 .. SIZE_T - 1
    /\ Counts \subseteq 1 .. PAGE_SIZE * SHM_MAX_PAGES
    /\ NoFrame \notin Frame
    /\ Closed \notin Name /\ Stale \notin Name /\ Closed # Stale

Obj == 0 .. SHM_MAX_OBJECTS - 1
Page == 0 .. SHM_MAX_PAGES - 1
NO_NODE == -1

VARIABLES
    used, name, size,
    pages,       \* pages[i][k]: the frame of page k of object i
    node,        \* dev_minor of the device file of each name, or NO_NODE
    file,        \* the device file a descriptor refers to
    offset,
    free,        \* frames of the frame allocator
    others,      \* frames held by other parts of the kernel
    mapped,      \* frames in the page tables of programs
    wrapped,     \* a length was rounded past the end of size_t (history)
    pulled       \* an object was cut or destroyed while programs had the
                 \* pages mapped (history)

objects == <<used, name, size, pages>>
vars == <<used, name, size, pages, node, file, offset, free, others, mapped,
          wrapped, pulled>>

Init ==
    /\ used = [i \in Obj |-> FALSE]
    /\ \E n \in Name : name = [i \in Obj |-> n]
    /\ size = [i \in Obj |-> 0]
    /\ pages = [i \in Obj |-> [k \in Page |-> NoFrame]]
    /\ node = [n \in Name |-> NO_NODE]
    /\ file = [f \in Fd |-> Closed]
    /\ offset = [f \in Fd |-> 0]
    /\ free = Frame
    /\ others = {}
    /\ mapped = {}
    /\ wrapped = FALSE
    /\ pulled = FALSE

(* Mutant: a page that is not full does not count. *)
PagesOf_Mutant(n) == n \div PAGE_SIZE

(* (size + PAGE_SIZE - 1) / PAGE_SIZE, in size_t.                          *)
PagesOf(n) == ((n + PAGE_SIZE - 1) % SIZE_T) \div PAGE_SIZE

Wraps(n) == n + PAGE_SIZE - 1 >= SIZE_T
-----------------------------------------------------------------------------
(* shm_open_object: the object of that name, or the first unused slot,     *)
(* cleared.                                                                *)
HasName(i, n) == used[i] /\ name[i] = n

(* Mutant: an existing object is not looked for. *)
IsObject_Mutant(i, n) == ~used[i] /\ \A j \in Obj : j < i => used[j]

IsObject(i, n) ==
    \/ HasName(i, n) /\ \A j \in Obj : j < i => ~HasName(j, n)
    \/ /\ \A j \in Obj : ~HasName(j, n)
       /\ ~used[i] /\ \A j \in Obj : j < i => used[j]

shm_open_object(i, n) ==
    /\ IsObject(i, n)
    /\ used' = [used EXCEPT ![i] = TRUE]
    /\ name' = [name EXCEPT ![i] = n]
    /\ size' = IF used[i] THEN size ELSE [size EXCEPT ![i] = 0]
    /\ pages' = IF used[i] THEN pages
                ELSE [pages EXCEPT ![i] = [k \in Page |-> NoFrame]]

(* vfs_open of /dev/shm/n: the object first, then its device file, which   *)
(* is created with O_CREATE.                                               *)
vfs_open(f, i, n) ==
    /\ file[f] = Closed
    /\ shm_open_object(i, n)
    /\ node' = IF node[n] = NO_NODE THEN [node EXCEPT ![n] = i] ELSE node
    /\ file' = [file EXCEPT ![f] = n]
    /\ offset' = [offset EXCEPT ![f] = 0]
    /\ UNCHANGED <<free, others, mapped, wrapped, pulled>>

(* Without O_CREATE, or when no node is left, the call fails and the       *)
(* object stays.                                                           *)
open_fails(i, n) ==
    /\ \E f \in Fd : file[f] = Closed
    /\ node[n] = NO_NODE
    /\ shm_open_object(i, n)
    /\ UNCHANGED <<node, file, offset, free, others, mapped, wrapped, pulled>>

vfs_close(f) ==
    /\ file[f] # Closed
    /\ file' = [file EXCEPT ![f] = Closed]
    /\ offset' = [offset EXCEPT ![f] = 0]
    /\ UNCHANGED <<objects, node, free, others, mapped, wrapped, pulled>>

(* vfs_dup, to a closed descriptor, and vfs_dup2, to any other one: each   *)
(* copy has its own offset.                                                *)
vfs_dup2(f, g) ==
    /\ file[f] # Closed /\ f # g
    /\ file' = [file EXCEPT ![g] = file[f]]
    /\ offset' = [offset EXCEPT ![g] = offset[f]]
    /\ UNCHANGED <<objects, node, free, others, mapped, wrapped, pulled>>
-----------------------------------------------------------------------------
FramesOf(i, K) == {pages[i][k] : k \in K} \ {NoFrame}

(* Mutant: the last page, when it is not full, is forgotten. *)
Destroyed_Mutant(i) == {k \in Page : used[i] /\ k < size[i] \div PAGE_SIZE}

(* The pages shm_destroy goes through.                                     *)
Destroyed(i) == {k \in Page : used[i] /\ k < PagesOf(size[i])}

(* Frames S are given back.                                                *)
Pull(S) == pulled' = (pulled \/ S \cap mapped # {})

shm_destroy(i) ==
    /\ free' = free \cup FramesOf(i, Destroyed(i))
    /\ pages' = [pages EXCEPT ![i] =
          [k \in Page |-> IF k \in Destroyed(i) THEN NoFrame ELSE pages[i][k]]]
    /\ used' = [used EXCEPT ![i] = FALSE]
    /\ Pull(FramesOf(i, Destroyed(i)))

(* vfs_unlink of a device file: shm_destroy, and the node is gone.         *)
vfs_unlink(n) ==
    /\ node[n] # NO_NODE
    /\ shm_destroy(node[n])
    /\ node' = [node EXCEPT ![n] = NO_NODE]
    /\ file' = [f \in Fd |-> IF file[f] = n THEN Stale ELSE file[f]]
    /\ UNCHANGED <<name, size, offset, others, mapped, wrapped>>

(* The object a descriptor reaches.                                        *)
Reaches(f, i) ==
    /\ file[f] \in Name
    /\ node[file[f]] = i
    /\ i \in Obj /\ used[i]

(* g gives a frame of its own to each page that is added.                  *)
IsSupply(g, K) ==
    \A k, l \in K : g[k] = g[l] => k = l

Grown(i, n) == {k \in Page : PagesOf(size[i]) <= k /\ k < PagesOf(n)}
Dropped(i, n) == {k \in Page : PagesOf(n) <= k /\ k < PagesOf(size[i])}

PagesAfter(i, n, g) ==
    [k \in Page |-> IF k \in Grown(i, n) THEN g[k]
                    ELSE IF k \in Dropped(i, n) THEN NoFrame
                    ELSE pages[i][k]]

(* shm_truncate, when there are enough frames.                             *)
shm_truncate(i, n) ==
    /\ PagesOf(n) <= SHM_MAX_PAGES
    /\ \E g \in [Grown(i, n) -> free] :
          /\ IsSupply(g, Grown(i, n))
          /\ pages' = [pages EXCEPT ![i] = PagesAfter(i, n, g)]
          /\ free' = (free \ {g[k] : k \in Grown(i, n)})
                        \cup FramesOf(i, Dropped(i, n))
    /\ size' = [size EXCEPT ![i] = n]
    /\ wrapped' = (wrapped \/ Wraps(n))
    /\ Pull(FramesOf(i, Dropped(i, n)))

(* When frames run out, the ones already taken are given back and their    *)
(* entries are cleared: as many entries as there were frames.              *)
Tried(i) == {k \in Page : /\ PagesOf(size[i]) <= k
                          /\ k < PagesOf(size[i]) + Cardinality(free)}

(* Mutant: the entries are not cleared, they keep the frames. *)
truncate_oom_Mutant(i, n) ==
    /\ PagesOf(n) <= SHM_MAX_PAGES
    /\ Cardinality(Grown(i, n)) > Cardinality(free)
    /\ \E g \in [Tried(i) -> free] :
          /\ IsSupply(g, Tried(i))
          /\ pages' = [pages EXCEPT ![i] =
                [k \in Page |-> IF k \in Tried(i) THEN g[k] ELSE pages[i][k]]]
    /\ UNCHANGED <<size, free, wrapped, pulled>>

(* Mutant: the pages are given back from the first one on. *)
truncate_oom_FromZero(i, n) ==
    /\ PagesOf(n) <= SHM_MAX_PAGES
    /\ Cardinality(Grown(i, n)) > Cardinality(free)
    /\ pages' = [pages EXCEPT ![i] = [k \in Page |-> NoFrame]]
    /\ free' = free \cup FramesOf(i, Page)
    /\ UNCHANGED <<size, wrapped, pulled>>

truncate_oom(i, n) ==
    /\ PagesOf(n) <= SHM_MAX_PAGES
    /\ Cardinality(Grown(i, n)) > Cardinality(free)
    /\ pages' = [pages EXCEPT ![i] =
          [k \in Page |-> IF k \in Tried(i) THEN NoFrame ELSE pages[i][k]]]
    /\ UNCHANGED <<size, free, wrapped, pulled>>

vfs_ftruncate(f, i, n) ==
    /\ Reaches(f, i)
    /\ shm_truncate(i, n) \/ truncate_oom(i, n)
    /\ UNCHANGED <<used, name, node, file, offset, others, mapped>>
-----------------------------------------------------------------------------
(* Are the bytes a .. b - 1 of an object in frames?  p is its page table.  *)
(* A page past the table is read from whatever follows: the model stops.   *)
InTable(a, b) == \A x \in a .. b - 1 : x \div PAGE_SIZE < SHM_MAX_PAGES
InFrames(p, a, b) == \A x \in a .. b - 1 : p[x \div PAGE_SIZE] # NoFrame

ReadEnd(f, i, c) ==
    IF c < size[i] - offset[f] THEN offset[f] + c ELSE size[i]

(* shm_read: the offset moves unless a page is missing (-EFAULT).          *)
shm_read(f, i, c) ==
    /\ Reaches(f, i)
    /\ offset[f] < size[i]
    /\ InTable(offset[f], ReadEnd(f, i, c))
    /\ InFrames(pages[i], offset[f], ReadEnd(f, i, c))
    /\ offset' = [offset EXCEPT ![f] = ReadEnd(f, i, c)]
    /\ UNCHANGED <<objects, node, file, free, others, mapped, wrapped, pulled>>

(* shm_write: the object grows when it has to; if that fails, or a page is *)
(* missing, the offset stays.                                              *)
shm_write(f, i, c) ==
    /\ Reaches(f, i)
    /\ LET end == (offset[f] + c) % SIZE_T
       IN  \/ /\ end > size[i]
              /\ shm_truncate(i, end)
              /\ offset' = [offset EXCEPT ![f] = end]
           \/ /\ end > size[i]
              /\ truncate_oom(i, end)
              /\ UNCHANGED offset
           \/ /\ end <= size[i]
              /\ InTable(offset[f], offset[f] + c)
              /\ InFrames(pages[i], offset[f], offset[f] + c)
              /\ offset' = [offset EXCEPT ![f] = end]
              /\ UNCHANGED <<size, pages, free, wrapped, pulled>>
    /\ UNCHANGED <<used, name, node, file, others, mapped>>

(* SYS_MMAP of pages a .. a + c - 1: up to the first that has no frame.    *)
MapsUpTo(i, a, c) ==
    {k \in Page : /\ a <= k /\ k < a + c
                  /\ \A l \in a .. k : pages[i][l] # NoFrame}

sys_mmap(f, i, a, c) ==
    /\ Reaches(f, i)
    /\ mapped' = mapped \cup FramesOf(i, MapsUpTo(i, a, c))
    /\ UNCHANGED <<objects, node, file, offset, free, others, wrapped, pulled>>

(* SYS_MUNMAP clears entries of the page table, nothing else.              *)
sys_munmap(x) ==
    /\ x \in mapped
    /\ mapped' = mapped \ {x}
    /\ UNCHANGED <<objects, node, file, offset, free, others, wrapped, pulled>>

(* The rest of the kernel.                                                 *)
pmm_alloc(x) ==
    /\ x \in free
    /\ free' = free \ {x}
    /\ others' = others \cup {x}
    /\ UNCHANGED <<objects, node, file, offset, mapped, wrapped, pulled>>

pmm_free(x) ==
    /\ x \in others
    /\ others' = others \ {x}
    /\ free' = free \cup {x}
    /\ UNCHANGED <<objects, node, file, offset, mapped, wrapped, pulled>>

Next ==
    \/ \E f \in Fd, i \in Obj, n \in Name : vfs_open(f, i, n)
    \/ \E i \in Obj, n \in Name : open_fails(i, n)
    \/ \E f \in Fd : vfs_close(f)
    \/ \E f, g \in Fd : vfs_dup2(f, g)
    \/ \E n \in Name : vfs_unlink(n)
    \/ \E f \in Fd, i \in Obj, n \in Lengths : vfs_ftruncate(f, i, n)
    \/ \E f \in Fd, i \in Obj, c \in Counts : shm_read(f, i, c)
    \/ \E f \in Fd, i \in Obj, c \in Counts : shm_write(f, i, c)
    \/ \E f \in Fd, i \in Obj, a \in Page, c \in Counts : sys_mmap(f, i, a, c)
    \/ \E x \in Frame : sys_munmap(x)
    \/ \E x \in Frame : pmm_alloc(x)
    \/ \E x \in Frame : pmm_free(x)

Spec == Init /\ [][Next]_vars
-----------------------------------------------------------------------------
(* Types of the object table and the descriptors (shm.h, vfs.c:18-25).     *)
TypeOK ==
    /\ used \in [Obj -> BOOLEAN] /\ name \in [Obj -> Name]
    /\ size \in [Obj -> 0 .. SIZE_T - 1]
    /\ pages \in [Obj -> [Page -> Frame \cup {NoFrame}]]
    /\ node \in [Name -> Obj \cup {NO_NODE}]
    /\ file \in [Fd -> Name \cup {Closed, Stale}]
    /\ offset \in [Fd -> 0 .. SIZE_T - 1]
    /\ free \subseteq Frame /\ others \subseteq Frame /\ mapped \subseteq Frame
    /\ wrapped \in BOOLEAN /\ pulled \in BOOLEAN

(* An object holds a frame for page k exactly when its size, rounded up to *)
(* pages in size_t, reaches it, and an unused slot holds none: through     *)
(* growing, shrinking, destroying and failures in the middle               *)
(* (shm_truncate, shm_destroy, shm.c:36-70 and 155-169).                   *)
PagesExact ==
    \A i \in Obj, k \in Page :
        pages[i][k] # NoFrame <=> used[i] /\ k < PagesOf(size[i])

Shared == {x \in Frame : \E i \in Obj, k \in Page : pages[i][k] = x}

(* Every frame is free, with one page of one object, or with the rest of   *)
(* the kernel, and never two of these: none is leaked, freed twice or      *)
(* shared by two objects.                                                  *)
FramesAccounted ==
    /\ \A i, j \in Obj, k, l \in Page :
          pages[i][k] = pages[j][l] /\ pages[i][k] # NoFrame => i = j /\ k = l
    /\ \A i \in Obj, k \in Page : pages[i][k] \notin free \cup others
    /\ free \cap others = {}
    /\ free \cup others \cup Shared = Frame

(* A device file reaches an object in use that has its name, and each name *)
(* has one object: unlink of one name never destroys the memory of another *)
(* (vfs_open, vfs_unlink, vfs.c:152-163 and 349).                          *)
NodesReachObjects ==
    /\ \A n \in Name : node[n] # NO_NODE =>
          used[node[n]] /\ name[node[n]] = n
    /\ \A i, j \in Obj : used[i] /\ used[j] /\ name[i] = name[j] => i = j

(* As long as no length was rounded past the end of size_t (ftruncate of a *)
(* negative length), every byte below the size of an object is inside its  *)
(* table of pages and in a frame: reads and writes never fail with -EFAULT *)
(* or look past the table (shm.c:94 and 129).                              *)
BytesBacked ==
    ~wrapped => \A i \in Obj : used[i] =>
        /\ size[i] <= SHM_MAX_PAGES * PAGE_SIZE
        /\ \A k \in Page : k * PAGE_SIZE < size[i] => pages[i][k] # NoFrame

(* What a program has mapped is memory of an object, not of the rest of    *)
(* the kernel and not free, unless the object was cut or destroyed while   *)
(* it was mapped: neither does so by itself (SYS_MMAP, syscall.c:331-345). *)
MappedStaysShared == ~pulled => mapped \subseteq Shared

(* The inductive invariant of the object table.                            *)
ShmInv == /\ TypeOK /\ PagesExact /\ FramesAccounted /\ NodesReachObjects
          /\ BytesBacked /\ MappedStaysShared
=============================================================================
