-------------------------------- MODULE Vfs --------------------------------
(***************************************************************************)
(* The file system in memory (fs/vfs.c): a table of nodes that form a tree *)
(* by the inode of their parent, and one table of descriptors that all     *)
(* programs and the shell share.                                           *)
(*                                                                         *)
(* A program calls it in system calls, one step each.  The shell calls the *)
(* same functions with interrupts enabled: its open and its write are cut  *)
(* in steps, between which programs run.  Calls that fail without an       *)
(* effect are no steps.  Device nodes are in module Shm.                   *)
(***************************************************************************)
EXTENDS Integers, Sequences, FiniteSets, SequencesExt

CONSTANTS
    VFS_MAX_NODES,  \* nodes in the table
    VFS_MAX_FDS,    \* descriptors in the table
    SLACK, PAGE,    \* spare bytes of a write (256), and of a truncation
    SIZE_T,         \* 2^64
    MaxInode,       \* bound: nodes ever created
    MaxOffset,      \* bound: offsets and lengths of any load
    Loads,          \* what happens in a run of the system: the paths used,
                    \* the flags of open, the lengths of reads and writes,
                    \* the sizes of truncations, the offsets sought, the
                    \* largest offset (a bound), and what the shell does
    NONE            \* no inode

(* A path is absolute or not, the pieces of the part before the last       *)
(* slash, and the pieces of the last component: a component longer than    *)
(* VFS_NAME_MAX - 1 is cut in pieces, which vfs_resolve takes for          *)
(* components of their own.                                                *)
Path == [abs : BOOLEAN, dir : Seq(STRING), leaf : Seq(STRING) \ {<<>>}]

(* O_RDONLY or O_RDWR, O_WRONLY or O_RDWR, O_CREAT, O_TRUNC.               *)
Flags == SUBSET {"R", "W", "C", "T"}

ASSUME VfsAssumption ==
    /\ VFS_MAX_NODES \in Nat \ {0} /\ VFS_MAX_FDS \in Nat
    /\ SLACK \in Nat /\ PAGE \in Nat \ {0}
    /\ MaxInode \in Nat /\ MaxOffset \in Nat
    /\ SIZE_T \in Nat /\ SIZE_T > MaxOffset
    /\ NONE \notin Nat
    /\ Loads \subseteq
          [paths : SUBSET Path, flags : SUBSET Flags,
           lens : SUBSET (0 .. MaxOffset), cuts : SUBSET (0 .. MaxOffset),
           seeks : SUBSET (0 .. MaxOffset), max : 0 .. MaxOffset,
           shell : SUBSET {"cd", "open"}]

Slot == 0 .. VFS_MAX_NODES - 1
Fd == 0 .. VFS_MAX_FDS - 1
ROOT == 0

VARIABLES
    load,           \* one of Loads
    nodes,          \* the table; data has a mark for every byte of capacity:
                    \* "w" written by a program, "u" not
    fds,            \* the descriptors: open, inode, offset, flags
    next_inode, vfs_cwd,
    pc, sfd, snode, sslot, scall, \* the shell: where, and the locals of its
                    \* call
    born,           \* nodes ever created; a node and a descriptor of it carry
                    \* its number (history)
    held, shheld,   \* descriptors programs, and the shell, were given and
                    \* have not closed (history)
    past,           \* descriptors sought past the end of their file, or with
                    \* their file cut under them (history)
    holed,          \* files, by their number in born, extended over bytes
                    \* that were not written (history)
    overread,       \* a descriptor that is not in past read past the end
                    \* (history)
    longname,       \* a name longer than VFS_NAME_MAX was created (history)
    raced           \* a program changed what a call of the shell was using
                    \* (history)

shell == <<pc, sfd, snode, sslot, scall>>
history == <<held, shheld, past, holed, overread, longname, raced>>
vars == <<load, nodes, fds, next_inode, vfs_cwd, pc, sfd, snode, sslot, scall,
          born, held, shheld, past, holed, overread, longname, raced>>

Unused == [used |-> FALSE, type |-> "FILE", inode |-> 0, parent |-> 0,
           name |-> "", data |-> <<>>, size |-> 0, id |-> 0]
Closed == [open |-> FALSE, inode |-> 0, offset |-> 0, flags |-> {}, id |-> 0]
Node(type, inode, parent, name) ==
    [Unused EXCEPT !.used = TRUE, !.type = type, !.inode = inode,
                   !.parent = parent, !.name = name, !.id = born]

NoCall == [path |-> [abs |-> TRUE, dir |-> <<>>, leaf |-> <<"">>],
           flags |-> {}, len |-> 0, number |-> 0]

(* vfs_init, without the directories it creates.                           *)
Init ==
    /\ load \in Loads
    /\ born = 0
    /\ nodes = [s \in Slot |-> IF s = 0 THEN Node("DIR", ROOT, ROOT, "/")
                                        ELSE Unused]
    /\ fds = [f \in Fd |-> Closed]
    /\ next_inode = 1 /\ vfs_cwd = ROOT
    /\ pc = "idle" /\ sfd = 0 /\ snode = 0 /\ sslot = 0 /\ scall = NoCall
    /\ held = {} /\ shheld = {}
    /\ past = {} /\ holed = {}
    /\ overread = FALSE /\ longname = FALSE /\ raced = FALSE
-----------------------------------------------------------------------------
First(S) == CHOOSE s \in S : \A r \in S : s <= r

(* node_get: the slot of an inode, or none.                                *)
SlotsOf(inode) == {s \in Slot : nodes[s].used /\ nodes[s].inode = inode}
Exists(inode) == SlotsOf(inode) # {}
node_get(inode) == First(SlotsOf(inode))

node_alloc == First({s \in Slot : ~nodes[s].used})
Room == \E s \in Slot : ~nodes[s].used

Children(dir, name) == {s \in Slot : nodes[s].used /\ nodes[s].parent = dir
                                                   /\ nodes[s].name = name}

Walk(cur, name) ==
    IF cur = NONE THEN NONE
    ELSE IF name = ".." THEN IF Exists(cur) THEN nodes[node_get(cur)].parent
                                            ELSE cur
    ELSE IF Children(cur, name) = {} THEN NONE
    ELSE nodes[First(Children(cur, name))].inode

Start(path) == IF path.abs THEN ROOT ELSE vfs_cwd
Follow(from, pieces) == FoldLeft(Walk, from, pieces)

(* resolve_parent: the node is created with the first piece for a name.    *)
resolve_parent(path) == Follow(Start(path), path.dir)
vfs_resolve(path) == Follow(resolve_parent(path), path.leaf)

IsDir(inode) ==
    inode # NONE /\ Exists(inode) /\ nodes[node_get(inode)].type = "DIR"

(* Mutant: the number of a removed file is used again. *)
NewInode_Mutant == node_alloc

NewInode == next_inode

(* The new node, in slot s and with the number i.                          *)
CreateAt(s, i, type, dir, leaf) ==
    /\ born < MaxInode
    /\ nodes' = [nodes EXCEPT ![s] =
                   [Node(type, i, dir, leaf[1]) EXCEPT !.id = born + 1]]
    /\ next_inode' = i + 1
    /\ born' = born + 1
    /\ longname' = (longname \/ Len(leaf) > 1)

Create(type, dir, leaf) == CreateAt(node_alloc, NewInode, type, dir, leaf)

MayCreate(path) ==
    vfs_resolve(path) = NONE /\ IsDir(resolve_parent(path)) /\ Room

vfs_mkdir(path) ==
    /\ MayCreate(path) /\ path.leaf[1] # ""
    /\ Create("DIR", resolve_parent(path), path.leaf)
    /\ raced' = (raced \/ pc \in {"create", "fill"})
    /\ UNCHANGED <<load, fds, vfs_cwd, shell, held, shheld, past, holed,
                   overread>>

(* Mutant: a directory is removed with what it holds. *)
MayUnlink_Mutant(s) == nodes[s].inode # ROOT

MayUnlink(s) ==
    /\ nodes[s].inode # ROOT
    /\ nodes[s].type = "DIR" =>
          \A r \in Slot : ~(nodes[r].used /\ nodes[r].parent = nodes[s].inode)

(* The shell is in a call that uses slot s, or creates a node below it.    *)
InUse(s) ==
    \/ pc = "copy" /\ snode = s
    \/ pc \in {"create", "fill", "store"} /\ snode = nodes[s].inode

vfs_unlink(path) ==
    /\ vfs_resolve(path) # NONE /\ Exists(vfs_resolve(path))
    /\ LET s == node_get(vfs_resolve(path))
       IN  /\ MayUnlink(s)
           /\ nodes' = [nodes EXCEPT ![s] = Unused]
           /\ holed' = holed \ {nodes[s].id}
           /\ raced' = (raced \/ InUse(s))
    /\ UNCHANGED <<load, fds, next_inode, vfs_cwd, shell, born, held, shheld,
                   past, overread, longname>>

(* The shell's cd, of cmd_cd.                                              *)
vfs_set_cwd(path) ==
    /\ pc = "idle"
    /\ IsDir(vfs_resolve(path))
    /\ vfs_cwd' = vfs_resolve(path)
    /\ UNCHANGED <<load, nodes, fds, next_inode, shell, born, history>>
-----------------------------------------------------------------------------
(* Mutant: the descriptors of a removed file are free. *)
FreeFds_Mutant == {f \in Fd : ~fds[f].open \/ ~Exists(fds[f].inode)}

FreeFds == {f \in Fd : ~fds[f].open}

(* Descriptors of inode whose offset is past a new size.                   *)
Beyond(inode, size) ==
    {f \in Fd : fds[f].open /\ fds[f].inode = inode /\ fds[f].offset > size}

(* The end of vfs_open: O_TRUNC, and the entry.  ns is the node table.     *)
Enter(f, s, flags, ns) ==
    /\ nodes' = IF "T" \in flags
                THEN [ns EXCEPT ![s].data = <<>>, ![s].size = 0] ELSE ns
    /\ fds' = [fds EXCEPT ![f] =
                 [open |-> TRUE, inode |-> ns[s].inode,
                  offset |-> IF "W" \in flags /\ "T" \notin flags
                             THEN ns[s].size ELSE 0,
                  flags |-> flags, id |-> ns[s].id]]
    /\ past' = (past \cup IF "T" \in flags THEN Beyond(ns[s].inode, 0) ELSE {})
               \ {f}
    /\ holed' = IF "T" \in flags THEN holed \ {ns[s].id} ELSE holed

(* The shell has chosen a descriptor and not yet marked it as open.        *)
Chosen == IF pc \in {"resolve", "create", "fill", "store"} THEN {sfd} ELSE {}

vfs_open(path, flags) ==
    /\ FreeFds # {}
    /\ LET f == First(FreeFds)
       IN  /\ held' = held \cup {f}
           /\ \/ /\ vfs_resolve(path) # NONE /\ Exists(vfs_resolve(path))
                 /\ ~IsDir(vfs_resolve(path))
                 /\ Enter(f, node_get(vfs_resolve(path)), flags, nodes)
                 /\ raced' = (raced \/ f \in Chosen)
                 /\ UNCHANGED <<next_inode, born, longname>>
              \/ /\ MayCreate(path) /\ "C" \in flags
                 /\ Create("FILE", resolve_parent(path), path.leaf)
                 /\ fds' = [fds EXCEPT ![f] =
                              [open |-> TRUE, inode |-> NewInode, offset |-> 0,
                               flags |-> flags, id |-> born + 1]]
                 /\ past' = past \ {f}
                 /\ raced' = (raced \/ f \in Chosen
                                   \/ pc \in {"create", "fill"})
                 /\ UNCHANGED holed
    /\ UNCHANGED <<load, vfs_cwd, shell, shheld, overread>>

vfs_close(f) ==
    /\ f \in held \/ (f \in shheld /\ pc = "idle")
    /\ fds' = [fds EXCEPT ![f] = Closed]
    /\ past' = past \ {f}
    /\ IF f \in held THEN held' = held \ {f} /\ UNCHANGED shheld
                     ELSE shheld' = shheld \ {f} /\ UNCHANGED held
    /\ UNCHANGED <<load, nodes, next_inode, vfs_cwd, shell, born, holed,
                   overread, longname, raced>>

(* vfs_dup, and vfs_dup2 onto a free descriptor or one of the program's:   *)
(* the copy has an offset of its own.                                      *)
vfs_dup(old, new) ==
    /\ old \in held /\ fds[old].open /\ old # new
    /\ new \in FreeFds \cup held
    /\ fds' = [fds EXCEPT ![new] = fds[old]]
    /\ held' = held \cup {new}
    /\ past' = IF old \in past THEN past \cup {new} ELSE past \ {new}
    /\ raced' = (raced \/ new \in Chosen)
    /\ UNCHANGED <<load, nodes, next_inode, vfs_cwd, shell, born, shheld,
                   holed, overread, longname>>

(* F_SETFL replaces the access mode too.                                   *)
vfs_fcntl(f, flags) ==
    /\ f \in held /\ fds[f].open
    /\ fds' = [fds EXCEPT ![f].flags = flags]
    /\ UNCHANGED <<load, nodes, next_inode, vfs_cwd, shell, born, history>>
-----------------------------------------------------------------------------
IsFile(f) == fds[f].open /\ Exists(fds[f].inode) /\ ~IsDir(fds[f].inode)

(* krealloc of the data of a node to n bytes.                              *)
Grown(data, n) == [k \in 1 .. n |-> IF k \in DOMAIN data THEN data[k] ELSE "u"]

RoundUp(n) == ((n + PAGE - 1) \div PAGE) * PAGE

(* The file gets the size n; what is cut off stays in the buffer.          *)
Cut(data, n) == [k \in DOMAIN data |-> IF k > n THEN "u" ELSE data[k]]

vfs_ftruncate(f, n) ==
    /\ f \in held /\ IsFile(f)
    /\ LET s == node_get(fds[f].inode)
           d == IF n > Len(nodes[s].data)
                THEN Grown(nodes[s].data, RoundUp(n + SLACK))
                ELSE nodes[s].data
       IN  /\ nodes' = [nodes EXCEPT ![s].data = Cut(d, n), ![s].size = n]
           /\ past' = {g \in past : fds[g].inode # fds[f].inode}
                      \cup Beyond(fds[f].inode, n)
           /\ holed' = IF n > nodes[s].size THEN holed \cup {nodes[s].id}
                       ELSE holed
    /\ UNCHANGED <<load, fds, next_inode, vfs_cwd, shell, born, held, shheld,
                   overread, longname, raced>>

(* Mutant: the length is not limited by what is left. *)
ToRead_Mutant(size, offset, n) == n

(* avail is a size_t: it wraps when the offset is past the end.            *)
ToRead(size, offset, n) ==
    LET avail == (size - offset) % SIZE_T IN IF n < avail THEN n ELSE avail

vfs_read(f, n) ==
    /\ f \in held \/ (f \in shheld /\ pc = "idle")
    /\ IsFile(f) /\ "R" \in fds[f].flags
    /\ LET size == nodes[node_get(fds[f].inode)].size
           o == fds[f].offset
           got == ToRead(size, o, n)
       IN  /\ o + got <= load.max
           /\ fds' = [fds EXCEPT ![f].offset = o + got]
           /\ overread' = (overread \/ (f \notin past /\ o + got > size))
    /\ UNCHANGED <<load, nodes, next_inode, vfs_cwd, shell, born, held, shheld,
                   past, holed, longname, raced>>

vfs_lseek(f, o) ==
    /\ f \in held /\ IsFile(f)
    /\ fds' = [fds EXCEPT ![f].offset = o]
    /\ past' = IF o > nodes[node_get(fds[f].inode)].size THEN past \cup {f}
               ELSE past \ {f}
    /\ UNCHANGED <<load, nodes, next_inode, vfs_cwd, shell, born, held, shheld,
                   holed, overread, longname, raced>>

(* Mutant: the size grows by what is written, wherever it is. *)
SizeAfter_Mutant(size, end, n) == size + n

SizeAfter(size, end, n) == IF end > size THEN end ELSE size

(* vfs_write of n bytes through f into the node in slot s.                 *)
WriteTo(s, f, n) ==
    LET o == fds[f].offset
        end == o + n
        d == IF end > Len(nodes[s].data) THEN Grown(nodes[s].data, end + SLACK)
                                         ELSE nodes[s].data
    IN  /\ end <= load.max
        /\ nodes' = [nodes EXCEPT
              ![s].data = [k \in DOMAIN d |-> IF k \in o + 1 .. end THEN "w"
                                                                    ELSE d[k]],
              ![s].size = SizeAfter(@, end, n)]
        /\ fds' = [fds EXCEPT ![f].offset = end]
        /\ past' = past \ {f}
        /\ holed' = IF o > nodes[s].size THEN holed \cup {nodes[s].id}
                                         ELSE holed

vfs_write(f, n) ==
    /\ f \in held /\ IsFile(f) /\ "W" \in fds[f].flags
    /\ WriteTo(node_get(fds[f].inode), f, n)
    /\ UNCHANGED <<load, next_inode, vfs_cwd, shell, born, held, shheld,
                   overread, longname, raced>>
-----------------------------------------------------------------------------
Leave ==
    pc' = "idle" /\ sfd' = 0 /\ snode' = 0 /\ sslot' = 0 /\ scall' = NoCall

(* The shell's open: a descriptor is chosen...                             *)
shell_open(path, flags) ==
    /\ pc = "idle" /\ FreeFds # {}
    /\ pc' = "resolve"
    /\ sfd' = First(FreeFds)
    /\ scall' = [NoCall EXCEPT !.path = path, !.flags = flags]
    /\ UNCHANGED <<load, nodes, fds, next_inode, vfs_cwd, snode, sslot, born,
                   history>>

(* ...the path is resolved, up to the parent when the file is new...       *)
shell_resolve ==
    /\ pc = "resolve"
    /\ LET path == scall.path
       IN  IF vfs_resolve(path) # NONE
           THEN pc' = "store" /\ snode' = vfs_resolve(path)
                              /\ UNCHANGED <<sfd, sslot, scall>>
           ELSE IF "C" \in scall.flags /\ IsDir(resolve_parent(path)) /\ Room
           THEN pc' = "create" /\ snode' = resolve_parent(path)
                               /\ UNCHANGED <<sfd, sslot, scall>>
           ELSE Leave
    /\ UNCHANGED <<load, nodes, fds, next_inode, vfs_cwd, born, history>>

(* ...a slot is chosen and the next number read...                         *)
shell_create ==
    /\ pc = "create"
    /\ IF Room
       THEN /\ pc' = "fill" /\ sslot' = node_alloc
            /\ scall' = [scall EXCEPT !.number = NewInode]
            /\ UNCHANGED <<sfd, snode>>
       ELSE Leave
    /\ UNCHANGED <<load, nodes, fds, next_inode, vfs_cwd, born, history>>

(* ...the node is filled in and the number after it stored...              *)
shell_fill ==
    /\ pc = "fill"
    /\ CreateAt(sslot, scall.number, "FILE", snode, scall.path.leaf)
    /\ pc' = "store" /\ snode' = scall.number
    /\ UNCHANGED <<load, fds, vfs_cwd, sfd, sslot, scall, held, shheld, past,
                   holed, overread, raced>>

(* ...and the descriptor is marked as open.                                *)
shell_store ==
    /\ pc = "store"
    /\ IF Exists(snode) /\ ~IsDir(snode)
       THEN /\ Enter(sfd, node_get(snode), scall.flags, nodes)
            /\ shheld' = shheld \cup {sfd}
       ELSE UNCHANGED <<nodes, fds, shheld, past, holed>>
    /\ Leave
    /\ UNCHANGED <<load, next_inode, vfs_cwd, born, held, overread, longname,
                   raced>>

(* The shell's write: it has a pointer to the node...                      *)
shell_write(f, n) ==
    /\ pc = "idle" /\ f \in shheld /\ IsFile(f) /\ "W" \in fds[f].flags
    /\ pc' = "copy" /\ sfd' = f /\ snode' = node_get(fds[f].inode)
    /\ scall' = [NoCall EXCEPT !.len = n]
    /\ UNCHANGED <<load, nodes, fds, next_inode, vfs_cwd, sslot, born,
                   history>>

(* ...and writes through it.                                               *)
shell_copy ==
    /\ pc = "copy"
    /\ WriteTo(snode, sfd, scall.len)
    /\ Leave
    /\ UNCHANGED <<load, next_inode, vfs_cwd, born, held, shheld, overread,
                   longname, raced>>

ShellStep ==
    \/ /\ "cd" \in load.shell
       /\ \E path \in load.paths : vfs_set_cwd(path)
    \/ /\ "open" \in load.shell
       /\ \E path \in load.paths, flags \in load.flags :
             shell_open(path, flags)
    \/ shell_resolve
    \/ shell_create
    \/ shell_fill
    \/ shell_store
    \/ \E f \in Fd, n \in load.lens : shell_write(f, n)
    \/ shell_copy

Next ==
    /\ \/ \E path \in load.paths : vfs_mkdir(path)
       \/ \E path \in load.paths : vfs_unlink(path)
       \/ \E path \in load.paths, flags \in load.flags : vfs_open(path, flags)
       \/ \E f \in Fd : vfs_close(f)
       \/ \E f, g \in Fd : vfs_dup(f, g)
       \/ \E f \in Fd, flags \in load.flags : vfs_fcntl(f, flags)
       \/ \E f \in Fd, n \in load.cuts : vfs_ftruncate(f, n)
       \/ \E f \in Fd, n \in load.lens : vfs_read(f, n)
       \/ \E f \in Fd, o \in load.seeks : vfs_lseek(f, o)
       \/ \E f \in Fd, n \in load.lens : vfs_write(f, n)
       \/ ShellStep
    /\ UNCHANGED load

Spec == Init /\ [][Next]_vars
-----------------------------------------------------------------------------
(* The tree is a tree: below the root every node hangs from a directory    *)
(* that is older than it, and two nodes of a directory have different      *)
(* names, through every order of creating and removing; unless a program   *)
(* interferes with a call of the shell, and for names also unless a        *)
(* component is longer than VFS_NAME_MAX, which is cut when a node is      *)
(* created and taken apart when it is looked up (vfs.c:59 and 182).        *)
TreeOK ==
    \A s, r \in {x \in Slot : nodes[x].used /\ nodes[x].inode # ROOT} :
        ~raced =>
        /\ IsDir(nodes[s].parent) /\ nodes[s].parent < nodes[s].inode
        /\ nodes[s].inode = nodes[r].inode => s = r
        /\ ~longname /\ nodes[s].parent = nodes[r].parent
                     /\ nodes[s].name = nodes[r].name => s = r

(* A descriptor never reaches another file than the one it was opened on,  *)
(* even when that one was removed and its slot is in use again (vfs.c:253, *)
(* 280, 296 and 353), unless a program creates a node while the shell is   *)
(* creating one: both may then get the same number (vfs.c:180).            *)
SameFile ==
    \A f \in Fd : ~raced /\ fds[f].open /\ Exists(fds[f].inode) =>
        nodes[node_get(fds[f].inode)].id = fds[f].id

(* A descriptor belongs to one owner, programs or the shell, and is open   *)
(* until that owner closes it, unless a program opens a file while the     *)
(* shell is opening one (vfs.c:145-149 and 197).                           *)
OneOwner ==
    ~raced => /\ held \cap shheld = {}
              /\ {f \in Fd : fds[f].open} = held \cup shheld

(* A read returns bytes of the file only, unless the descriptor was sought *)
(* past the end or the file cut under it: then size - offset wraps         *)
(* (vfs.c:284-288); or a program interfered with a call of the shell, and  *)
(* two files have the same number.                                         *)
ReadsInside == ~raced => ~overread

(* Below the size there are only bytes that a program wrote, unless the    *)
(* file was extended by ftruncate or by a write past the end: the buffer   *)
(* is not cleared (vfs.c:262-269 and 302-312); and the buffer holds them.  *)
BytesWritten ==
    \A s \in Slot : nodes[s].used =>
        /\ nodes[s].size <= Len(nodes[s].data)
        /\ nodes[s].id \notin holed =>
              \A k \in 1 .. nodes[s].size : nodes[s].data[k] = "w"
=============================================================================
