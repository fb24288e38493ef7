----------------------------- MODULE VfsProofs -----------------------------
(***************************************************************************)
(* Proofs about the file system, for any number of nodes and descriptors   *)
(* and any paths, flags, lengths and offsets: the tree, the numbers, what  *)
(* a descriptor reaches, who owns it, and the bytes of a file.             *)
(***************************************************************************)
EXTENDS Vfs, WellFoundedInduction, TLAPS

NodeT == [used : BOOLEAN, type : {"FILE", "DIR"}, inode : Nat, parent : Nat,
          name : STRING \cup {"", "/"}, data : Seq({"w", "u"}), size : Nat,
          id : Nat]
FdT == [open : BOOLEAN, inode : Nat, offset : Nat, flags : Flags, id : Nat]
CallT == [path : Path \cup {NoCall.path}, flags : Flags, len : Nat,
          number : Nat]

TypeOK ==
    /\ load \in Loads
    /\ nodes \in [Slot -> NodeT]
    /\ fds \in [Fd -> FdT]
    /\ next_inode \in Nat /\ born \in Nat /\ next_inode > 0
    /\ pc \in {"idle", "resolve", "create", "fill", "store", "copy"}
    /\ scall \in CallT
    /\ pc # "idle" => sfd \in Fd
    /\ pc \in {"resolve", "create", "fill"} => scall.path \in Path
    /\ pc \in {"create", "fill"} => snode \in Nat
    /\ pc = "copy" => snode \in Slot
    /\ pc = "fill" => sslot \in Slot
    /\ held \subseteq Fd /\ shheld \subseteq Fd
    /\ longname \in BOOLEAN /\ raced \in BOOLEAN /\ overread \in BOOLEAN

(* A node has a number of its own in born, and its bytes are marked.       *)
Marked ==
    /\ \A s \in Slot : nodes[s].id <= born
    /\ \A s, r \in Slot : nodes[s].used /\ nodes[r].used
                          /\ nodes[s].id = nodes[r].id => s = r
    /\ \A i \in holed : i \in Nat /\ i <= born
    /\ BytesWritten

Numbered ==
    /\ \A s, r \in Slot : nodes[s].used /\ nodes[r].used
                          /\ nodes[s].inode = nodes[r].inode => s = r
    /\ \A s \in Slot : nodes[s].used => nodes[s].inode < next_inode

(* No descriptor has a number that is still to be given.                   *)
Fresh == \A f \in Fd : fds[f].open => fds[f].inode < next_inode

HasDir(i) ==
    \E r \in Slot : nodes[r].used /\ nodes[r].type = "DIR"
                                  /\ nodes[r].inode = i

(* Every node but the root hangs from an older directory.                  *)
Hangs ==
    \A s \in Slot : nodes[s].used /\ nodes[s].inode # ROOT =>
        /\ nodes[s].parent < nodes[s].inode
        /\ HasDir(nodes[s].parent)

Named ==
    ~longname =>
      \A s, r \in Slot :
        /\ nodes[s].used /\ nodes[s].inode # ROOT
        /\ nodes[r].used /\ nodes[r].inode # ROOT
        /\ nodes[s].parent = nodes[r].parent /\ nodes[s].name = nodes[r].name
        => s = r

(* A descriptor and the node it reaches.                                   *)
Reaches(f, s) ==
    fds[f].open /\ nodes[s].used /\ nodes[s].inode = fds[f].inode

Bound ==
    \A f \in Fd, s \in Slot : Reaches(f, s) =>
        /\ nodes[s].id = fds[f].id
        /\ f \notin past => fds[f].offset <= nodes[s].size

Owned ==
    /\ held \cap shheld = {}
    /\ \A f \in Fd : fds[f].open <=> f \in held \cup shheld

(* What a call of the shell has read still holds.                          *)
ShellInv ==
    /\ pc \in {"resolve", "create", "fill", "store"} => ~fds[sfd].open
    /\ pc \in {"create", "fill"} =>
         /\ HasDir(snode)
         /\ Len(scall.path.leaf) = 1 =>
              Children(snode, scall.path.leaf[1]) = {}
    /\ pc = "fill" => scall.number = next_inode /\ ~nodes[sslot].used
    /\ pc = "copy" => sfd \in shheld /\ Reaches(sfd, snode)

Sound ==
    /\ Numbered /\ Hangs /\ Named
    /\ Fresh /\ Bound /\ Owned /\ ShellInv /\ ~overread

VfsInv == TypeOK /\ Marked /\ (~raced => Sound)

-----------------------------------------------------------------------------
(* A set of natural numbers that is not empty has a least member.          *)
LEMMA LeastNat ==
    ASSUME NEW S \in SUBSET Nat, S # {}
    PROVE  \E x \in S : \A y \in S : x <= y
<1> DEFINE Less == {ss \in Nat \X Nat : ss[1] < ss[2]}
<1>1. IsWellFoundedOn(Less, Nat)
  BY NatLessThanWellFounded, Zenon DEF OpToRel, Less
<1>2. PICK x \in S : \A y \in S : ~(<<y, x>> \in Less)
  BY <1>1, WFMin
<1>3. ASSUME NEW y \in S
      PROVE  x <= y
  <2>1. x \in Nat /\ y \in Nat /\ ~(<<y, x>> \in Less)
    BY <1>2
  <2> QED
    BY <2>1 DEF Less
<1> QED
  BY <1>3

LEMMA FirstIn ==
    ASSUME NEW S \in SUBSET Nat, S # {}
    PROVE  First(S) \in S
BY LeastNat, Zenon DEF First

(* node_get finds a used node with the inode, node_alloc a free slot.      *)
LEMMA NodeGet ==
    ASSUME NEW i, Exists(i)
    PROVE  /\ node_get(i) \in Slot
           /\ nodes[node_get(i)].used /\ nodes[node_get(i)].inode = i
<1>1. SlotsOf(i) \in SUBSET Nat
  BY VfsAssumption DEF SlotsOf, Slot
<1>2. First(SlotsOf(i)) \in SlotsOf(i)
  BY <1>1, FirstIn DEF Exists
<1> QED
  BY <1>2 DEF SlotsOf, node_get

LEMMA NodeAlloc ==
    ASSUME Room
    PROVE  node_alloc \in Slot /\ ~nodes[node_alloc].used
<1> DEFINE S == {s \in Slot : ~nodes[s].used}
<1>1. S \in SUBSET Nat /\ S # {}
  BY VfsAssumption DEF Slot, Room
<1>2. First(S) \in S
  BY <1>1, FirstIn
<1> QED
  BY <1>2 DEF node_alloc

LEMMA FirstFree ==
    ASSUME FreeFds # {}
    PROVE  First(FreeFds) \in Fd /\ ~fds[First(FreeFds)].open
<1>1. FreeFds \in SUBSET Nat
  BY VfsAssumption DEF FreeFds, Fd
<1>2. First(FreeFds) \in FreeFds
  BY <1>1, FirstIn
<1> QED
  BY <1>2 DEF FreeFds

(* With numbers that differ, node_get finds the one node.                  *)
LEMMA OnlyNode ==
    ASSUME Numbered, NEW s \in Slot, nodes[s].used
    PROVE  Exists(nodes[s].inode) /\ node_get(nodes[s].inode) = s
<1>1. Exists(nodes[s].inode)
  BY DEF Exists, SlotsOf
<1> QED
  BY <1>1, NodeGet DEF Numbered

LEMMA DirHas ==
    ASSUME TypeOK, NEW i, IsDir(i)
    PROVE  HasDir(i) /\ i \in Nat
<1>1. Exists(i) /\ nodes[node_get(i)].type = "DIR"
  BY DEF IsDir
<1>2. /\ node_get(i) \in Slot
      /\ nodes[node_get(i)].used /\ nodes[node_get(i)].inode = i
  BY <1>1, NodeGet
<1>3. nodes[node_get(i)].inode \in Nat
  BY <1>2 DEF TypeOK, NodeT
<1> QED
  BY <1>1, <1>2, <1>3 DEF HasDir

LEMMA HasIsDir ==
    ASSUME Numbered, TypeOK, NEW i, HasDir(i)
    PROVE  IsDir(i)
<1>1. PICK r \in Slot : nodes[r].used /\ nodes[r].type = "DIR"
                                     /\ nodes[r].inode = i
  BY DEF HasDir
<1>2. i \in Nat
  BY <1>1 DEF TypeOK, NodeT
<1> QED
  BY <1>1, <1>2, OnlyNode, VfsAssumption DEF IsDir

(* A path of one piece is one step of the walk.                            *)
LEMMA FollowOne ==
    ASSUME NEW a, NEW x
    PROVE  Follow(a, <<x>>) = Walk(a, x)
<1> DEFINE G(it, s) == IF s = {} THEN a
                       ELSE Walk(it[s \ {Max(s)}], <<x>>[Max(s)])
           Is(it) == it = [s \in SUBSET (DOMAIN <<x>>) |-> G(it, s)]
           it == CHOOSE it : Is(it)
           one == [s \in SUBSET {1} |-> IF s = {} THEN a ELSE Walk(a, x)]
<1>1. Follow(a, <<x>>) = it[DOMAIN <<x>>]
  BY Zenon DEF Follow, FoldLeft, MapThenFoldSet
<1>2. DOMAIN <<x>> = {1} /\ <<x>>[1] = x
  OBVIOUS
<1>3. Max({1}) = 1
  BY DEF Max
<1>4. \A s \in SUBSET {1} : s = {} \/ s = {1}
  OBVIOUS
<1>5. Is(one)
  <2>1. \A s \in SUBSET {1} : G(one, s) = IF s = {} THEN a ELSE Walk(a, x)
    <3>1. one[{}] = a
      OBVIOUS
    <3>2. {1} \ {1} = {}
      OBVIOUS
    <3>3. G(one, {1}) = Walk(a, x)
      BY <1>2, <1>3, <3>1, <3>2, Zenon
    <3>4. G(one, {}) = a
      OBVIOUS
    <3> QED
      BY <1>4, <3>3, <3>4, Zenon
  <2> QED
    BY <1>2, <2>1, Zenon
<1>6. Is(it)
  <2> HIDE DEF Is
  <2> QED BY <1>5, Zenon
<1>7. it[{}] = a
  BY <1>2, <1>6
<1>8. it[{1}] = Walk(a, x)
  <2>1. it[{1}] = G(it, {1})
    BY <1>2, <1>6
  <2>2. {1} \ {1} = {}
    OBVIOUS
  <2> QED
    BY <1>2, <1>3, <1>7, <2>1, <2>2, Zenon
<1> QED
  BY <1>1, <1>2, <1>8, Zenon

(* A path that leads nowhere from a directory: the directory has no node   *)
(* of that name.                                                           *)
LEMMA NewName ==
    ASSUME TypeOK, NEW path \in Path, Len(path.leaf) = 1,
           vfs_resolve(path) = NONE, IsDir(resolve_parent(path))
    PROVE  Children(resolve_parent(path), path.leaf[1]) = {}
<1> DEFINE p == resolve_parent(path)  x == path.leaf[1]
<1>1. path.leaf = <<x>>
  BY DEF Path
<1>2. Walk(p, x) = NONE
  BY <1>1, FollowOne, Zenon DEF vfs_resolve
<1>3. p # NONE /\ Exists(p)
  BY DEF IsDir
<1>4. nodes[node_get(p)].parent \in Nat
  BY <1>3, NodeGet DEF TypeOK, NodeT
<1>5. x # ".." /\ (Children(p, x) = {}
                   \/ nodes[First(Children(p, x))].inode = NONE)
  <2> HIDE DEF p, x
  <2> QED
    BY <1>2, <1>3, <1>4, VfsAssumption DEF Walk
<1>6. ASSUME Children(p, x) # {}
      PROVE  nodes[First(Children(p, x))].inode \in Nat
  <2> HIDE DEF p, x
  <2>1. Children(p, x) \in SUBSET Nat /\ Children(p, x) \subseteq Slot
    BY VfsAssumption DEF Children, Slot
  <2>2. First(Children(p, x)) \in Slot
    BY <1>6, <2>1, FirstIn
  <2> QED
    BY <2>2 DEF TypeOK, NodeT
<1> QED
  BY <1>5, <1>6, VfsAssumption

(* The inputs of a load.                                                   *)
LEMMA LoadType ==
    ASSUME TypeOK
    PROVE  /\ load.paths \subseteq Path /\ load.flags \subseteq Flags
           /\ load.lens \subseteq Nat /\ load.cuts \subseteq Nat
           /\ load.seeks \subseteq Nat /\ load.max \in Nat
<1> USE VfsAssumption
<1>1. load \in
          [paths : SUBSET Path, flags : SUBSET Flags,
           lens : SUBSET (0 .. MaxOffset), cuts : SUBSET (0 .. MaxOffset),
           seeks : SUBSET (0 .. MaxOffset), max : 0 .. MaxOffset,
           shell : SUBSET {"cd", "open"}]
  BY Zenon DEF TypeOK
<1> QED
  BY <1>1

(* The bytes of a buffer: marks, and written up to n.                      *)
Mark == {"w", "u"}
Filled(d, n) == \A k \in 1 .. n : d[k] = "w"

LEMMA FunctionIsBuffer ==
    ASSUME NEW n \in Nat, NEW d \in [1 .. n -> Mark]
    PROVE  d \in Seq(Mark) /\ Len(d) = n /\ DOMAIN d = 1 .. n
OBVIOUS

LEMMA GrownBuffer ==
    ASSUME NEW d \in Seq(Mark), NEW n \in Nat
    PROVE  /\ Grown(d, n) \in Seq(Mark) /\ Len(Grown(d, n)) = n
           /\ \A k \in 1 .. n : k <= Len(d) => Grown(d, n)[k] = d[k]
<1>1. Grown(d, n) \in [1 .. n -> Mark]
  <2>1. \A k \in DOMAIN d : d[k] \in Mark
    OBVIOUS
  <2> QED
    BY <2>1 DEF Grown, Mark
<1>2. \A k \in 1 .. n : k <= Len(d) => Grown(d, n)[k] = d[k]
  BY DEF Grown
<1> QED
  BY <1>1, <1>2, FunctionIsBuffer

LEMMA CutBuffer ==
    ASSUME NEW d \in Seq(Mark), NEW n \in Nat
    PROVE  /\ Cut(d, n) \in Seq(Mark) /\ Len(Cut(d, n)) = Len(d)
           /\ \A k \in 1 .. Len(d) : k <= n => Cut(d, n)[k] = d[k]
<1>1. DOMAIN d = 1 .. Len(d) /\ Len(d) \in Nat
  OBVIOUS
<1>2. Cut(d, n) \in [1 .. Len(d) -> Mark]
  <2>1. \A k \in DOMAIN d : d[k] \in Mark
    OBVIOUS
  <2> QED
    BY <1>1, <2>1 DEF Cut, Mark
<1>3. \A k \in 1 .. Len(d) : k <= n => Cut(d, n)[k] = d[k]
  BY <1>1 DEF Cut
<1> QED
  BY <1>1, <1>2, <1>3, FunctionIsBuffer

(* The buffer after n bytes are written from o on.                         *)
Written(d, o, end) ==
    [k \in DOMAIN d |-> IF k \in o + 1 .. end THEN "w" ELSE d[k]]

LEMMA WrittenBuffer ==
    ASSUME NEW d \in Seq(Mark), NEW o \in Nat, NEW end \in Nat
    PROVE  /\ Written(d, o, end) \in Seq(Mark)
           /\ Len(Written(d, o, end)) = Len(d)
           /\ \A k \in 1 .. Len(d) :
                Written(d, o, end)[k] = IF k \in o + 1 .. end THEN "w"
                                                              ELSE d[k]
<1>1. DOMAIN d = 1 .. Len(d) /\ Len(d) \in Nat
  OBVIOUS
<1>2. Written(d, o, end) \in [1 .. Len(d) -> Mark]
  <2>1. \A k \in DOMAIN d : d[k] \in Mark
    OBVIOUS
  <2> QED
    BY <1>1, <2>1 DEF Written, Mark
<1>3. \A k \in 1 .. Len(d) :
        Written(d, o, end)[k] = IF k \in o + 1 .. end THEN "w" ELSE d[k]
  BY <1>1 DEF Written
<1> QED
  BY <1>1, <1>2, <1>3, FunctionIsBuffer

(* Rounding up to a page does not shorten.                                 *)
LEMMA RoundUpCovers ==
    ASSUME NEW n \in Nat
    PROVE  RoundUp(n) \in Nat /\ RoundUp(n) >= n
<1>1. PAGE \in Nat /\ PAGE > 0
  BY VfsAssumption
<1> DEFINE m == n + PAGE - 1
<1>2. m \in Nat
  BY <1>1
<1>3. m \div PAGE \in Nat /\ m - PAGE < (m \div PAGE) * PAGE
  <2> HIDE DEF m
  <2> QED
    BY <1>1, <1>2
<1>4. RoundUp(n) = (m \div PAGE) * PAGE
  BY DEF RoundUp
<1>5. (m \div PAGE) * PAGE \in Nat
  <2> HIDE DEF m
  <2> QED
    BY <1>1, <1>3
<1> QED
  BY <1>1, <1>3, <1>4, <1>5

-----------------------------------------------------------------------------
(* A step that keeps the tree: the same nodes, but for their bytes.        *)
SameNode(m, n) ==
    /\ m.used = n.used /\ m.type = n.type /\ m.inode = n.inode
    /\ m.parent = n.parent /\ m.name = n.name /\ m.id = n.id
SameTree == \A r \in Slot : SameNode(nodes[r], nodes'[r])

LEMMA TreeKept ==
    ASSUME SameTree, UNCHANGED <<next_inode, longname>>
    PROVE  /\ Numbered => Numbered'
           /\ Hangs => Hangs'
           /\ Named => Named'
           /\ \A i : HasDir(i) => HasDir(i)'
           /\ \A i, x : Children(i, x)' = Children(i, x)
<1> USE DEF SameTree, SameNode
<1>1. Numbered => Numbered'
  BY DEF Numbered
<1>2. \A i : HasDir(i) => HasDir(i)'
  BY DEF HasDir
<1>3. Hangs => Hangs'
  BY <1>2 DEF Hangs
<1>4. Named => Named'
  BY DEF Named
<1>5. \A i, x : Children(i, x)' = Children(i, x)
  BY DEF Children
<1> QED
  BY <1>1, <1>2, <1>3, <1>4, <1>5

(* The bytes of one node change: the shape of the table after it.          *)
Refilled(s, d, n) == nodes' = [nodes EXCEPT ![s].data = d, ![s].size = n]

LEMMA Refill ==
    ASSUME TypeOK, NEW s \in Slot, NEW d \in Seq(Mark), NEW n \in Nat,
           Refilled(s, d, n)
    PROVE  /\ nodes' \in [Slot -> NodeT]
           /\ SameTree
           /\ nodes'[s].data = d /\ nodes'[s].size = n
           /\ \A r \in Slot : r # s => nodes'[r] = nodes[r]
<1>1. nodes \in [Slot -> NodeT] /\ nodes[s] \in NodeT
  BY DEF TypeOK
<1>2. nodes'[s] = [nodes[s] EXCEPT !.data = d, !.size = n]
  BY <1>1 DEF Refilled
<1>3. nodes'[s] \in NodeT
  BY <1>1, <1>2 DEF NodeT, Mark
<1>4. \A r \in Slot : r # s => nodes'[r] = nodes[r]
  BY <1>1 DEF Refilled
<1>5. nodes' \in [Slot -> NodeT]
  BY <1>1, <1>3, <1>4 DEF Refilled
<1>6. nodes'[s].data = d /\ nodes'[s].size = n /\ SameNode(nodes[s], nodes'[s])
  BY <1>1, <1>2 DEF NodeT, SameNode
<1>7. SameTree
  BY <1>4, <1>6 DEF SameTree, SameNode
<1> QED
  BY <1>4, <1>5, <1>6, <1>7

(* ...and its marks, when the new bytes are as holed' says.                *)
LEMMA RefillMarked ==
    ASSUME TypeOK, Marked, NEW s \in Slot,
           SameTree, \A r \in Slot : r # s => nodes'[r] = nodes[r],
           born' = born,
           holed' \subseteq holed \cup {nodes[s].id},
           nodes[s].used \/ holed \subseteq holed',
           holed \subseteq holed' \cup {nodes[s].id},
           nodes[s].used => nodes'[s].size <= Len(nodes'[s].data),
           nodes[s].used /\ nodes[s].id \notin holed' =>
              Filled(nodes'[s].data, nodes'[s].size)
    PROVE  Marked'
<1>1. \A r \in Slot : nodes'[r].id <= born'
  BY DEF Marked, SameTree, SameNode
<1>2. \A q, r \in Slot : nodes'[q].used /\ nodes'[r].used
                         /\ nodes'[q].id = nodes'[r].id => q = r
  BY DEF Marked, SameTree, SameNode
<1>3. \A i \in holed' : i \in Nat /\ i <= born'
  <2>1. nodes[s].id \in Nat /\ nodes[s].id <= born
    BY DEF Marked, TypeOK, NodeT
  <2> QED
    BY <2>1 DEF Marked
<1>4. ASSUME NEW r \in Slot, nodes'[r].used
      PROVE  /\ nodes'[r].size <= Len(nodes'[r].data)
             /\ nodes'[r].id \notin holed' =>
                  Filled(nodes'[r].data, nodes'[r].size)
  <2>1. nodes[r].used /\ nodes'[r].id = nodes[r].id
    BY <1>4 DEF SameTree, SameNode
  <2>2. CASE r = s
    BY <2>1, <2>2
  <2>3. CASE r # s
    <3>1. nodes'[r] = nodes[r]
      BY <2>3
    <3>2. nodes[s].used => nodes[r].id # nodes[s].id
      BY <2>1, <2>3 DEF Marked
    <3>3. nodes[r].id \notin holed' => nodes[r].id \notin holed
      BY <3>2
    <3> QED
      BY <2>1, <3>1, <3>3 DEF Marked, BytesWritten, Filled
  <2> QED
    BY <2>2, <2>3
<1>5. BytesWritten'
  BY <1>4 DEF BytesWritten, Filled
<1> QED
  BY <1>1, <1>2, <1>3, <1>5 DEF Marked

(* The table after a node is created in slot s with the number i.          *)
LEMMA Created ==
    ASSUME TypeOK, NEW s \in Slot, NEW i \in Nat,
           NEW type \in {"FILE", "DIR"}, NEW dir \in Nat,
           NEW leaf \in Seq(STRING) \ {<<>>},
           CreateAt(s, i, type, dir, leaf)
    PROVE  /\ nodes' \in [Slot -> NodeT]
           /\ \A r \in Slot : r # s => nodes'[r] = nodes[r]
           /\ nodes'[s].used /\ nodes'[s].type = type
           /\ nodes'[s].inode = i /\ nodes'[s].parent = dir
           /\ nodes'[s].name = leaf[1] /\ nodes'[s].data = <<>>
           /\ nodes'[s].size = 0 /\ nodes'[s].id = born + 1
           /\ next_inode' = i + 1 /\ born' = born + 1
           /\ next_inode' \in Nat /\ next_inode' > 0 /\ born' \in Nat
           /\ longname' \in BOOLEAN
           /\ ~longname' => ~longname /\ Len(leaf) = 1
<1> DEFINE new == [Node(type, i, dir, leaf[1]) EXCEPT !.id = born + 1]
<1>1. leaf[1] \in STRING /\ Len(leaf) \in Nat /\ Len(leaf) > 0
  OBVIOUS
<1>2. born \in Nat /\ nodes \in [Slot -> NodeT] /\ longname \in BOOLEAN
  BY DEF TypeOK
<1>3. new \in NodeT
  <2>1. <<>> \in Seq({"w", "u"})
    OBVIOUS
  <2>2. Unused \in NodeT
    BY <2>1 DEF NodeT, Unused
  <2>3. Node(type, i, dir, leaf[1]) \in NodeT
    BY <1>1, <1>2, <2>2 DEF NodeT, Node
  <2>4. \A n \in NodeT, b \in Nat : [n EXCEPT !.id = b] \in NodeT
    BY DEF NodeT
  <2>5. born + 1 \in Nat
    BY <1>2
  <2> QED
    BY <2>3, <2>4, <2>5, Zenon
<1>4. /\ new.used /\ new.type = type /\ new.inode = i /\ new.parent = dir
      /\ new.name = leaf[1] /\ new.data = <<>> /\ new.size = 0
      /\ new.id = born + 1
  BY DEF Node, Unused
<1>5. nodes' = [nodes EXCEPT ![s] = new]
  BY Zenon DEF CreateAt
<1>6. /\ nodes' \in [Slot -> NodeT] /\ nodes'[s] = new
      /\ \A r \in Slot : r # s => nodes'[r] = nodes[r]
  <2> HIDE DEF new
  <2> QED
    BY <1>2, <1>3, <1>5
<1>7. next_inode' = i + 1 /\ born' = born + 1
      /\ longname' = (longname \/ Len(leaf) > 1)
  BY DEF CreateAt
<1>8. ~longname' => ~longname /\ Len(leaf) = 1
  <2>1. ~longname' => ~longname /\ ~(Len(leaf) > 1)
    BY <1>7, Zenon
  <2>2. \A n \in Nat : n > 0 /\ ~(n > 1) => n = 1
    OBVIOUS
  <2> QED
    BY <1>1, <2>1, <2>2, Zenon
<1>9. longname' \in BOOLEAN
  BY <1>7, Zenon
<1>10. /\ nodes'[s].used /\ nodes'[s].type = type
       /\ nodes'[s].inode = i /\ nodes'[s].parent = dir
       /\ nodes'[s].name = leaf[1] /\ nodes'[s].data = <<>>
       /\ nodes'[s].size = 0 /\ nodes'[s].id = born + 1
  <2> HIDE DEF new
  <2> QED
    BY <1>4, <1>6, Zenon
<1>11. next_inode' \in Nat /\ next_inode' > 0 /\ born' \in Nat
  BY <1>2, <1>7
<1> QED
  BY <1>6, <1>7, <1>8, <1>9, <1>10, <1>11, Zenon

LEMMA CreatedMarked ==
    ASSUME TypeOK, Marked, NEW s \in Slot,
           \A r \in Slot : r # s => nodes'[r] = nodes[r],
           nodes'[s].id = born + 1, nodes'[s].size = 0,
           nodes'[s].data = <<>>, born' = born + 1, holed' = holed
    PROVE  Marked'
<1>0. born \in Nat /\ \A r \in Slot : nodes[r].id \in Nat /\ nodes[r].id <= born
  BY DEF Marked, TypeOK, NodeT
<1>1. \A r \in Slot : nodes'[r].id <= born'
  BY <1>0
<1>2. ASSUME NEW q \in Slot, NEW r \in Slot, nodes'[q].used, nodes'[r].used,
             nodes'[q].id = nodes'[r].id
      PROVE  q = r
  <2>1. \A t \in Slot : t # s => nodes'[t].id # born + 1
    BY <1>0
  <2>2. CASE q = s \/ r = s
    BY <1>2, <2>1, <2>2
  <2>3. CASE q # s /\ r # s
    BY <1>2, <2>3 DEF Marked
  <2> QED
    BY <2>2, <2>3
<1>3. \A i \in holed' : i \in Nat /\ i <= born'
  BY <1>0 DEF Marked
<1>4. ASSUME NEW r \in Slot, nodes'[r].used
      PROVE  /\ nodes'[r].size <= Len(nodes'[r].data)
             /\ nodes'[r].id \notin holed' =>
                  Filled(nodes'[r].data, nodes'[r].size)
  <2>1. CASE r = s
    BY <2>1 DEF Filled
  <2>2. CASE r # s
    BY <1>4, <2>2 DEF Marked, BytesWritten, Filled
  <2> QED
    BY <2>1, <2>2
<1>5. BytesWritten'
  BY <1>4 DEF BytesWritten, Filled
<1> QED
  BY <1>1, <1>2, <1>3, <1>5 DEF Marked

(* ...and the tree, when the slot was free, the number new, the parent a   *)
(* directory and the name not yet in it.                                   *)
LEMMA CreatedTree ==
    ASSUME TypeOK, Numbered, Hangs, Named, NEW s \in Slot, ~nodes[s].used,
           NEW dir \in Nat, NEW leaf, HasDir(dir),
           Len(leaf) = 1 => Children(dir, leaf[1]) = {},
           \A r \in Slot : r # s => nodes'[r] = nodes[r],
           nodes'[s].used, nodes'[s].inode = next_inode,
           nodes'[s].parent = dir, nodes'[s].name = leaf[1],
           next_inode' = next_inode + 1,
           ~longname' => ~longname /\ Len(leaf) = 1
    PROVE  Numbered' /\ Hangs' /\ Named' /\ \A i : HasDir(i) => HasDir(i)'
<1>0. /\ next_inode \in Nat /\ next_inode > 0
      /\ \A r \in Slot : nodes[r].inode \in Nat
      /\ \A r \in Slot : nodes[r].used => nodes[r].inode < next_inode
  BY DEF TypeOK, NodeT, Numbered
<1>1. Numbered'
  <2>1. \A r \in Slot : r # s /\ nodes'[r].used => nodes'[r].inode # next_inode
    BY <1>0
  <2>2. \A q, r \in Slot : nodes'[q].used /\ nodes'[r].used
                           /\ nodes'[q].inode = nodes'[r].inode => q = r
    BY <2>1 DEF Numbered
  <2>3. \A r \in Slot : nodes'[r].used => nodes'[r].inode < next_inode'
    BY <1>0
  <2> QED
    BY <2>2, <2>3 DEF Numbered
<1>2. \A i : HasDir(i) => HasDir(i)'
  BY DEF HasDir
<1>3. dir < next_inode
  BY <1>0 DEF HasDir
<1>4. ASSUME NEW r \in Slot, nodes'[r].used, nodes'[r].inode # ROOT
      PROVE  nodes'[r].parent < nodes'[r].inode /\ HasDir(nodes[r].parent)'
  <2> SUFFICES /\ nodes'[r].parent < nodes'[r].inode
               /\ HasDir(nodes'[r].parent)
    BY <1>2 DEF HasDir
  <2>1. CASE r = s
    BY <1>3, <2>1
  <2>2. CASE r # s
    BY <1>4, <2>2 DEF Hangs
  <2> QED
    BY <2>1, <2>2
<1>5. Hangs'
  BY <1>4 DEF Hangs
<1>6. ASSUME ~longname', NEW q \in Slot, NEW r \in Slot,
             nodes'[q].used, nodes'[q].inode # ROOT,
             nodes'[r].used, nodes'[r].inode # ROOT,
             nodes'[q].parent = nodes'[r].parent,
             nodes'[q].name = nodes'[r].name
      PROVE  q = r
  <2>1. ~longname /\ Children(dir, leaf[1]) = {}
    BY <1>6
  <2>2. \A t \in Slot : nodes[t].used /\ nodes[t].parent = dir
                                     => nodes[t].name # leaf[1]
    BY <2>1 DEF Children
  <2>3. CASE q = s \/ r = s
    BY <1>6, <2>2, <2>3
  <2>4. CASE q # s /\ r # s
    BY <1>6, <2>1, <2>4 DEF Named
  <2> QED
    BY <2>3, <2>4
<1>7. Named'
  BY <1>6 DEF Named
<1> QED
  BY <1>1, <1>2, <1>5, <1>7

-----------------------------------------------------------------------------
(* The end of an open: the node may be emptied, the descriptor refers to   *)
(* it and stands inside it.                                                *)
LEMMA Entered ==
    ASSUME TypeOK, Marked, NEW f \in Fd, NEW s \in Slot, nodes[s].used,
           NEW flags \in Flags, Enter(f, s, flags, nodes),
           UNCHANGED <<next_inode, born, longname>>
    PROVE  /\ nodes' \in [Slot -> NodeT] /\ fds' \in [Fd -> FdT]
           /\ SameTree /\ Marked'
           /\ fds'[f].open /\ \A g \in Fd : g # f => fds'[g] = fds[g]
           /\ Numbered /\ Fresh /\ Bound => Fresh' /\ Bound'
<1> DEFINE off == IF "W" \in flags /\ "T" \notin flags
                  THEN nodes[s].size ELSE 0
           new == [open |-> TRUE, inode |-> nodes[s].inode, offset |-> off,
                   flags |-> flags, id |-> nodes[s].id]
<1>0. nodes \in [Slot -> NodeT] /\ nodes[s] \in NodeT /\ fds \in [Fd -> FdT]
  BY DEF TypeOK
<1>1. /\ nodes' \in [Slot -> NodeT] /\ SameTree
      /\ \A r \in Slot : r # s => nodes'[r] = nodes[r]
      /\ "T" \in flags => nodes'[s].data = <<>> /\ nodes'[s].size = 0
      /\ "T" \notin flags => nodes'[s] = nodes[s]
  <2>1. CASE "T" \in flags
    <3>1. Refilled(s, <<>>, 0)
      BY <2>1 DEF Enter, Refilled
    <3>2. <<>> \in Seq(Mark) /\ 0 \in Nat
      OBVIOUS
    <3> QED
      BY <2>1, <3>1, <3>2, Refill
  <2>2. CASE "T" \notin flags
    <3>1. nodes' = nodes
      BY <2>2 DEF Enter
    <3> QED
      BY <1>0, <2>2, <3>1 DEF SameTree, SameNode
  <2> QED
    BY <2>1, <2>2
<1>2. Marked'
  <2>1. holed' = IF "T" \in flags THEN holed \ {nodes[s].id} ELSE holed
    BY DEF Enter
  <2>2. /\ nodes'[s].size <= Len(nodes'[s].data)
        /\ nodes[s].id \notin holed' =>
              Filled(nodes'[s].data, nodes'[s].size)
    <3>1. CASE "T" \in flags
      BY <1>1, <3>1 DEF Filled
    <3>2. CASE "T" \notin flags
      BY <1>1, <2>1, <3>2 DEF Marked, BytesWritten, Filled
    <3> QED
      BY <3>1, <3>2
  <2> QED
    BY <1>1, <2>1, <2>2, RefillMarked
<1>3. fds' = [fds EXCEPT ![f] = new]
  BY DEF Enter
<1>4. new \in FdT
  BY <1>0 DEF NodeT, FdT
<1>5. /\ fds' \in [Fd -> FdT] /\ fds'[f] = new
      /\ \A g \in Fd : g # f => fds'[g] = fds[g]
  <2> HIDE DEF new
  <2> QED
    BY <1>0, <1>3, <1>4
<1>6. /\ fds'[f].open /\ fds'[f].inode = nodes[s].inode
      /\ fds'[f].offset = off /\ fds'[f].id = nodes[s].id
  BY <1>5
<1>7. ASSUME Numbered, Fresh, Bound
      PROVE  Fresh' /\ Bound'
  <2>1. Fresh'
    BY <1>5, <1>6, <1>7 DEF Fresh, Numbered
  <2>2. past' = (past \cup IF "T" \in flags
                           THEN Beyond(nodes[s].inode, 0) ELSE {}) \ {f}
    BY DEF Enter
  <2>3. ASSUME NEW g \in Fd, NEW r \in Slot, Reaches(g, r)'
        PROVE  /\ nodes'[r].id = fds'[g].id
               /\ g \notin past' => fds'[g].offset <= nodes'[r].size
    <3>0. /\ nodes[r].used /\ nodes'[r].id = nodes[r].id
          /\ nodes[r].inode = fds'[g].inode
          /\ nodes[r].size \in Nat /\ nodes[s].size \in Nat
      BY <1>0, <1>1, <2>3 DEF Reaches, SameTree, SameNode, NodeT
    <3>1. CASE g = f
      <4>1. r = s
        BY <1>6, <1>7, <3>0, <3>1 DEF Numbered
      <4>2. off <= nodes'[s].size
        BY <1>1, <3>0
      <4> QED
        BY <1>6, <3>0, <3>1, <4>1, <4>2
    <3>2. CASE g # f
      <4>0. fds'[g] = fds[g] /\ fds[g].offset \in Nat
        BY <1>0, <1>5, <3>2 DEF FdT
      <4>1. Reaches(g, r)
        BY <2>3, <3>0, <4>0 DEF Reaches
      <4>2. /\ nodes[r].id = fds[g].id
            /\ g \notin past => fds[g].offset <= nodes[r].size
        BY <1>7, <4>1 DEF Bound
      <4>3. ASSUME g \notin past'
            PROVE  fds[g].offset <= nodes'[r].size
        <5>1. g \notin past
          BY <2>2, <3>2, <4>3
        <5>2. CASE r # s \/ "T" \notin flags
          BY <1>1, <4>2, <5>1, <5>2
        <5>3. CASE r = s /\ "T" \in flags
          <6>1. g \notin Beyond(nodes[s].inode, 0)
            BY <2>2, <3>2, <4>3, <5>3
          <6>2. ~(fds[g].offset > 0)
            BY <4>1, <5>3, <6>1 DEF Beyond, Reaches
          <6> QED
            BY <1>1, <4>0, <5>3, <6>2
        <5> QED
          BY <5>2, <5>3
      <4> QED
        BY <3>0, <4>0, <4>2, <4>3
    <3> QED
      BY <3>1, <3>2
  <2>4. Bound'
    BY <2>3 DEF Bound
  <2> QED
    BY <2>1, <2>4
<1> QED
  BY <1>1, <1>2, <1>5, <1>6, <1>7

(* The offset of one descriptor moves.                                     *)
LEMMA Moved ==
    ASSUME TypeOK, NEW f \in Fd, NEW o \in Nat,
           fds' = [fds EXCEPT ![f].offset = o]
    PROVE  /\ fds' \in [Fd -> FdT] /\ fds'[f].offset = o
           /\ fds'[f].open = fds[f].open /\ fds'[f].inode = fds[f].inode
           /\ fds'[f].id = fds[f].id
           /\ \A g \in Fd : g # f => fds'[g] = fds[g]
<1>1. fds \in [Fd -> FdT] /\ fds[f] \in FdT
  BY DEF TypeOK
<1>2. fds'[f] = [fds[f] EXCEPT !.offset = o]
  BY <1>1
<1>3. fds'[f] \in FdT
  BY <1>1, <1>2 DEF FdT
<1>4. \A g \in Fd : g # f => fds'[g] = fds[g]
  BY <1>1
<1>5. fds' \in [Fd -> FdT]
  BY <1>1, <1>3, <1>4
<1> QED
  BY <1>1, <1>2, <1>4, <1>5 DEF FdT

(* A write through f into the node in slot s.                              *)
LEMMA WroteTo ==
    ASSUME TypeOK, Marked, NEW f \in Fd, NEW s \in Slot, NEW n \in Nat,
           WriteTo(s, f, n), UNCHANGED born
    PROVE  /\ nodes' \in [Slot -> NodeT] /\ fds' \in [Fd -> FdT]
           /\ SameTree /\ Marked'
           /\ \A g \in Fd : /\ fds'[g].open = fds[g].open
                            /\ fds'[g].inode = fds[g].inode
           /\ Numbered /\ Bound /\ Reaches(f, s) => Bound'
<1> DEFINE o == fds[f].offset
           end == o + n
           data == nodes[s].data
           size == nodes[s].size
           d == IF end > Len(data) THEN Grown(data, end + SLACK) ELSE data
           wr == Written(d, o, end)
           sz == SizeAfter(size, end, n)
<1>0. nodes \in [Slot -> NodeT] /\ nodes[s] \in NodeT /\ fds \in [Fd -> FdT]
  BY DEF TypeOK
<1>1. /\ data \in Seq(Mark) /\ size \in Nat /\ o \in Nat /\ end \in Nat
      /\ Len(data) \in Nat /\ SLACK \in Nat
  <2>1. nodes[s].data \in Seq(Mark) /\ nodes[s].size \in Nat
    BY <1>0 DEF NodeT, Mark
  <2>2. fds[f].offset \in Nat
    BY <1>0 DEF FdT
  <2> QED
    BY <2>1, <2>2, VfsAssumption
<1>2. /\ Refilled(s, wr, sz)
      /\ fds' = [fds EXCEPT ![f].offset = end]
      /\ past' = past \ {f}
      /\ holed' = IF o > size THEN holed \cup {nodes[s].id} ELSE holed
  BY <1>0 DEF WriteTo, Written, Refilled
<1> HIDE DEF o, end, data, size, d, wr, sz
<1>3. /\ d \in Seq(Mark) /\ Len(d) \in Nat
      /\ Len(d) >= end /\ Len(d) >= Len(data)
      /\ \A k \in 1 .. Len(d) : k <= Len(data) => d[k] = data[k]
  <2>1. CASE end > Len(data)
    <3>1. d = Grown(data, end + SLACK) /\ end + SLACK \in Nat
      BY <1>1, <2>1 DEF d
    <3>2. /\ d \in Seq(Mark) /\ Len(d) = end + SLACK
          /\ \A k \in 1 .. end + SLACK : k <= Len(data) => d[k] = data[k]
      BY <1>1, <3>1, GrownBuffer
    <3> QED
      BY <1>1, <2>1, <3>1, <3>2
  <2>2. CASE ~(end > Len(data))
    <3>1. d = data
      BY <2>2 DEF d
    <3> QED
      BY <1>1, <2>2, <3>1
  <2> QED
    BY <2>1, <2>2
<1>4. /\ wr \in Seq(Mark) /\ Len(wr) = Len(d)
      /\ \A k \in 1 .. Len(d) :
           wr[k] = IF k \in o + 1 .. end THEN "w" ELSE d[k]
  BY <1>1, <1>3, WrittenBuffer DEF wr
<1>5. sz \in Nat /\ sz >= size /\ sz >= end /\ (sz = size \/ sz = end)
  BY <1>1 DEF sz, SizeAfter
<1>6. /\ nodes' \in [Slot -> NodeT] /\ SameTree
      /\ nodes'[s].data = wr /\ nodes'[s].size = sz
      /\ \A r \in Slot : r # s => nodes'[r] = nodes[r]
  BY <1>2, <1>4, <1>5, Refill
<1>7. Marked'
  <2>1. nodes[s].used => sz <= Len(wr)
    <3>1. nodes[s].used => size <= Len(data)
      BY DEF Marked, BytesWritten, size, data
    <3> QED
      BY <1>1, <1>3, <1>4, <1>5, <3>1
  <2>2. ASSUME nodes[s].used, nodes[s].id \notin holed'
        PROVE  Filled(wr, sz)
    <3>1. ~(o > size) /\ nodes[s].id \notin holed
      BY <1>2, <2>2
    <3>2. size <= Len(data) /\ \A k \in 1 .. size : data[k] = "w"
      BY <2>2, <3>1 DEF Marked, BytesWritten, size, data
    <3>3. ASSUME NEW k \in 1 .. sz
          PROVE  wr[k] = "w"
      <4>1. k \in 1 .. Len(d)
        BY <1>1, <1>3, <1>5, <3>2
      <4>2. CASE k \in o + 1 .. end
        BY <1>4, <4>1, <4>2
      <4>3. CASE k \notin o + 1 .. end
        <5>1. k \in 1 .. size
          BY <1>1, <1>5, <3>1, <4>3
        <5>2. k <= Len(data)
          BY <1>1, <3>2, <5>1
        <5>3. d[k] = "w"
          BY <1>3, <3>2, <4>1, <5>1, <5>2
        <5> QED
          BY <1>4, <4>1, <4>3, <5>3
      <4> QED
        BY <4>2, <4>3
    <3> QED
      BY <3>3 DEF Filled
  <2>3. /\ holed' \subseteq holed \cup {nodes[s].id}
        /\ holed \subseteq holed'
    BY <1>2
  <2> QED
    BY <1>6, <2>1, <2>2, <2>3, RefillMarked
<1>8. /\ fds' \in [Fd -> FdT] /\ fds'[f].offset = end
      /\ fds'[f].open = fds[f].open /\ fds'[f].inode = fds[f].inode
      /\ fds'[f].id = fds[f].id
      /\ \A g \in Fd : g # f => fds'[g] = fds[g]
  BY <1>1, <1>2, Moved
<1>9. ASSUME Numbered, Bound, Reaches(f, s)
      PROVE  Bound'
  <2>1. ASSUME NEW g \in Fd, NEW r \in Slot, Reaches(g, r)'
        PROVE  /\ nodes'[r].id = fds'[g].id
               /\ g \notin past' => fds'[g].offset <= nodes'[r].size
    <3>0. /\ nodes[r].used /\ nodes'[r].id = nodes[r].id
          /\ fds'[g].id = fds[g].id /\ nodes[r].size \in Nat
          /\ fds[g].offset \in Nat
      BY <1>0, <1>6, <1>8, <2>1 DEF Reaches, SameTree, SameNode, NodeT, FdT
    <3>1. Reaches(g, r)
      BY <1>6, <1>8, <2>1 DEF Reaches, SameTree, SameNode
    <3>2. /\ nodes[r].id = fds[g].id
          /\ g \notin past => fds[g].offset <= nodes[r].size
      BY <1>9, <3>1 DEF Bound
    <3>3. CASE g = f
      <4>1. r = s
        BY <1>9, <3>1, <3>3 DEF Numbered, Reaches
      <4> QED
        BY <1>5, <1>6, <1>8, <3>0, <3>2, <3>3, <4>1
    <3>4. CASE g # f
      <4>1. g \notin past' => g \notin past
        BY <1>2, <3>4
      <4>2. fds'[g] = fds[g] /\ nodes'[r].size >= nodes[r].size
        BY <1>5, <1>6, <1>8, <3>0, <3>4 DEF size
      <4>3. nodes'[r].size \in Nat
        BY <1>6 DEF NodeT
      <4> QED
        BY <3>0, <3>2, <4>1, <4>2, <4>3
    <3> QED
      BY <3>3, <3>4
  <2> QED
    BY <2>1 DEF Bound
<1> QED
  BY <1>6, <1>7, <1>8, <1>9

-----------------------------------------------------------------------------
(* The descriptors after a node is created in slot s: each is as it was,   *)
(* or stands at the start of the new node.                                 *)
LEMMA CreatedBound ==
    ASSUME TypeOK, Numbered, Fresh, Bound, NEW s \in Slot,
           nodes' \in [Slot -> NodeT],
           \A r \in Slot : r # s => nodes'[r] = nodes[r],
           nodes'[s].inode = next_inode, next_inode' = next_inode + 1,
           \A g \in Fd :
              \/ fds'[g] = fds[g] /\ (g \notin past' => g \notin past)
              \/ /\ fds'[g].inode = next_inode /\ fds'[g].offset = 0
                 /\ fds'[g].id = nodes'[s].id
    PROVE  Fresh' /\ Bound'
<1>0. /\ next_inode \in Nat /\ fds \in [Fd -> FdT]
      /\ \A g \in Fd : fds[g].inode \in Nat /\ fds[g].offset \in Nat
      /\ \A r \in Slot : nodes[r].inode \in Nat /\ nodes'[r].size \in Nat
  BY DEF TypeOK, FdT, NodeT
<1>1. Fresh'
  BY <1>0 DEF Fresh
<1>2. ASSUME NEW g \in Fd, NEW r \in Slot, Reaches(g, r)'
      PROVE  /\ nodes'[r].id = fds'[g].id
             /\ g \notin past' => fds'[g].offset <= nodes'[r].size
  <2>1. CASE fds'[g] = fds[g] /\ (g \notin past' => g \notin past)
    <3>1. r # s
      <4>1. fds[g].open /\ nodes'[r].inode = fds[g].inode
        BY <1>2, <2>1 DEF Reaches
      <4>2. fds[g].inode < next_inode
        BY <4>1 DEF Fresh
      <4> QED
        BY <1>0, <4>1, <4>2
    <3>2. nodes'[r] = nodes[r] /\ Reaches(g, r)
      BY <1>2, <2>1, <3>1 DEF Reaches
    <3> QED
      BY <2>1, <3>2 DEF Bound
  <2>2. CASE /\ fds'[g].inode = next_inode /\ fds'[g].offset = 0
             /\ fds'[g].id = nodes'[s].id
    <3>1. r = s
      <4>1. nodes'[r].used /\ nodes'[r].inode = next_inode
        BY <1>2, <2>2 DEF Reaches
      <4> QED
        BY <1>0, <4>1 DEF Numbered
    <3> QED
      BY <1>0, <2>2, <3>1
  <2> QED
    BY <2>1, <2>2
<1> QED
  BY <1>1, <1>2 DEF Bound

(* What MayCreate has found out.                                           *)
LEMMA MayCreateGives ==
    ASSUME TypeOK, NEW path \in Path, MayCreate(path)
    PROVE  /\ HasDir(resolve_parent(path)) /\ resolve_parent(path) \in Nat
           /\ node_alloc \in Slot /\ ~nodes[node_alloc].used
           /\ Len(path.leaf) = 1 =>
                Children(resolve_parent(path), path.leaf[1]) = {}
           /\ path.leaf \in Seq(STRING) \ {<<>>}
<1>1. /\ vfs_resolve(path) = NONE /\ IsDir(resolve_parent(path)) /\ Room
  BY DEF MayCreate
<1>2. path.leaf \in Seq(STRING) \ {<<>>}
  BY DEF Path
<1> QED
  BY <1>1, <1>2, DirHas, NodeAlloc, NewName

LEMMA MkdirKeeps ==
    ASSUME VfsInv, NEW path \in Path, vfs_mkdir(path), UNCHANGED load
    PROVE  VfsInv'
<1> DEFINE s == node_alloc  p == resolve_parent(path)
<1>0. TypeOK /\ Marked /\ (~raced => Sound)
  BY DEF VfsInv
<1>1. /\ MayCreate(path)
      /\ CreateAt(s, next_inode, "DIR", p, path.leaf)
      /\ raced' = (raced \/ pc \in {"create", "fill"})
      /\ UNCHANGED <<fds, vfs_cwd, pc, sfd, snode, sslot, scall, held, shheld,
                     past, holed, overread>>
  BY Zenon DEF vfs_mkdir, Create, NewInode, shell
<1>2. /\ HasDir(p) /\ p \in Nat /\ s \in Slot /\ ~nodes[s].used
      /\ Len(path.leaf) = 1 => Children(p, path.leaf[1]) = {}
      /\ path.leaf \in Seq(STRING) \ {<<>>}
  BY <1>0, <1>1, MayCreateGives
<1> HIDE DEF s, p
<1>3. next_inode \in Nat
  BY <1>0 DEF TypeOK
<1>4. /\ nodes' \in [Slot -> NodeT]
      /\ \A r \in Slot : r # s => nodes'[r] = nodes[r]
      /\ nodes'[s].used
      /\ nodes'[s].inode = next_inode /\ nodes'[s].parent = p
      /\ nodes'[s].name = path.leaf[1] /\ nodes'[s].data = <<>>
      /\ nodes'[s].size = 0 /\ nodes'[s].id = born + 1
      /\ next_inode' = next_inode + 1 /\ born' = born + 1
      /\ next_inode' \in Nat /\ next_inode' > 0 /\ born' \in Nat
      /\ longname' \in BOOLEAN
      /\ ~longname' => ~longname /\ Len(path.leaf) = 1
  BY <1>0, <1>1, <1>2, <1>3, Created
<1>5. raced' \in BOOLEAN /\ (~raced' => ~raced /\ pc \notin {"create", "fill"})
  BY <1>1, Zenon
<1>6. TypeOK'
  BY <1>0, <1>1, <1>4, <1>5 DEF TypeOK
<1>7. Marked'
  BY <1>0, <1>1, <1>2, <1>4, CreatedMarked
<1>8. ASSUME ~raced'
      PROVE  Sound'
  <2>1. Sound /\ pc \notin {"create", "fill"}
    BY <1>0, <1>5, <1>8
  <2>2. Numbered' /\ Hangs' /\ Named'
    BY <1>0, <1>2, <1>4, <2>1, CreatedTree DEF Sound
  <2>3. Fresh' /\ Bound'
    BY <1>0, <1>1, <1>2, <1>4, <2>1, CreatedBound DEF Sound
  <2>4. Owned' /\ ~overread'
    BY <1>1, <2>1 DEF Sound, Owned
  <2>5. ShellInv'
    <3>1. pc = "copy" => snode \in Slot /\ Reaches(sfd, snode)
                                        /\ sfd \in shheld
      BY <1>0, <2>1 DEF Sound, ShellInv, TypeOK
    <3>2. pc = "copy" => nodes'[snode] = nodes[snode]
      BY <1>2, <1>4, <3>1 DEF Reaches
    <3> QED
      BY <1>1, <2>1, <3>1, <3>2 DEF Sound, ShellInv, Reaches
  <2> QED
    BY <2>2, <2>3, <2>4, <2>5 DEF Sound
<1> QED
  BY <1>6, <1>7, <1>8 DEF VfsInv

LEMMA UnusedType == Unused \in NodeT
<1>1. <<>> \in Seq({"w", "u"})
  OBVIOUS
<1> QED
  BY <1>1 DEF NodeT, Unused

LEMMA UnlinkKeeps ==
    ASSUME VfsInv, NEW path \in Path, vfs_unlink(path), UNCHANGED load
    PROVE  VfsInv'
<1> DEFINE s == node_get(vfs_resolve(path))
<1>0. TypeOK /\ Marked /\ (~raced => Sound)
  BY DEF VfsInv
<1>1. /\ Exists(vfs_resolve(path)) /\ MayUnlink(s)
      /\ nodes' = [nodes EXCEPT ![s] = Unused]
      /\ holed' = holed \ {nodes[s].id}
      /\ raced' = (raced \/ InUse(s))
      /\ UNCHANGED <<fds, next_inode, vfs_cwd, pc, sfd, snode, sslot, scall,
                     born, held, shheld, past, overread, longname>>
  BY Zenon DEF vfs_unlink, shell
<1>2. s \in Slot /\ nodes[s].used
  BY <1>1, NodeGet
<1> HIDE DEF s
<1>3. /\ nodes' \in [Slot -> NodeT] /\ nodes'[s] = Unused
      /\ \A r \in Slot : r # s => nodes'[r] = nodes[r]
  BY <1>0, <1>1, <1>2, UnusedType DEF TypeOK
<1>4. ~nodes'[s].used /\ nodes'[s].id = 0
  <2>1. Unused.used = FALSE /\ Unused.id = 0
    BY DEF Unused
  <2> QED
    BY <1>3, <2>1, Zenon
<1>5. raced' \in BOOLEAN /\ (~raced' => ~raced /\ ~InUse(s))
  BY <1>1, Zenon
<1>6. TypeOK'
  BY <1>0, <1>1, <1>3, <1>5 DEF TypeOK
<1>7. Marked'
  <2>0. born \in Nat
    BY <1>0 DEF TypeOK
  <2>1. \A r \in Slot : nodes'[r].id <= born'
    BY <1>0, <1>1, <1>3, <1>4, <2>0 DEF Marked
  <2>2. \A q, r \in Slot : nodes'[q].used /\ nodes'[r].used
                           /\ nodes'[q].id = nodes'[r].id => q = r
    BY <1>0, <1>3, <1>4 DEF Marked
  <2>3. \A i \in holed' : i \in Nat /\ i <= born'
    BY <1>0, <1>1 DEF Marked
  <2>4. ASSUME NEW r \in Slot, nodes'[r].used
        PROVE  /\ nodes'[r].size <= Len(nodes'[r].data)
               /\ nodes'[r].id \notin holed' =>
                    Filled(nodes'[r].data, nodes'[r].size)
    <3>1. r # s /\ nodes'[r] = nodes[r]
      BY <1>3, <1>4, <2>4
    <3>2. nodes[r].id # nodes[s].id
      BY <1>0, <1>2, <2>4, <3>1 DEF Marked
    <3> QED
      BY <1>0, <1>1, <2>4, <3>1, <3>2 DEF Marked, BytesWritten, Filled
  <2>5. BytesWritten'
    BY <2>4 DEF BytesWritten, Filled
  <2> QED
    BY <2>1, <2>2, <2>3, <2>5 DEF Marked
<1>8. ASSUME ~raced'
      PROVE  Sound'
  <2>1. Sound /\ ~InUse(s)
    BY <1>0, <1>5, <1>8
  <2>2. Numbered'
    BY <1>1, <1>3, <1>4, <2>1 DEF Sound, Numbered
  <2>3. Named'
    BY <1>1, <1>3, <1>4, <2>1 DEF Sound, Named
  <2>5. Hangs'
    <3>1. ASSUME NEW r \in Slot, nodes'[r].used, nodes'[r].inode # ROOT
          PROVE  /\ nodes'[r].parent < nodes'[r].inode
                 /\ HasDir(nodes[r].parent)'
      <4>1. r # s /\ nodes'[r] = nodes[r]
        BY <1>3, <1>4, <3>1
      <4>2. nodes[r].parent < nodes[r].inode /\ HasDir(nodes[r].parent)
        BY <2>1, <3>1, <4>1 DEF Sound, Hangs
      <4>3. nodes[s].type = "DIR" => nodes[r].parent # nodes[s].inode
        BY <1>1, <3>1, <4>1 DEF MayUnlink
      <4>4. HasDir(nodes[r].parent) /\ (nodes[s].type = "DIR" =>
              nodes[r].parent # nodes[s].inode)
        BY <4>2, <4>3
      <4>5. \E t \in Slot : nodes'[t].used /\ nodes'[t].type = "DIR"
                            /\ nodes'[t].inode = nodes[r].parent
        BY <1>3, <4>4 DEF HasDir
      <4> QED
        BY <4>1, <4>2, <4>5 DEF HasDir
    <3> QED
      BY <3>1 DEF Hangs
  <2>6. Fresh'
    BY <1>1, <2>1 DEF Sound, Fresh
  <2>7. Bound'
    BY <1>1, <1>3, <1>4, <2>1 DEF Sound, Bound, Reaches
  <2>8. Owned' /\ ~overread'
    BY <1>1, <2>1 DEF Sound, Owned
  <2>9. ShellInv'
    <3>0. ShellInv
      BY <2>1 DEF Sound
    <3>1. pc \in {"create", "fill"} => HasDir(snode)'
      <4>1. pc \in {"create", "fill"} => snode # nodes[s].inode
        BY <2>1 DEF InUse
      <4>2. pc \in {"create", "fill"} =>
              \E t \in Slot : nodes'[t].used /\ nodes'[t].type = "DIR"
                              /\ nodes'[t].inode = snode
        BY <1>3, <3>0, <4>1 DEF ShellInv, HasDir
      <4> QED
        BY <1>1, <4>2 DEF HasDir
    <3>2. \A x : Children(snode, x)' \subseteq Children(snode, x)
      BY <1>1, <1>3, <1>4 DEF Children
    <3>3. pc = "copy" => snode \in Slot /\ snode # s
      BY <1>0, <2>1 DEF TypeOK, InUse
    <3>4. pc = "fill" => sslot \in Slot /\ ~nodes'[sslot].used
      BY <1>0, <1>3, <1>4, <3>0 DEF TypeOK, ShellInv
    <3>5. pc \in {"create", "fill"} /\ Len(scall.path.leaf) = 1 =>
            Children(snode, scall.path.leaf[1])' = {}
      BY <1>1, <3>0, <3>2 DEF ShellInv
    <3>6. pc = "copy" => sfd \in shheld /\ Reaches(sfd, snode)'
      BY <1>1, <1>3, <3>0, <3>3 DEF ShellInv, Reaches
    <3> QED
      BY <1>1, <3>0, <3>1, <3>4, <3>5, <3>6 DEF ShellInv
  <2> QED
    BY <2>2, <2>3, <2>5, <2>6, <2>7, <2>8, <2>9 DEF Sound
<1> QED
  BY <1>6, <1>7, <1>8 DEF VfsInv

(* A step that keeps the tree and what the shell uses keeps ShellInv.      *)
LEMMA ShellKept ==
    ASSUME TypeOK, ShellInv, SameTree,
           UNCHANGED <<next_inode, longname, pc, sfd, snode, sslot, scall>>,
           \A g \in Chosen : fds'[g].open = fds[g].open,
           pc = "copy" => /\ sfd \in shheld'
                          /\ fds'[sfd].open = fds[sfd].open
                          /\ fds'[sfd].inode = fds[sfd].inode
    PROVE  ShellInv'
<1>1. /\ \A i : HasDir(i) => HasDir(i)'
      /\ \A i, x : Children(i, x)' = Children(i, x)
  BY TreeKept
<1>2. pc \in {"resolve", "create", "fill", "store"} => ~fds'[sfd].open
  BY DEF ShellInv, Chosen
<1>3. pc \in {"create", "fill"} => HasDir(snode)'
  BY <1>1 DEF ShellInv, HasDir
<1>4. pc \in {"create", "fill"} /\ Len(scall.path.leaf) = 1 =>
            Children(snode, scall.path.leaf[1])' = {}
  BY <1>1 DEF ShellInv, Children
<1>5. pc = "fill" => ~nodes'[sslot].used
  BY DEF ShellInv, SameTree, SameNode, TypeOK
<1>6. pc = "copy" => Reaches(sfd, snode)'
  BY DEF ShellInv, SameTree, SameNode, TypeOK, Reaches
<1> QED
  BY <1>2, <1>3, <1>4, <1>5, <1>6 DEF ShellInv

LEMMA OpenKeeps ==
    ASSUME VfsInv, NEW path \in Path, NEW flags \in Flags,
           vfs_open(path, flags), UNCHANGED load
    PROVE  VfsInv'
<1> DEFINE f == First(FreeFds)
<1>0. TypeOK /\ Marked /\ (~raced => Sound)
  BY DEF VfsInv
<1>1. /\ FreeFds # {} /\ held' = held \cup {f}
      /\ UNCHANGED <<vfs_cwd, pc, sfd, snode, sslot, scall, shheld, overread>>
  BY Zenon DEF vfs_open, shell
<1>2. f \in Fd /\ ~fds[f].open
  BY <1>1, FirstFree
<1>3. ASSUME fds'[f].open, \A g \in Fd : g # f => fds'[g] = fds[g], Sound
      PROVE  Owned' /\ ~overread'
  <2>1. f \notin held /\ f \notin shheld
    BY <1>2, <1>3 DEF Sound, Owned
  <2> QED
    BY <1>1, <1>2, <1>3, <2>1 DEF Sound, Owned
(* The file is there. *)
<1>4. ASSUME vfs_resolve(path) # NONE, Exists(vfs_resolve(path)),
             Enter(f, node_get(vfs_resolve(path)), flags, nodes),
             raced' = (raced \/ f \in Chosen),
             UNCHANGED <<next_inode, born, longname>>
      PROVE  VfsInv'
  <2> DEFINE s == node_get(vfs_resolve(path))
  <2>1. s \in Slot /\ nodes[s].used
    BY <1>4, NodeGet
  <2>2. Enter(f, s, flags, nodes)
    BY <1>4
  <2> HIDE DEF s, f
  <2>3. /\ nodes' \in [Slot -> NodeT] /\ fds' \in [Fd -> FdT]
        /\ SameTree /\ Marked'
        /\ fds'[f].open /\ \A g \in Fd : g # f => fds'[g] = fds[g]
        /\ Numbered /\ Fresh /\ Bound => Fresh' /\ Bound'
    BY <1>0, <1>2, <1>4, <2>1, <2>2, Entered
  <2>4. raced' \in BOOLEAN /\ (~raced' => ~raced /\ f \notin Chosen)
    BY <1>4, Zenon
  <2>5. TypeOK'
    BY <1>0, <1>1, <1>2, <1>4, <2>3, <2>4 DEF TypeOK
  <2>6. ASSUME ~raced'
        PROVE  Sound'
    <3>1. Sound /\ f \notin Chosen
      BY <1>0, <2>4, <2>6
    <3>2. Numbered' /\ Hangs' /\ Named'
      BY <1>4, <2>3, <3>1, TreeKept DEF Sound
    <3>3. pc = "copy" => sfd \in shheld /\ sfd # f /\ sfd \in Fd
      BY <1>0, <1>2, <3>1 DEF Sound, ShellInv, Reaches, TypeOK
    <3>4. \A g \in Chosen : g \in Fd /\ g # f
      BY <1>0, <3>1 DEF Chosen, TypeOK
    <3>5. ShellInv'
      BY <1>0, <1>1, <1>4, <2>3, <3>1, <3>3, <3>4, ShellKept DEF Sound
    <3> QED
      BY <1>3, <2>3, <3>1, <3>2, <3>5 DEF Sound
  <2> QED
    BY <2>3, <2>5, <2>6 DEF VfsInv
(* The file is created. *)
<1>5. ASSUME MayCreate(path),
             CreateAt(node_alloc, next_inode, "FILE", resolve_parent(path),
                      path.leaf),
             fds' = [fds EXCEPT ![f] =
                       [open |-> TRUE, inode |-> next_inode, offset |-> 0,
                        flags |-> flags, id |-> born + 1]],
             past' = past \ {f},
             raced' = (raced \/ f \in Chosen \/ pc \in {"create", "fill"}),
             UNCHANGED holed
      PROVE  VfsInv'
  <2> DEFINE s == node_alloc  p == resolve_parent(path)
             new == [open |-> TRUE, inode |-> next_inode, offset |-> 0,
                     flags |-> flags, id |-> born + 1]
  <2>1. /\ HasDir(p) /\ p \in Nat /\ s \in Slot /\ ~nodes[s].used
        /\ Len(path.leaf) = 1 => Children(p, path.leaf[1]) = {}
        /\ path.leaf \in Seq(STRING) \ {<<>>}
    BY <1>0, <1>5, MayCreateGives
  <2>2. CreateAt(s, next_inode, "FILE", p, path.leaf)
    BY <1>5
  <2> HIDE DEF s, p, f
  <2>3. next_inode \in Nat /\ born \in Nat /\ fds \in [Fd -> FdT]
    BY <1>0 DEF TypeOK
  <2>4. /\ nodes' \in [Slot -> NodeT]
        /\ \A r \in Slot : r # s => nodes'[r] = nodes[r]
        /\ nodes'[s].used
        /\ nodes'[s].inode = next_inode /\ nodes'[s].parent = p
        /\ nodes'[s].name = path.leaf[1] /\ nodes'[s].data = <<>>
        /\ nodes'[s].size = 0 /\ nodes'[s].id = born + 1
        /\ next_inode' = next_inode + 1 /\ born' = born + 1
        /\ next_inode' \in Nat /\ next_inode' > 0 /\ born' \in Nat
        /\ longname' \in BOOLEAN
        /\ ~longname' => ~longname /\ Len(path.leaf) = 1
    BY <1>0, <2>1, <2>2, <2>3, Created
  <2>5. new \in FdT
    BY <2>3 DEF FdT
  <2>6. /\ fds' \in [Fd -> FdT] /\ fds'[f] = new
        /\ \A g \in Fd : g # f => fds'[g] = fds[g]
    <3> HIDE DEF new
    <3>1. fds' = [fds EXCEPT ![f] = new]
      BY <1>5 DEF new
    <3> QED
      BY <1>2, <2>3, <2>5, <3>1
  <2>7. /\ fds'[f].open /\ fds'[f].inode = next_inode
        /\ fds'[f].offset = 0 /\ fds'[f].id = born + 1
    <3>1. new.open /\ new.inode = next_inode /\ new.offset = 0
          /\ new.id = born + 1
      OBVIOUS
    <3> HIDE DEF new
    <3> QED
      BY <2>6, <3>1, Zenon
  <2> HIDE DEF new
  <2>8. raced' \in BOOLEAN /\ (~raced' => ~raced /\ f \notin Chosen
                                          /\ pc \notin {"create", "fill"})
    BY <1>5, Zenon
  <2>9. TypeOK'
    BY <1>0, <1>1, <1>2, <2>4, <2>6, <2>8 DEF TypeOK
  <2>10. Marked'
    BY <1>0, <1>5, <2>1, <2>4, CreatedMarked
  <2>11. ASSUME ~raced'
         PROVE  Sound'
    <3>1. Sound /\ f \notin Chosen /\ pc \notin {"create", "fill"}
      BY <1>0, <2>8, <2>11
    <3>2. Numbered' /\ Hangs' /\ Named'
      BY <1>0, <2>1, <2>4, <3>1, CreatedTree DEF Sound
    <3>3. \A g \in Fd :
             \/ fds'[g] = fds[g] /\ (g \notin past' => g \notin past)
             \/ /\ fds'[g].inode = next_inode /\ fds'[g].offset = 0
                /\ fds'[g].id = nodes'[s].id
      BY <1>5, <2>4, <2>6, <2>7
    <3>4. Fresh' /\ Bound'
      BY <1>0, <2>1, <2>4, <3>1, <3>3, CreatedBound DEF Sound
    <3>5. ShellInv'
      <4>1. pc = "copy" => /\ snode \in Slot /\ Reaches(sfd, snode)
                           /\ sfd \in shheld /\ sfd \in Fd /\ sfd # f
        BY <1>0, <1>2, <3>1 DEF Sound, ShellInv, TypeOK, Reaches
      <4>2. pc = "copy" => nodes'[snode] = nodes[snode]
        BY <2>1, <2>4, <4>1 DEF Reaches
      <4>3. pc \in {"resolve", "store"} => ~fds'[sfd].open
        BY <1>0, <2>6, <3>1 DEF Sound, ShellInv, Chosen, TypeOK
      <4>4. pc = "copy" => Reaches(sfd, snode)'
        BY <1>1, <2>6, <4>1, <4>2 DEF Reaches
      <4> QED
        BY <1>1, <3>1, <4>1, <4>3, <4>4 DEF ShellInv
    <3> QED
      BY <1>3, <2>6, <2>7, <3>1, <3>2, <3>4, <3>5 DEF Sound
  <2> QED
    BY <2>9, <2>10, <2>11 DEF VfsInv
<1> QED
  BY <1>4, <1>5, Zenon DEF vfs_open, Create, NewInode

(* A step on descriptors only: nodes and their marks stay.                 *)
LEMMA NodesKept ==
    ASSUME VfsInv, UNCHANGED <<nodes, next_inode, born, holed, longname>>
    PROVE  /\ Marked' /\ SameTree
           /\ ~raced => Numbered' /\ Hangs' /\ Named'
<1>1. SameTree
  BY DEF SameTree, SameNode
<1>2. Marked'
  BY DEF VfsInv, Marked, BytesWritten
<1> QED
  BY <1>1, <1>2, TreeKept DEF VfsInv, Sound

LEMMA CloseKeeps ==
    ASSUME VfsInv, NEW f \in Fd, vfs_close(f), UNCHANGED load
    PROVE  VfsInv'
<1>0. TypeOK /\ Marked /\ (~raced => Sound)
  BY DEF VfsInv
<1>1. /\ fds' = [fds EXCEPT ![f] = Closed] /\ past' = past \ {f}
      /\ UNCHANGED <<nodes, next_inode, vfs_cwd, pc, sfd, snode, sslot, scall,
                     born, holed, overread, longname, raced>>
      /\ \/ f \in held /\ held' = held \ {f} /\ shheld' = shheld
         \/ /\ f \in shheld /\ f \notin held /\ pc = "idle"
            /\ shheld' = shheld \ {f} /\ held' = held
  BY DEF vfs_close, shell
<1>2. Closed \in FdT /\ Closed.open = FALSE
  BY DEF Closed, FdT, Flags
<1>3. /\ fds' \in [Fd -> FdT] /\ fds'[f].open = FALSE
      /\ \A g \in Fd : g # f => fds'[g] = fds[g]
  BY <1>0, <1>1, <1>2 DEF TypeOK
<1>4. TypeOK'
  BY <1>0, <1>1, <1>3 DEF TypeOK
<1>5. /\ Marked' /\ SameTree /\ (~raced => Numbered' /\ Hangs' /\ Named')
  BY <1>1, NodesKept
<1>6. ASSUME ~raced'
      PROVE  Sound'
  <2>1. Sound
    BY <1>0, <1>1, <1>6
  <2>2. Fresh'
    BY <1>1, <1>3, <2>1 DEF Sound, Fresh
  <2>3. Bound'
    BY <1>1, <1>3, <2>1 DEF Sound, Bound, Reaches
  <2>4. Owned' /\ ~overread'
    <3>1. f \in held => f \notin shheld
      BY <2>1 DEF Sound, Owned
    <3>2. \A g \in Fd : fds'[g].open <=> g \in held' \cup shheld'
      BY <1>1, <1>3, <2>1, <3>1 DEF Sound, Owned
    <3> QED
      BY <1>1, <2>1, <3>2 DEF Sound, Owned
  <2>5. ShellInv'
    <3>1. pc = "copy" => sfd \in shheld /\ f \notin shheld /\ sfd \in Fd
      BY <1>0, <1>1, <2>1 DEF Sound, ShellInv, Owned, TypeOK
    <3>2. pc = "copy" => sfd \in shheld' /\ fds'[sfd] = fds[sfd]
      BY <1>1, <1>3, <3>1
    <3>3. \A g \in Chosen : g \in Fd /\ fds'[g].open = fds[g].open
      BY <1>0, <1>3, <2>1 DEF Chosen, TypeOK, Sound, ShellInv, FdT
    <3> QED
      BY <1>0, <1>1, <1>5, <2>1, <3>2, <3>3, ShellKept DEF Sound
  <2> QED
    BY <1>1, <1>5, <1>6, <2>2, <2>3, <2>4, <2>5 DEF Sound
<1> QED
  BY <1>4, <1>5, <1>6 DEF VfsInv

LEMMA DupKeeps ==
    ASSUME VfsInv, NEW old \in Fd, NEW new \in Fd, vfs_dup(old, new),
           UNCHANGED load
    PROVE  VfsInv'
<1>0. TypeOK /\ Marked /\ (~raced => Sound)
  BY DEF VfsInv
<1>1. /\ old \in held /\ fds[old].open /\ old # new
      /\ new \in FreeFds \cup held
      /\ fds' = [fds EXCEPT ![new] = fds[old]] /\ held' = held \cup {new}
      /\ past' = IF old \in past THEN past \cup {new} ELSE past \ {new}
      /\ raced' = (raced \/ new \in Chosen)
      /\ UNCHANGED <<nodes, next_inode, vfs_cwd, pc, sfd, snode, sslot, scall,
                     born, shheld, holed, overread, longname>>
  BY Zenon DEF vfs_dup, shell
<1>2. /\ fds' \in [Fd -> FdT] /\ fds'[new] = fds[old]
      /\ \A g \in Fd : g # new => fds'[g] = fds[g]
  BY <1>0, <1>1 DEF TypeOK
<1>3. raced' \in BOOLEAN /\ (~raced' => ~raced /\ new \notin Chosen)
  BY <1>1, Zenon
<1>4. TypeOK'
  BY <1>0, <1>1, <1>2, <1>3 DEF TypeOK
<1>5. /\ Marked' /\ SameTree /\ (~raced => Numbered' /\ Hangs' /\ Named')
  BY <1>1, NodesKept
<1>6. ASSUME ~raced'
      PROVE  Sound'
  <2>1. Sound /\ new \notin Chosen /\ ~raced
    BY <1>0, <1>3, <1>6
  <2>2. Fresh'
    BY <1>1, <1>2, <2>1 DEF Sound, Fresh
  <2>3. Bound'
    <3>1. ASSUME NEW g \in Fd, NEW r \in Slot, Reaches(g, r)'
          PROVE  /\ nodes'[r].id = fds'[g].id
                 /\ g \notin past' => fds'[g].offset <= nodes'[r].size
      <4>1. CASE g = new
        <5>1. Reaches(old, r) /\ (g \notin past' => old \notin past)
          BY <1>1, <1>2, <3>1, <4>1 DEF Reaches
        <5> QED
          BY <1>1, <1>2, <2>1, <4>1, <5>1 DEF Sound, Bound
      <4>2. CASE g # new
        <5>1. Reaches(g, r) /\ (g \notin past' => g \notin past)
          BY <1>1, <1>2, <3>1, <4>2 DEF Reaches
        <5> QED
          BY <1>1, <1>2, <2>1, <4>2, <5>1 DEF Sound, Bound
      <4> QED
        BY <4>1, <4>2
    <3> QED
      BY <3>1 DEF Bound
  <2>4. new \notin shheld
    BY <1>1, <2>1 DEF Sound, Owned, FreeFds
  <2>5. Owned' /\ ~overread'
    BY <1>1, <1>2, <2>1, <2>4 DEF Sound, Owned
  <2>6. ShellInv'
    <3>1. pc = "copy" => sfd \in shheld' /\ fds'[sfd] = fds[sfd]
      BY <1>0, <1>1, <1>2, <2>1, <2>4 DEF Sound, ShellInv, TypeOK
    <3>2. \A g \in Chosen : g \in Fd /\ fds'[g] = fds[g]
      BY <1>0, <1>2, <2>1 DEF Chosen, TypeOK
    <3> QED
      BY <1>0, <1>1, <1>5, <2>1, <3>1, <3>2, ShellKept DEF Sound
  <2> QED
    BY <1>5, <2>1, <2>2, <2>3, <2>5, <2>6 DEF Sound
<1> QED
  BY <1>4, <1>5, <1>6 DEF VfsInv

LEMMA FcntlKeeps ==
    ASSUME VfsInv, NEW f \in Fd, NEW flags \in Flags, vfs_fcntl(f, flags),
           UNCHANGED load
    PROVE  VfsInv'
<1>0. TypeOK /\ Marked /\ (~raced => Sound)
  BY DEF VfsInv
<1>1. /\ fds' = [fds EXCEPT ![f].flags = flags]
      /\ UNCHANGED <<nodes, next_inode, vfs_cwd, pc, sfd, snode, sslot, scall,
                     born, held, shheld, past, holed, overread, longname,
                     raced>>
  BY Zenon DEF vfs_fcntl, shell, history
<1>2. /\ fds' \in [Fd -> FdT]
      /\ \A g \in Fd : /\ fds'[g].open = fds[g].open
                       /\ fds'[g].inode = fds[g].inode
                       /\ fds'[g].offset = fds[g].offset
                       /\ fds'[g].id = fds[g].id
  <2>1. fds \in [Fd -> FdT] /\ fds[f] \in FdT
    BY <1>0 DEF TypeOK
  <2>2. fds'[f] = [fds[f] EXCEPT !.flags = flags]
    BY <1>1, <2>1
  <2>3. fds'[f] \in FdT
    BY <2>1, <2>2 DEF FdT
  <2>4. \A g \in Fd : g # f => fds'[g] = fds[g]
    BY <1>1, <2>1
  <2>5. fds' \in [Fd -> FdT]
    BY <1>1, <2>1, <2>3, <2>4
  <2>6. /\ fds'[f].open = fds[f].open /\ fds'[f].inode = fds[f].inode
        /\ fds'[f].offset = fds[f].offset /\ fds'[f].id = fds[f].id
    BY <2>1, <2>2 DEF FdT
  <2> QED
    BY <2>4, <2>5, <2>6
<1>3. TypeOK'
  BY <1>0, <1>1, <1>2 DEF TypeOK
<1>4. /\ Marked' /\ SameTree /\ (~raced => Numbered' /\ Hangs' /\ Named')
  BY <1>1, NodesKept
<1>5. ASSUME ~raced'
      PROVE  Sound'
  <2>1. Sound
    BY <1>0, <1>1, <1>5
  <2>2. Fresh' /\ Bound' /\ Owned' /\ ~overread'
    BY <1>1, <1>2, <2>1 DEF Sound, Fresh, Bound, Owned, Reaches
  <2>3. pc # "idle" => sfd \in Fd
    BY <1>0 DEF TypeOK
  <2>4. ShellInv'
    BY <1>0, <1>1, <1>2, <1>4, <2>1, <2>3, ShellKept
       DEF Sound, Chosen, ShellInv
  <2> QED
    BY <1>1, <1>4, <1>5, <2>2, <2>4 DEF Sound
<1> QED
  BY <1>3, <1>4, <1>5 DEF VfsInv

LEMMA FtruncateKeeps ==
    ASSUME VfsInv, NEW f \in Fd, NEW n \in Nat, vfs_ftruncate(f, n),
           UNCHANGED load
    PROVE  VfsInv'
<1> DEFINE s == node_get(fds[f].inode)
           data == nodes[s].data
           d == IF n > Len(data) THEN Grown(data, RoundUp(n + SLACK)) ELSE data
<1>0. TypeOK /\ Marked /\ (~raced => Sound)
  BY DEF VfsInv
<1>1. /\ Exists(fds[f].inode) /\ fds[f].open
      /\ Refilled(s, Cut(d, n), n)
      /\ past' = {g \in past : fds[g].inode # fds[f].inode}
                 \cup Beyond(fds[f].inode, n)
      /\ holed' = IF n > nodes[s].size THEN holed \cup {nodes[s].id} ELSE holed
      /\ UNCHANGED <<fds, next_inode, vfs_cwd, pc, sfd, snode, sslot, scall,
                     born, held, shheld, overread, longname, raced>>
  BY Zenon DEF vfs_ftruncate, IsFile, shell, Refilled
<1>2. s \in Slot /\ nodes[s].used /\ nodes[s].inode = fds[f].inode
  BY <1>1, NodeGet
<1> HIDE DEF s
<1>3. /\ data \in Seq(Mark) /\ Len(data) \in Nat /\ nodes[s].size \in Nat
      /\ SLACK \in Nat
  <2>1. nodes[s].data \in Seq(Mark) /\ nodes[s].size \in Nat
    BY <1>0, <1>2 DEF TypeOK, NodeT, Mark
  <2> QED
    BY <2>1, VfsAssumption
<1>4. nodes[s].size <= Len(data)
      /\ (nodes[s].id \notin holed =>
            \A k \in 1 .. nodes[s].size : data[k] = "w")
  BY <1>0, <1>2 DEF Marked, BytesWritten
<1> HIDE DEF data, d
<1>5. /\ d \in Seq(Mark) /\ Len(d) \in Nat /\ Len(d) >= n
      /\ \A k \in 1 .. Len(d) : k <= Len(data) => d[k] = data[k]
  <2>1. CASE n > Len(data)
    <3>0. n + SLACK \in Nat
      BY <1>3
    <3>1. RoundUp(n + SLACK) \in Nat /\ RoundUp(n + SLACK) >= n + SLACK
      BY <3>0, RoundUpCovers
    <3>2. PICK m \in Nat : m = RoundUp(n + SLACK)
      BY <3>1
    <3>3. d = Grown(data, m)
      BY <2>1, <3>2 DEF d
    <3>4. /\ d \in Seq(Mark) /\ Len(d) = m
          /\ \A k \in 1 .. m : k <= Len(data) => d[k] = data[k]
      BY <1>3, <3>2, <3>3, GrownBuffer
    <3>5. m >= n
      BY <1>3, <3>1, <3>2
    <3> QED
      BY <3>2, <3>4, <3>5
  <2>2. CASE ~(n > Len(data))
    <3>1. d = data
      BY <2>2 DEF d
    <3> QED
      BY <1>3, <2>2, <3>1
  <2> QED
    BY <2>1, <2>2
<1>6. PICK c : c = Cut(d, n)
  OBVIOUS
<1>7. /\ c \in Seq(Mark) /\ Len(c) = Len(d)
      /\ \A k \in 1 .. Len(d) : k <= n => c[k] = d[k]
  BY <1>5, <1>6, CutBuffer
<1>8. /\ nodes' \in [Slot -> NodeT] /\ SameTree
      /\ nodes'[s].data = c /\ nodes'[s].size = n
      /\ \A r \in Slot : r # s => nodes'[r] = nodes[r]
  BY <1>0, <1>1, <1>2, <1>6, <1>7, Refill
<1>9. Marked'
  <2>1. ASSUME nodes[s].id \notin holed'
        PROVE  Filled(c, n)
    <3>1. ~(n > nodes[s].size) /\ nodes[s].id \notin holed
      BY <1>1, <2>1
    <3>2. ASSUME NEW k \in 1 .. n
          PROVE  c[k] = "w"
      <4>1. k \in 1 .. Len(d) /\ k <= n /\ k <= Len(data)
            /\ k \in 1 .. nodes[s].size
        BY <1>3, <1>4, <1>5, <3>1
      <4> QED
        BY <1>4, <1>5, <1>7, <3>1, <4>1
    <3> QED
      BY <3>2 DEF Filled
  <2>2. /\ holed' \subseteq holed \cup {nodes[s].id}
        /\ holed \subseteq holed'
    BY <1>1
  <2>3. n <= Len(c)
    BY <1>5, <1>7
  <2> QED
    BY <1>0, <1>1, <1>2, <1>8, <2>1, <2>2, <2>3, RefillMarked
<1>10. TypeOK'
  BY <1>0, <1>1, <1>8 DEF TypeOK
<1>11. ASSUME ~raced'
       PROVE  Sound'
  <2>1. Sound
    BY <1>0, <1>1, <1>11
  <2>2. Numbered' /\ Hangs' /\ Named'
    BY <1>1, <1>8, <2>1, TreeKept DEF Sound
  <2>3. Fresh' /\ Owned' /\ ~overread'
    BY <1>1, <2>1 DEF Sound, Fresh, Owned
  <2>4. ASSUME NEW g \in Fd, NEW r \in Slot, Reaches(g, r)'
        PROVE  /\ nodes'[r].id = fds'[g].id
               /\ g \notin past' => fds'[g].offset <= nodes'[r].size
    <3>0. fds' = fds /\ fds[g].offset \in Nat
      BY <1>0, <1>1 DEF TypeOK, FdT
    <3>1. Reaches(g, r) /\ nodes'[r].id = nodes[r].id
      BY <1>1, <1>8, <2>4 DEF Reaches, SameTree, SameNode
    <3>2. /\ nodes[r].id = fds[g].id
          /\ g \notin past => fds[g].offset <= nodes[r].size
      BY <2>1, <3>1 DEF Sound, Bound
    <3>3. CASE r = s
      <4>1. fds[g].open /\ fds[g].inode = fds[f].inode
        BY <1>2, <3>1, <3>3 DEF Reaches
      <4>2. g \notin past' => ~(fds[g].offset > n)
        BY <1>1, <4>1 DEF Beyond
      <4> QED
        BY <1>8, <3>0, <3>1, <3>2, <3>3, <4>2
    <3>4. CASE r # s
      <4>1. fds[g].inode # fds[f].inode
        BY <1>2, <2>1, <3>1, <3>4 DEF Reaches, Sound, Numbered
      <4>2. g \notin past' => g \notin past
        BY <1>1, <4>1
      <4> QED
        BY <1>8, <3>0, <3>1, <3>2, <3>4, <4>2
    <3> QED
      BY <3>3, <3>4
  <2>5. ShellInv'
    BY <1>0, <1>1, <1>8, <2>1, ShellKept DEF Sound, ShellInv
  <2> QED
    BY <2>2, <2>3, <2>4, <2>5 DEF Sound, Bound
<1> QED
  BY <1>9, <1>10, <1>11 DEF VfsInv

(* A descriptor inside its file reads no further than the end of it.       *)
LEMMA ReadFits ==
    ASSUME NEW size \in Nat, NEW o \in Nat, NEW n \in Nat
    PROVE  /\ ToRead(size, o, n) \in Nat
           /\ o <= size => o + ToRead(size, o, n) <= size
<1>1. SIZE_T \in Nat /\ SIZE_T > 0
  BY VfsAssumption
<1> DEFINE avail == (size - o) % SIZE_T
<1>2. avail \in Nat
  BY <1>1
<1>3. o <= size => avail <= size - o
  <2>1. \A a \in Nat : a % SIZE_T <= a
    BY <1>1
  <2> QED
    BY <2>1
<1>4. ToRead(size, o, n) = IF n < avail THEN n ELSE avail
  BY DEF ToRead
<1> HIDE DEF avail
<1> QED
  BY <1>2, <1>3, <1>4

LEMMA ReadKeeps ==
    ASSUME VfsInv, NEW f \in Fd, NEW n \in Nat, vfs_read(f, n), UNCHANGED load
    PROVE  VfsInv'
<1> DEFINE s == node_get(fds[f].inode)
           size == nodes[s].size
           o == fds[f].offset
           got == ToRead(size, o, n)
<1>0. TypeOK /\ Marked /\ (~raced => Sound)
  BY DEF VfsInv
<1>1. /\ Exists(fds[f].inode) /\ fds[f].open
      /\ fds' = [fds EXCEPT ![f].offset = o + got]
      /\ overread' = (overread \/ (f \notin past /\ o + got > size))
      /\ UNCHANGED <<nodes, next_inode, vfs_cwd, pc, sfd, snode, sslot, scall,
                     born, held, shheld, past, holed, longname, raced>>
  BY Zenon DEF vfs_read, IsFile, shell
<1>2. s \in Slot /\ nodes[s].used /\ nodes[s].inode = fds[f].inode
  BY <1>1, NodeGet
<1> HIDE DEF s
<1>3. size \in Nat /\ o \in Nat
  BY <1>0, <1>2 DEF TypeOK, NodeT, FdT
<1>4. got \in Nat /\ (o <= size => o + got <= size)
  BY <1>3, ReadFits
<1> HIDE DEF size, o, got
<1>5. o + got \in Nat
  BY <1>3, <1>4
<1>6. /\ fds' \in [Fd -> FdT] /\ fds'[f].offset = o + got
      /\ fds'[f].open = fds[f].open /\ fds'[f].inode = fds[f].inode
      /\ fds'[f].id = fds[f].id
      /\ \A g \in Fd : g # f => fds'[g] = fds[g]
  BY <1>0, <1>1, <1>5, Moved
<1>7. overread' \in BOOLEAN
  BY <1>1, Zenon
<1>8. TypeOK'
  BY <1>0, <1>1, <1>6, <1>7 DEF TypeOK
<1>9. /\ Marked' /\ SameTree /\ (~raced => Numbered' /\ Hangs' /\ Named')
  BY <1>1, NodesKept
<1>10. ASSUME ~raced'
       PROVE  Sound'
  <2>1. Sound
    BY <1>0, <1>1, <1>10
  <2>2. Fresh' /\ Owned'
    BY <1>1, <1>6, <2>1 DEF Sound, Fresh, Owned
  <2>3. f \notin past => o <= size
    BY <1>1, <1>2, <2>1 DEF Sound, Bound, Reaches, o, size
  <2>4. ~overread'
    <3>1. f \notin past => ~(o + got > size)
      BY <1>3, <1>4, <2>3
    <3>2. ~overread
      BY <2>1 DEF Sound
    <3> QED
      BY <1>1, <3>1, <3>2, Zenon
  <2>5. ASSUME NEW g \in Fd, NEW r \in Slot, Reaches(g, r)'
        PROVE  /\ nodes'[r].id = fds'[g].id
               /\ g \notin past' => fds'[g].offset <= nodes'[r].size
    <3>1. Reaches(g, r) /\ fds'[g].id = fds[g].id /\ nodes' = nodes
      BY <1>1, <1>6, <2>5 DEF Reaches
    <3>2. /\ nodes[r].id = fds[g].id
          /\ g \notin past => fds[g].offset <= nodes[r].size
      BY <2>1, <3>1 DEF Sound, Bound
    <3>3. CASE g = f
      <4>1. r = s
        BY <1>2, <2>1, <3>1, <3>3 DEF Sound, Numbered, Reaches
      <4> QED
        BY <1>1, <1>4, <1>6, <2>3, <3>1, <3>2, <3>3, <4>1 DEF size
    <3>4. CASE g # f
      BY <1>1, <1>6, <3>1, <3>2, <3>4
    <3> QED
      BY <3>3, <3>4
  <2>6. pc # "idle" => sfd \in Fd
    BY <1>0 DEF TypeOK
  <2>7. \A g \in Fd : fds'[g].open = fds[g].open /\ fds'[g].inode = fds[g].inode
    BY <1>6
  <2>8. ShellInv'
    BY <1>0, <1>1, <1>9, <2>1, <2>6, <2>7, ShellKept
       DEF Sound, Chosen, ShellInv
  <2> QED
    BY <1>1, <1>9, <1>10, <2>2, <2>4, <2>5, <2>8 DEF Sound, Bound
<1> QED
  BY <1>8, <1>9, <1>10 DEF VfsInv

LEMMA LseekKeeps ==
    ASSUME VfsInv, NEW f \in Fd, NEW o \in Nat, vfs_lseek(f, o), UNCHANGED load
    PROVE  VfsInv'
<1> DEFINE s == node_get(fds[f].inode)
<1>0. TypeOK /\ Marked /\ (~raced => Sound)
  BY DEF VfsInv
<1>1. /\ Exists(fds[f].inode) /\ fds[f].open
      /\ fds' = [fds EXCEPT ![f].offset = o]
      /\ past' = IF o > nodes[s].size THEN past \cup {f} ELSE past \ {f}
      /\ UNCHANGED <<nodes, next_inode, vfs_cwd, pc, sfd, snode, sslot, scall,
                     born, held, shheld, holed, overread, longname, raced>>
  BY Zenon DEF vfs_lseek, IsFile, shell
<1>2. s \in Slot /\ nodes[s].used /\ nodes[s].inode = fds[f].inode
  BY <1>1, NodeGet
<1> HIDE DEF s
<1>3. nodes[s].size \in Nat
  BY <1>0, <1>2 DEF TypeOK, NodeT
<1>4. /\ fds' \in [Fd -> FdT] /\ fds'[f].offset = o
      /\ fds'[f].open = fds[f].open /\ fds'[f].inode = fds[f].inode
      /\ fds'[f].id = fds[f].id
      /\ \A g \in Fd : g # f => fds'[g] = fds[g]
  BY <1>0, <1>1, Moved
<1>5. TypeOK'
  BY <1>0, <1>1, <1>4 DEF TypeOK
<1>6. /\ Marked' /\ SameTree /\ (~raced => Numbered' /\ Hangs' /\ Named')
  BY <1>1, NodesKept
<1>7. ASSUME ~raced'
      PROVE  Sound'
  <2>1. Sound
    BY <1>0, <1>1, <1>7
  <2>2. Fresh' /\ Owned' /\ ~overread'
    BY <1>1, <1>4, <2>1 DEF Sound, Fresh, Owned
  <2>3. ASSUME NEW g \in Fd, NEW r \in Slot, Reaches(g, r)'
        PROVE  /\ nodes'[r].id = fds'[g].id
               /\ g \notin past' => fds'[g].offset <= nodes'[r].size
    <3>1. Reaches(g, r) /\ fds'[g].id = fds[g].id /\ nodes' = nodes
      BY <1>1, <1>4, <2>3 DEF Reaches
    <3>2. /\ nodes[r].id = fds[g].id
          /\ g \notin past => fds[g].offset <= nodes[r].size
      BY <2>1, <3>1 DEF Sound, Bound
    <3>3. CASE g = f
      <4>1. r = s
        BY <1>2, <2>1, <3>1, <3>3 DEF Sound, Numbered, Reaches
      <4> QED
        BY <1>1, <1>3, <1>4, <3>1, <3>2, <3>3, <4>1
    <3>4. CASE g # f
      BY <1>1, <1>4, <3>1, <3>2, <3>4
    <3> QED
      BY <3>3, <3>4
  <2>4. pc # "idle" => sfd \in Fd
    BY <1>0 DEF TypeOK
  <2>5. \A g \in Fd : fds'[g].open = fds[g].open /\ fds'[g].inode = fds[g].inode
    BY <1>4
  <2>6. ShellInv'
    BY <1>0, <1>1, <1>6, <2>1, <2>4, <2>5, ShellKept
       DEF Sound, Chosen, ShellInv
  <2> QED
    BY <1>1, <1>6, <1>7, <2>2, <2>3, <2>6 DEF Sound, Bound
<1> QED
  BY <1>5, <1>6, <1>7 DEF VfsInv

LEMMA WriteKeeps ==
    ASSUME VfsInv, NEW f \in Fd, NEW n \in Nat, vfs_write(f, n),
           UNCHANGED load
    PROVE  VfsInv'
<1> DEFINE s == node_get(fds[f].inode)
<1>0. TypeOK /\ Marked /\ (~raced => Sound)
  BY DEF VfsInv
<1>1. /\ Exists(fds[f].inode) /\ fds[f].open /\ WriteTo(s, f, n)
      /\ UNCHANGED <<next_inode, vfs_cwd, pc, sfd, snode, sslot, scall, born,
                     held, shheld, overread, longname, raced>>
  BY Zenon DEF vfs_write, IsFile, shell
<1>2. s \in Slot /\ nodes[s].used /\ nodes[s].inode = fds[f].inode
  BY <1>1, NodeGet
<1> HIDE DEF s
<1>3. /\ nodes' \in [Slot -> NodeT] /\ fds' \in [Fd -> FdT]
      /\ SameTree /\ Marked'
      /\ \A g \in Fd : /\ fds'[g].open = fds[g].open
                       /\ fds'[g].inode = fds[g].inode
      /\ Numbered /\ Bound /\ Reaches(f, s) => Bound'
  BY <1>0, <1>1, <1>2, WroteTo
<1>4. TypeOK'
  BY <1>0, <1>1, <1>3 DEF TypeOK
<1>5. ASSUME ~raced'
      PROVE  Sound'
  <2>1. Sound
    BY <1>0, <1>1, <1>5
  <2>2. Numbered' /\ Hangs' /\ Named'
    BY <1>1, <1>3, <2>1, TreeKept DEF Sound
  <2>3. Fresh' /\ Owned' /\ ~overread'
    BY <1>1, <1>3, <2>1 DEF Sound, Fresh, Owned
  <2>4. Bound'
    BY <1>1, <1>2, <1>3, <2>1 DEF Sound, Reaches
  <2>5. pc # "idle" => sfd \in Fd
    BY <1>0 DEF TypeOK
  <2>6. ShellInv'
    BY <1>0, <1>1, <1>3, <2>1, <2>5, ShellKept DEF Sound, Chosen, ShellInv
  <2> QED
    BY <2>2, <2>3, <2>4, <2>6 DEF Sound
<1> QED
  BY <1>3, <1>4, <1>5 DEF VfsInv
-----------------------------------------------------------------------------
(* A step of the shell that changes only its own variables.                *)
LEMMA TablesKept ==
    ASSUME VfsInv,
           UNCHANGED <<load, nodes, fds, next_inode, born, held, shheld, past,
                       holed, overread, longname, raced>>
    PROVE  /\ Marked'
           /\ ~raced => Numbered' /\ Hangs' /\ Named' /\ Fresh' /\ Bound'
                        /\ Owned' /\ ~overread'
           /\ TypeOK' <=>
                /\ pc' \in {"idle", "resolve", "create", "fill", "store",
                            "copy"}
                /\ scall' \in CallT
                /\ pc' # "idle" => sfd' \in Fd
                /\ pc' \in {"resolve", "create", "fill"} =>
                     scall'.path \in Path
                /\ pc' \in {"create", "fill"} => snode' \in Nat
                /\ pc' = "copy" => snode' \in Slot
                /\ pc' = "fill" => sslot' \in Slot
<1>1. Marked' /\ (~raced => Numbered' /\ Hangs' /\ Named')
  BY NodesKept
<1>2. ~raced => Fresh' /\ Bound' /\ Owned' /\ ~overread'
  BY DEF VfsInv, Sound, Fresh, Bound, Owned, Reaches
<1> QED
  BY <1>1, <1>2 DEF VfsInv, TypeOK

LEMMA NoCallType == NoCall \in CallT
<1>1. {} \in Flags /\ 0 \in Nat
  BY DEF Flags
<1>2. NoCall.path \in Path \cup {NoCall.path}
  OBVIOUS
<1>3. /\ NoCall = [path |-> NoCall.path, flags |-> {}, len |-> 0, number |-> 0]
  BY DEF NoCall
<1> QED
  BY <1>1, <1>2, <1>3 DEF CallT

LEMMA LeaveKeeps ==
    ASSUME VfsInv, Leave,
           UNCHANGED <<load, nodes, fds, next_inode, born, held, shheld, past,
                       holed, overread, longname, raced>>
    PROVE  VfsInv'
<1>1. pc' = "idle" /\ scall' = NoCall
  BY DEF Leave
<1>2. TypeOK'
  BY <1>1, NoCallType, TablesKept
<1>3. ShellInv'
  BY <1>1 DEF ShellInv
<1> QED
  BY <1>2, <1>3, TablesKept DEF VfsInv, Sound

LEMMA SetCwdKeeps ==
    ASSUME VfsInv, NEW path \in Path, vfs_set_cwd(path), UNCHANGED load
    PROVE  VfsInv'
<1>1. UNCHANGED <<nodes, fds, next_inode, born, held, shheld, past, holed,
                  overread, longname, raced, pc, sfd, snode, sslot, scall>>
  BY Zenon DEF vfs_set_cwd, shell, history
<1>2. TypeOK'
  BY <1>1 DEF VfsInv, TypeOK
<1>3. ~raced => ShellInv'
  BY <1>1 DEF VfsInv, Sound, ShellInv, HasDir, Children, Reaches
<1> QED
  BY <1>1, <1>2, <1>3, TablesKept DEF VfsInv, Sound

LEMMA ShellOpenKeeps ==
    ASSUME VfsInv, NEW path \in Path, NEW flags \in Flags,
           shell_open(path, flags), UNCHANGED load
    PROVE  VfsInv'
<1>1. /\ FreeFds # {} /\ pc' = "resolve" /\ sfd' = First(FreeFds)
      /\ scall' = [NoCall EXCEPT !.path = path, !.flags = flags]
      /\ UNCHANGED <<nodes, fds, next_inode, born, held, shheld, past, holed,
                     overread, longname, raced>>
  BY Zenon DEF shell_open, history
<1>2. First(FreeFds) \in Fd /\ ~fds[First(FreeFds)].open
  BY <1>1, FirstFree
<1>3. scall' \in CallT /\ scall'.path = path
  BY <1>1, NoCallType DEF CallT
<1>4. TypeOK'
  BY <1>1, <1>2, <1>3, TablesKept
<1>5. ShellInv'
  BY <1>1, <1>2 DEF ShellInv
<1> QED
  BY <1>1, <1>4, <1>5, TablesKept DEF VfsInv, Sound

LEMMA ShellResolveKeeps ==
    ASSUME VfsInv, shell_resolve, UNCHANGED load
    PROVE  VfsInv'
<1> DEFINE path == scall.path
<1>0. TypeOK /\ (~raced => Sound) /\ pc = "resolve"
  BY DEF VfsInv, shell_resolve
<1>1. UNCHANGED <<nodes, fds, next_inode, born, held, shheld, past, holed,
                  overread, longname, raced>>
  BY Zenon DEF shell_resolve, history
<1>2. sfd \in Fd /\ scall \in CallT /\ path \in Path
  BY <1>0 DEF TypeOK
<1>3. CASE vfs_resolve(path) # NONE
  <2>1. pc' = "store" /\ UNCHANGED <<sfd, sslot, scall>>
    BY <1>3, Zenon DEF shell_resolve
  <2>2. TypeOK'
    BY <1>1, <1>2, <2>1, TablesKept
  <2>3. ~raced => ShellInv'
    BY <1>0, <1>1, <2>1 DEF Sound, ShellInv
  <2> QED
    BY <1>1, <2>2, <2>3, TablesKept DEF VfsInv, Sound
<1>4. CASE vfs_resolve(path) = NONE /\ "C" \in scall.flags
           /\ IsDir(resolve_parent(path)) /\ Room
  <2>1. /\ pc' = "create" /\ snode' = resolve_parent(path)
        /\ UNCHANGED <<sfd, sslot, scall>>
    BY <1>4, Zenon DEF shell_resolve
  <2>2. HasDir(resolve_parent(path)) /\ resolve_parent(path) \in Nat
    BY <1>0, <1>4, DirHas
  <2>3. Len(path.leaf) = 1 =>
          Children(resolve_parent(path), path.leaf[1]) = {}
    BY <1>0, <1>2, <1>4, NewName
  <2>4. TypeOK'
    BY <1>1, <1>2, <2>1, <2>2, TablesKept
  <2>5. HasDir(snode)'
    BY <1>1, <2>1, <2>2 DEF HasDir
  <2>6. Len(scall'.path.leaf) = 1 => Children(snode, scall.path.leaf[1])' = {}
    BY <1>1, <2>1, <2>3 DEF Children
  <2>7. ~raced => ShellInv'
    BY <1>0, <1>1, <2>1, <2>5, <2>6 DEF Sound, ShellInv
  <2> QED
    BY <1>1, <2>4, <2>7, TablesKept DEF VfsInv, Sound
<1>5. CASE vfs_resolve(path) = NONE /\ ~("C" \in scall.flags
           /\ IsDir(resolve_parent(path)) /\ Room)
  <2>1. Leave
    BY <1>5, Zenon DEF shell_resolve
  <2> QED
    BY <1>1, <2>1, LeaveKeeps
<1> QED
  BY <1>3, <1>4, <1>5, Zenon

LEMMA ShellCreateKeeps ==
    ASSUME VfsInv, shell_create, UNCHANGED load
    PROVE  VfsInv'
<1>0. TypeOK /\ (~raced => Sound) /\ pc = "create"
  BY DEF VfsInv, shell_create
<1>1. UNCHANGED <<nodes, fds, next_inode, born, held, shheld, past, holed,
                  overread, longname, raced>>
  BY Zenon DEF shell_create, history
<1>2. CASE Room
  <2>1. /\ pc' = "fill" /\ sslot' = node_alloc
        /\ scall' = [scall EXCEPT !.number = next_inode]
        /\ UNCHANGED <<sfd, snode>>
    BY <1>2, Zenon DEF shell_create, NewInode
  <2>2. node_alloc \in Slot /\ ~nodes[node_alloc].used
    BY <1>2, NodeAlloc
  <2>3. scall \in CallT /\ next_inode \in Nat /\ sfd \in Fd /\ snode \in Nat
        /\ scall.path \in Path
    BY <1>0 DEF TypeOK
  <2>4. scall' \in CallT /\ scall'.path = scall.path
        /\ scall'.number = next_inode
    BY <2>1, <2>3 DEF CallT
  <2>5. TypeOK'
    BY <1>1, <2>1, <2>2, <2>3, <2>4, TablesKept
  <2>6. ASSUME ~raced
        PROVE  ShellInv'
    <3>1. ShellInv
      BY <1>0, <2>6 DEF Sound
    <3>2. HasDir(snode)'
      BY <1>0, <1>1, <2>1, <3>1 DEF ShellInv, HasDir
    <3>3. Len(scall'.path.leaf) = 1 =>
            Children(snode, scall.path.leaf[1])' = {}
      BY <1>0, <1>1, <2>1, <2>4, <3>1 DEF ShellInv, Children
    <3> QED
      BY <1>0, <1>1, <2>1, <2>2, <2>4, <3>1, <3>2, <3>3 DEF ShellInv
  <2> QED
    BY <1>1, <2>5, <2>6, TablesKept DEF VfsInv, Sound
<1>3. CASE ~Room
  <2>1. Leave
    BY <1>3, Zenon DEF shell_create
  <2> QED
    BY <1>1, <2>1, LeaveKeeps
<1> QED
  BY <1>2, <1>3

LEMMA ShellFillKeeps ==
    ASSUME VfsInv, shell_fill, UNCHANGED load
    PROVE  VfsInv'
<1> DEFINE s == sslot  i == scall.number  leaf == scall.path.leaf
<1>0. TypeOK /\ Marked /\ (~raced => Sound) /\ pc = "fill"
  BY DEF VfsInv, shell_fill
<1>1. /\ CreateAt(s, i, "FILE", snode, leaf)
      /\ pc' = "store" /\ snode' = i
      /\ UNCHANGED <<fds, vfs_cwd, sfd, sslot, scall, held, shheld, past,
                     holed, overread, raced>>
  BY Zenon DEF shell_fill
<1>2. /\ s \in Slot /\ i \in Nat /\ snode \in Nat /\ sfd \in Fd
      /\ leaf \in Seq(STRING) \ {<<>>}
  <2>1. s \in Slot /\ snode \in Nat /\ sfd \in Fd /\ scall \in CallT
        /\ scall.path \in Path
    BY <1>0 DEF TypeOK
  <2>2. scall.number \in Nat
    BY <2>1 DEF CallT
  <2>3. leaf \in Seq(STRING) \ {<<>>}
    BY <2>1 DEF Path
  <2> QED
    BY <2>1, <2>2, <2>3
<1> HIDE DEF s, i, leaf
<1>3. /\ nodes' \in [Slot -> NodeT]
      /\ \A r \in Slot : r # s => nodes'[r] = nodes[r]
      /\ nodes'[s].used
      /\ nodes'[s].inode = i /\ nodes'[s].parent = snode
      /\ nodes'[s].name = leaf[1] /\ nodes'[s].data = <<>>
      /\ nodes'[s].size = 0 /\ nodes'[s].id = born + 1
      /\ next_inode' = i + 1 /\ born' = born + 1
      /\ next_inode' \in Nat /\ next_inode' > 0 /\ born' \in Nat
      /\ longname' \in BOOLEAN
      /\ ~longname' => ~longname /\ Len(leaf) = 1
  BY <1>0, <1>1, <1>2, Created
<1>4. TypeOK'
  BY <1>0, <1>1, <1>2, <1>3 DEF TypeOK
<1>5. Marked'
  BY <1>0, <1>1, <1>2, <1>3, CreatedMarked
<1>6. ASSUME ~raced'
      PROVE  Sound'
  <2>1. Sound
    BY <1>0, <1>1, <1>6
  <2>2. /\ i = next_inode /\ ~nodes[s].used /\ HasDir(snode)
        /\ Len(leaf) = 1 => Children(snode, leaf[1]) = {}
        /\ ~fds[sfd].open
    BY <1>0, <2>1 DEF Sound, ShellInv, i, s, leaf
  <2>3. Numbered' /\ Hangs' /\ Named'
    BY <1>0, <1>2, <1>3, <2>1, <2>2, CreatedTree DEF Sound
  <2>4. Fresh' /\ Bound'
    BY <1>0, <1>1, <1>2, <1>3, <2>1, <2>2, CreatedBound DEF Sound
  <2>5. Owned' /\ ~overread'
    BY <1>1, <2>1 DEF Sound, Owned
  <2>6. ShellInv'
    BY <1>1, <2>2 DEF ShellInv
  <2> QED
    BY <2>3, <2>4, <2>5, <2>6 DEF Sound
<1> QED
  BY <1>4, <1>5, <1>6 DEF VfsInv

LEMMA ShellStoreKeeps ==
    ASSUME VfsInv, shell_store, UNCHANGED load
    PROVE  VfsInv'
<1>0. TypeOK /\ Marked /\ (~raced => Sound) /\ pc = "store"
  BY DEF VfsInv, shell_store
<1>1. Leave /\ UNCHANGED <<next_inode, vfs_cwd, born, held, overread, longname,
                           raced>>
  BY Zenon DEF shell_store
<1>2. pc' = "idle" /\ scall' = NoCall
  BY <1>1 DEF Leave
<1>3. CASE ~(Exists(snode) /\ ~IsDir(snode))
  <2>1. UNCHANGED <<nodes, fds, shheld, past, holed>>
    BY <1>3, Zenon DEF shell_store
  <2> QED
    BY <1>1, <2>1, LeaveKeeps
<1>4. CASE Exists(snode) /\ ~IsDir(snode)
  <2> DEFINE s == node_get(snode)
  <2>1. Enter(sfd, s, scall.flags, nodes) /\ shheld' = shheld \cup {sfd}
    BY <1>4, Zenon DEF shell_store
  <2>2. s \in Slot /\ nodes[s].used
    BY <1>4, NodeGet
  <2> HIDE DEF s
  <2>3. sfd \in Fd /\ scall.flags \in Flags
    <3>1. sfd \in Fd /\ scall \in CallT
      BY <1>0 DEF TypeOK
    <3> QED
      BY <3>1 DEF CallT
  <2>4. /\ nodes' \in [Slot -> NodeT] /\ fds' \in [Fd -> FdT]
        /\ SameTree /\ Marked'
        /\ fds'[sfd].open /\ \A g \in Fd : g # sfd => fds'[g] = fds[g]
        /\ Numbered /\ Fresh /\ Bound => Fresh' /\ Bound'
    BY <1>0, <1>1, <2>1, <2>2, <2>3, Entered
  <2>5. TypeOK'
    BY <1>0, <1>1, <1>2, <2>1, <2>3, <2>4, NoCallType DEF TypeOK
  <2>6. ASSUME ~raced'
        PROVE  Sound'
    <3>1. Sound
      BY <1>0, <1>1, <2>6
    <3>2. Numbered' /\ Hangs' /\ Named'
      BY <1>1, <2>4, <3>1, TreeKept DEF Sound
    <3>3. sfd \notin held /\ sfd \notin shheld
      BY <1>0, <2>3, <3>1 DEF Sound, Owned, ShellInv
    <3>4. Owned' /\ ~overread'
      BY <1>1, <2>1, <2>3, <2>4, <3>1, <3>3 DEF Sound, Owned
    <3>5. ShellInv'
      BY <1>2 DEF ShellInv
    <3> QED
      BY <2>4, <3>1, <3>2, <3>4, <3>5 DEF Sound
  <2> QED
    BY <2>4, <2>5, <2>6 DEF VfsInv
<1> QED
  BY <1>3, <1>4

LEMMA ShellWriteKeeps ==
    ASSUME VfsInv, NEW f \in Fd, NEW n \in Nat, shell_write(f, n),
           UNCHANGED load
    PROVE  VfsInv'
<1>1. /\ f \in shheld /\ fds[f].open /\ Exists(fds[f].inode)
      /\ pc' = "copy" /\ sfd' = f /\ snode' = node_get(fds[f].inode)
      /\ scall' = [NoCall EXCEPT !.len = n]
      /\ UNCHANGED <<nodes, fds, next_inode, born, held, shheld, past, holed,
                     overread, longname, raced>>
  BY Zenon DEF shell_write, IsFile, history
<1>2. /\ snode' \in Slot /\ nodes[snode'].used
      /\ nodes[snode'].inode = fds[f].inode
  BY <1>1, NodeGet
<1>3. scall' \in CallT
  BY <1>1, NoCallType DEF CallT
<1>4. TypeOK'
  BY <1>1, <1>2, <1>3, TablesKept
<1>5. ShellInv'
  BY <1>1, <1>2 DEF ShellInv, Reaches
<1> QED
  BY <1>1, <1>4, <1>5, TablesKept DEF VfsInv, Sound

LEMMA ShellCopyKeeps ==
    ASSUME VfsInv, shell_copy, UNCHANGED load
    PROVE  VfsInv'
<1>0. TypeOK /\ Marked /\ (~raced => Sound) /\ pc = "copy"
  BY DEF VfsInv, shell_copy
<1>1. /\ WriteTo(snode, sfd, scall.len) /\ Leave
      /\ UNCHANGED <<next_inode, vfs_cwd, born, held, shheld, overread,
                     longname, raced>>
  BY Zenon DEF shell_copy
<1>2. pc' = "idle" /\ scall' = NoCall
  BY <1>1 DEF Leave
<1>3. snode \in Slot /\ sfd \in Fd /\ scall.len \in Nat
  <2>1. snode \in Slot /\ sfd \in Fd /\ scall \in CallT
    BY <1>0 DEF TypeOK
  <2> QED
    BY <2>1 DEF CallT
<1>4. /\ nodes' \in [Slot -> NodeT] /\ fds' \in [Fd -> FdT]
      /\ SameTree /\ Marked'
      /\ \A g \in Fd : /\ fds'[g].open = fds[g].open
                       /\ fds'[g].inode = fds[g].inode
      /\ Numbered /\ Bound /\ Reaches(sfd, snode) => Bound'
  BY <1>0, <1>1, <1>3, WroteTo
<1>5. TypeOK'
  BY <1>0, <1>1, <1>2, <1>4, NoCallType DEF TypeOK
<1>6. ASSUME ~raced'
      PROVE  Sound'
  <2>1. Sound
    BY <1>0, <1>1, <1>6
  <2>2. Numbered' /\ Hangs' /\ Named'
    BY <1>1, <1>4, <2>1, TreeKept DEF Sound
  <2>3. Fresh' /\ Owned' /\ ~overread'
    BY <1>1, <1>4, <2>1 DEF Sound, Fresh, Owned
  <2>4. Bound'
    BY <1>0, <1>4, <2>1 DEF Sound, ShellInv
  <2>5. ShellInv'
    BY <1>2 DEF ShellInv
  <2> QED
    BY <2>2, <2>3, <2>4, <2>5 DEF Sound
<1> QED
  BY <1>4, <1>5, <1>6 DEF VfsInv

-----------------------------------------------------------------------------
LEMMA InitVfsInv == Init => VfsInv
<1> SUFFICES ASSUME Init
             PROVE  VfsInv
  OBVIOUS
<1> DEFINE root == Node("DIR", ROOT, ROOT, "/")
<1>0. born = 0 /\ ROOT = 0
  BY DEF Init, ROOT
<1>1. /\ root \in NodeT
      /\ root.used /\ root.inode = 0 /\ root.id = 0 /\ root.size = 0
      /\ root.data = <<>>
  <2>1. Unused \in NodeT
    BY UnusedType
  <2>2. root \in NodeT
    BY <1>0, <2>1 DEF NodeT, Node
  <2> QED
    BY <1>0, <2>2 DEF Node, Unused
<1>2. Unused \in NodeT /\ ~Unused.used /\ Unused.id = 0
  <2>1. ~Unused.used /\ Unused.id = 0
    BY DEF Unused
  <2> QED
    BY <2>1, UnusedType
<1> HIDE DEF root
<1>3. nodes = [s \in Slot |-> IF s = 0 THEN root ELSE Unused]
  BY DEF Init, root
<1>4. /\ nodes \in [Slot -> NodeT]
      /\ \A s \in Slot : nodes[s].used <=> s = 0
      /\ \A s \in Slot : nodes[s].id = 0
      /\ \A s \in Slot : nodes[s].used => /\ nodes[s].inode = 0
                                          /\ nodes[s].size = 0
                                          /\ nodes[s].data = <<>>
  BY <1>1, <1>2, <1>3
<1>5. fds \in [Fd -> FdT] /\ \A f \in Fd : ~fds[f].open
  <2>1. Closed \in FdT /\ ~Closed.open
    BY DEF Closed, FdT, Flags
  <2> QED
    BY <2>1 DEF Init
<1>6. TypeOK
  <2>1. load \in Loads /\ pc = "idle" /\ held = {} /\ shheld = {}
    BY DEF Init
  <2>2. next_inode \in Nat /\ next_inode > 0 /\ born \in Nat
    BY DEF Init
  <2>3. longname \in BOOLEAN /\ raced \in BOOLEAN /\ overread \in BOOLEAN
    BY DEF Init
  <2>4. scall \in CallT
    BY NoCallType DEF Init
  <2> QED
    BY <1>4, <1>5, <2>1, <2>2, <2>3, <2>4 DEF TypeOK
<1>7. Marked
  <2>1. \A s \in Slot : nodes[s].used =>
          /\ nodes[s].size <= Len(nodes[s].data)
          /\ \A k \in 1 .. nodes[s].size : nodes[s].data[k] = "w"
    BY <1>4
  <2> QED
    BY <1>0, <1>4, <2>1 DEF Init, Marked, BytesWritten
<1>8. Numbered /\ Hangs /\ Named
  BY <1>0, <1>4 DEF Init, Numbered, Hangs, Named
<1>9. Fresh /\ Bound /\ Owned /\ ShellInv /\ ~overread
  BY <1>5 DEF Init, Fresh, Bound, Owned, ShellInv, Reaches
<1> QED
  BY <1>6, <1>7, <1>8, <1>9 DEF VfsInv, Sound

LEMMA NextVfsInv == VfsInv /\ [Next]_vars => VfsInv'
<1> SUFFICES ASSUME VfsInv, [Next]_vars
             PROVE  VfsInv'
  OBVIOUS
<1>1. CASE UNCHANGED vars
  <2>1. UNCHANGED <<load, nodes, fds, next_inode, vfs_cwd, pc, sfd, snode,
                    sslot, scall, born, held, shheld, past, holed, overread,
                    longname, raced>>
    BY <1>1, Zenon DEF vars
  <2>2. TypeOK'
    BY <2>1 DEF VfsInv, TypeOK
  <2>3. ~raced => ShellInv'
    BY <2>1 DEF VfsInv, Sound, ShellInv, HasDir, Children, Reaches
  <2> QED
    BY <2>1, <2>2, <2>3, TablesKept DEF VfsInv, Sound
<1>2. CASE Next
  <2>1. UNCHANGED load
    BY <1>2 DEF Next
  <2>2. /\ load.paths \subseteq Path /\ load.flags \subseteq Flags
        /\ load.lens \subseteq Nat /\ load.cuts \subseteq Nat
        /\ load.seeks \subseteq Nat
    BY LoadType DEF VfsInv
  <2>3. CASE \E path \in load.paths : vfs_mkdir(path)
    BY <2>1, <2>2, <2>3, MkdirKeeps
  <2>4. CASE \E path \in load.paths : vfs_unlink(path)
    BY <2>1, <2>2, <2>4, UnlinkKeeps
  <2>5. CASE \E path \in load.paths, flags \in load.flags :
               vfs_open(path, flags)
    BY <2>1, <2>2, <2>5, OpenKeeps
  <2>6. CASE \E f \in Fd : vfs_close(f)
    BY <2>1, <2>6, CloseKeeps
  <2>7. CASE \E f, g \in Fd : vfs_dup(f, g)
    BY <2>1, <2>7, DupKeeps
  <2>8. CASE \E f \in Fd, flags \in load.flags : vfs_fcntl(f, flags)
    BY <2>1, <2>2, <2>8, FcntlKeeps
  <2>9. CASE \E f \in Fd, n \in load.cuts : vfs_ftruncate(f, n)
    BY <2>1, <2>2, <2>9, FtruncateKeeps
  <2>10. CASE \E f \in Fd, n \in load.lens : vfs_read(f, n)
    BY <2>1, <2>2, <2>10, ReadKeeps
  <2>11. CASE \E f \in Fd, o \in load.seeks : vfs_lseek(f, o)
    BY <2>1, <2>2, <2>11, LseekKeeps
  <2>12. CASE \E f \in Fd, n \in load.lens : vfs_write(f, n)
    BY <2>1, <2>2, <2>12, WriteKeeps
  <2>13. CASE \E path \in load.paths : vfs_set_cwd(path)
    BY <2>1, <2>2, <2>13, SetCwdKeeps
  <2>14. CASE \E path \in load.paths, flags \in load.flags :
                shell_open(path, flags)
    BY <2>1, <2>2, <2>14, ShellOpenKeeps
  <2>15. CASE shell_resolve
    BY <2>1, <2>15, ShellResolveKeeps
  <2>16. CASE shell_create
    BY <2>1, <2>16, ShellCreateKeeps
  <2>17. CASE shell_fill
    BY <2>1, <2>17, ShellFillKeeps
  <2>18. CASE shell_store
    BY <2>1, <2>18, ShellStoreKeeps
  <2>19. CASE \E f \in Fd, n \in load.lens : shell_write(f, n)
    BY <2>1, <2>2, <2>19, ShellWriteKeeps
  <2>20. CASE shell_copy
    BY <2>1, <2>20, ShellCopyKeeps
  <2> QED
    BY <1>2, <2>3, <2>4, <2>5, <2>6, <2>7, <2>8, <2>9, <2>10, <2>11, <2>12,
       <2>13, <2>14, <2>15, <2>16, <2>17, <2>18, <2>19, <2>20, Zenon
       DEF Next, ShellStep
<1> QED
  BY <1>1, <1>2, Zenon

(* The inductive invariant: types, the marks of the bytes, and, as long as *)
(* no program interferes with a call of the shell, the tree, the numbers   *)
(* of nodes and descriptors, the owners and what the shell has read        *)
(* (vfs.c:29-44, 142-202 and 222-355).                                     *)
THEOREM VfsInvariant == Spec => []VfsInv
BY InitVfsInv, NextVfsInv, PTL DEF Spec

(* The tree is a tree, with names that differ, through every order of      *)
(* creating and removing nodes (vfs.c:165-185, 316-334 and 336-355), for   *)
(* any table and any paths: vfs_resolve finds nothing exactly where        *)
(* creating is allowed.                                                    *)
THEOREM TreeIsATree == Spec => []TreeOK
<1>1. VfsInv => TreeOK
  <2> SUFFICES ASSUME VfsInv, ~raced,
                      NEW s \in Slot, nodes[s].used, nodes[s].inode # ROOT,
                      NEW r \in Slot, nodes[r].used, nodes[r].inode # ROOT
               PROVE  /\ IsDir(nodes[s].parent)
                      /\ nodes[s].parent < nodes[s].inode
                      /\ nodes[s].inode = nodes[r].inode => s = r
                      /\ ~longname /\ nodes[s].parent = nodes[r].parent
                            /\ nodes[s].name = nodes[r].name => s = r
    BY Zenon DEF TreeOK
  <2>1. TypeOK /\ Numbered /\ Hangs /\ Named
    BY DEF VfsInv, Sound
  <2>2. nodes[s].parent < nodes[s].inode /\ HasDir(nodes[s].parent)
    BY <2>1 DEF Hangs
  <2>3. IsDir(nodes[s].parent)
    BY <2>1, <2>2, HasIsDir
  <2>4. nodes[s].inode = nodes[r].inode => s = r
    BY <2>1 DEF Numbered
  <2>5. ~longname /\ nodes[s].parent = nodes[r].parent
                  /\ nodes[s].name = nodes[r].name => s = r
    BY <2>1 DEF Named
  <2> QED
    BY <2>2, <2>3, <2>4, <2>5
<1> QED
  BY <1>1, VfsInvariant, PTL

(* A descriptor never reaches another file than the one it was opened on,  *)
(* for any number of files removed and slots used again (vfs.c:180, 253,   *)
(* 280, 296, 328 and 353): numbers are never given twice.                  *)
THEOREM DescriptorsKeepTheirFile == Spec => []SameFile
<1>1. VfsInv => SameFile
  <2> SUFFICES ASSUME VfsInv, NEW f \in Fd, ~raced, fds[f].open,
                      Exists(fds[f].inode)
               PROVE  nodes[node_get(fds[f].inode)].id = fds[f].id
    BY DEF SameFile
  <2>1. Bound
    BY DEF VfsInv, Sound
  <2>2. Reaches(f, node_get(fds[f].inode)) /\ node_get(fds[f].inode) \in Slot
    BY NodeGet DEF Reaches
  <2> QED
    BY <2>1, <2>2 DEF Bound
<1> QED
  BY <1>1, VfsInvariant, PTL

(* A descriptor has one owner, and is open exactly as long as it has one   *)
(* (vfs.c:145-149, 197, 222-248).                                          *)
THEOREM DescriptorsHaveOneOwner == Spec => []OneOwner
<1>1. VfsInv => OneOwner
  <2> SUFFICES ASSUME VfsInv, ~raced
               PROVE  /\ held \cap shheld = {}
                      /\ {f \in Fd : fds[f].open} = held \cup shheld
    BY DEF OneOwner
  <2>1. Owned /\ held \subseteq Fd /\ shheld \subseteq Fd
    BY DEF VfsInv, Sound, TypeOK
  <2> QED
    BY <2>1 DEF Owned
<1> QED
  BY <1>1, VfsInvariant, PTL

(* A descriptor that was not sought past the end, and whose file was not   *)
(* cut under it, reads inside the file: the difference of vfs.c:284 does   *)
(* not wrap, for any sizes, offsets and lengths.                           *)
THEOREM ReadsStayInside == Spec => []ReadsInside
<1>1. VfsInv => ReadsInside
  BY DEF VfsInv, Sound, ReadsInside
<1> QED
  BY <1>1, VfsInvariant, PTL

(* Below the size of a file there are written bytes only, and the buffer   *)
(* holds them, unless the file was extended over a hole (vfs.c:262-269 and *)
(* 302-312); also after a program interfered with the shell.               *)
THEOREM FilesHoldWhatWasWritten == Spec => []BytesWritten
<1>1. VfsInv => BytesWritten
  BY DEF VfsInv, Marked
<1> QED
  BY <1>1, VfsInvariant, PTL

=============================================================================
