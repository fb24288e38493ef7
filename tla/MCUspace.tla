------------------------------ MODULE MCUspace ------------------------------
(***************************************************************************)
(* Two task slots, and seven pages: one for the program, two before the    *)
(* mappings, two for them, one for the stack, one behind it.  The loads:   *)
(* programs that move their break and map memory; programs that map,       *)
(* unmap and map at fixed addresses; programs with threads; programs that  *)
(* execute others, among them one whose segments share a page, one that    *)
(* reaches into the mappings and one whose second segment is not in its    *)
(* file.                                                                   *)
(***************************************************************************)
EXTENDS Uspace

Seg(a, len) == [at |-> a, n |-> len, short |-> FALSE]
Plain == <<Seg(0, 1)>>
Shared == <<Seg(0, 1), Seg(0, 2)>>
Large == <<Seg(0, 1), Seg(2, 2)>>
Short == <<Seg(0, 1), [at |-> 1, n |-> 1, short |-> TRUE]>>

Load(progs, ops, lens, at, breaks) ==
    [progs |-> progs, ops |-> ops, lens |-> lens, at |-> at,
     breaks |-> breaks]
MCLoads ==
    {Load({Plain}, {"brk", "mmap"}, {1, 2}, {}, {1, 2, 3, 4}),
     Load({Plain}, {"mmap", "fixed", "munmap"}, {1, 2}, {3, 4}, {}),
     Load({Plain}, {"mmap", "thread"}, {1, 2}, {}, {}),
     Load({Large}, {"mmap"}, {1}, {}, {}),
     Load({Plain, Shared, Short}, {"exec", "thread"}, {}, {}, {})}
=============================================================================
