------------------------------- MODULE MCPmm -------------------------------
(***************************************************************************)
(* Five bits of bitmap, the first one below 1 MiB, two addresses per frame; *)
(* a memory that ends inside the bitmap and one that is larger than it;    *)
(* regions that overlap, that end inside a frame, and that reach past the  *)
(* end of the memory.                                                      *)
(***************************************************************************)
EXTENDS Pmm

MCMemSizes == {4, 6}
MCRegions == {<<2, 1>>, <<3, 2>>, <<7, 4>>}
=============================================================================
