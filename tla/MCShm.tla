------------------------------- MODULE MCShm -------------------------------
(***************************************************************************)
(* Two objects of at most two pages, two names, so that a slot is used     *)
(* again for another name; three frames, so that growing runs out of them  *)
(* in the middle; and the length -1 as size_t.                             *)
(***************************************************************************)
EXTENDS Shm, TLC

MCLengths == {0, 1, 3, SIZE_T - 1}

Symmetry == Permutations(Name) \cup Permutations(Fd) \cup Permutations(Frame)
=============================================================================
