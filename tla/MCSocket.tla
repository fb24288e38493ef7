------------------------------ MODULE MCSocket ------------------------------
(***************************************************************************)
(* Four slots and one path for the life of connections: four, so that a    *)
(* connection is refused by a full queue.                                  *)
(***************************************************************************)
EXTENDS UnixSocket, TLC

Symmetry == Permutations(Task)
=============================================================================
