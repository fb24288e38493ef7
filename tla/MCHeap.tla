------------------------------- MODULE MCHeap -------------------------------
(***************************************************************************)
(* Pages of eight units and two of them to start with, so that the heap   *)
(* expands once before memory ends; requests below and above the minimum   *)
(* block size; three pointers held at a time.  After a race the heap is    *)
(* followed only until it is expanded.                                     *)
(***************************************************************************)
EXTENDS Heap

MCRequests == {1, 4}

RaceBound == raced => heap_end = Base + InitPages * PAGE_SIZE
=============================================================================
