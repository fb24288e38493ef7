------------------------------ MODULE MCSched ------------------------------
(***************************************************************************)
(* Instances of Sched for TLC: three or four task slots, sleeps of zero to *)
(* two ticks and one whose deadline wraps.                                 *)
(***************************************************************************)
EXTENDS Sched

MCSleepArgs == {-1, 1, 2}
MCAllSlots == 0 .. MAX_TASKS
MCShortSleeps == {-1, 2}
MCUserSlots == 1 .. MAX_TASKS
MCNobody == {}
=============================================================================
