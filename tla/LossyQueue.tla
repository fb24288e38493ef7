----------------------------- MODULE LossyQueue -----------------------------
(***************************************************************************)
(* What an input queue promises its readers: items come out in the order   *)
(* they went in, once each; an item that arrives when the queue is full is *)
(* dropped and nothing else is.  The queue may be turned off for a while,  *)
(* and is empty when it is turned on again.                                *)
(***************************************************************************)
EXTENDS Naturals, Sequences

CONSTANTS
    Item,       \* what is queued
    Capacity,   \* how many items fit
    None        \* nothing delivered yet

VARIABLES
    live,       \* the queue is turned on
    q,          \* the items waiting, oldest first
    out         \* the item delivered last

Init == live = TRUE /\ q = <<>> /\ out = None

Put(x) == /\ live /\ Len(q) < Capacity
          /\ q' = Append(q, x)
          /\ UNCHANGED <<live, out>>

Get == /\ live /\ q # <<>>
       /\ out' = Head(q) /\ q' = Tail(q)
       /\ UNCHANGED live

TurnOff == live' = FALSE /\ q' = <<>> /\ out' \in {out, None}

TurnOn == ~live /\ live' = TRUE /\ q' = <<>> /\ UNCHANGED out

Next == (\E x \in Item : Put(x)) \/ Get \/ TurnOff \/ TurnOn

Spec == Init /\ [][Next]_<<live, q, out>>
=============================================================================
