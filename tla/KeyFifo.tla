------------------------------ MODULE KeyFifo ------------------------------
(***************************************************************************)
(* What Doom's key queue promises: the events come out in the order they   *)
(* went in, none twice, and one that finds the queue full is dropped, the  *)
(* ones before it being kept.  KeyRing.tla is shown to implement it, and   *)
(* DoomInput.tla uses it for the queue.                                    *)
(***************************************************************************)
EXTENDS Naturals, Sequences

CONSTANTS Event,      \* what is queued
          Capacity,   \* the most that can wait
          Nothing     \* no event

VARIABLES items,      \* the events that wait, oldest first
          taken       \* what the last request for an event returned

vars == <<items, taken>>

Offered(q, e) == IF Len(q) < Capacity THEN Append(q, e) ELSE q

Init == items = <<>> /\ taken = Nothing

Offer(e) == items' = Offered(items, e) /\ UNCHANGED taken

Take ==
  \/ items = <<>> /\ taken' = Nothing /\ UNCHANGED items
  \/ items # <<>> /\ taken' = Head(items) /\ items' = Tail(items)

Next == (\E e \in Event : Offer(e)) \/ Take

Spec == Init /\ [][Next]_vars
=============================================================================
