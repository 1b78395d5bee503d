---------------------------- MODULE BoundedQueue ----------------------------
(***************************************************************************)
(* What the ring buffer promises (the header of keyboard/ring_buffer.rs):  *)
(* a queue of at most Capacity items, first in first out, that refuses the *)
(* newest item when it is full.  answer is what the last call returned.    *)
(***************************************************************************)
EXTENDS Naturals, Sequences

CONSTANTS Item, Capacity, None

VARIABLES queue, answer

vars == <<queue, answer>>

Init == queue = << >> /\ answer = [call |-> "none", ok |-> TRUE, item |-> None]

Offer(item) ==
    /\ queue' = IF Len(queue) < Capacity THEN Append(queue, item) ELSE queue
    /\ answer' = [call |-> "push", ok |-> Len(queue) < Capacity, item |-> item]

Take ==
    \/ /\ queue # << >>
       /\ queue' = Tail(queue)
       /\ answer' = [call |-> "pop", ok |-> TRUE, item |-> Head(queue)]
    \/ /\ queue = << >>
       /\ queue' = << >>
       /\ answer' = [call |-> "pop", ok |-> FALSE, item |-> None]

Next == Take \/ \E item \in Item : Offer(item)

Spec == Init /\ [][Next]_vars
=============================================================================
