--------------------------- MODULE RingBufferSpec ---------------------------
(***************************************************************************)
(* The ring buffer as a state machine: any sequence of push and pop calls. *)
(* It implements BoundedQueue, with Contents as the refinement mapping.    *)
(***************************************************************************)
EXTENDS RingBuffer

VARIABLES
    buf,        \* the buffer
    answer      \* what the last call returned

vars == <<buf, answer>>

Init == buf = NewBuffer /\ answer = [call |-> "none", ok |-> TRUE, item |-> None]

DoPush(item) ==
    /\ buf' = Push(buf, item).buf
    /\ answer' = [call |-> "push", ok |-> Push(buf, item).ok, item |-> item]

DoPop ==
    /\ buf' = Pop(buf).buf
    /\ answer' = [call |-> "pop", ok |-> Pop(buf).item # None, item |-> Pop(buf).item]

Next == DoPop \/ \E item \in Item : DoPush(item)

Spec == Init /\ [][Next]_vars

(***************************************************************************)
(* The representation invariant holds between calls: an emptied slot is    *)
(* None and the occupied ones are the len slots from head on, however the  *)
(* indices have wrapped (ring_buffer.rs:27-45).                            *)
(***************************************************************************)
RepresentationInv == WellFormed(buf)

Queue == INSTANCE BoundedQueue WITH queue <- Contents(buf), Capacity <- N

(***************************************************************************)
(* The ring buffer is a bounded FIFO: items come out in the order they     *)
(* went in, and a full buffer refuses the newest and keeps the rest        *)
(* (ring_buffer.rs:1-4).                                                   *)
(***************************************************************************)
ImplementsQueue == Queue!Spec

=============================================================================
