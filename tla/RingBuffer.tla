----------------------------- MODULE RingBuffer -----------------------------
(***************************************************************************)
(* The fixed-capacity FIFO of keyboard/ring_buffer.rs: N slots, the index  *)
(* of the oldest item and a length.  A buffer is a record with the fields  *)
(* of the Rust struct; push and pop are operators that return the new      *)
(* buffer together with what the Rust method returns, so the keyboard      *)
(* model and the stand-alone specification share one translation.          *)
(***************************************************************************)
EXTENDS Naturals, Sequences

CONSTANTS
    Item,       \* the values a slot can hold (Rust's T: Copy)
    N,          \* the capacity, Rust's const generic
    None        \* Rust's Option::None

ASSUME CapacityAssumption == N \in Nat \ {0}
ASSUME NoneAssumption == None \notin Item

Buffer == [slots: [0 .. N-1 -> Item \cup {None}], head: 0 .. N-1, len: 0 .. N]

\* RingBuffer::new
NewBuffer == [slots |-> [i \in 0 .. N-1 |-> None], head |-> 0, len |-> 0]

\* The slot of the i-th oldest item, i counted from 0.
SlotAt(buf, i) == (buf.head + i) % N

IsFull(buf) == buf.len = N
IsEmpty(buf) == buf.len = 0

\* Mutant of Push: a full buffer overwrites its oldest item instead.
PushOverOldest(buf, item) ==
    IF IsFull(buf)
    THEN [buf |-> [buf EXCEPT !.slots[buf.head] = item, !.head = SlotAt(buf, 1)],
          ok |-> TRUE]
    ELSE [buf |-> [buf EXCEPT !.slots[SlotAt(buf, buf.len)] = item,
                              !.len = @ + 1],
          ok |-> TRUE]

\* RingBuffer::push: a full buffer hands the item back and stays as it was.
Push(buf, item) ==
    IF IsFull(buf)
    THEN [buf |-> buf, ok |-> FALSE]
    ELSE [buf |-> [slots |-> [buf.slots EXCEPT ![SlotAt(buf, buf.len)] = item],
                   head |-> buf.head,
                   len |-> buf.len + 1],
          ok |-> TRUE]

\* Mutant of Pop: the slot is read but not taken.
PopLeavesSlot(buf) ==
    IF IsEmpty(buf)
    THEN [buf |-> buf, item |-> None]
    ELSE [buf |-> [buf EXCEPT !.head = SlotAt(buf, 1), !.len = @ - 1],
          item |-> buf.slots[buf.head]]

\* Mutant of Pop: the newest item is taken, as from a stack.
PopNewest(buf) ==
    IF IsEmpty(buf)
    THEN [buf |-> buf, item |-> None]
    ELSE LET last == SlotAt(buf, buf.len - 1)
         IN  [buf |-> [buf EXCEPT !.slots[last] = None, !.len = @ - 1],
              item |-> buf.slots[last]]

\* RingBuffer::pop: the oldest item, or None from an empty buffer.
Pop(buf) ==
    IF IsEmpty(buf)
    THEN [buf |-> buf, item |-> None]
    ELSE [buf |-> [slots |-> [buf.slots EXCEPT ![buf.head] = None],
                   head |-> SlotAt(buf, 1),
                   len |-> buf.len - 1],
          item |-> buf.slots[buf.head]]

\* What the buffer stands for: its items, oldest first.
Contents(buf) == [i \in 1 .. buf.len |-> buf.slots[SlotAt(buf, i - 1)]]

(***************************************************************************)
(* The representation invariant: exactly the len slots from head on are    *)
(* occupied, and every other slot has been emptied by a take().            *)
(***************************************************************************)
Occupied(buf) == {SlotAt(buf, i) : i \in 0 .. buf.len - 1}
WellFormed(buf) ==
    /\ buf \in Buffer
    /\ \A s \in 0 .. N-1 : (buf.slots[s] # None) <=> (s \in Occupied(buf))
=============================================================================
