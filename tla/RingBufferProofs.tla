-------------------------- MODULE RingBufferProofs --------------------------
(***************************************************************************)
(* Proofs about the ring buffer, for every capacity and item type.         *)
(***************************************************************************)
EXTENDS RingBufferSpec, SequenceTheorems, TLAPS

USE CapacityAssumption, NoneAssumption

(***************************************************************************)
(* An index taken modulo N, without the modulo: it has wrapped at most     *)
(* once, because head < N and the offset is at most N.                     *)
(***************************************************************************)
LEMMA Wrap ==
    ASSUME NEW h \in 0 .. N-1, NEW i \in 0 .. N
    PROVE  (h + i) % N = (IF h + i < N THEN h + i ELSE h + i - N)
<1>1. CASE h + i < N
  BY <1>1
<1>2. CASE h + i >= N
  BY <1>2
<1> QED BY <1>1, <1>2

LEMMA SlotValue ==
    ASSUME NEW b \in Buffer
    PROVE  \A i \in 0 .. N :
              SlotAt(b, i) = (IF b.head + i < N THEN b.head + i ELSE b.head + i - N)
  BY Wrap DEF SlotAt, Buffer

(***************************************************************************)
(* The slot of an index is a slot, and two indices below N have different  *)
(* slots: no two items share one.                                          *)
(***************************************************************************)
LEMMA SlotsDistinct ==
    ASSUME NEW b \in Buffer
    PROVE  /\ \A i \in 0 .. N : SlotAt(b, i) \in 0 .. N-1
           /\ \A i, j \in 0 .. N-1 : SlotAt(b, i) = SlotAt(b, j) => i = j
<1>1. b.head \in 0 .. N-1
  BY DEF Buffer
<1> QED BY <1>1, SlotValue

(***************************************************************************)
(* The slots of a buffer with one item more, and with its oldest removed.  *)
(***************************************************************************)
LEMMA OccupiedAfterPush ==
    ASSUME NEW b, WellFormed(b), ~IsFull(b), NEW item \in Item
    PROVE  /\ Push(b, item).buf \in Buffer
           /\ Occupied(Push(b, item).buf) = Occupied(b) \cup {SlotAt(b, b.len)}
<1> DEFINE c == Push(b, item).buf
<1>1. /\ b \in Buffer
      /\ b.len \in 0 .. N-1
      /\ SlotAt(b, b.len) \in 0 .. N-1
  BY SlotsDistinct DEF WellFormed, IsFull, Buffer
<1>2. c = [slots |-> [b.slots EXCEPT ![SlotAt(b, b.len)] = item], head |-> b.head, len |-> b.len + 1]
  BY DEF Push
<1>3. c \in Buffer /\ c.head = b.head /\ c.len = b.len + 1
  BY <1>1, <1>2 DEF Buffer
<1>4. Occupied(c) = Occupied(b) \cup {SlotAt(b, b.len)}
  <2>1. \A i : SlotAt(c, i) = SlotAt(b, i)
    BY <1>3 DEF SlotAt
  <2>2. 0 .. c.len - 1 = (0 .. b.len - 1) \cup {b.len}
    BY <1>1, <1>3
  <2> QED BY <2>1, <2>2 DEF Occupied
<1> QED BY <1>3, <1>4

LEMMA OccupiedAfterPop ==
    ASSUME NEW b, WellFormed(b), ~IsEmpty(b)
    PROVE  /\ Pop(b).buf \in Buffer
           /\ Occupied(Pop(b).buf) = Occupied(b) \ {b.head}
<1> DEFINE c == Pop(b).buf
<1>1. b \in Buffer /\ b.len \in 1 .. N
  BY DEF WellFormed, IsEmpty, Buffer
<1>2. SlotAt(b, 1) \in 0 .. N-1 /\ SlotAt(b, 0) = b.head
  <2>1. SlotAt(b, 1) \in 0 .. N-1
    BY <1>1, SlotsDistinct
  <2>2. b.head \in 0 .. N-1 /\ (b.head + 0) % N = b.head
    BY <1>1 DEF Buffer
  <2> QED BY <2>1, <2>2 DEF SlotAt
<1>3. c = [slots |-> [b.slots EXCEPT ![b.head] = None], head |-> SlotAt(b, 1), len |-> b.len - 1]
  BY DEF Pop
<1>4. c \in Buffer /\ c.head = SlotAt(b, 1) /\ c.len = b.len - 1
  BY <1>1, <1>2, <1>3 DEF Buffer
<1>5. \A i \in 0 .. N-1 : SlotAt(c, i) = SlotAt(b, i + 1)
  <2> SUFFICES ASSUME NEW i \in 0 .. N-1 PROVE SlotAt(c, i) = SlotAt(b, i + 1)
    OBVIOUS
  <2>1. SlotAt(b, 1) = (IF b.head + 1 < N THEN b.head + 1 ELSE b.head + 1 - N)
    BY <1>1, SlotValue
  <2>2. SlotAt(b, i + 1) = (IF b.head + (i + 1) < N THEN b.head + (i + 1) ELSE b.head + (i + 1) - N)
    BY <1>1, SlotValue
  <2>3. SlotAt(c, i) = (IF c.head + i < N THEN c.head + i ELSE c.head + i - N)
    BY <1>4, SlotValue
  <2>4. b.head \in 0 .. N-1
    BY <1>1 DEF Buffer
  <2> QED BY <1>4, <2>1, <2>2, <2>3, <2>4
<1>6. Occupied(c) = {SlotAt(b, j) : j \in 1 .. b.len - 1}
  <2>1. Occupied(c) = {SlotAt(b, i + 1) : i \in 0 .. b.len - 2}
    BY <1>1, <1>4, <1>5 DEF Occupied
  <2>2. \A i \in 0 .. b.len - 2 : i + 1 \in 1 .. b.len - 1
    BY <1>1
  <2>3. \A j \in 1 .. b.len - 1 : j - 1 \in 0 .. b.len - 2 /\ (j - 1) + 1 = j
    BY <1>1
  <2> QED BY <2>1, <2>2, <2>3
<1>7. \A j \in 1 .. b.len - 1 : SlotAt(b, j) # SlotAt(b, 0)
  <2>1. \A j \in 1 .. b.len - 1 : j \in 0 .. N-1 /\ 0 \in 0 .. N-1 /\ j # 0
    BY <1>1
  <2> QED BY <1>1, <2>1, SlotsDistinct
<1>8. 0 .. b.len - 1 = {0} \cup (1 .. b.len - 1)
  BY <1>1
<1>9. Occupied(b) = {SlotAt(b, 0)} \cup {SlotAt(b, j) : j \in 1 .. b.len - 1}
  BY <1>8 DEF Occupied
<1> QED BY <1>2, <1>4, <1>6, <1>7, <1>9

(***************************************************************************)
(* push and pop keep the representation invariant.                         *)
(***************************************************************************)
LEMMA PushWellFormed ==
    ASSUME NEW b, WellFormed(b), NEW item \in Item
    PROVE  WellFormed(Push(b, item).buf)
<1>1. CASE IsFull(b)
  BY <1>1 DEF Push
<1>2. CASE ~IsFull(b)
  <2> DEFINE c == Push(b, item).buf
  <2>1. c.slots = [b.slots EXCEPT ![SlotAt(b, b.len)] = item]
    BY <1>2 DEF Push, WellFormed, Buffer
  <2>2. b.slots \in [0 .. N-1 -> Item \cup {None}]
    BY DEF WellFormed, Buffer
  <2>3. \A s \in 0 .. N-1 : (c.slots[s] # None) <=> (s \in Occupied(b) \cup {SlotAt(b, b.len)})
    BY <2>1, <2>2 DEF WellFormed
  <2> QED BY <1>2, <2>3, OccupiedAfterPush DEF WellFormed
<1> QED BY <1>1, <1>2

LEMMA PopWellFormed ==
    ASSUME NEW b, WellFormed(b)
    PROVE  WellFormed(Pop(b).buf)
<1>1. CASE IsEmpty(b)
  BY <1>1 DEF Pop
<1>2. CASE ~IsEmpty(b)
  <2> DEFINE c == Pop(b).buf
  <2>1. c.slots = [b.slots EXCEPT ![b.head] = None]
    BY <1>2 DEF Pop
  <2>2. b.slots \in [0 .. N-1 -> Item \cup {None}] /\ b.head \in 0 .. N-1
    BY DEF WellFormed, Buffer
  <2>3. \A s \in 0 .. N-1 : (c.slots[s] # None) <=> (s \in Occupied(b) \ {b.head})
    BY <2>1, <2>2 DEF WellFormed
  <2> QED BY <1>2, <2>3, OccupiedAfterPop DEF WellFormed
<1> QED BY <1>1, <1>2

(***************************************************************************)
(* Between calls the occupied slots are exactly the len slots from head    *)
(* on, for every capacity (ring_buffer.rs:27-45).                          *)
(***************************************************************************)
THEOREM Representation == Spec => []RepresentationInv
<1>1. Init => RepresentationInv
  BY DEF Init, RepresentationInv, WellFormed, Buffer, NewBuffer, Occupied
<1>2. RepresentationInv /\ [Next]_vars => RepresentationInv'
  <2> SUFFICES ASSUME RepresentationInv, [Next]_vars PROVE RepresentationInv'
    OBVIOUS
  <2>1. CASE DoPop
    BY <2>1, PopWellFormed DEF DoPop, RepresentationInv
  <2>2. ASSUME NEW item \in Item, DoPush(item) PROVE RepresentationInv'
    BY <2>2, PushWellFormed DEF DoPush, RepresentationInv
  <2>3. CASE UNCHANGED vars
    BY <2>3 DEF vars, RepresentationInv
  <2> QED BY <2>1, <2>2, <2>3 DEF Next
<1> QED BY <1>1, <1>2, PTL DEF Spec

(***************************************************************************)
(* What push and pop do to the contents: an append at the back, and the    *)
(* removal of the front.                                                   *)
(***************************************************************************)
LEMMA ContentsSeq ==
    ASSUME NEW b, WellFormed(b)
    PROVE  /\ Contents(b) \in Seq(Item)
           /\ Len(Contents(b)) = b.len
           /\ DOMAIN Contents(b) = 1 .. b.len
           /\ \A k \in 1 .. b.len : Contents(b)[k] = b.slots[SlotAt(b, k - 1)]
<1>1. b \in Buffer /\ b.len \in 0 .. N /\ b.slots \in [0 .. N-1 -> Item \cup {None}]
  BY DEF WellFormed, Buffer
<1>2. \A k \in 1 .. b.len : k - 1 \in 0 .. b.len - 1 /\ k - 1 \in 0 .. N
  BY <1>1
<1>3. \A k \in 1 .. b.len : SlotAt(b, k - 1) \in 0 .. N-1 /\ SlotAt(b, k - 1) \in Occupied(b)
  BY <1>1, <1>2, SlotsDistinct DEF Occupied
<1>4. \A k \in 1 .. b.len : b.slots[SlotAt(b, k - 1)] \in Item
  BY <1>1, <1>3 DEF WellFormed
<1>5. Contents(b) \in [1 .. b.len -> Item]
  BY <1>4 DEF Contents
<1>6. Contents(b) \in Seq(Item)
  BY <1>1, <1>5, SeqDef
<1>7. DOMAIN Contents(b) = 1 .. b.len /\ Len(Contents(b)) = b.len
  BY <1>1, <1>5, <1>6, LenProperties
<1> QED BY <1>6, <1>7 DEF Contents

LEMMA ContentsAfterPush ==
    ASSUME NEW b, WellFormed(b), ~IsFull(b), NEW item \in Item
    PROVE  Contents(Push(b, item).buf) = Append(Contents(b), item)
<1> DEFINE c == Push(b, item).buf
<1>1. b \in Buffer /\ b.len \in 0 .. N-1 /\ b.slots \in [0 .. N-1 -> Item \cup {None}]
  BY DEF WellFormed, Buffer, IsFull
<1>2. c = [slots |-> [b.slots EXCEPT ![SlotAt(b, b.len)] = item], head |-> b.head, len |-> b.len + 1]
  BY DEF Push
<1>3. \A i : SlotAt(c, i) = SlotAt(b, i)
  BY <1>2 DEF SlotAt
<1>4. \A k \in 1 .. b.len + 1 : c.slots[SlotAt(c, k - 1)]
                                = (IF k = b.len + 1 THEN item ELSE b.slots[SlotAt(b, k - 1)])
  <2> SUFFICES ASSUME NEW k \in 1 .. b.len + 1
               PROVE  c.slots[SlotAt(c, k - 1)]
                        = (IF k = b.len + 1 THEN item ELSE b.slots[SlotAt(b, k - 1)])
    OBVIOUS
  <2>1. k - 1 \in 0 .. N-1 /\ b.len \in 0 .. N-1 /\ k - 1 \in 0 .. N /\ b.len \in 0 .. N
    BY <1>1
  <2>2. /\ SlotAt(b, k - 1) \in 0 .. N-1
        /\ SlotAt(b, b.len) \in 0 .. N-1
        /\ SlotAt(b, k - 1) = SlotAt(b, b.len) => k - 1 = b.len
    BY <1>1, <2>1, SlotsDistinct
  <2>3. k - 1 = b.len <=> k = b.len + 1
    BY <1>1
  <2> QED BY <1>1, <1>2, <1>3, <2>2, <2>3
<1>5. /\ Contents(c) \in Seq(Item) /\ Len(Contents(c)) = b.len + 1
      /\ \A k \in 1 .. b.len + 1 : Contents(c)[k] = c.slots[SlotAt(c, k - 1)]
  <2>1. WellFormed(c)
    BY PushWellFormed
  <2>2. c.len = b.len + 1
    BY <1>2
  <2> HIDE DEF c
  <2> QED BY <2>1, <2>2, ContentsSeq
<1>6. /\ Contents(b) \in Seq(Item) /\ Len(Contents(b)) = b.len
      /\ \A k \in 1 .. b.len : Contents(b)[k] = b.slots[SlotAt(b, k - 1)]
  BY ContentsSeq
<1>7. /\ Append(Contents(b), item) \in Seq(Item)
      /\ Len(Append(Contents(b), item)) = b.len + 1
      /\ \A k \in 1 .. b.len + 1 : Append(Contents(b), item)[k]
            = (IF k = b.len + 1 THEN item ELSE b.slots[SlotAt(b, k - 1)])
  BY <1>1, <1>6, AppendProperties
<1>8. \A k \in 1 .. Len(Contents(c)) : Contents(c)[k] = Append(Contents(b), item)[k]
  BY <1>4, <1>5, <1>7
<1> QED BY <1>5, <1>7, <1>8, SeqEqual

LEMMA ContentsAfterPop ==
    ASSUME NEW b, WellFormed(b), ~IsEmpty(b)
    PROVE  /\ Contents(b) # << >>
           /\ Pop(b).item = Head(Contents(b))
           /\ Contents(Pop(b).buf) = Tail(Contents(b))
<1> DEFINE c == Pop(b).buf
<1>1. /\ b \in Buffer /\ b.head \in 0 .. N-1 /\ b.len \in 1 .. N
      /\ b.slots \in [0 .. N-1 -> Item \cup {None}]
  BY DEF WellFormed, Buffer, IsEmpty
<1>2. c = [slots |-> [b.slots EXCEPT ![b.head] = None], head |-> SlotAt(b, 1), len |-> b.len - 1]
  BY DEF Pop
<1>3. SlotAt(b, 0) = b.head
  BY <1>1, SlotValue
<1>4. /\ Contents(b) \in Seq(Item)
      /\ Len(Contents(b)) = b.len
      /\ \A k \in 1 .. b.len : Contents(b)[k] = b.slots[SlotAt(b, k - 1)]
  BY ContentsSeq
<1>5. Contents(b) # << >> /\ Head(Contents(b)) = b.slots[b.head]
  BY <1>1, <1>3, <1>4
<1>6. \A k \in 1 .. b.len - 1 : c.slots[SlotAt(c, k - 1)] = b.slots[SlotAt(b, k)]
  <2> SUFFICES ASSUME NEW k \in 1 .. b.len - 1
               PROVE  c.slots[SlotAt(c, k - 1)] = b.slots[SlotAt(b, k)]
    OBVIOUS
  <2>0. SlotAt(b, 1) \in 0 .. N-1
    BY <1>1, SlotsDistinct
  <2>1. c \in Buffer /\ c.head = SlotAt(b, 1)
    BY <1>1, <1>2, <2>0 DEF Buffer
  <2>2. SlotAt(c, k - 1) = SlotAt(b, k)
    <3>1. SlotAt(b, 1) = (IF b.head + 1 < N THEN b.head + 1 ELSE b.head + 1 - N)
      BY <1>1, SlotValue
    <3>2. SlotAt(b, k) = (IF b.head + k < N THEN b.head + k ELSE b.head + k - N)
      BY <1>1, SlotValue
    <3>3. k - 1 \in 0 .. N
      BY <1>1
    <3>4. SlotAt(c, k - 1) = (IF c.head + (k - 1) < N THEN c.head + (k - 1) ELSE c.head + (k - 1) - N)
      BY <2>1, <3>3, SlotValue
    <3> QED BY <1>1, <2>1, <3>1, <3>2, <3>4
  <2>3. SlotAt(b, k) \in 0 .. N-1 /\ SlotAt(b, k) # b.head
    <3>1. k \in 0 .. N /\ k \in 0 .. N-1 /\ 0 \in 0 .. N-1 /\ k # 0
      BY <1>1
    <3> QED BY <1>1, <1>3, <3>1, SlotsDistinct
  <2> QED BY <1>1, <1>2, <2>2, <2>3
<1>7. /\ Contents(c) \in Seq(Item) /\ Len(Contents(c)) = b.len - 1
      /\ \A k \in 1 .. b.len - 1 : Contents(c)[k] = c.slots[SlotAt(c, k - 1)]
  <2>1. WellFormed(c)
    BY PopWellFormed
  <2>2. c.len = b.len - 1
    BY <1>2
  <2> HIDE DEF c
  <2> QED BY <2>1, <2>2, ContentsSeq
<1>8. Contents(c) = Tail(Contents(b))
  <2>1. /\ Tail(Contents(b)) \in Seq(Item)
        /\ Len(Tail(Contents(b))) = b.len - 1
        /\ \A k \in 1 .. b.len - 1 : Tail(Contents(b))[k] = Contents(b)[k + 1]
    BY <1>4, <1>5, HeadTailProperties
  <2>2. \A k \in 1 .. b.len - 1 : k + 1 \in 1 .. b.len /\ (k + 1) - 1 = k
    BY <1>1
  <2>3. \A k \in 1 .. b.len - 1 : Contents(b)[k + 1] = b.slots[SlotAt(b, k)]
    BY <1>4, <2>2
  <2>4. \A k \in 1 .. Len(Contents(c)) : Contents(c)[k] = Tail(Contents(b))[k]
    BY <1>6, <1>7, <2>1, <2>3
  <2> QED BY <1>7, <2>1, <2>4, SeqEqual
<1>9. Pop(b).item = b.slots[b.head]
  BY DEF Pop
<1> QED BY <1>5, <1>8, <1>9

(***************************************************************************)
(* The ring buffer implements the bounded FIFO, for every capacity: what   *)
(* comes out is what went in, oldest first, and a full buffer refuses the  *)
(* newest (ring_buffer.rs:1-4).                                            *)
(***************************************************************************)
THEOREM Refinement == Spec => ImplementsQueue
<1> USE DEF RepresentationInv
<1>1. Init => Queue!Init
  BY DEF Init, Queue!Init, Contents, NewBuffer
<1>2. RepresentationInv /\ [Next]_vars => [Queue!Next]_(Queue!vars)
  <2> SUFFICES ASSUME RepresentationInv, [Next]_vars PROVE [Queue!Next]_(Queue!vars)
    OBVIOUS
  <2>0. /\ Contents(buf) \in Seq(Item) /\ Len(Contents(buf)) = buf.len
        /\ buf.len \in 0 .. N
    BY ContentsSeq DEF WellFormed, Buffer
  <2>1. CASE DoPop
    <3>1. CASE IsEmpty(buf)
      <4>1. Contents(buf) = << >>
        BY <2>0, <3>1 DEF IsEmpty
      <4>2. buf' = buf /\ answer' = [call |-> "pop", ok |-> FALSE, item |-> None]
        BY <2>1, <3>1 DEF DoPop, Pop
      <4> QED BY <4>1, <4>2 DEF Queue!Next, Queue!Take
    <3>2. CASE ~IsEmpty(buf)
      <4>1. /\ Contents(buf) # << >>
            /\ Pop(buf).item = Head(Contents(buf))
            /\ Contents(Pop(buf).buf) = Tail(Contents(buf))
        BY <3>2, ContentsAfterPop
      <4>2. Pop(buf).item # None
        BY <2>0, <4>1
      <4> QED BY <2>1, <4>1, <4>2 DEF DoPop, Queue!Next, Queue!Take
    <3> QED BY <3>1, <3>2
  <2>2. ASSUME NEW item \in Item, DoPush(item) PROVE [Queue!Next]_(Queue!vars)
    <3>1. CASE IsFull(buf)
      <4>1. buf' = buf /\ answer' = [call |-> "push", ok |-> FALSE, item |-> item]
        BY <2>2, <3>1 DEF DoPush, Push
      <4>2. ~(Len(Contents(buf)) < N)
        BY <2>0, <3>1 DEF IsFull
      <4>3. Contents(buf)' = Contents(buf)
        BY <4>1 DEF Contents, SlotAt
      <4>4. (Len(Contents(buf)) < N) = FALSE
        BY <4>2
      <4>5. answer' = [call |-> "push", ok |-> Len(Contents(buf)) < N, item |-> item]
        BY <4>1, <4>4, Zenon
      <4>6. Queue!Offer(item)
        BY <4>2, <4>3, <4>5 DEF Queue!Offer
      <4> QED BY <4>6 DEF Queue!Next
    <3>2. CASE ~IsFull(buf)
      <4>1. Contents(Push(buf, item).buf) = Append(Contents(buf), item)
        BY <3>2, ContentsAfterPush
      <4>2. Push(buf, item).ok = TRUE /\ Len(Contents(buf)) < N
        BY <2>0, <3>2 DEF Push, IsFull
      <4>3. Queue!Offer(item)
        BY <2>2, <4>1, <4>2 DEF DoPush, Queue!Offer
      <4> QED BY <4>3 DEF Queue!Next
    <3> QED BY <3>1, <3>2
  <2>3. CASE UNCHANGED vars
    BY <2>3 DEF vars, Queue!vars, Contents, SlotAt
  <2> QED BY <2>1, <2>2, <2>3 DEF Next
<1> QED BY <1>1, <1>2, Representation, PTL DEF Spec, ImplementsQueue, Queue!Spec
=============================================================================
