--------------------------- MODULE KeyboardProofs ---------------------------
(***************************************************************************)
(* Proofs for every keyboard, queue capacity and device.                   *)
(*                                                                         *)
(* First, who runs with interrupts masked.  That the handler stays out of  *)
(* a pop follows from the mask being on throughout it, and that from what  *)
(* the mask is at every point of the main context, which is what           *)
(* ControlInv records.                                                     *)
(*                                                                         *)
(* Then what becomes of a key press.  The ring is used by the facts        *)
(* RingBufferProofs has of it.  FlowInv adds to the types the order of the *)
(* events and tokens on their way and the keyboard's past: replaying the   *)
(* events the device holds from the driver's held keys and locks yields    *)
(* the keyboard's own, so that the next token will tell the truth.         *)
(***************************************************************************)
EXTENDS Keyboard, SequenceTheorems, FiniteSetTheorems, TLAPS

\* Where the main context runs with interrupts masked, and where with them on.
ShellMasked == {"wait_check", "wfi", "wait_unmask", "set_elr", "eret", "end_launch"}
InSyscall == {"ack", "poll", "sleep", "sysret"}
InPop == {"pop_read", "pop_write"}

ControlInv ==
    /\ pc \in Labels \ {"astray"}
    /\ reader \in {"shell", "read_key", "read_line"}
    /\ masked \in BOOLEAN /\ saved \in BOOLEAN
    /\ irqPc # "idle" => masked = FALSE
    /\ pc \in {"pop", "popped"} => masked = (reader # "shell")
    /\ pc \in InPop => masked = TRUE /\ saved = (reader # "shell")
    /\ pc \in {"wait", "launch"} => masked = FALSE /\ reader = "shell"
    /\ pc \in ShellMasked => masked = TRUE /\ reader = "shell"
    /\ pc \in InSyscall => masked = TRUE /\ reader # "shell"
    /\ pc = "el0" => masked = FALSE
    /\ pc = "eret" => elr = [to |-> "entry", masked |-> FALSE]

LEMMA ControlInit == Init => ControlInv
  BY DEF Init, ControlInv, Labels, InPop, ShellMasked, InSyscall

(***************************************************************************)
(* The device and the interrupt handler keep the invariant: neither moves  *)
(* the main context, and the handler starts only with interrupts on.       *)
(***************************************************************************)
LEMMA ControlInterrupt ==
    ASSUME ControlInv, Device \/ IrqEntry \/ Irq \/ UNCHANGED vars
    PROVE  ControlInv'
<1> USE DEF ControlInv, InPop, ShellMasked, InSyscall
<1>1. CASE Device
  <2>1. PICK k \in Keys : Press(k) \/ Release(k) \/ AutoRepeat(k)
    BY <1>1 DEF Device
  <2>2. UNCHANGED cpuVars
    BY <2>1 DEF Press, Release, AutoRepeat, Emit
  <2> QED BY <2>2 DEF cpuVars
<1>2. CASE IrqEntry
  BY <1>2 DEF IrqEntry, mainVars
<1>3. CASE IrqAck
  BY <1>3 DEF IrqAck, mainVars
<1>4. CASE IrqPoll
  BY <1>4 DEF IrqPoll, DrainPoll, mainVars
<1>5. CASE UNCHANGED vars
  BY <1>5 DEF vars, cpuVars
<1> QED BY <1>1, <1>2, <1>3, <1>4, <1>5 DEF Irq

(***************************************************************************)
(* Every step of the shell, of a syscall and of a launch keeps it.         *)
(***************************************************************************)
LEMMA ControlKernel ==
    ASSUME ControlInv, Kernel \/ Program
    PROVE  ControlInv'
<1> USE DEF ControlInv, At, Labels, InPop, ShellMasked, InSyscall
<1>1. CASE PopEnter
  BY <1>1 DEF PopEnter, MaskForPop
<1>2. CASE PopRead
  BY <1>2 DEF PopRead
<1>3. CASE PopWrite
  BY <1>3 DEF PopWrite
<1>4. CASE ShellHandle
  BY <1>4 DEF ShellHandle, Take, Empty
<1>5. CASE ReadKey \/ ReadLine
  BY <1>5 DEF ReadKey, ReadLine, Take, Empty
<1>6. CASE WaitMask \/ WaitCheck \/ Wfi \/ WaitUnmask
  BY <1>6 DEF WaitMask, WaitCheck, Wfi, WaitUnmask, Move
<1>7. CASE SyscallAck
  BY <1>7 DEF SyscallAck
<1>8. CASE SyscallPoll
  BY <1>8 DEF SyscallPoll, DrainPoll
<1>9. CASE SyscallSleep \/ SyscallReturn
  BY <1>9 DEF SyscallSleep, SyscallReturn, Move
<1>10. CASE RunMask \/ SetElr
  BY <1>10 DEF RunMask, SetElr, Move
<1>11. CASE Eret
  <2>1. elr = [to |-> "entry", masked |-> FALSE]
    BY <1>11 DEF Eret
  <2>2. elr.to = "entry" /\ elr.masked = FALSE
    BY <2>1
  <2>3. /\ pc' = "el0" /\ masked' = FALSE
        /\ UNCHANGED <<irqPc, reader, saved>>
    BY <1>11, <2>2 DEF Eret
  <2> QED BY <2>3
<1>12. CASE EndLaunch
  BY <1>12 DEF EndLaunch, Move
<1>13. CASE Program
  BY <1>13 DEF Program, ExitOrFault, Svc
<1> QED
  BY <1>1, <1>2, <1>3, <1>4, <1>5, <1>6, <1>7, <1>8, <1>9, <1>10, <1>11, <1>12, <1>13
  DEF Kernel

THEOREM Control == Spec => []ControlInv
<1>1. ControlInv /\ [Next]_vars => ControlInv'
  BY ControlInterrupt, ControlKernel DEF Next
<1> QED BY ControlInit, <1>1, PTL DEF Spec

(***************************************************************************)
(* The handler and the queue's other users exclude each other             *)
(* (queue.rs:12-14), for every capacity and every run of the keyboard.     *)
(***************************************************************************)
THEOREM Exclusion == Spec => []ExclusiveAccess
<1>1. ControlInv => ExclusiveAccess
  BY DEF ControlInv, ExclusiveAccess, InPop, InSyscall
<1> QED BY <1>1, Control, PTL

(***************************************************************************)
(* No interrupt redirects the eret into a program (process.rs:180-182).    *)
(***************************************************************************)
THEOREM ProgramEntry == Spec => []EntersTheProgram
<1>1. ControlInv => EntersTheProgram
  BY DEF ControlInv, EntersTheProgram
<1> QED BY <1>1, Control, PTL

(***************************************************************************)
(* Programs and the shell's loop run with interrupts on, however the last  *)
(* program ended (process.rs:219-221).                                     *)
(***************************************************************************)
THEOREM Unmasked == Spec => []InterruptsOn
<1>1. ControlInv => InterruptsOn
  BY DEF ControlInv, InterruptsOn
<1> QED BY <1>1, Control, PTL

(***************************************************************************)
(* A program begins at its entry with the state process::run wrote, and    *)
(* however it ends, the shell has its interrupts back (process.rs:180-221).*)
(***************************************************************************)
THEOREM EntryExit == Spec => []EntryAndExit
<1> QED BY ProgramEntry, Unmasked, PTL DEF EntryAndExit
-----------------------------------------------------------------------------
(* The queue's buffer: what RingBufferProofs proves, for TOKENS.           *)

Buffers == INSTANCE RingBufferProofs
           WITH Item <- Token, N <- Capacity, buf <- ring, answer <- hand

\* The ring's assumptions hold of TOKENS.
LEMMA BufferAssumptions == Buffers!CapacityAssumption /\ Buffers!NoneAssumption
  BY KeyboardAssumption, NoneIsNoToken
  DEF Buffers!CapacityAssumption, Buffers!NoneAssumption

\* The two instances of the ring buffer are the same one.
LEMMA SameBuffers ==
    /\ \A b : Buffers!WellFormed(b) <=> Ring!WellFormed(b)
    /\ \A b : Buffers!Contents(b) = Ring!Contents(b)
    /\ \A b : Buffers!IsFull(b) <=> Ring!IsFull(b)
    /\ \A b : Buffers!IsEmpty(b) <=> Ring!IsEmpty(b)
    /\ \A b : Buffers!Pop(b) = Ring!Pop(b)
    /\ \A b, t : Buffers!Push(b, t) = Ring!Push(b, t)
    /\ Buffers!Buffer = Ring!Buffer
<1> USE DEF Buffers!SlotAt, Ring!SlotAt, Buffers!IsFull, Ring!IsFull,
            Buffers!IsEmpty, Ring!IsEmpty
<1>1. \A b : Buffers!WellFormed(b) <=> Ring!WellFormed(b)
  BY DEF Buffers!WellFormed, Ring!WellFormed, Buffers!Buffer, Ring!Buffer,
         Buffers!Occupied, Ring!Occupied
<1>2. \A b : Buffers!Contents(b) = Ring!Contents(b)
  BY DEF Buffers!Contents, Ring!Contents
<1>3. \A b : Buffers!Pop(b) = Ring!Pop(b)
  BY DEF Buffers!Pop, Ring!Pop
<1>4. \A b, t : Buffers!Push(b, t) = Ring!Push(b, t)
  BY DEF Buffers!Push, Ring!Push
<1>5. /\ \A b : Buffers!IsFull(b) <=> Ring!IsFull(b)
      /\ \A b : Buffers!IsEmpty(b) <=> Ring!IsEmpty(b)
  OBVIOUS
<1>6. Buffers!Buffer = Ring!Buffer
  BY DEF Buffers!Buffer, Ring!Buffer
<1> QED BY <1>1, <1>2, <1>3, <1>4, <1>5, <1>6

\* A well-formed ring holds as many tokens as it counts.
LEMMA RingContents ==
    ASSUME NEW b, Ring!WellFormed(b)
    PROVE  /\ Ring!Contents(b) \in Seq(Token) /\ Len(Ring!Contents(b)) = b.len
           /\ b.len \in 0 .. Capacity /\ b.len \in Nat
           /\ Ring!IsEmpty(b) <=> b.len = 0
           /\ Ring!IsFull(b) => b.len # 0
<1>1. Buffers!Contents(b) \in Seq(Token) /\ Len(Buffers!Contents(b)) = b.len
  BY BufferAssumptions, SameBuffers, Buffers!ContentsSeq
<1>2. b.len \in 0 .. Capacity
  BY DEF Ring!WellFormed, Ring!Buffer
<1>3. Capacity \in Nat \ {0}
  BY KeyboardAssumption
<1> QED BY <1>1, <1>2, <1>3, SameBuffers DEF Ring!IsEmpty, Ring!IsFull

\* A push appends, or finds the ring full and changes nothing.
LEMMA RingPushed ==
    ASSUME NEW b, Ring!WellFormed(b), NEW t \in Token
    PROVE  /\ Ring!WellFormed(Ring!Push(b, t).buf)
           /\ Ring!IsFull(b) => Ring!Push(b, t).buf = b /\ Ring!Push(b, t).ok = FALSE
           /\ ~Ring!IsFull(b) =>
                 /\ Ring!Push(b, t).ok = TRUE
                 /\ Ring!Contents(Ring!Push(b, t).buf) = Append(Ring!Contents(b), t)
<1>1. Ring!WellFormed(Ring!Push(b, t).buf)
  BY BufferAssumptions, SameBuffers, Buffers!PushWellFormed
<1>2. ~Ring!IsFull(b) => Ring!Contents(Ring!Push(b, t).buf) = Append(Ring!Contents(b), t)
  BY BufferAssumptions, SameBuffers, Buffers!ContentsAfterPush
<1>3. /\ Ring!IsFull(b) => Ring!Push(b, t).buf = b /\ Ring!Push(b, t).ok = FALSE
      /\ ~Ring!IsFull(b) => Ring!Push(b, t).ok = TRUE
  BY DEF Ring!Push
<1> QED BY <1>1, <1>2, <1>3

\* A pop takes the oldest token, or finds the ring empty and changes nothing.
LEMMA RingPopped ==
    ASSUME NEW b, Ring!WellFormed(b)
    PROVE  /\ Ring!WellFormed(Ring!Pop(b).buf)
           /\ Ring!IsEmpty(b) => Ring!Pop(b).buf = b /\ Ring!Pop(b).item = None
           /\ ~Ring!IsEmpty(b) =>
                 /\ Ring!Contents(b) # << >> /\ Ring!Pop(b).item = Head(Ring!Contents(b))
                 /\ Ring!Contents(Ring!Pop(b).buf) = Tail(Ring!Contents(b))
           /\ Ring!Pop(b).item \in Token \cup {None}
           /\ Ring!Pop(b) = [buf |-> Ring!Pop(b).buf, item |-> Ring!Pop(b).item]
<1>1. Ring!WellFormed(Ring!Pop(b).buf)
  BY BufferAssumptions, SameBuffers, Buffers!PopWellFormed
<1>2. ~Ring!IsEmpty(b) =>
          /\ Ring!Contents(b) # << >> /\ Ring!Pop(b).item = Head(Ring!Contents(b))
          /\ Ring!Contents(Ring!Pop(b).buf) = Tail(Ring!Contents(b))
  BY BufferAssumptions, SameBuffers, Buffers!ContentsAfterPop
<1>3. Ring!IsEmpty(b) => Ring!Pop(b).buf = b /\ Ring!Pop(b).item = None
  BY DEF Ring!Pop
<1>4. Ring!Pop(b) = [buf |-> Ring!Pop(b).buf, item |-> Ring!Pop(b).item]
  BY DEF Ring!Pop
<1>5. Ring!Pop(b).item \in Token \cup {None}
  BY <1>2, <1>3, RingContents
<1> QED BY <1>1, <1>2, <1>3, <1>4, <1>5

\* A new ring is well formed and empty.
LEMMA RingNew == Ring!WellFormed(Ring!NewBuffer) /\ Ring!Contents(Ring!NewBuffer) = << >>
<1>1. Capacity \in Nat \ {0}
  BY KeyboardAssumption
<1> QED BY <1>1 DEF Ring!WellFormed, Ring!NewBuffer, Ring!Contents, Ring!Buffer, Ring!Occupied

-----------------------------------------------------------------------------
(* The stream of tokens: what is delivered, in a hand and waiting.         *)

\* A token pushed is the last of the stream.
LEMMA StreamGrows ==
    ASSUME NEW S, NEW d \in Seq(S), NEW h \in Seq(S), NEW w \in Seq(S), NEW t \in S
    PROVE  d \o h \o Append(w, t) = Append(d \o h \o w, t)
<1>1. d \o h \in Seq(S)
  BY ConcatProperties
<1> DEFINE c == d \o h
<1> HIDE DEF c
<1>2. c \in Seq(S) => c \o Append(w, t) = Append(c \o w, t)
  OBVIOUS
<1> QED BY <1>1, <1>2 DEF c

\* A token that goes from the ring to a hand keeps its place,
LEMMA StreamPopped ==
    ASSUME NEW S, NEW d \in Seq(S), NEW w \in Seq(S), w # << >>
    PROVE  d \o << Head(w) >> \o Tail(w) = d \o << >> \o w
  OBVIOUS

\* and so does one that goes from the hand to a reader.
LEMMA StreamTaken ==
    ASSUME NEW S, NEW d \in Seq(S), NEW w \in Seq(S), NEW t \in S
    PROVE  Append(d, t) \o << >> \o w = d \o << t >> \o w
  OBVIOUS

-----------------------------------------------------------------------------
(* What a step does to the keys and tokens on their way.                   *)

Hands == {"pop_write", "popped"}

\* The keyboard is touched: one more event in the device, or one lost.
Emits ==
    \E k \in Keys, value \in 0 .. 2 :
        /\ Len(history) < MaxEvents
        /\ history' = Append(history, Meaning(k, value))
        /\ \/ value = 1 /\ k \notin phys /\ phys' = phys \cup {k}
           \/ value = 0 /\ k \in phys /\ phys' = phys \ {k}
           \/ value # 0 /\ k \in phys /\ phys' = phys
        /\ \/ /\ Len(events) < DeviceSlots /\ lost' = lost
              /\ events' = Append(events, [id |-> Len(history) + 1, key |-> k, value |-> value])
           \/ lost' = lost \cup {Len(history) + 1} /\ events' = events
        /\ UNCHANGED <<driverVars, hand, delivered, pc>>

\* Either context takes an event from the device.
Polls ==
    /\ pc # "pop_write" /\ events # << >> /\ events' = Tail(events)
    /\ held' = TokenFor(Head(events)).held
    /\ caps' = TokenFor(Head(events)).caps
    /\ IF TokenFor(Head(events)).token # None /\ Admits(TokenFor(Head(events)).token, ring.len)
       THEN /\ ring' = Ring!Push(ring, TokenFor(Head(events)).token).buf
            /\ noted' = (noted \/ ~Ring!Push(ring, TokenFor(Head(events)).token).ok)
            /\ dropped' = IF Ring!Push(ring, TokenFor(Head(events)).token).ok THEN dropped
                          ELSE dropped \cup {TokenFor(Head(events)).token.id}
       ELSE UNCHANGED <<ring, noted, dropped>>
    /\ UNCHANGED <<phys, history, lost, hand, delivered, pc>>

\* A reader hands on what it popped, or has popped nothing.
Takes ==
    /\ pc = "popped" /\ pc' \notin Hands /\ hand' = Nothing
    /\ \/ hand.item # None /\ delivered' = Append(delivered, hand.item)
       \/ hand.item = None /\ delivered' = delivered
    /\ UNCHANGED <<phys, history, events, lost, driverVars>>

\* Nothing of all that.
Elsewhere ==
    /\ pc' = pc \/ (pc \notin Hands /\ pc' \notin Hands)
    /\ UNCHANGED <<phys, history, events, lost, driverVars, hand, delivered>>

\* Whatever is done to the keyboard emits one event.
LEMMA EmitsIs == Device => Emits
<1> SUFFICES ASSUME Device PROVE Emits
  OBVIOUS
<1>1. PICK k \in Keys : Press(k) \/ Release(k) \/ AutoRepeat(k)
  BY DEF Device
<1>2. ASSUME NEW value \in 0 .. 2, Emit(k, value)
      PROVE  /\ Len(history) < MaxEvents
             /\ history' = Append(history, Meaning(k, value))
             /\ \/ /\ Len(events) < DeviceSlots /\ lost' = lost
                   /\ events' = Append(events, [id |-> Len(history) + 1, key |-> k, value |-> value])
                \/ lost' = lost \cup {Len(history) + 1} /\ events' = events
             /\ UNCHANGED <<driverVars, hand, delivered, pc>>
  BY <1>2 DEF Emit, cpuVars
<1>3. CASE Press(k)
  BY <1>2, <1>3 DEF Press, Emits
<1>4. CASE Release(k)
  BY <1>2, <1>4 DEF Release, Emits
<1>5. CASE AutoRepeat(k)
  <2>1. PICK value \in {1, 2} : Emit(k, value)
    BY <1>5 DEF AutoRepeat
  <2>2. value \in 0 .. 2 /\ value # 0
    OBVIOUS
  <2> QED BY <1>2, <1>5, <2>1, <2>2 DEF AutoRepeat, Emits
<1> QED BY <1>1, <1>3, <1>4, <1>5

\* Every step is of one of these kinds.
LEMMA StepKinds ==
    ASSUME ControlInv, [Next]_vars
    PROVE  \/ Emits \/ Polls \/ Takes \/ Elsewhere
           \/ PopRead \/ PopWrite
<1> USE DEF Elsewhere, Hands
<1>1. CASE Device
  BY <1>1, EmitsIs
<1>2. CASE IrqEntry
  BY <1>2 DEF IrqEntry, mainVars, deviceVars
<1>3. CASE IrqAck
  BY <1>3 DEF IrqAck, DrainAck, mainVars
<1>4. CASE IrqPoll
  <2>1. pc # "pop_write"
    BY <1>4 DEF ControlInv, IrqPoll, InPop
  <2> QED BY <1>4, <2>1 DEF IrqPoll, DrainPoll, mainVars, Polls, deviceVars
<1>5. CASE PopEnter
  BY <1>5 DEF PopEnter, At, deviceVars
<1>6. CASE PopRead
  BY <1>6 DEF PopRead
<1>7. CASE PopWrite
  BY <1>7 DEF PopWrite
<1>8. CASE ShellHandle \/ ReadKey \/ ReadLine
  BY <1>8 DEF ShellHandle, ReadKey, ReadLine, Take, Empty, At, Takes, deviceVars
<1>9. ASSUME NEW from \in Labels, NEW to \in Labels, NEW mask, Move(from, to, mask),
             from \notin Hands, to \notin Hands
      PROVE  Elsewhere
  BY <1>9 DEF Move, At, deviceVars
<1>10. CASE WaitMask \/ WaitCheck \/ Wfi \/ WaitUnmask \/ SyscallSleep \/ SyscallReturn
            \/ RunMask \/ EndLaunch
  BY <1>9, <1>10 DEF WaitMask, WaitCheck, Wfi, WaitUnmask, SyscallSleep, SyscallReturn,
                     RunMask, EndLaunch, Labels
<1>11. CASE SyscallAck
  BY <1>11 DEF SyscallAck, DrainAck, At
<1>12. CASE SyscallPoll
  BY <1>12 DEF SyscallPoll, DrainPoll, At, Polls, deviceVars
<1>13. CASE SetElr \/ Eret
  BY <1>13 DEF SetElr, Eret, At, deviceVars
<1>14. CASE Program
  BY <1>14 DEF Program, ExitOrFault, Svc, At, deviceVars
<1>15. CASE UNCHANGED vars
  BY <1>15 DEF vars, deviceVars, cpuVars
<1> QED
  BY <1>1, <1>2, <1>3, <1>4, <1>5, <1>6, <1>7, <1>8, <1>10, <1>11, <1>12, <1>13, <1>14, <1>15
  DEF Next, Irq, Kernel

-----------------------------------------------------------------------------
(* Types, and what each step leaves of them.                               *)

Past == [key: Keys, fresh: BOOLEAN, down: BOOLEAN, shift: BOOLEAN, caps: BOOLEAN,
         repeat: BOOLEAN]

HandInv ==
    /\ pc = "pop_write" => hand = Ring!Pop(ring)
    /\ pc = "popped" => Ring!WellFormed(hand.buf) /\ hand.item \in Token \cup {None}
    /\ pc \notin Hands => hand = Nothing

DataInv ==
    /\ phys \subseteq Keys /\ held \subseteq Keys
    /\ history \in Seq(Past) /\ Len(history) <= MaxEvents
    /\ events \in Seq(Event) /\ Len(events) <= DeviceSlots
    /\ lost \subseteq Ids /\ dropped \subseteq Ids
    /\ caps \in BOOLEAN /\ noted \in BOOLEAN
    /\ Ring!WellFormed(ring) /\ delivered \in Seq(Token)
    /\ HandInv

\* The note belongs to keys that wait, and a repeat waits only at the front.
NoteInv == noted => ring.len # 0
BacklogInv == \A i \in 2 .. Len(Waiting) : ~Waiting[i].repeat

\* What token_for makes of an event.
LEMMA TokenForIs ==
    ASSUME NEW e \in Event, held \subseteq Keys, caps \in BOOLEAN
    PROVE  /\ TokenFor(e).held = SetHeld(held, e.key, e.value # 0)
           /\ TokenFor(e).held \subseteq Keys
           /\ TokenFor(e).caps \in BOOLEAN
           /\ TokenFor(e).caps = IF e.value = 1 /\ e.key \in CapsKeys /\ e.key \notin held
                                 THEN ~caps ELSE caps
           /\ TokenFor(e).token \in Token \cup {None}
           /\ TokenFor(e).token # None => e.key \in LetterKeys
           /\ e.key \in LetterKeys /\ e.value # 0 =>
                 TokenFor(e).token = [id |-> e.id, shift |-> held \cap ShiftKeys # {},
                                      caps |-> caps, repeat |-> e.key \in held]
           /\ TokenFor(e).token # None => e.value # 0
<1> DEFINE down == e.value # 0
           wasHeld == e.key \in held
           held2 == SetHeld(held, e.key, down)
           changed == held2 # held
           caps2 == ApplyLock(caps, e.key, e.value, changed)
           seen == TokenFor(e)
<1>1. e.key \in Keys /\ e.id \in Ids /\ e.value \in 0 .. 2
  BY DEF Event
<1>2. /\ seen.held = held2 /\ seen.caps = caps2
      /\ seen.token = IF down /\ (changed \/ wasHeld) THEN TokenOf(e, held2, caps2, wasHeld)
                      ELSE None
  BY DEF TokenFor
<1>3. held2 \subseteq Keys
  BY <1>1 DEF SetHeld
<1>4. down => (changed <=> ~wasHeld)
  BY DEF SetHeld
<1>5. caps2 = IF e.value = 1 /\ e.key \in CapsKeys /\ e.key \notin held THEN ~caps ELSE caps
  BY <1>4 DEF ApplyLock
<1>6. caps2 \in BOOLEAN
  BY <1>5
<1>7. ASSUME e.key \in LetterKeys, down
      PROVE  seen.token = [id |-> e.id, shift |-> held \cap ShiftKeys # {},
                           caps |-> caps, repeat |-> wasHeld]
  <2>1. e.key \notin ShiftKeys /\ e.key \notin CapsKeys
    BY <1>7, KeyboardAssumption
  <2>2. caps2 = caps
    BY <1>5, <2>1
  <2>3. held2 \cap ShiftKeys = held \cap ShiftKeys
    BY <1>7, <2>1 DEF SetHeld
  <2>4. seen.token = TokenOf(e, held2, caps2, wasHeld)
    BY <1>2, <1>4, <1>7
  <2> HIDE DEF held2, caps2, wasHeld, seen
  <2> QED BY <1>7, <2>2, <2>3, <2>4, Zenon DEF TokenOf
<1>8. seen.token # None => e.key \in LetterKeys /\ down
  BY <1>2 DEF TokenOf
<1>9. seen.token \in Token \cup {None}
  <2>1. [id |-> e.id, shift |-> held \cap ShiftKeys # {}, caps |-> caps, repeat |-> wasHeld]
           \in Token
    BY <1>1 DEF Token
  <2> HIDE DEF seen, wasHeld
  <2> QED BY <1>7, <1>8, <2>1
<1> HIDE DEF seen
<1> QED BY <1>2, <1>3, <1>5, <1>6, <1>7, <1>8, <1>9 DEF seen

\* The device's queue and the history after one more event.
LEMMA EmitsTypes ==
    ASSUME DataInv, NEW k \in Keys, NEW value \in 0 .. 2, Len(history) < MaxEvents
    PROVE  /\ Meaning(k, value) \in Past
           /\ [id |-> Len(history) + 1, key |-> k, value |-> value] \in Event
           /\ Len(history) \in Nat /\ Len(history) + 1 \in Ids
<1>1. Len(history) \in Nat /\ MaxEvents \in Nat
  BY KeyboardAssumption DEF DataInv
<1>2. Len(history) + 1 \in Ids
  BY <1>1 DEF Ids
<1>3. (value # 0 /\ k \notin phys) \in BOOLEAN /\ CapsTrue \in BOOLEAN
  BY DEF CapsTrue
<1>4. Meaning(k, value) \in Past
  BY <1>3 DEF Meaning, Past
<1> QED BY <1>1, <1>2, <1>4 DEF Event

\* An emission keeps the types.
LEMMA DataEmits ==
    ASSUME DataInv, Emits
    PROVE  DataInv'
<1>1. PICK k \in Keys, value \in 0 .. 2 :
         /\ Len(history) < MaxEvents
         /\ history' = Append(history, Meaning(k, value))
         /\ phys' \subseteq phys \cup {k}
         /\ \/ /\ Len(events) < DeviceSlots /\ lost' = lost
               /\ events' = Append(events, [id |-> Len(history) + 1, key |-> k, value |-> value])
            \/ lost' = lost \cup {Len(history) + 1} /\ events' = events
         /\ UNCHANGED <<driverVars, hand, delivered, pc>>
  BY DEF Emits
<1>2. /\ Meaning(k, value) \in Past
      /\ [id |-> Len(history) + 1, key |-> k, value |-> value] \in Event
      /\ Len(history) \in Nat /\ Len(history) + 1 \in Ids
  BY <1>1, EmitsTypes
<1> DEFINE past == Meaning(k, value)
           e == [id |-> Len(history) + 1, key |-> k, value |-> value]
<1>3. history' \in Seq(Past) /\ Len(history') <= MaxEvents
  <2> HIDE DEF past
  <2>1. history \in Seq(Past) /\ history' = Append(history, past) /\ MaxEvents \in Nat
    BY <1>1, KeyboardAssumption DEF DataInv, past
  <2>2. past \in Past
    BY <1>2 DEF past
  <2>3. history' \in Seq(Past) /\ Len(history') = Len(history) + 1
    BY <2>1, <2>2
  <2> QED BY <1>1, <1>2, <2>1, <2>3
<1>4. events' \in Seq(Event) /\ Len(events') <= DeviceSlots /\ lost' \subseteq Ids
  <2> HIDE DEF e
  <2>0. events \in Seq(Event) /\ DeviceSlots \in Nat /\ e \in Event /\ Len(events) <= DeviceSlots
        /\ lost \subseteq Ids
    BY <1>2, KeyboardAssumption DEF DataInv, e
  <2>1. CASE Len(events) < DeviceSlots /\ lost' = lost /\ events' = Append(events, e)
    <3>1. events' \in Seq(Event) /\ Len(events') = Len(events) + 1 /\ Len(events) \in Nat
      BY <2>0, <2>1
    <3> QED BY <2>0, <2>1, <3>1
  <2>2. CASE lost' = lost \cup {Len(history) + 1} /\ events' = events
    BY <1>2, <2>0, <2>2
  <2> QED BY <1>1, <2>1, <2>2 DEF e
<1>5. phys' \subseteq Keys
  BY <1>1 DEF DataInv
<1>6. UNCHANGED <<held, caps, ring, noted, dropped, hand, delivered, pc>>
  BY <1>1 DEF driverVars
<1> QED BY <1>3, <1>4, <1>5, <1>6 DEF DataInv, HandInv, Nothing

QueueInv == DataInv /\ NoteInv /\ BacklogInv

\* The stream is one of tokens, and the ring counts those that wait.
LEMMA StreamTypes ==
    ASSUME DataInv
    PROVE  /\ delivered \in Seq(Token) /\ InHand \in Seq(Token) /\ Waiting \in Seq(Token)
           /\ Stream \in Seq(Token) /\ Len(Waiting) = ring.len /\ ring.len \in Nat
           /\ Ring!WellFormed(ring)
<1>1. delivered \in Seq(Token) /\ Ring!WellFormed(ring)
  BY DEF DataInv
<1>2. Waiting \in Seq(Token) /\ Len(Waiting) = ring.len /\ ring.len \in Nat
  BY <1>1, RingContents DEF Waiting
<1>3. InHand \in Seq(Token)
  BY DEF InHand, DataInv, HandInv
<1>4. delivered \o InHand \in Seq(Token)
  BY <1>1, <1>3, ConcatProperties
<1>5. Stream \in Seq(Token)
  BY <1>2, <1>4, ConcatProperties DEF Stream
<1> QED BY <1>1, <1>2, <1>3, <1>5

\* What becomes of the token t, if any, of the event that is taken.
PollOutcome(t) ==
    \/ t # None /\ t \in Token /\ Stream' = Append(Stream, t) /\ dropped' = dropped
    \/ t # None /\ t \in Token /\ Stream' = Stream /\ dropped' = dropped \cup {t.id}
    \/ (t = None \/ t.repeat) /\ Stream' = Stream /\ dropped' = dropped

\* What a poll takes is the device's first event.
LEMMA PollsTake ==
    ASSUME DataInv, Polls
    PROVE  /\ events \in Seq(Event) /\ events # << >> /\ Head(events) \in Event
           /\ held \subseteq Keys /\ caps \in BOOLEAN
           /\ Tail(events) \in Seq(Event) /\ Len(Tail(events)) = Len(events) - 1
           /\ Len(events) \in Nat \ {0}
           /\ \A i \in 1 .. Len(events) - 1 : Tail(events)[i] = events[i + 1]
           /\ Head(events) = events[1]
<1>1. events \in Seq(Event) /\ events # << >> /\ held \subseteq Keys /\ caps \in BOOLEAN
  BY DEF DataInv, Polls
<1> QED BY <1>1, HeadTailProperties

\* A poll keeps the queue consistent and has one of those outcomes.
LEMMA QueuePolls ==
    ASSUME QueueInv, Polls
    PROVE  QueueInv' /\ PollOutcome(TokenFor(Head(events)).token)
<1> DEFINE e == Head(events)
           seen == TokenFor(e)
           t == seen.token
           push == Ring!Push(ring, t)
<1>1. /\ e \in Event /\ held \subseteq Keys /\ caps \in BOOLEAN
      /\ Tail(events) \in Seq(Event) /\ Len(Tail(events)) = Len(events) - 1
      /\ Len(events) \in Nat \ {0}
  BY PollsTake DEF QueueInv
<1>2. /\ seen.held \subseteq Keys /\ seen.caps \in BOOLEAN /\ t \in Token \cup {None}
  BY <1>1, TokenForIs
<1>3. /\ events' = Tail(events) /\ held' = seen.held /\ caps' = seen.caps
      /\ UNCHANGED <<phys, history, lost, hand, delivered, pc>> /\ pc # "pop_write"
      /\ IF t # None /\ Admits(t, ring.len)
         THEN /\ ring' = push.buf /\ noted' = (noted \/ ~push.ok)
              /\ dropped' = IF push.ok THEN dropped ELSE dropped \cup {t.id}
         ELSE UNCHANGED <<ring, noted, dropped>>
  BY DEF Polls
<1>4. /\ DataInv /\ NoteInv /\ BacklogInv
  BY DEF QueueInv
<1>5. /\ delivered \in Seq(Token) /\ InHand \in Seq(Token) /\ Waiting \in Seq(Token)
      /\ Len(Waiting) = ring.len /\ ring.len \in Nat /\ Ring!WellFormed(ring)
      /\ Stream = delivered \o InHand \o Waiting
  BY <1>4, StreamTypes DEF Stream
<1>6. InHand' = InHand
  BY <1>3 DEF InHand
<1>7. Stream' = delivered \o InHand \o Waiting'
  BY <1>3, <1>6 DEF Stream
<1> DEFINE Rest == /\ Ring!WellFormed(ring') /\ noted' \in BOOLEAN /\ dropped' \subseteq Ids
                   /\ NoteInv' /\ BacklogInv' /\ PollOutcome(t)
<1>8. Rest
  <2>1. CASE t # None /\ Admits(t, ring.len)
    <3>1. t \in Token /\ t.id \in Ids
      BY <1>2, <2>1 DEF Token
    <3>2. CASE Ring!IsFull(ring)
      <4>1. push.buf = ring /\ push.ok = FALSE /\ ring.len # 0
        <5> HIDE DEF t
        <5>1. push.buf = ring /\ push.ok = FALSE
          BY <1>5, <3>1, <3>2, RingPushed
        <5>2. ring.len # 0
          BY <1>5, <3>2, RingContents
        <5> QED BY <5>1, <5>2
      <4>2. ring' = ring /\ noted' = TRUE /\ dropped' = dropped \cup {t.id}
        BY <1>3, <2>1, <4>1
      <4>3. Waiting' = Waiting
        BY <4>2 DEF Waiting
      <4>4. Stream' = Stream
        BY <1>5, <1>7, <4>3
      <4>5. PollOutcome(t)
        BY <2>1, <3>1, <4>2, <4>4 DEF PollOutcome
      <4>6. NoteInv' /\ BacklogInv'
        BY <1>4, <4>1, <4>2, <4>3 DEF NoteInv, BacklogInv
      <4>7. dropped' \subseteq Ids
        BY <1>4, <3>1, <4>2 DEF DataInv
      <4> QED BY <1>5, <4>2, <4>5, <4>6, <4>7
    <3>3. CASE ~Ring!IsFull(ring)
      <4>1. /\ Ring!WellFormed(push.buf) /\ push.ok = TRUE
            /\ Ring!Contents(push.buf) = Append(Waiting, t)
        BY <1>5, <3>1, <3>3, RingPushed DEF Waiting
      <4>2. ring' = push.buf /\ noted' = (noted \/ FALSE) /\ dropped' = dropped
        BY <1>3, <2>1, <4>1
      <4>a. noted' = noted
        BY <1>4, <4>2 DEF DataInv
      <4>3. Waiting' = Append(Waiting, t)
        BY <4>1, <4>2 DEF Waiting
      <4>4. Stream' = Append(Stream, t)
        BY <1>5, <1>7, <3>1, <4>3, StreamGrows
      <4>5. PollOutcome(t)
        BY <2>1, <3>1, <4>2, <4>4 DEF PollOutcome
      <4>6. /\ Len(Append(Waiting, t)) = ring.len + 1
            /\ \A i \in 1 .. ring.len : Append(Waiting, t)[i] = Waiting[i]
            /\ Append(Waiting, t)[ring.len + 1] = t
        BY <1>5, <3>1, AppendProperties
      <4>7. ring'.len = ring.len + 1
        BY <1>5, <4>1, <4>2, <4>6, RingContents
      <4>8. NoteInv'
        BY <1>5, <4>7 DEF NoteInv
      <4>9. BacklogInv'
        <5>1. ASSUME NEW i \in 2 .. ring.len + 1 PROVE ~Append(Waiting, t)[i].repeat
          <6>1. CASE i \in 2 .. ring.len
            <7>1. i \in 1 .. ring.len
              BY <6>1
            <7> QED BY <1>4, <1>5, <4>6, <6>1, <7>1 DEF BacklogInv
          <6>2. CASE i = ring.len + 1
            <7>1. ring.len # 0
              BY <1>5, <6>2
            <7>2. ~t.repeat
              BY <2>1, <7>1 DEF Admits
            <7> QED BY <4>6, <6>2, <7>2
          <6> QED BY <1>5, <6>1, <6>2
        <5> QED BY <4>3, <4>6, <5>1 DEF BacklogInv
      <4> QED BY <1>4, <4>1, <4>2, <4>a, <4>5, <4>8, <4>9 DEF DataInv
    <3> QED BY <3>2, <3>3
  <2>2. CASE ~(t # None /\ Admits(t, ring.len))
    <3>1. UNCHANGED <<ring, noted, dropped>>
      BY <1>3, <2>2
    <3>2. Waiting' = Waiting
      BY <3>1 DEF Waiting
    <3>3. t = None \/ t.repeat
      BY <2>2 DEF Admits
    <3>4. Stream' = Stream
      BY <1>5, <1>7, <3>2
    <3>5. PollOutcome(t)
      BY <3>1, <3>3, <3>4 DEF PollOutcome
    <3>6. NoteInv' /\ BacklogInv'
      BY <1>4, <3>1, <3>2 DEF NoteInv, BacklogInv
    <3> QED BY <1>4, <3>1, <3>5, <3>6 DEF DataInv
  <2> QED BY <2>1, <2>2
<1> HIDE DEF Rest
<1>9. DataInv'
  <2>1. /\ events' \in Seq(Event) /\ Len(events') <= DeviceSlots
    <3>1. Len(events) <= DeviceSlots /\ DeviceSlots \in Nat
      BY <1>4, KeyboardAssumption DEF DataInv
    <3> QED BY <1>1, <1>3, <3>1
  <2>2. Ring!WellFormed(ring') /\ noted' \in BOOLEAN /\ dropped' \subseteq Ids
    BY <1>8 DEF Rest
  <2>3. held' \subseteq Keys /\ caps' \in BOOLEAN
    BY <1>2, <1>3
  <2>4. /\ phys' \subseteq Keys /\ history' \in Seq(Past) /\ Len(history') <= MaxEvents
        /\ lost' \subseteq Ids /\ delivered' \in Seq(Token)
    BY <1>3, <1>4 DEF DataInv
  <2>5. HandInv'
    BY <1>3, <1>4 DEF DataInv, HandInv, Nothing
  <2> QED BY <2>1, <2>2, <2>3, <2>4, <2>5 DEF DataInv
<1> QED BY <1>8, <1>9 DEF Rest, QueueInv

\* A pop's read leaves the queue alone.
LEMMA QueueReads ==
    ASSUME QueueInv, PopRead
    PROVE  QueueInv' /\ Stream' = Stream
<1>1. /\ pc = "pop_read" /\ pc' = "pop_write" /\ hand' = Ring!Pop(ring)
      /\ UNCHANGED <<phys, history, events, lost, held, caps, ring, noted, dropped, delivered>>
  BY DEF PopRead, At, deviceVars, driverVars
<1>2. Waiting' = Waiting /\ InHand' = InHand
  BY <1>1 DEF Waiting, InHand
<1>3. Stream' = Stream
  BY <1>1, <1>2 DEF Stream
<1>4. HandInv'
  BY <1>1 DEF HandInv, Hands
<1>5. DataInv'
  BY <1>1, <1>4 DEF QueueInv, DataInv
<1> QED BY <1>1, <1>2, <1>3, <1>5 DEF QueueInv, NoteInv, BacklogInv

\* Steps that touch neither keys nor tokens.
LEMMA QueueElsewhere ==
    ASSUME QueueInv, Elsewhere
    PROVE  QueueInv' /\ Stream' = Stream
<1>1. /\ pc' = pc \/ (pc \notin Hands /\ pc' \notin Hands)
      /\ UNCHANGED <<phys, history, events, lost, held, caps, ring, noted, dropped, hand, delivered>>
  BY DEF Elsewhere, driverVars
<1>2. Waiting' = Waiting /\ InHand' = InHand
  BY <1>1 DEF Waiting, InHand, Hands
<1>3. Stream' = Stream
  BY <1>1, <1>2 DEF Stream
<1>4. HandInv'
  BY <1>1 DEF HandInv, Hands, QueueInv, DataInv, Nothing
<1>5. DataInv'
  BY <1>1, <1>4 DEF QueueInv, DataInv
<1> QED BY <1>1, <1>2, <1>3, <1>5 DEF QueueInv, NoteInv, BacklogInv

\* A pop's write moves the first token to the hand and re-arms the note.
LEMMA QueueWrites ==
    ASSUME QueueInv, PopWrite
    PROVE  QueueInv' /\ Stream' = Stream
<1>1. /\ pc = "pop_write" /\ pc' = "popped" /\ ring' = hand.buf
      /\ noted' = NotedAfterPop(hand.buf)
      /\ UNCHANGED <<phys, history, events, lost, held, caps, dropped, hand, delivered>>
  BY DEF PopWrite, At, deviceVars
<1>2. DataInv /\ NoteInv /\ BacklogInv /\ hand = Ring!Pop(ring)
  BY <1>1 DEF QueueInv, DataInv, HandInv
<1>3. /\ Ring!WellFormed(ring) /\ Ring!WellFormed(hand.buf)
      /\ hand.item \in Token \cup {None}
      /\ delivered \in Seq(Token) /\ Waiting \in Seq(Token)
      /\ Len(Waiting) = ring.len /\ ring.len \in Nat
  BY <1>2, StreamTypes, RingPopped
<1>4. DataInv'
  <2>1. noted' \in BOOLEAN
    BY <1>1, <1>2 DEF NotedAfterPop, DataInv, Ring!IsEmpty
  <2>2. HandInv'
    BY <1>1, <1>3 DEF HandInv, Hands
  <2> QED BY <1>1, <1>2, <1>3, <2>1, <2>2 DEF DataInv
<1>5. NoteInv'
  <2>1. noted' => ~Ring!IsEmpty(hand.buf)
    BY <1>1 DEF NotedAfterPop
  <2> QED BY <1>1, <2>1 DEF NoteInv, Ring!IsEmpty
<1>6. BacklogInv' /\ Stream' = Stream
  <2>0. /\ Stream = delivered \o << >> \o Waiting
        /\ Waiting' = Ring!Contents(hand.buf)
        /\ Stream' = delivered \o (IF hand.item # None THEN <<hand.item>> ELSE << >>) \o Waiting'
    BY <1>1 DEF Stream, InHand, Waiting
  <2>1. CASE Ring!IsEmpty(ring)
    <3>1. hand.buf = ring /\ hand.item = None
      BY <1>2, <1>3, <2>1, RingPopped
    <3>2. Waiting' = Waiting
      BY <2>0, <3>1 DEF Waiting
    <3> QED BY <1>2, <2>0, <3>1, <3>2 DEF BacklogInv
  <2>2. CASE ~Ring!IsEmpty(ring)
    <3>1. Waiting # << >> /\ hand.item = Head(Waiting) /\ Waiting' = Tail(Waiting)
      BY <1>2, <1>3, <2>0, <2>2, RingPopped DEF Waiting
    <3>2. /\ Head(Waiting) \in Token /\ Len(Tail(Waiting)) = Len(Waiting) - 1
          /\ \A i \in 1 .. Len(Waiting) - 1 : Tail(Waiting)[i] = Waiting[i + 1]
      BY <1>3, <3>1, HeadTailProperties
    <3>3. hand.item # None
      BY <3>1, <3>2, NoneIsNoToken
    <3>4. Stream' = delivered \o <<Head(Waiting)>> \o Tail(Waiting)
      BY <2>0, <3>1, <3>3
    <3>5. Stream' = Stream
      BY <1>3, <2>0, <3>1, <3>4, StreamPopped
    <3>6. ASSUME NEW i \in 2 .. Len(Tail(Waiting)) PROVE ~Tail(Waiting)[i].repeat
      <4>1. i \in 1 .. Len(Waiting) - 1 /\ i + 1 \in 2 .. Len(Waiting)
        BY <1>3, <3>2
      <4> QED BY <1>2, <3>2, <4>1 DEF BacklogInv
    <3>7. BacklogInv'
      BY <3>1, <3>6 DEF BacklogInv
    <3> QED BY <3>5, <3>7
  <2> QED BY <2>1, <2>2
<1> QED BY <1>4, <1>5, <1>6 DEF QueueInv

\* A reader takes the token in the hand.
LEMMA QueueTakes ==
    ASSUME QueueInv, Takes
    PROVE  QueueInv' /\ Stream' = Stream
<1>1. /\ pc = "popped" /\ pc' \notin Hands /\ hand' = Nothing
      /\ \/ hand.item # None /\ delivered' = Append(delivered, hand.item)
         \/ hand.item = None /\ delivered' = delivered
      /\ UNCHANGED <<phys, history, events, lost, held, caps, ring, noted, dropped>>
  BY DEF Takes, driverVars
<1>2. DataInv /\ NoteInv /\ BacklogInv /\ hand.item \in Token \cup {None}
  BY <1>1 DEF QueueInv, DataInv, HandInv
<1>3. delivered \in Seq(Token) /\ Waiting \in Seq(Token)
  BY <1>2, StreamTypes
<1>4. Waiting' = Waiting /\ InHand' = << >>
  BY <1>1 DEF Waiting, InHand, Hands
<1>5. delivered' \in Seq(Token)
  BY <1>1, <1>2, <1>3
<1>6. HandInv'
  BY <1>1 DEF HandInv, Hands, Nothing
<1>7. DataInv'
  BY <1>1, <1>2, <1>5, <1>6 DEF DataInv
<1>8. Stream' = Stream
  <2>1. Stream' = delivered' \o << >> \o Waiting
    BY <1>4 DEF Stream
  <2>2. CASE hand.item # None
    <3>1. hand.item \in Token /\ delivered' = Append(delivered, hand.item)
          /\ InHand = <<hand.item>>
      BY <1>1, <1>2, <2>2 DEF InHand
    <3>2. Append(delivered, hand.item) \o << >> \o Waiting = delivered \o <<hand.item>> \o Waiting
      BY <1>3, <3>1, StreamTaken
    <3> QED BY <2>1, <3>1, <3>2 DEF Stream
  <2>3. CASE hand.item = None
    BY <1>1, <2>1, <2>3 DEF Stream, InHand
  <2> QED BY <2>2, <2>3
<1> QED BY <1>1, <1>2, <1>4, <1>7, <1>8 DEF QueueInv, NoteInv, BacklogInv

\* An emission leaves queue and stream alone.
LEMMA QueueEmits ==
    ASSUME QueueInv, Emits
    PROVE  QueueInv' /\ Stream' = Stream
<1>1. UNCHANGED <<ring, noted, hand, delivered, pc>>
  BY DEF Emits, driverVars
<1>2. Waiting' = Waiting /\ InHand' = InHand
  BY <1>1 DEF Waiting, InHand
<1>3. Stream' = Stream
  BY <1>1, <1>2 DEF Stream
<1>4. DataInv'
  BY DataEmits DEF QueueInv
<1> QED BY <1>1, <1>2, <1>3, <1>4 DEF QueueInv, NoteInv, BacklogInv

-----------------------------------------------------------------------------
(* What the tokens and events on their way say of the past.                *)

Rising(s) == \A i, j \in 1 .. Len(s) : i < j => s[i].id < s[j].id

OrderInv ==
    /\ Rising(Stream) /\ Rising(events)
    /\ \A i \in 1 .. Len(Stream), j \in 1 .. Len(events) : Stream[i].id < events[j].id
    /\ \A i \in 1 .. Len(Stream) : Stream[i].id <= Len(history)
    /\ \A j \in 1 .. Len(events) : events[j].id <= Len(history)

\* The event e meant m, if before it `before` was held and the lock was `lock`, and after
\* it this is so of `after` and `lock2`.
Explains(e, m, before, lock, after, lock2) ==
    /\ m.key = e.key /\ m.repeat = (e.key \in before)
    /\ m.shift = (before \cap ShiftKeys # {}) /\ m.caps = lock
    /\ m.fresh = (e.value # 0 /\ e.key \notin before)
    /\ after = SetHeld(before, e.key, e.value # 0)
    /\ lock2 = IF e.value = 1 /\ e.key \in CapsKeys /\ e.key \notin before THEN ~lock ELSE lock

\* The driver's state, replayed over the events the device holds, becomes the keyboard's.
Replays(h, c) ==
    /\ h \in [0 .. Len(events) -> SUBSET Keys] /\ c \in [0 .. Len(events) -> BOOLEAN]
    /\ h[0] = held /\ h[Len(events)] = phys /\ c[0] = caps /\ c[Len(events)] = CapsTrue
    /\ \A i \in 1 .. Len(events) :
           Explains(events[i], history[events[i].id], h[i - 1], c[i - 1], h[i], c[i])

ReplayInv == lost = {} => \E h, c : Replays(h, c)

Truth(t, m) == t.shift = m.shift /\ t.caps = m.caps /\ t.repeat = m.repeat
TruthInv == lost = {} => \A i \in 1 .. Len(Stream) : Truth(Stream[i], history[Stream[i].id])

Somewhere(id) ==
    \/ \E i \in 1 .. Len(events) : events[i].id = id
    \/ \E i \in 1 .. Len(Stream) : Stream[i].id = id
    \/ id \in dropped
PressInv ==
    lost = {} => \A id \in DOMAIN history :
        history[id].fresh /\ history[id].key \in LetterKeys => Somewhere(id)

PastInv == OrderInv /\ ReplayInv /\ TruthInv /\ PressInv

\* One more event in the history toggles the lock if it is a fresh press of it.
LEMMA CapsAfter ==
    ASSUME history \in Seq(Past), NEW m \in Past, history' = Append(history, m)
    PROVE  CapsTrue' = IF m.key \in CapsKeys /\ m.fresh THEN ~CapsTrue ELSE CapsTrue
<1> DEFINE n == Len(history)
           C == {i \in DOMAIN history : history[i].key \in CapsKeys /\ history[i].fresh}
           D == {i \in DOMAIN history' : history'[i].key \in CapsKeys /\ history'[i].fresh}
<1>1. /\ n \in Nat /\ DOMAIN history = 1 .. n /\ DOMAIN history' = 1 .. n + 1
      /\ history'[n + 1] = m /\ \A i \in 1 .. n : history'[i] = history[i]
  <2>1. n \in Nat /\ DOMAIN history = 1 .. n
    BY LenProperties
  <2>2. history' \in Seq(Past) /\ Len(history') = n + 1
        /\ history'[n + 1] = m /\ \A i \in 1 .. n : history'[i] = history[i]
    BY AppendProperties
  <2> QED BY <2>1, <2>2, LenProperties
<1>2. IsFiniteSet(C) /\ Cardinality(C) \in Nat
  <2>1. IsFiniteSet(1 .. n)
    BY <1>1, FS_Interval
  <2>2. C \subseteq 1 .. n
    BY <1>1
  <2>3. IsFiniteSet(C)
    BY <2>1, <2>2, FS_Subset
  <2> QED BY <2>3, FS_CardinalityType
<1>3. n + 1 \notin C
  BY <1>1
<1>4. CASE m.key \in CapsKeys /\ m.fresh
  <2>1. D = C \cup {n + 1}
    BY <1>1, <1>4
  <2>2. Cardinality(D) = Cardinality(C) + 1
    <3> HIDE DEF C, D
    <3> QED BY <1>2, <1>3, <2>1, FS_AddElement
  <2>3. \A x \in Nat : ((x + 1) % 2 = 1) <=> ~(x % 2 = 1)
    OBVIOUS
  <2>4. (Cardinality(D) % 2 = 1) <=> ~(Cardinality(C) % 2 = 1)
    <3> HIDE DEF C, D
    <3> QED BY <1>2, <2>2, <2>3
  <2> QED BY <1>4, <2>4 DEF CapsTrue
<1>5. CASE ~(m.key \in CapsKeys /\ m.fresh)
  <2>1. D = C
    BY <1>1, <1>5
  <2> QED BY <1>5, <2>1 DEF CapsTrue
<1> QED BY <1>4, <1>5

\* Readers and bookkeeping change nothing of it.
LEMMA PastStays ==
    ASSUME PastInv, Stream' = Stream,
           UNCHANGED <<phys, history, events, lost, held, caps, dropped>>
    PROVE  PastInv'
<1>1. CapsTrue' = CapsTrue
  BY DEF CapsTrue
<1>2. OrderInv' /\ TruthInv' /\ PressInv'
  BY DEF PastInv, OrderInv, Rising, TruthInv, PressInv, Somewhere
<1>3. ReplayInv'
  <2> SUFFICES ASSUME lost = {} PROVE \E h, c : Replays(h, c)'
    BY DEF ReplayInv
  <2>1. PICK h, c : Replays(h, c)
    BY DEF PastInv, ReplayInv
  <2>2. Replays(h, c)'
    BY <1>1, <2>1 DEF Replays
  <2> QED BY <2>2
<1> QED BY <1>2, <1>3 DEF PastInv

\* The keyboard is touched.
LEMMA PastEmits ==
    ASSUME DataInv, PastInv, Emits, Stream' = Stream
    PROVE  PastInv'
<1>1. PICK k \in Keys, value \in 0 .. 2 :
         /\ Len(history) < MaxEvents
         /\ history' = Append(history, Meaning(k, value))
         /\ \/ value = 1 /\ k \notin phys /\ phys' = phys \cup {k}
            \/ value = 0 /\ k \in phys /\ phys' = phys \ {k}
            \/ value # 0 /\ k \in phys /\ phys' = phys
         /\ \/ /\ Len(events) < DeviceSlots /\ lost' = lost
               /\ events' = Append(events, [id |-> Len(history) + 1, key |-> k, value |-> value])
            \/ lost' = lost \cup {Len(history) + 1} /\ events' = events
         /\ UNCHANGED <<driverVars, hand, delivered, pc>>
  BY DEF Emits
<1> DEFINE n == Len(history)
           m == Meaning(k, value)
           e == [id |-> n + 1, key |-> k, value |-> value]
<1>2. /\ m \in Past /\ e \in Event /\ n \in Nat /\ e.id = n + 1 /\ e.key = k /\ e.value = value
      /\ history \in Seq(Past) /\ events \in Seq(Event) /\ UNCHANGED <<held, caps, dropped>>
  BY <1>1, EmitsTypes DEF DataInv, driverVars
<1>3. /\ m.key = k /\ m.fresh = (value # 0 /\ k \notin phys) /\ m.repeat = (k \in phys)
      /\ m.shift = (phys \cap ShiftKeys # {}) /\ m.caps = CapsTrue
  BY DEF Meaning
<1>a. history' = Append(history, m)
  BY <1>1
<1> HIDE DEF m
<1>4. /\ Len(history') = n + 1 /\ DOMAIN history' = 1 .. n + 1 /\ DOMAIN history = 1 .. n
      /\ \A i \in 1 .. n : history'[i] = history[i]
      /\ history'[n + 1] = m
  BY <1>2, <1>a, AppendProperties, LenProperties
<1>5. CapsTrue' = IF k \in CapsKeys /\ value # 0 /\ k \notin phys THEN ~CapsTrue ELSE CapsTrue
  BY <1>2, <1>3, <1>a, CapsAfter
<1>6. /\ Stream \in Seq(Token) /\ Len(Stream) \in Nat /\ Len(events) \in Nat
      /\ \A i \in 1 .. Len(Stream) : Stream[i].id \in Ids
      /\ \A i \in 1 .. Len(events) : events[i].id \in Ids
  <2>1. Stream \in Seq(Token) /\ events \in Seq(Event)
    BY StreamTypes DEF DataInv
  <2>2. \A i \in 1 .. Len(Stream) : Stream[i].id \in Ids
    <3>1. \A i \in 1 .. Len(Stream) : Stream[i] \in Token
      BY <2>1, ElementOfSeq
    <3> QED BY <3>1 DEF Token
  <2>3. \A i \in 1 .. Len(events) : events[i].id \in Ids
    <3>1. \A i \in 1 .. Len(events) : events[i] \in Event
      BY <2>1, ElementOfSeq
    <3> QED BY <3>1 DEF Event
  <2> QED BY <2>1, <2>2, <2>3, LenProperties
<1>7. \A i \in 1 .. Len(Stream) : Stream[i].id \in 1 .. n
  BY <1>2, <1>6 DEF PastInv, OrderInv, Ids
<1>8. \A i \in 1 .. Len(events) : events[i].id \in 1 .. n
  BY <1>2, <1>6 DEF PastInv, OrderInv, Ids
<1>9. TruthInv'
  <2> SUFFICES ASSUME lost' = {}, NEW i \in 1 .. Len(Stream)
               PROVE  Truth(Stream[i], history'[Stream[i].id])
    BY DEF TruthInv
  <2>1. lost = {}
    BY <1>1
  <2>2. Truth(Stream[i], history[Stream[i].id])
    BY <2>1 DEF PastInv, TruthInv
  <2> QED BY <1>4, <1>7, <2>2
<1>10. CASE lost' = lost \cup {n + 1} /\ events' = events
  <2>1. OrderInv'
    BY <1>2, <1>4, <1>7, <1>8, <1>10 DEF PastInv, OrderInv, Rising
  <2>2. lost' # {}
    BY <1>10
  <2> QED BY <1>9, <2>1, <2>2 DEF PastInv, ReplayInv, PressInv
<1>11. CASE lost' = lost /\ events' = Append(events, e)
  <2> DEFINE l == Len(events)
  <2> HIDE DEF e
  <2>1. /\ Len(events') = l + 1 /\ l \in Nat /\ events'[l + 1] = e
        /\ \A i \in 1 .. l : events'[i] = events[i]
    BY <1>2, <1>6, <1>11, AppendProperties
  <2>2. OrderInv'
    <3>1. \A i \in 1 .. l + 1 : i \in 1 .. l \/ i = l + 1
      BY <2>1
    <3>2. Rising(events)'
      BY <1>2, <1>8, <2>1, <3>1 DEF PastInv, OrderInv, Rising
    <3>3. \A i \in 1 .. Len(Stream), j \in 1 .. l + 1 : Stream[i].id < events'[j].id
      BY <1>2, <1>7, <2>1, <3>1 DEF PastInv, OrderInv
    <3>4. \A j \in 1 .. l + 1 : events'[j].id <= n + 1
      BY <1>2, <1>8, <2>1, <3>1
    <3>5. \A i \in 1 .. Len(Stream) : Stream[i].id <= n + 1
      BY <1>2, <1>7
    <3>6. Rising(Stream)'
      BY DEF PastInv, OrderInv, Rising
    <3> QED BY <1>4, <2>1, <3>2, <3>3, <3>4, <3>5, <3>6 DEF OrderInv
  <2>3. PressInv'
    <3> SUFFICES ASSUME lost' = {}, NEW id \in DOMAIN history',
                        history'[id].fresh, history'[id].key \in LetterKeys
                 PROVE  Somewhere(id)'
      BY DEF PressInv
    <3>1. CASE id = n + 1
      <4>1. l + 1 \in 1 .. Len(events') /\ events'[l + 1].id = id
        BY <1>2, <2>1, <3>1
      <4> QED BY <4>1 DEF Somewhere
    <3>2. CASE id # n + 1
      <4>1. id \in DOMAIN history /\ history'[id] = history[id]
        BY <1>2, <1>4, <3>2
      <4>2. Somewhere(id)
        BY <1>11, <4>1 DEF PastInv, PressInv
      <4>3. \A i \in 1 .. l : i \in 1 .. Len(events') /\ events'[i] = events[i]
        BY <2>1
      <4> QED BY <1>2, <4>2, <4>3 DEF Somewhere
    <3> QED BY <3>1, <3>2
  <2>4. ReplayInv'
    <3> SUFFICES ASSUME lost' = {} PROVE \E h, c : Replays(h, c)'
      BY DEF ReplayInv
    <3>1. PICK h, c : Replays(h, c)
      BY <1>11 DEF PastInv, ReplayInv
    <3> DEFINE h2 == [i \in 0 .. l + 1 |-> IF i = l + 1 THEN phys' ELSE h[i]]
               c2 == [i \in 0 .. l + 1 |-> IF i = l + 1 THEN CapsTrue' ELSE c[i]]
    <3>2. /\ h \in [0 .. l -> SUBSET Keys] /\ c \in [0 .. l -> BOOLEAN]
          /\ h[0] = held /\ h[l] = phys /\ c[0] = caps /\ c[l] = CapsTrue
          /\ \A i \in 1 .. l :
                 Explains(events[i], history[events[i].id], h[i - 1], c[i - 1], h[i], c[i])
      BY <3>1 DEF Replays
    <3>3. phys' \subseteq Keys /\ CapsTrue' \in BOOLEAN
      BY <1>1 DEF DataInv, CapsTrue
    <3>4. /\ h2 \in [0 .. l + 1 -> SUBSET Keys] /\ c2 \in [0 .. l + 1 -> BOOLEAN]
          /\ \A i \in 0 .. l : h2[i] = h[i] /\ c2[i] = c[i]
          /\ h2[l + 1] = phys' /\ c2[l + 1] = CapsTrue'
      <4> HIDE DEF l
      <4>1. \A i \in 0 .. l + 1 : i = l + 1 \/ i \in 0 .. l
        BY <2>1
      <4>2. \A i \in 0 .. l : i # l + 1 /\ i \in 0 .. l + 1
        BY <2>1
      <4> QED BY <2>1, <3>2, <3>3, <4>1, <4>2
    <3> HIDE DEF h2, c2
    <3>5. phys' = SetHeld(phys, k, value # 0)
      BY <1>1 DEF SetHeld
    <3>6. Explains(e, m, phys, CapsTrue, phys', CapsTrue')
      <4>1. value # 0 /\ k \notin phys <=> value = 1 /\ k \notin phys
        BY <1>1
      <4>2. CapsTrue' = IF value = 1 /\ k \in CapsKeys /\ k \notin phys
                        THEN ~CapsTrue ELSE CapsTrue
        BY <1>5, <4>1
      <4> QED BY <1>2, <1>3, <3>5, <4>2 DEF Explains
    <3>7. ASSUME NEW i \in 1 .. l + 1
          PROVE  Explains(events'[i], history'[events'[i].id], h2[i - 1], c2[i - 1], h2[i], c2[i])
      <4>1. CASE i = l + 1
        <5>1. /\ h2[i - 1] = phys /\ c2[i - 1] = CapsTrue /\ h2[i] = phys' /\ c2[i] = CapsTrue'
              /\ events'[i] = e /\ history'[events'[i].id] = m
          <6>1. i - 1 = l /\ l \in 0 .. l
            BY <2>1, <4>1
          <6> QED BY <1>2, <1>4, <2>1, <3>2, <3>4, <4>1, <6>1
        <5> QED BY <3>6, <5>1
      <4>2. CASE i # l + 1
        <5>1. i \in 1 .. l /\ i \in 0 .. l /\ i - 1 \in 0 .. l
          BY <2>1, <4>2
        <5>2. events'[i] = events[i] /\ history'[events'[i].id] = history[events[i].id]
          BY <1>4, <1>8, <2>1, <5>1
        <5> QED BY <3>2, <3>4, <5>1, <5>2
      <4> QED BY <4>1, <4>2
    <3>8. h2[0] = held' /\ c2[0] = caps'
      <4>1. 0 \in 0 .. l
        BY <2>1
      <4> QED BY <1>2, <3>2, <3>4, <4>1
    <3>9. PICK h3, c3 : h3 = h2 /\ c3 = c2
      OBVIOUS
    <3>10. Replays(h3, c3)'
      BY <2>1, <3>4, <3>7, <3>8, <3>9 DEF Replays
    <3> QED BY <3>10
  <2> QED BY <1>9, <2>2, <2>3, <2>4 DEF PastInv
<1> QED BY <1>1, <1>10, <1>11

\* What the events before it say of the token of the event that is taken.
LEMMA TokenIsTrue ==
    ASSUME DataInv, PastInv, Polls, lost = {}
    PROVE  LET e == Head(events)  t == TokenFor(e).token  m == history[e.id] IN
           /\ t # None => Truth(t, m)
           /\ m.fresh /\ m.key \in LetterKeys => t \in Token /\ t.id = e.id /\ ~t.repeat
<1> DEFINE e == Head(events)
           t == TokenFor(e).token
           m == history[e.id]
<1>1. /\ e \in Event /\ e = events[1] /\ held \subseteq Keys /\ caps \in BOOLEAN
      /\ Len(events) \in Nat \ {0}
  BY PollsTake
<1>2. PICK h, c : Replays(h, c)
  BY DEF PastInv, ReplayInv
<1>3. 1 \in 1 .. Len(events) /\ 1 - 1 = 0
  BY <1>1
<1>4. /\ m.key = e.key /\ m.repeat = (e.key \in held) /\ m.caps = caps
      /\ m.shift = (held \cap ShiftKeys # {}) /\ m.fresh = (e.value # 0 /\ e.key \notin held)
  <2>1. Explains(events[1], history[events[1].id], h[1 - 1], c[1 - 1], h[1], c[1])
        /\ h[0] = held /\ c[0] = caps
    BY <1>2, <1>3 DEF Replays
  <2>2. Explains(e, m, held, caps, h[1], c[1])
    BY <1>1, <1>3, <2>1
  <2> QED BY <2>2 DEF Explains
<1>5. /\ t \in Token \cup {None}
      /\ t # None => e.key \in LetterKeys /\ e.value # 0
      /\ e.key \in LetterKeys /\ e.value # 0 =>
             t = [id |-> e.id, shift |-> held \cap ShiftKeys # {}, caps |-> caps,
                  repeat |-> e.key \in held]
  BY <1>1, TokenForIs
<1> HIDE DEF t, m, e
<1>6. e.key \in LetterKeys /\ e.value # 0 =>
          /\ t.id = e.id /\ t.shift = (held \cap ShiftKeys # {}) /\ t.caps = caps
          /\ t.repeat = (e.key \in held) /\ t \in Token
  <2>1. [id |-> e.id, shift |-> held \cap ShiftKeys # {}, caps |-> caps,
         repeat |-> e.key \in held] \in Token
    BY <1>1 DEF Token, Event
  <2> QED BY <1>5, <2>1
<1>7. t # None => Truth(t, m)
  BY <1>4, <1>5, <1>6 DEF Truth
<1>8. m.fresh /\ m.key \in LetterKeys => t \in Token /\ t.id = e.id /\ ~t.repeat
  BY <1>4, <1>6
<1> QED BY <1>7, <1>8 DEF t, m, e

\* Replaying the rest of the events starts where the driver now is.
LEMMA ReplayPolls ==
    ASSUME DataInv, ReplayInv, Polls
    PROVE  ReplayInv'
<1> SUFFICES ASSUME lost' = {} PROVE \E h, c : Replays(h, c)'
  BY DEF ReplayInv
<1> DEFINE l == Len(events)
           e == Head(events)
<1>1. /\ events' = Tail(events) /\ UNCHANGED <<phys, history, lost>>
      /\ held' = TokenFor(e).held /\ caps' = TokenFor(e).caps
  BY DEF Polls
<1>2. /\ e \in Event /\ e = events[1] /\ held \subseteq Keys /\ caps \in BOOLEAN
      /\ l \in Nat \ {0} /\ Len(events') = l - 1
      /\ \A i \in 1 .. l - 1 : events'[i] = events[i + 1]
  BY <1>1, PollsTake
<1>3. PICK h, c : Replays(h, c)
  BY <1>1 DEF ReplayInv
<1>4. /\ h \in [0 .. l -> SUBSET Keys] /\ c \in [0 .. l -> BOOLEAN]
      /\ h[0] = held /\ h[l] = phys /\ c[0] = caps /\ c[l] = CapsTrue
      /\ \A i \in 1 .. l :
             Explains(events[i], history[events[i].id], h[i - 1], c[i - 1], h[i], c[i])
  BY <1>3 DEF Replays
<1>5. /\ TokenFor(e).held = SetHeld(held, e.key, e.value # 0)
      /\ TokenFor(e).caps = IF e.value = 1 /\ e.key \in CapsKeys /\ e.key \notin held
                            THEN ~caps ELSE caps
  BY <1>2, TokenForIs
<1> HIDE DEF l, e
<1>6. h[1] = held' /\ c[1] = caps'
  <2>1. 1 \in 1 .. l /\ 1 - 1 = 0
    BY <1>2
  <2>2. Explains(e, history[e.id], held, caps, h[1], c[1])
    BY <1>2, <1>4, <2>1
  <2> QED BY <1>1, <1>5, <2>2 DEF Explains
<1>7. PICK h2, c2 : /\ h2 = [i \in 0 .. l - 1 |-> h[i + 1]]
                    /\ c2 = [i \in 0 .. l - 1 |-> c[i + 1]]
  OBVIOUS
<1>8. /\ h2 \in [0 .. l - 1 -> SUBSET Keys] /\ c2 \in [0 .. l - 1 -> BOOLEAN]
      /\ \A i \in 0 .. l - 1 : h2[i] = h[i + 1] /\ c2[i] = c[i + 1]
  <2>1. \A i \in 0 .. l - 1 : i + 1 \in 0 .. l
    BY <1>2
  <2> QED BY <1>4, <1>7, <2>1
<1>9. h2[0] = held' /\ c2[0] = caps' /\ h2[l - 1] = phys /\ c2[l - 1] = CapsTrue
  <2>1. 0 \in 0 .. l - 1 /\ l - 1 \in 0 .. l - 1 /\ 0 + 1 = 1 /\ (l - 1) + 1 = l
    BY <1>2
  <2> QED BY <1>4, <1>6, <1>8, <2>1
<1>10. ASSUME NEW i \in 1 .. l - 1
       PROVE  Explains(events'[i], history[events'[i].id], h2[i - 1], c2[i - 1], h2[i], c2[i])
  <2>1. /\ i + 1 \in 1 .. l /\ (i + 1) - 1 = i /\ (i - 1) + 1 = i
        /\ i \in 0 .. l - 1 /\ i - 1 \in 0 .. l - 1
    BY <1>2
  <2>2. h2[i - 1] = h[i] /\ c2[i - 1] = c[i] /\ h2[i] = h[i + 1] /\ c2[i] = c[i + 1]
    BY <1>8, <2>1
  <2>3. Explains(events[i + 1], history[events[i + 1].id], h[i], c[i], h[i + 1], c[i + 1])
    <3>1. Explains(events[i + 1], history[events[i + 1].id], h[(i + 1) - 1], c[(i + 1) - 1],
                   h[i + 1], c[i + 1])
      BY <1>4, <2>1
    <3> QED BY <2>1, <3>1
  <2> QED BY <1>2, <2>2, <2>3
<1>11. CapsTrue' = CapsTrue
  BY <1>1 DEF CapsTrue
<1>12. Replays(h2, c2)'
  BY <1>1, <1>2, <1>8, <1>9, <1>10, <1>11 DEF Replays
<1> QED BY <1>12

\* The driver takes an event.
LEMMA PastPolls ==
    ASSUME DataInv, PastInv, Polls, PollOutcome(TokenFor(Head(events)).token)
    PROVE  PastInv'
<1> DEFINE e == Head(events)
           t == TokenFor(e).token
           l == Len(events)
           w == Len(Stream)
<1>1. /\ e \in Event /\ e = events[1] /\ events' = Tail(events)
      /\ l \in Nat \ {0} /\ Len(events') = l - 1
      /\ \A i \in 1 .. l - 1 : events'[i] = events[i + 1]
      /\ UNCHANGED <<phys, history, lost>>
  BY PollsTake DEF Polls
<1>2. Stream \in Seq(Token) /\ w \in Nat /\ PollOutcome(t)
  BY StreamTypes, LenProperties
<1>3. t # None => t.id = e.id
  <2>1. t # None => e.key \in LetterKeys /\ e.value # 0
    BY PollsTake, TokenForIs
  <2>2. e.key \in LetterKeys /\ e.value # 0 =>
            t = [id |-> e.id, shift |-> held \cap ShiftKeys # {}, caps |-> caps,
                 repeat |-> e.key \in held]
    BY PollsTake, TokenForIs
  <2> HIDE DEF t, e
  <2> QED BY <2>1, <2>2
<1>4. /\ \A j \in 2 .. l : e.id < events[j].id
      /\ \A i \in 1 .. w : Stream[i].id < e.id
      /\ e.id <= Len(history)
  <2>1. 1 \in 1 .. l /\ \A j \in 2 .. l : j \in 1 .. l /\ 1 < j
    BY <1>1
  <2> QED BY <1>1, <2>1 DEF PastInv, OrderInv, Rising
<1>5. /\ lost = {} /\ t # None => Truth(t, history[e.id])
      /\ lost = {} /\ history[e.id].fresh /\ history[e.id].key \in LetterKeys =>
             t \in Token /\ t.id = e.id /\ ~t.repeat
  BY TokenIsTrue
<1>6. ReplayInv'
  BY ReplayPolls DEF PastInv
<1>7. \A i \in 1 .. l - 1 : i + 1 \in 2 .. l /\ i + 1 \in 1 .. l
  BY <1>1
<1> HIDE DEF t, e
<1>8. Stream' = Stream \/ (t # None /\ t \in Token /\ Stream' = Append(Stream, t))
  BY <1>2 DEF PollOutcome
<1>9. Rising(events)' /\ \A j \in 1 .. l - 1 : events'[j].id <= Len(history)
  <2>1. ASSUME NEW i \in 1 .. l - 1, NEW j \in 1 .. l - 1, i < j
        PROVE  events'[i].id < events'[j].id
    <3>1. i + 1 < j + 1
      BY <2>1
    <3> QED BY <1>1, <1>7, <3>1 DEF PastInv, OrderInv, Rising
  <2> QED BY <1>1, <1>7, <2>1 DEF PastInv, OrderInv, Rising
<1>10. OrderInv' /\ TruthInv'
  <2>1. CASE Stream' = Stream
    <3>1. \A i \in 1 .. w, j \in 1 .. l - 1 : Stream[i].id < events'[j].id
      BY <1>1, <1>7 DEF PastInv, OrderInv
    <3>2. OrderInv'
      BY <1>1, <1>9, <2>1, <3>1 DEF PastInv, OrderInv, Rising
    <3> QED BY <1>1, <2>1, <3>2 DEF PastInv, TruthInv
  <2>2. CASE t # None /\ t \in Token /\ Stream' = Append(Stream, t)
    <3>1. /\ Len(Stream') = w + 1 /\ Stream'[w + 1] = t
          /\ \A i \in 1 .. w : Stream'[i] = Stream[i]
      BY <1>2, <2>2, AppendProperties
    <3>2. \A i \in 1 .. w + 1 : i \in 1 .. w \/ i = w + 1
      BY <1>2
    <3>3. t.id = e.id
      BY <1>3, <2>2
    <3> HIDE DEF w
    <3>4. Rising(Stream')
      <4> SUFFICES ASSUME NEW i \in 1 .. w + 1, NEW j \in 1 .. w + 1, i < j
                   PROVE  Stream'[i].id < Stream'[j].id
        BY <3>1 DEF Rising
      <4>1. i \in 1 .. w
        BY <1>2
      <4>2. CASE j \in 1 .. w
        BY <3>1, <4>1, <4>2 DEF PastInv, OrderInv, Rising, w
      <4>3. CASE j = w + 1
        BY <1>4, <3>1, <3>3, <4>1, <4>3
      <4> QED BY <3>2, <4>2, <4>3
    <3>5. \A i \in 1 .. w + 1, j \in 1 .. l - 1 : Stream'[i].id < events'[j].id
      <4> SUFFICES ASSUME NEW i \in 1 .. w + 1, NEW j \in 1 .. l - 1
                   PROVE  Stream'[i].id < events'[j].id
        OBVIOUS
      <4>1. CASE i \in 1 .. w
        BY <1>1, <1>7, <3>1, <4>1 DEF PastInv, OrderInv, w
      <4>2. CASE i = w + 1
        BY <1>1, <1>4, <1>7, <3>1, <3>3, <4>2
      <4> QED BY <3>2, <4>1, <4>2
    <3>6. \A i \in 1 .. w + 1 : Stream'[i].id <= Len(history)
      BY <1>4, <3>1, <3>2, <3>3 DEF PastInv, OrderInv, w
    <3>7. OrderInv'
      <4>1. Rising(Stream)'
        BY <3>4 DEF Rising
      <4> QED BY <1>1, <1>9, <3>1, <3>5, <3>6, <4>1 DEF OrderInv
    <3>8. TruthInv'
      <4> SUFFICES ASSUME lost = {}, NEW i \in 1 .. w + 1
                   PROVE  Truth(Stream'[i], history[Stream'[i].id])
        BY <1>1, <3>1 DEF TruthInv
      <4>1. CASE i \in 1 .. w
        BY <3>1, <4>1 DEF PastInv, TruthInv, w
      <4>2. CASE i = w + 1
        BY <1>5, <2>2, <3>1, <3>3, <4>2
      <4> QED BY <3>2, <4>1, <4>2
    <3> QED BY <3>7, <3>8
  <2> QED BY <1>8, <2>1, <2>2
<1>11. PressInv'
  <2> SUFFICES ASSUME lost = {}, NEW id \in DOMAIN history,
                      history[id].fresh, history[id].key \in LetterKeys
               PROVE  Somewhere(id)'
    BY <1>1 DEF PressInv
  <2>1. Somewhere(id)
    BY DEF PastInv, PressInv
  <2>2. /\ dropped \subseteq dropped'
        /\ \A i \in 1 .. w : i \in 1 .. Len(Stream') /\ Stream'[i] = Stream[i]
    <3>1. dropped \subseteq dropped'
      BY <1>2 DEF PollOutcome
    <3>2. CASE Stream' = Stream
      BY <3>1, <3>2
    <3>3. CASE t # None /\ t \in Token /\ Stream' = Append(Stream, t)
      <4>1. Len(Stream') = w + 1 /\ \A i \in 1 .. w : Stream'[i] = Stream[i]
        BY <1>2, <3>3, AppendProperties
      <4> HIDE DEF w
      <4> QED BY <1>2, <3>1, <4>1
    <3> QED BY <1>8, <3>2, <3>3
  <2>3. CASE \E i \in 1 .. l : events[i].id = id
    <3>1. PICK i \in 1 .. l : events[i].id = id
      BY <2>3
    <3>2. CASE i = 1
      <4>1. id = e.id
        BY <1>1, <3>1, <3>2
      <4>2. t \in Token /\ t.id = id /\ ~t.repeat
        BY <1>5, <4>1
      <4>3. t # None
        BY <4>2, NoneIsNoToken
      <4>4. CASE Stream' = Append(Stream, t)
        <5>1. Len(Stream') = w + 1 /\ Stream'[w + 1] = t
          BY <1>2, <4>2, <4>4, AppendProperties
        <5>2. w + 1 \in 1 .. Len(Stream')
          BY <1>2, <5>1
        <5> QED BY <4>2, <5>1, <5>2 DEF Somewhere
      <4>5. CASE dropped' = dropped \cup {t.id}
        BY <4>2, <4>5 DEF Somewhere
      <4> QED BY <1>2, <4>2, <4>3, <4>4, <4>5 DEF PollOutcome
    <3>3. CASE i # 1
      <4>1. i - 1 \in 1 .. l - 1 /\ (i - 1) + 1 = i
        BY <1>1, <3>3
      <4>2. i - 1 \in 1 .. Len(events') /\ events'[i - 1] = events[i]
        BY <1>1, <4>1
      <4> QED BY <3>1, <4>2 DEF Somewhere
    <3> QED BY <3>2, <3>3
  <2>4. CASE \E i \in 1 .. w : Stream[i].id = id
    <3>1. PICK i \in 1 .. w : Stream[i].id = id
      BY <2>4
    <3>2. i \in 1 .. Len(Stream') /\ Stream'[i].id = id
      BY <2>2, <3>1
    <3> QED BY <3>2 DEF Somewhere
  <2>5. CASE id \in dropped
    BY <2>2, <2>5 DEF Somewhere
  <2> QED BY <2>1, <2>3, <2>4, <2>5 DEF Somewhere
<1> QED BY <1>6, <1>10, <1>11 DEF PastInv

-----------------------------------------------------------------------------
(* The invariants together, and what follows from them.                    *)

\* The device's line, the saved registers and the handler's place.
PlaceInv ==
    /\ line \in BOOLEAN
    /\ elr \in [to: {"entry", "interrupted"}, masked: BOOLEAN]
    /\ irqPc \in {"idle", "ack", "poll"}

FlowInv == ControlInv /\ QueueInv /\ PastInv

\* At the start nothing is held, waiting or on its way.
LEMMA FlowInit == Init => FlowInv /\ PlaceInv
<1> SUFFICES ASSUME Init PROVE FlowInv /\ PlaceInv
  OBVIOUS
<1>1. /\ phys = {} /\ history = << >> /\ events = << >> /\ line = FALSE /\ lost = {}
      /\ held = {} /\ caps = FALSE /\ ring = Ring!NewBuffer /\ noted = FALSE /\ dropped = {}
      /\ elr = [to |-> "interrupted", masked |-> FALSE]
      /\ irqPc = "idle" /\ pc = "pop" /\ hand = Nothing /\ delivered = << >>
  BY DEF Init
<1>2. Ring!WellFormed(ring) /\ Waiting = << >>
  BY <1>1, RingNew DEF Waiting
<1>3. Stream = << >>
  BY <1>1, <1>2 DEF Stream, InHand
<1>4. CapsTrue = FALSE
  <2>1. {i \in DOMAIN history : history[i].key \in CapsKeys /\ history[i].fresh} = {}
    BY <1>1
  <2>2. Cardinality({}) = 0
    BY FS_EmptySet
  <2> QED BY <2>1, <2>2 DEF CapsTrue
<1>5. QueueInv
  <2>1. HandInv
    BY <1>1 DEF HandInv, Hands
  <2>2. DataInv
    <3>1. Len(history) = 0 /\ Len(events) = 0 /\ 0 <= MaxEvents /\ 0 <= DeviceSlots
      BY <1>1, KeyboardAssumption
    <3>2. history \in Seq(Past) /\ events \in Seq(Event) /\ delivered \in Seq(Token)
      BY <1>1
    <3>3. phys \subseteq Keys /\ held \subseteq Keys /\ lost \subseteq Ids /\ dropped \subseteq Ids
      BY <1>1
    <3> QED BY <1>1, <1>2, <2>1, <3>1, <3>2, <3>3 DEF DataInv
  <2> QED BY <1>1, <1>2, <2>2 DEF QueueInv, NoteInv, BacklogInv
<1>6. PastInv
  <2>1. OrderInv /\ TruthInv /\ PressInv
    BY <1>1, <1>3 DEF OrderInv, Rising, TruthInv, PressInv
  <2>2. ReplayInv
    <3>1. PICK h, c : h = [i \in 0 .. 0 |-> {}] /\ c = [i \in 0 .. 0 |-> FALSE]
      OBVIOUS
    <3>2. Len(events) = 0
      BY <1>1
    <3>3. Replays(h, c)
      BY <1>1, <1>4, <3>1, <3>2 DEF Replays
    <3> QED BY <3>3 DEF ReplayInv
  <2> QED BY <2>1, <2>2 DEF PastInv
<1>7. PlaceInv
  BY <1>1 DEF PlaceInv
<1> QED BY <1>5, <1>6, <1>7, ControlInit DEF FlowInv

\* Every step keeps the invariant.
LEMMA FlowNext ==
    ASSUME FlowInv, [Next]_vars
    PROVE  FlowInv'
<1>1. ControlInv /\ QueueInv /\ PastInv /\ DataInv
  BY DEF FlowInv, QueueInv
<1>2. ControlInv'
  BY <1>1, ControlInterrupt, ControlKernel DEF Next
<1>3. QueueInv' /\ PastInv'
  <2>1. CASE Emits
    BY <1>1, <2>1, QueueEmits, PastEmits
  <2>2. CASE Polls
    BY <1>1, <2>2, QueuePolls, PastPolls
  <2>3. CASE Takes
    <3>1. UNCHANGED <<phys, history, events, lost, held, caps, dropped>>
      BY <2>3 DEF Takes, driverVars
    <3> QED BY <1>1, <2>3, <3>1, QueueTakes, PastStays
  <2>4. CASE Elsewhere
    <3>1. UNCHANGED <<phys, history, events, lost, held, caps, dropped>>
      BY <2>4 DEF Elsewhere, driverVars
    <3> QED BY <1>1, <2>4, <3>1, QueueElsewhere, PastStays
  <2>5. CASE PopRead
    <3>1. UNCHANGED <<phys, history, events, lost, held, caps, dropped>>
      BY <2>5 DEF PopRead, deviceVars, driverVars
    <3> QED BY <1>1, <2>5, <3>1, QueueReads, PastStays
  <2>6. CASE PopWrite
    <3>1. UNCHANGED <<phys, history, events, lost, held, caps, dropped>>
      BY <2>6 DEF PopWrite, deviceVars
    <3> QED BY <1>1, <2>6, <3>1, QueueWrites, PastStays
  <2> QED BY <1>1, <2>1, <2>2, <2>3, <2>4, <2>5, <2>6, StepKinds
<1> QED BY <1>2, <1>3 DEF FlowInv

\* Every step keeps the places.
LEMMA PlaceNext ==
    ASSUME PlaceInv, [Next]_vars
    PROVE  PlaceInv'
<1> USE DEF PlaceInv
<1>1. CASE Device
  <2>1. PICK k \in Keys : Press(k) \/ Release(k) \/ AutoRepeat(k)
    BY <1>1 DEF Device
  <2>2. PICK value \in 0 .. 2 : Emit(k, value)
    BY <2>1 DEF Press, Release, AutoRepeat
  <2> QED BY <2>2 DEF Emit, cpuVars
<1>2. CASE IrqEntry
  BY <1>2 DEF IrqEntry, deviceVars
<1>3. CASE Irq
  BY <1>3 DEF Irq, IrqAck, IrqPoll, DrainAck, DrainPoll, deviceVars
<1>4. CASE PopEnter \/ PopRead \/ PopWrite
  BY <1>4 DEF PopEnter, PopRead, PopWrite, deviceVars
<1>5. CASE ShellHandle \/ ReadKey \/ ReadLine
  BY <1>5 DEF ShellHandle, ReadKey, ReadLine, Take, Empty, deviceVars
<1>6. CASE WaitMask \/ WaitCheck \/ Wfi \/ WaitUnmask \/ SyscallSleep \/ SyscallReturn
           \/ RunMask \/ EndLaunch
  <2>1. \A from, to, mask : Move(from, to, mask) => UNCHANGED <<line, elr, irqPc>>
    BY DEF Move, deviceVars
  <2> QED BY <1>6, <2>1 DEF WaitMask, WaitCheck, Wfi, WaitUnmask, SyscallSleep,
                            SyscallReturn, RunMask, EndLaunch
<1>7. CASE SyscallAck \/ SyscallPoll
  BY <1>7 DEF SyscallAck, SyscallPoll, DrainAck, DrainPoll, deviceVars
<1>8. CASE SetElr \/ Eret
  <2>1. CASE SetElr
    <3>1. elr' = [to |-> "entry", masked |-> FALSE] /\ UNCHANGED <<line, irqPc>>
      BY <2>1 DEF SetElr, deviceVars
    <3> QED BY <3>1
  <2>2. CASE Eret
    BY <2>2 DEF Eret, deviceVars
  <2> QED BY <1>8, <2>1, <2>2
<1>9. CASE Program
  BY <1>9 DEF Program, ExitOrFault, Svc, deviceVars
<1>10. CASE UNCHANGED vars
  BY <1>10 DEF vars, deviceVars, cpuVars
<1> QED BY <1>1, <1>2, <1>3, <1>4, <1>5, <1>6, <1>7, <1>8, <1>9, <1>10 DEF Next, Kernel

(***************************************************************************)
(* The invariant of the queue and of the keyboard's past holds always.     *)
(***************************************************************************)
THEOREM Flow == Spec => []FlowInv
<1> QED BY FlowInit, FlowNext, PTL DEF Spec

(***************************************************************************)
(* The handler, the line and the saved registers keep their types.         *)
(***************************************************************************)
THEOREM Place == Spec => []PlaceInv
<1> QED BY FlowInit, PlaceNext, PTL DEF Spec

(***************************************************************************)
(* Tokens reach the readers in the order of the presses, each once         *)
(* (queue.rs:7-10, stdin.rs:8-9).                                          *)
(***************************************************************************)
THEOREM Ordered == Spec => []InOrder
<1>1. FlowInv => InOrder
  BY DEF FlowInv, PastInv, OrderInv, Rising, InOrder
<1> QED BY <1>1, Flow, PTL

(***************************************************************************)
(* Every press the device held is on its way, read, or was refused by a    *)
(* full ring (tokens.rs:117-123).                                          *)
(***************************************************************************)
THEOREM NothingVanishes == Spec => []NoPressVanishes
<1>1. FlowInv => NoPressVanishes
  BY DEF FlowInv, PastInv, PressInv, Somewhere, NoPressVanishes
<1> QED BY <1>1, Flow, PTL

(***************************************************************************)
(* A token is stamped with the modifiers and locks of the moment of its    *)
(* press, however late it is fetched or read (events.rs:24-56).            *)
(***************************************************************************)
THEOREM Truthful == Spec => []TruthfulTokens
<1>1. FlowInv => TruthfulTokens
  BY DEF FlowInv, PastInv, TruthInv, Truth, TruthfulTokens
<1> QED BY <1>1, Flow, PTL

(***************************************************************************)
(* Auto-repeats never pile up behind a slow reader (tokens.rs:117-123).    *)
(***************************************************************************)
THEOREM NoBacklog == Spec => []NoRepeatBacklog
<1>1. FlowInv => NoRepeatBacklog
  BY DEF FlowInv, QueueInv, BacklogInv, NoRepeatBacklog
<1> QED BY <1>1, Flow, PTL

(***************************************************************************)
(* The types of all the keyboard's state, the ring's representation        *)
(* included, and the note that goes with the keys that wait                *)
(* (ring_buffer.rs:27-45, queue.rs:78-80).                                 *)
(***************************************************************************)
THEOREM Consistent == Spec => []QueueConsistent
<1>1. FlowInv /\ PlaceInv => QueueConsistent
  <2> SUFFICES ASSUME FlowInv, PlaceInv PROVE QueueConsistent
    OBVIOUS
  <2>1. ControlInv /\ DataInv /\ NoteInv
    BY DEF FlowInv, QueueInv
  <2>2. Ring!WellFormed(hand.buf) /\ hand.item \in Token \cup {None}
    <3>1. Ring!WellFormed(ring)
      BY <2>1 DEF DataInv
    <3>2. CASE pc = "pop_write"
      BY <2>1, <3>1, <3>2, RingPopped DEF DataInv, HandInv
    <3>3. CASE pc = "popped"
      BY <2>1, <3>3 DEF DataInv, HandInv
    <3>4. CASE pc \notin Hands
      BY <2>1, <3>4, RingNew DEF DataInv, HandInv, Nothing
    <3> QED BY <3>2, <3>3, <3>4 DEF Hands
  <2>3. Len(history) \in 0 .. MaxEvents
    <3>1. Len(history) \in Nat /\ Len(history) <= MaxEvents
      BY <2>1, LenProperties DEF DataInv
    <3> QED BY <3>1, KeyboardAssumption
  <2>4. pc \in Labels /\ reader \in {"shell", "read_key", "read_line"}
        /\ {line, caps, noted, masked, saved} \subseteq BOOLEAN
    BY <2>1 DEF ControlInv, DataInv, PlaceInv
  <2>5. TypeOK
    BY <2>1, <2>2, <2>3, <2>4 DEF TypeOK, DataInv, PlaceInv
  <2>6. NoteRearmed
    BY <2>1 DEF NoteInv, NoteRearmed, Ring!IsEmpty
  <2> QED BY <2>5, <2>6 DEF QueueConsistent
<1> QED BY <1>1, Flow, Place, PTL

=============================================================================
