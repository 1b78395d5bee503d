------------------------------ MODULE Keyboard ------------------------------
(***************************************************************************)
(* The path of a key press from the keyboard to whoever reads it: the      *)
(* virtio input device, the token queue (keyboard/queue.rs), the interrupt *)
(* handler that fills it, and its three readers -- the shell's loop, which *)
(* pops with interrupts on, and read(0) and CONSOLE_READ_KEY inside a      *)
(* syscall, where interrupts are masked and the reader fetches from the    *)
(* device itself.                                                          *)
(*                                                                         *)
(* One CPU runs two contexts: the main one (pc: shell, syscall or program) *)
(* and the interrupt handler (irqPc), which the main one cannot preempt.   *)
(* The device moves at any time.  One action is what runs between two      *)
(* points at which the other context or the device could be seen.          *)
(***************************************************************************)
EXTENDS Naturals, Sequences, FiniteSets

CONSTANTS
    LetterKeys,     \* keys that type something
    ShiftKeys,      \* keys that modify the next key while held (Shift, Ctrl, Alt)
    CapsKeys,       \* keys that toggle a lock when pressed
    Capacity,       \* CAPACITY of the token queue
    DeviceSlots,    \* events the device can hold before the driver takes them
    MaxEvents,      \* bound: how many times the keyboard is touched
    None

ASSUME KeyboardAssumption ==
    /\ LetterKeys \cap (ShiftKeys \cup CapsKeys) = {}
    /\ ShiftKeys \cap CapsKeys = {}
    /\ Capacity \in Nat \ {0} /\ DeviceSlots \in Nat \ {0} /\ MaxEvents \in Nat

Keys == LetterKeys \cup ShiftKeys \cup CapsKeys
Ids == 1 .. MaxEvents

\* An evdev event; id is its place in the history of the keyboard.
Event == [id: Ids, key: Keys, value: 0 .. 2]
Token == [id: Ids, shift: BOOLEAN, caps: BOOLEAN, repeat: BOOLEAN]

ASSUME NoneIsNoToken == None \notin Token

Ring == INSTANCE RingBuffer WITH Item <- Token, N <- Capacity

VARIABLES
    phys,       \* keys physically down
    history,    \* every event of the keyboard with what was true of it
    events,     \* the device's queue, and
    line,       \* its interrupt line (level)
    lost,       \* events the device had no room for
    held,       \* KEY_STATE
    caps,       \* LOCK_STATE.caps
    ring,       \* TOKENS
    noted,      \* OVERFLOW_NOTED
    dropped,    \* presses refused by a full ring
    masked,     \* the main context's DAIF.I
    elr,        \* where an eret of the main context would go, and its DAIF.I
    irqPc,      \* the interrupt handler
    pc,         \* the main context
    reader,     \* who is popping
    saved,      \* the mask without_irqs puts back
    hand,       \* what pop has read and not yet stored or returned
    delivered   \* the tokens readers have had, in order

deviceVars == <<phys, history, events, line, lost>>
driverVars == <<held, caps, ring, noted, dropped>>
cpuVars == <<masked, elr, irqPc, pc, reader, saved, hand, delivered>>
vars == <<deviceVars, driverVars, cpuVars>>

Nothing == [buf |-> Ring!NewBuffer, item |-> None]

Init ==
    /\ phys = {} /\ history = << >> /\ events = << >> /\ line = FALSE /\ lost = {}
    /\ held = {} /\ caps = FALSE /\ ring = Ring!NewBuffer /\ noted = FALSE /\ dropped = {}
    /\ masked = FALSE /\ elr = [to |-> "interrupted", masked |-> FALSE]
    /\ irqPc = "idle" /\ pc = "pop" /\ reader = "shell"
    /\ saved = FALSE /\ hand = Nothing /\ delivered = << >>

-----------------------------------------------------------------------------
(* The keyboard and its device (external: the user and QEMU).              *)

CapsTrue == Cardinality({i \in DOMAIN history : history[i].key \in CapsKeys
                                                /\ history[i].fresh}) % 2 = 1

\* What a press of k means at this moment, whatever the driver makes of it later.
Meaning(k, value) ==
    [key |-> k, fresh |-> value # 0 /\ k \notin phys, down |-> value # 0,
     shift |-> phys \cap ShiftKeys # {}, caps |-> CapsTrue, repeat |-> k \in phys]

Emit(k, value) ==
    LET event == [id |-> Len(history) + 1, key |-> k, value |-> value]
    IN  /\ Len(history) < MaxEvents
        /\ history' = Append(history, Meaning(k, value))
        /\ \/ /\ Len(events) < DeviceSlots
              /\ events' = Append(events, event)
              /\ line' = TRUE
              /\ UNCHANGED lost
           \/ /\ Len(events) = DeviceSlots
              /\ lost' = lost \cup {event.id}
              /\ UNCHANGED <<events, line>>
        /\ UNCHANGED <<driverVars, cpuVars>>

Press(k) == k \notin phys /\ phys' = phys \cup {k} /\ Emit(k, 1)
Release(k) == k \in phys /\ phys' = phys \ {k} /\ Emit(k, 0)
\* Auto-repeat, tagged 2 or resent as a plain press (events.rs:14-16).
AutoRepeat(k) == k \in phys /\ UNCHANGED phys /\ \E value \in {1, 2} : Emit(k, value)

Device == \E k \in Keys : Press(k) \/ Release(k) \/ AutoRepeat(k)

-----------------------------------------------------------------------------
(* The producer.                                                           *)

\* KeyState::set
SetHeld(h, k, down) == IF down THEN h \cup {k} ELSE h \ {k}

\* Mutant: every press of a lock key toggles it, a repeat too.
ApplyAlways(c, k, value, changed) == IF k \in CapsKeys /\ value = 1 THEN ~c ELSE c

\* LockState::apply, called when the held set changed.
ApplyLock(c, k, value, changed) == IF changed /\ k \in CapsKeys /\ value = 1 THEN ~c ELSE c

\* tokens::emit: none for a modifier or a lock key, else a snapshot of what is held.
TokenOf(event, h, c, repeat) ==
    IF event.key \in LetterKeys
    THEN [id |-> event.id, shift |-> h \cap ShiftKeys # {}, caps |-> c, repeat |-> repeat]
    ELSE None

\* token_for: the new driver state and the token, or None.
TokenFor(event) ==
    LET down    == event.value # 0
        wasHeld == event.key \in held
        held2   == SetHeld(held, event.key, down)
        changed == held2 # held
        caps2   == ApplyLock(caps, event.key, event.value, changed)
    IN  [held |-> held2, caps |-> caps2,
         token |-> IF down /\ (changed \/ wasHeld)
                   THEN TokenOf(event, held2, caps2, wasHeld) ELSE None]

\* Mutant of Admits: a repeat queues up like any press.
AdmitsAll(token, queued) == TRUE

Admits(token, queued) == ~token.repeat \/ queued = 0

\* One turn of drain_keyboard's loop; done says what the caller does at the end of it.
DrainPoll(stay, done) ==
    \/ /\ events # << >>
       /\ LET seen == TokenFor(Head(events))
              push == Ring!Push(ring, seen.token)
          IN  /\ held' = seen.held
              /\ caps' = seen.caps
              /\ IF seen.token # None /\ Admits(seen.token, ring.len)
                 THEN /\ ring' = push.buf
                      /\ noted' = (noted \/ ~push.ok)
                      /\ dropped' = IF push.ok THEN dropped ELSE dropped \cup {seen.token.id}
                 ELSE UNCHANGED <<ring, noted, dropped>>
       /\ events' = Tail(events)
       /\ UNCHANGED <<phys, history, line, lost>>
       /\ stay
    \/ /\ events = << >>
       /\ UNCHANGED <<deviceVars, driverVars>>
       /\ done

\* ack_interrupt: clears the line before the first poll.
DrainAck == line' = FALSE /\ UNCHANGED <<phys, history, events, lost, driverVars>>

(* irq_handler.  The CPU takes an interrupt between any two unmasked       *)
(* steps of the main context, and overwrites ELR_EL1 and SPSR_EL1.         *)
mainVars == <<masked, pc, reader, saved, hand, delivered>>

IrqEntry ==
    /\ irqPc = "idle" /\ line /\ ~masked
    /\ irqPc' = "ack"
    /\ elr' = [to |-> "interrupted", masked |-> FALSE]
    /\ UNCHANGED <<deviceVars, driverVars, mainVars>>

IrqAck == irqPc = "ack" /\ DrainAck /\ irqPc' = "poll" /\ UNCHANGED <<elr, mainVars>>

\* Mutant of IrqPoll: one event per interrupt instead of all that wait.
IrqPollOne ==
    /\ irqPc = "poll"
    /\ DrainPoll(irqPc' = "idle", irqPc' = "idle")
    /\ UNCHANGED <<elr, mainVars>>

IrqPoll ==
    /\ irqPc = "poll"
    /\ DrainPoll(UNCHANGED irqPc, irqPc' = "idle")
    /\ UNCHANGED <<elr, mainVars>>

Irq == IrqAck \/ IrqPoll

-----------------------------------------------------------------------------
(* The consumers.                                                          *)

At(label) == irqPc = "idle" /\ pc = label

\* Mutant of MaskForPop: pop relies on its caller for the mask.
KeepMask == masked

\* without_irqs, around pop's read and write of TOKENS.
MaskForPop == TRUE

PopEnter ==
    /\ At("pop")
    /\ saved' = masked
    /\ masked' = MaskForPop
    /\ pc' = "pop_read"
    /\ UNCHANGED <<deviceVars, driverVars, elr, irqPc, reader, hand, delivered>>

PopRead ==
    /\ At("pop_read")
    /\ hand' = Ring!Pop(ring)
    /\ pc' = "pop_write"
    /\ UNCHANGED <<deviceVars, driverVars, masked, elr, irqPc, reader, saved, delivered>>

\* Mutant of NotedAfterPop: the note is not re-armed.
NeverRearmed(buf) == noted

NotedAfterPop(buf) == noted /\ ~Ring!IsEmpty(buf)

PopWrite ==
    /\ At("pop_write")
    /\ ring' = hand.buf
    /\ noted' = NotedAfterPop(hand.buf)
    /\ masked' = saved      \* back the way it was
    /\ pc' = "popped"
    /\ UNCHANGED <<deviceVars, held, caps, dropped, elr, irqPc, reader, saved, hand, delivered>>

Take(next) ==
    /\ hand.item # None
    /\ delivered' = Append(delivered, hand.item)
    /\ hand' = Nothing
    /\ pc' \in next
    /\ UNCHANGED <<deviceVars, driverVars, masked, elr, irqPc, reader, saved>>

Empty(next) ==
    /\ hand.item = None
    /\ hand' = Nothing
    /\ pc' = next
    /\ UNCHANGED <<deviceVars, driverVars, masked, elr, irqPc, reader, saved, delivered>>

\* shell::run: handle the token, which may finish a line and launch a program.
ShellHandle == At("popped") /\ reader = "shell" /\ (Take({"pop", "launch"}) \/ Empty("wait"))

\* read_key returns the first token, read_line pops until the line is finished.
ReadKey == At("popped") /\ reader = "read_key" /\ (Take({"sysret"}) \/ Empty("sleep"))
ReadLine == At("popped") /\ reader = "read_line" /\ (Take({"pop", "sysret"}) \/ Empty("sleep"))

Move(from, to, mask) ==
    /\ At(from)
    /\ pc' = to
    /\ masked' = mask
    /\ UNCHANGED <<deviceVars, driverVars, elr, irqPc, reader, saved, hand, delivered>>

\* Mutant of WaitMask: the check is made with interrupts on.
WaitUnmasked == Move("wait", "wait_check", FALSE)

\* wait_for_interrupt_unless
WaitMask == Move("wait", "wait_check", TRUE)
WaitCheck ==
    \/ ~Ring!IsEmpty(ring) /\ Move("wait_check", "wait_unmask", masked)
    \/ Ring!IsEmpty(ring) /\ Move("wait_check", "wfi", masked)
Wfi == line /\ Move("wfi", "wait_unmask", masked)
WaitUnmask == Move("wait_unmask", "pop", FALSE)

\* read_key and read_line inside the syscall.
SyscallAck == At("ack") /\ DrainAck /\ pc' = "poll"
              /\ UNCHANGED <<masked, elr, irqPc, reader, saved, hand, delivered>>
SyscallPoll ==
    /\ At("poll")
    /\ DrainPoll(UNCHANGED pc, pc' = "pop")
    /\ UNCHANGED <<masked, elr, irqPc, reader, saved, hand, delivered>>
SyscallSleep == line /\ Move("sleep", "ack", masked)
SyscallReturn == Move("sysret", "el0", FALSE)

-----------------------------------------------------------------------------
(* process::run, enter_el0 and the way back.                               *)

\* Mutant of RunMask: the registers are set with interrupts on.
RunUnmasked == Move("launch", "set_elr", FALSE)

RunMask == Move("launch", "set_elr", TRUE)

SetElr ==
    /\ At("set_elr")
    /\ elr' = [to |-> "entry", masked |-> FALSE]
    /\ pc' = "eret"
    /\ UNCHANGED <<deviceVars, driverVars, masked, irqPc, reader, saved, hand, delivered>>

Eret ==
    /\ At("eret")
    /\ pc' = IF elr.to = "entry" THEN "el0" ELSE "astray"
    /\ masked' = elr.masked
    /\ UNCHANGED <<deviceVars, driverVars, elr, irqPc, reader, saved, hand, delivered>>

\* Mutant of Svc: the syscall is entered with interrupts left on.
SvcUnmasked(call) ==
    /\ At("el0")
    /\ pc' = "ack" /\ reader' = call
    /\ UNCHANGED <<deviceVars, driverVars, masked, elr, irqPc, saved, hand, delivered>>

\* The program: it computes (nothing of this model changes), reads, exits or faults.
Svc(call) ==
    /\ At("el0")
    /\ pc' = "ack" /\ reader' = call /\ masked' = TRUE
    /\ UNCHANGED <<deviceVars, driverVars, elr, irqPc, saved, hand, delivered>>

ExitOrFault ==
    /\ At("el0")
    /\ pc' = "end_launch" /\ reader' = "shell" /\ masked' = TRUE
    /\ UNCHANGED <<deviceVars, driverVars, elr, irqPc, saved, hand, delivered>>

Program == ExitOrFault \/ Svc("read_key") \/ Svc("read_line")

\* Mutant of EndLaunch: the exception's mask stays on.
EndMasked == Move("end_launch", "pop", TRUE) \/ Move("end_launch", "launch", TRUE)

\* end_launch and the unmasking after it; the line may have another program to run.
EndLaunch == Move("end_launch", "pop", FALSE) \/ Move("end_launch", "launch", FALSE)

Kernel ==
    \/ PopEnter \/ PopRead \/ PopWrite
    \/ ShellHandle \/ ReadKey \/ ReadLine
    \/ WaitMask \/ WaitCheck \/ Wfi \/ WaitUnmask
    \/ SyscallAck \/ SyscallPoll \/ SyscallSleep \/ SyscallReturn
    \/ RunMask \/ SetElr \/ Eret \/ EndLaunch

Next == Device \/ IrqEntry \/ Irq \/ Kernel \/ Program

Spec == Init /\ [][Next]_vars

(* The CPU runs whatever it is in the middle of, and an unmasked pending   *)
(* interrupt is taken at the next instruction, so it cannot be passed over *)
(* forever.  Nothing is assumed of the user or of the program.             *)
Fairness == WF_vars(Kernel) /\ WF_vars(Irq) /\ SF_vars(IrqEntry)
FairSpec == Spec /\ Fairness

-----------------------------------------------------------------------------
(* Properties.                                                             *)

Labels == {"pop", "pop_read", "pop_write", "popped", "wait", "wait_check", "wfi",
           "wait_unmask", "ack", "poll", "sleep", "sysret", "launch", "set_elr",
           "eret", "el0", "end_launch", "astray"}

\* Types, and the ring buffer's representation invariant wherever the handler
\* or a reader leaves it (ring_buffer.rs:27-45).
TypeOK ==
    /\ phys \subseteq Keys /\ held \subseteq Keys
    /\ Len(history) \in 0 .. MaxEvents
    /\ events \in Seq(Event) /\ Len(events) <= DeviceSlots
    /\ lost \subseteq Ids /\ dropped \subseteq Ids
    /\ {line, caps, noted, masked, saved} \subseteq BOOLEAN
    /\ Ring!WellFormed(ring) /\ Ring!WellFormed(hand.buf)
    /\ hand.item \in Token \cup {None}
    /\ elr \in [to: {"entry", "interrupted"}, masked: BOOLEAN]
    /\ irqPc \in {"idle", "ack", "poll"} /\ pc \in Labels
    /\ reader \in {"shell", "read_key", "read_line"}
    /\ delivered \in Seq(Token)

(***************************************************************************)
(* One producer, and never during a pop: the handler does not run while    *)
(* the main context is inside pop or inside a syscall's own drain          *)
(* (queue.rs:12-14).                                                       *)
(***************************************************************************)
ExclusiveAccess ==
    irqPc # "idle" => pc \notin {"pop_read", "pop_write", "ack", "poll", "sleep", "sysret"}

Waiting == Ring!Contents(ring)
InHand == IF pc = "popped" /\ hand.item # None THEN <<hand.item>> ELSE << >>
Stream == delivered \o InHand \o Waiting

(***************************************************************************)
(* Tokens reach the readers in the order the keys were pressed, each once, *)
(* whichever context queued them and whichever reader pops them            *)
(* (queue.rs:7-10, stdin.rs:8-9).                                          *)
(***************************************************************************)
InOrder == pc # "pop_write" =>
    \A i, j \in 1 .. Len(Stream) : i < j => Stream[i].id < Stream[j].id

(***************************************************************************)
(* No key press vanishes: one that the device held and the driver has      *)
(* fetched was read, or is waiting, or was refused because the ring was    *)
(* full.  Auto-repeats may be discarded (tokens.rs:117-123).               *)
(***************************************************************************)
NoPressVanishes ==
    (lost = {} /\ pc # "pop_write") =>
        \A id \in DOMAIN history :
            (history[id].fresh /\ history[id].key \in LetterKeys) =>
                \/ \E i \in 1 .. Len(events) : events[i].id = id
                \/ \E i \in 1 .. Len(Stream) : Stream[i].id = id
                \/ id \in dropped

(***************************************************************************)
(* A token carries the modifiers and locks of the moment its key was       *)
(* pressed, not of the moment it is read, as long as the device lost       *)
(* nothing (events.rs:24-56, tokens.rs:255-268).                           *)
(***************************************************************************)
TruthfulTokens ==
    (lost = {} /\ pc # "pop_write") =>
        \A i \in 1 .. Len(Stream) :
            LET t == Stream[i] IN
            [shift |-> t.shift, caps |-> t.caps, repeat |-> t.repeat]
              = [shift |-> history[t.id].shift, caps |-> history[t.id].caps,
                 repeat |-> history[t.id].repeat]

(***************************************************************************)
(* A slow reader never has a backlog of repeats: a repeat waits only at    *)
(* the front of the queue (tokens.rs:117-123).                             *)
(***************************************************************************)
NoRepeatBacklog == pc # "pop_write" =>
    \A i \in 2 .. Len(Waiting) : ~Waiting[i].repeat

(***************************************************************************)
(* One note per burst of dropped keys, and the next burst gets its own:    *)
(* the flag never outlives the queue it was set for (queue.rs:36-38,       *)
(* 78-80).                                                                 *)
(***************************************************************************)
NoteRearmed == (noted /\ pc # "pop_write") => ~Ring!IsEmpty(ring)

(***************************************************************************)
(* What the two contexts share is sound at every label: the ring is well   *)
(* formed, in the queue and in the hand of a pop, and the note belongs to  *)
(* the keys that wait.                                                     *)
(***************************************************************************)
QueueConsistent == TypeOK /\ NoteRearmed

(***************************************************************************)
(* The eret into a program goes to the program: no interrupt gets between  *)
(* writing ELR_EL1 and SPSR_EL1 and the eret (process.rs:180-182).         *)
(***************************************************************************)
EntersTheProgram == pc # "astray"

(***************************************************************************)
(* Programs, and the shell between two tokens, run with interrupts on      *)
(* however the last program ended (process.rs:219-221).                    *)
(***************************************************************************)
InterruptsOn ==
    (pc \in {"el0", "wait", "launch"} \/ (pc \in {"pop", "popped"} /\ reader = "shell"))
        => ~masked

(***************************************************************************)
(* Entry and exit together: a program is entered where it begins, and      *)
(* however it is left the keyboard can interrupt again.                    *)
(***************************************************************************)
EntryAndExit == EntersTheProgram /\ InterruptsOn

(***************************************************************************)
(* Every key is dealt with: one the device or the queue holds does not     *)
(* stay there while the shell or a read waits, whatever instant it arrived *)
(* at -- no wakeup is lost (irq.rs:18-21, stdin.rs:81-83).  Only a program *)
(* that neither reads nor ends can leave it waiting.                       *)
(***************************************************************************)
Unread(id) ==
    \/ \E i \in 1 .. Len(events) : events[i].id = id
    \/ \E i \in 1 .. Len(Waiting) : Waiting[i].id = id
KeysAreRead == \A id \in Ids : Unread(id) ~> (~Unread(id) \/ pc = "el0")

(***************************************************************************)
(* Under a program that never reads, the interrupt handler still empties   *)
(* the device (queue.rs:6-10).                                             *)
(***************************************************************************)
DeviceDrained == (events # << >>) ~> (events = << >>)
=============================================================================
