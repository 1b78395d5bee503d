-------------------------- MODULE ShellExecProofs ---------------------------
(***************************************************************************)
(* Proofs about ShellExec, for any files, paths, bounds and depth.  The    *)
(* invariants are proved in layers, each with the help of those before it: *)
(*                                                                         *)
(*   Control      what the activations are, and which frame each runs on   *)
(*   References   who holds which file, so when each one is closed         *)
(*   Names        which temp names are taken, and which files exist        *)
(*   NotUsers     a name taken by a pipe is not a file of the user's       *)
(*   Writers      a pipe's file has a writer until it is committed, and    *)
(*                the stage that reads it starts after that writer is gone *)
(***************************************************************************)
EXTENDS ShellExec, SequenceTheorems, TLAPS

-----------------------------------------------------------------------------
(* Sequences used as stacks.                                               *)

LEMMA UpTo ==
    ASSUME NEW n \in Nat, NEW i \in 1 .. n
    PROVE  n # 0 /\ (i \in 1 .. n - 1 \/ i = n)
  OBVIOUS

LEMMA OneMore ==
    ASSUME NEW n \in Nat, NEW m \in Nat, m <= n + 1, NEW i \in 1 .. m
    PROVE  i \in 1 .. n \/ (i = n + 1 /\ m = n + 1)
  OBVIOUS

LEMMA OneLess ==
    ASSUME NEW n \in Nat, NEW m, m = n - 1, NEW i \in 1 .. n, i \notin 1 .. m
    PROVE  i = n
  OBVIOUS

LEMMA Pushed ==
    ASSUME NEW S, NEW s \in Seq(S), NEW e \in S
    PROVE  /\ Append(s, e) \in Seq(S)
           /\ Len(Append(s, e)) = Len(s) + 1 /\ Len(s) \in Nat
           /\ DOMAIN Append(s, e) = 1 .. Len(s) + 1
           /\ \A i \in 1 .. Len(s) : Append(s, e)[i] = s[i]
           /\ Append(s, e)[Len(s) + 1] = e
           /\ Append(s, e) # << >>
  OBVIOUS

LEMMA Beginning ==
    ASSUME NEW S, NEW s \in Seq(S), NEW n \in 0 .. Len(s)
    PROVE  /\ SubSeq(s, 1, n) \in Seq(S)
           /\ Len(SubSeq(s, 1, n)) = n
           /\ \A i \in 1 .. n : SubSeq(s, 1, n)[i] = s[i]
<1>1. \A i \in 1 .. n : s[i] \in S
  OBVIOUS
<1> QED BY <1>1, SubSeqProperties

LEMMA Popped ==
    ASSUME NEW S, NEW s \in Seq(S), s # << >>
    PROVE  /\ Front(s) \in Seq(S)
           /\ Len(Front(s)) = Len(s) - 1 /\ Len(s) \in Nat \ {0}
           /\ DOMAIN Front(s) = 1 .. Len(s) - 1
           /\ \A i \in 1 .. Len(s) - 1 : Front(s)[i] = s[i]
           /\ Last(s) = s[Len(s)] /\ Last(s) \in S
<1>1. Len(s) \in Nat \ {0} /\ s[Len(s)] \in S
  OBVIOUS
<1>2. Len(s) - 1 \in 0 .. Len(s)
  BY <1>1
<1>3. /\ Front(s) \in Seq(S) /\ Len(Front(s)) = Len(s) - 1
      /\ \A i \in 1 .. Len(s) - 1 : Front(s)[i] = s[i]
  BY <1>2, Beginning DEF Front
<1>4. DOMAIN Front(s) = 1 .. Len(Front(s))
  BY <1>3
<1> QED BY <1>1, <1>3, <1>4 DEF Last

LEMMA Retopped ==
    ASSUME NEW S, NEW s \in Seq(S), s # << >>, NEW e \in S
    PROVE  /\ Append(Front(s), e) \in Seq(S)
           /\ Len(Append(Front(s), e)) = Len(s) /\ Len(s) \in Nat \ {0}
           /\ DOMAIN Append(Front(s), e) = 1 .. Len(s)
           /\ \A i \in 1 .. Len(s) - 1 : Append(Front(s), e)[i] = s[i]
           /\ Append(Front(s), e)[Len(s)] = e
           /\ Append(Front(s), e) # << >>
<1>1. /\ Front(s) \in Seq(S) /\ Len(Front(s)) = Len(s) - 1 /\ Len(s) \in Nat \ {0}
      /\ \A i \in 1 .. Len(s) - 1 : Front(s)[i] = s[i]
  BY Popped
<1>2. /\ Append(Front(s), e) \in Seq(S) /\ Len(Append(Front(s), e)) = Len(s) - 1 + 1
      /\ DOMAIN Append(Front(s), e) = 1 .. Len(s) - 1 + 1
      /\ \A i \in 1 .. Len(s) - 1 : Append(Front(s), e)[i] = Front(s)[i]
      /\ Append(Front(s), e)[Len(s) - 1 + 1] = e /\ Append(Front(s), e) # << >>
  BY <1>1, Pushed
<1>3. Len(s) - 1 + 1 = Len(s)
  BY <1>1
<1> QED BY <1>1, <1>2, <1>3

-----------------------------------------------------------------------------
(* The control: activations, frames and the fd table.                      *)

Control ==
    /\ stack \in Seq(Activation)
    /\ frames \in Seq(Stdio)
    /\ fds \subseteq (0 .. 3) \X Slot
    /\ Nested /\ StagesAbove /\ FdsAreThePrograms /\ DefaultSetAside

\* What a step may change of an activation it does not end.
Alike(a, b) ==
    /\ a.type = b.type /\ a.level = b.level
    /\ a.type = "pipe" => a.temps = b.temps
    /\ a.type = "script" => a.scoped = b.scoped
    /\ a.type = "segment" => a.saved = b.saved /\ a.sub = b.sub

\* The same activations, but for what the last one has done.
Continues(stk) ==
    /\ stk \in Seq(Activation) /\ Len(stk) = Len(stack)
    /\ \A i \in 1 .. Len(stack) : Alike(stk[i], stack[i])

LEMMA StackLen ==
    ASSUME Control
    PROVE  Len(stack) \in Nat /\ DOMAIN stack = 1 .. Len(stack)
           /\ (stack = << >> => Len(stack) = 0)
           /\ (stack # << >> => Len(stack) \in Nat \ {0})
<1>1. stack \in Seq(Activation)
  BY DEF Control
<1> QED BY <1>1

LEMMA StackTypes ==
    ASSUME Control
    PROVE  /\ \A i \in 1 .. Len(stack) : stack[i] \in Activation
           /\ stack # << >> => /\ Top = stack[Len(stack)]
                               /\ Len(stack) \in DOMAIN stack
                               /\ Top \in Activation /\ Front(stack) \in Seq(Activation)
                               /\ Len(Front(stack)) = Len(stack) - 1
                               /\ DOMAIN Front(stack) = 1 .. Len(stack) - 1
                               /\ \A i \in 1 .. Len(stack) - 1 : Front(stack)[i] = stack[i]
<1>1. stack \in Seq(Activation)
  BY DEF Control
<1>2. ASSUME stack # << >>
      PROVE  /\ Top = stack[Len(stack)]
             /\ Top \in Activation /\ Front(stack) \in Seq(Activation)
             /\ Len(Front(stack)) = Len(stack) - 1
             /\ DOMAIN Front(stack) = 1 .. Len(stack) - 1
             /\ \A i \in 1 .. Len(stack) - 1 : Front(stack)[i] = stack[i]
  BY <1>1, <1>2, Popped DEF Top
<1>3. \A i \in 1 .. Len(stack) : stack[i] \in Activation
  BY <1>1
<1>4. stack # << >> => Len(stack) \in DOMAIN stack
  BY StackLen
<1> QED BY <1>2, <1>3, <1>4

LEMMA FrameTypes ==
    ASSUME Control
    PROVE  /\ Len(frames) \in Nat \ {0} /\ frames # << >> /\ DOMAIN frames = 1 .. Len(frames)
           /\ \A i \in 1 .. Len(frames) : frames[i] \in Stdio
           /\ Last(frames) = frames[Len(frames)] /\ Last(frames) \in Stdio
           /\ Front(frames) \in Seq(Stdio) /\ Len(Front(frames)) = Len(frames) - 1
           /\ DOMAIN Front(frames) = 1 .. Len(frames) - 1
           /\ \A i \in 1 .. Len(frames) - 1 : Front(frames)[i] = frames[i]
           /\ Len(frames) = IF stack = << >> THEN 1 ELSE Top.level
<1>1. frames \in Seq(Stdio) /\ Len(frames) = LevelOf(Len(stack))
  BY DEF Control, Nested
<1>2. Len(frames) = IF stack = << >> THEN 1 ELSE Top.level
  BY <1>1, StackLen, StackTypes DEF LevelOf
<1>3. Len(frames) \in Nat \ {0}
  <2>1. stack # << >> => Top.level \in Nat \ {0}
    BY StackTypes DEF Activation, ProgramActivation, ScriptActivation, PipeActivation,
                      SegmentActivation
  <2> QED BY <1>2, <2>1
<1>4. frames # << >> /\ DOMAIN frames = 1 .. Len(frames)
      /\ \A i \in 1 .. Len(frames) : frames[i] \in Stdio
  BY <1>1, <1>3
<1>5. /\ Last(frames) = frames[Len(frames)] /\ Last(frames) \in Stdio
      /\ Front(frames) \in Seq(Stdio) /\ Len(Front(frames)) = Len(frames) - 1
      /\ DOMAIN Front(frames) = 1 .. Len(frames) - 1
      /\ \A i \in 1 .. Len(frames) - 1 : Front(frames)[i] = frames[i]
  BY <1>1, <1>4, Popped
<1> QED BY <1>2, <1>3, <1>4, <1>5

\* The kinds of activation have their own fields.
LEMMA Kinds ==
    ASSUME NEW a \in Activation
    PROVE  /\ a.type \in {"program", "script", "pipe", "segment"} /\ a.level \in Nat \ {0}
           /\ a.type = "program" => a \in ProgramActivation
           /\ a.type = "script" => a \in ScriptActivation
           /\ a.type = "pipe" => a \in PipeActivation
           /\ a.type = "segment" => a \in SegmentActivation
  BY DEF Activation, ProgramActivation, ScriptActivation, PipeActivation, SegmentActivation

\* The last activation is changed.
LEMMA TopContinues ==
    ASSUME Control, stack # << >>, NEW a \in Activation, Alike(a, Top)
    PROVE  Continues(Append(Front(stack), a))
<1>1. /\ stack \in Seq(Activation) /\ Len(stack) \in Nat \ {0} /\ Top = stack[Len(stack)]
  BY StackLen, StackTypes DEF Control
<1>2. /\ Append(Front(stack), a) \in Seq(Activation)
      /\ Len(Append(Front(stack), a)) = Len(stack)
      /\ \A i \in 1 .. Len(stack) - 1 : Append(Front(stack), a)[i] = stack[i]
      /\ Append(Front(stack), a)[Len(stack)] = a
  BY <1>1, Retopped
<1>3. \A i \in 1 .. Len(stack) : i \in 1 .. Len(stack) - 1 \/ i = Len(stack)
  BY <1>1, UpTo
<1>4. \A b : Alike(b, b)
  BY DEF Alike
<1> QED BY <1>1, <1>2, <1>3, <1>4 DEF Continues

LEMMA SameContinues ==
    ASSUME Control
    PROVE  Continues(stack)
<1>1. \A a : Alike(a, a)
  BY DEF Alike
<1> QED BY <1>1 DEF Control, Continues

\* A script with a line less.
LEMMA RestContinues ==
    ASSUME Control, AtLine
    PROVE  Continues(Rest)
<1>1. CASE stack = << >>
  BY <1>1, SameContinues DEF Rest
<1>2. CASE stack # << >>
  <2> DEFINE a == [Top EXCEPT !.left = @ - 1]
  <2>1. Top \in ScriptActivation /\ Top.left \in 0 .. MaxLines /\ Top.left > 0
    BY <1>2, StackTypes, Kinds DEF AtLine, ScriptActivation
  <2>2. MaxLines \in Nat
    BY ShellExecAssumption
  <2>3. Top.left - 1 \in 0 .. MaxLines
    BY <2>1, <2>2
  <2>4. a \in ScriptActivation /\ Alike(a, Top)
    BY <2>1, <2>3 DEF ScriptActivation, Alike
  <2>5. a \in Activation
    BY <2>4 DEF Activation
  <2>6. Rest = Append(Front(stack), a)
    BY <1>2 DEF Rest
  <2> QED BY <1>2, <2>4, <2>5, <2>6, TopContinues
<1> QED BY <1>1, <1>2

\* A segment that has run its command.
LEMMA DoneContinues ==
    ASSUME Control, InSegment
    PROVE  Continues(Done)
<1> DEFINE a == [Top EXCEPT !.ran = TRUE]
<1>1. stack # << >> /\ Top \in SegmentActivation
  BY StackTypes, Kinds DEF InSegment
<1>2. a \in SegmentActivation /\ Alike(a, Top)
  BY <1>1 DEF SegmentActivation, Alike
<1>3. a \in Activation
  BY <1>2 DEF Activation
<1> QED BY <1>1, <1>2, <1>3, TopContinues DEF Done

LEMMA Levels ==
    ASSUME Control
    PROVE  /\ \A i \in 0 .. Len(stack) : LevelOf(i) \in Nat \ {0}
           /\ LevelOf(Len(stack)) = Len(frames)
           /\ \A i \in 1 .. Len(stack) :
                  LevelOf(i) = LevelOf(i - 1) + (IF Scopes(stack[i]) THEN 1 ELSE 0)
<1>1. \A i \in 1 .. Len(stack) : stack[i].level \in Nat \ {0}
  BY StackTypes, Kinds
<1>0. Len(stack) \in Nat
  BY StackLen
<1>2. \A i \in 0 .. Len(stack) : i = 0 \/ i \in 1 .. Len(stack)
  BY <1>0
<1>3. DOMAIN stack = 1 .. Len(stack)
  BY StackLen
<1>4. \A i \in 1 .. Len(stack) : i # 0
  BY <1>0
<1>5. \A i \in 0 .. Len(stack) : LevelOf(i) \in Nat \ {0}
  BY <1>1, <1>2 DEF LevelOf
<1>6. \A i \in 1 .. Len(stack) : LevelOf(i) = stack[i].level
  BY <1>4 DEF LevelOf
<1> QED BY <1>3, <1>5, <1>6 DEF Control, Nested

\* An activation begins, on a frame of its own or on the one there is.
LEMMA Begins ==
    ASSUME Control, NEW base, Continues(base), NEW a \in Activation,
           stack' = Append(base, a), frames' \in Seq(Stdio),
           a.level = Len(frames'), Len(frames') = Len(frames) + (IF Scopes(a) THEN 1 ELSE 0),
           \A l \in 1 .. Len(frames) : frames'[l] = frames[l],
           stack # << >> /\ Top.type = "pipe" => Scopes(a),
           a.type = "segment" /\ ~a.sub => a.saved = Last(frames),
           fds' \subseteq (0 .. 3) \X Slot, fds' # {} => a.type = "program"
    PROVE  Control'
<1>1. /\ Len(stack) \in Nat /\ DOMAIN stack = 1 .. Len(stack)
      /\ stack # << >> => Len(stack) \in Nat \ {0} /\ Top = stack[Len(stack)]
      /\ stack = << >> => Len(stack) = 0
  BY StackLen, StackTypes
<1>2. /\ stack' \in Seq(Activation) /\ Len(stack') = Len(stack) + 1
      /\ DOMAIN stack' = 1 .. Len(stack) + 1 /\ stack' # << >>
      /\ \A i \in 1 .. Len(stack) : Alike(stack'[i], stack[i])
      /\ stack'[Len(stack) + 1] = a
  <2>1. base \in Seq(Activation) /\ Len(base) = Len(stack)
        /\ \A i \in 1 .. Len(stack) : Alike(base[i], stack[i])
    BY DEF Continues
  <2>2. /\ Append(base, a) \in Seq(Activation)
        /\ Len(Append(base, a)) = Len(base) + 1
        /\ DOMAIN Append(base, a) = 1 .. Len(base) + 1
        /\ \A i \in 1 .. Len(base) : Append(base, a)[i] = base[i]
        /\ Append(base, a)[Len(base) + 1] = a
        /\ Append(base, a) # << >>
    BY <2>1, Pushed
  <2> QED BY <2>1, <2>2
<1>3. /\ Len(frames) \in Nat \ {0} /\ Last(frames) = frames[Len(frames)]
      /\ Len(frames) = IF stack = << >> THEN 1 ELSE Top.level
  BY FrameTypes
<1>4. \A i \in 1 .. Len(stack) + 1 : i \in 1 .. Len(stack) \/ i = Len(stack) + 1
  BY <1>1
<1>5. \A i \in 1 .. Len(stack) :
         /\ stack'[i].type = stack[i].type /\ stack'[i].level = stack[i].level
         /\ Scopes(stack'[i]) <=> Scopes(stack[i])
         /\ OnShellFrame(stack'[i]) <=> OnShellFrame(stack[i])
         /\ OnShellFrame(stack[i]) => stack'[i].saved = stack[i].saved
  BY <1>2 DEF Alike, Scopes, OnShellFrame
<1>6. Nested'
  <2>1. \A i \in 0 .. Len(stack) : LevelOf(i)' = LevelOf(i)
    <3>1. \A i \in 0 .. Len(stack) : i = 0 \/ i \in 1 .. Len(stack)
      BY <1>1
    <3> QED BY <1>5, <3>1 DEF LevelOf
  <2>2. ASSUME NEW i \in 1 .. Len(stack) + 1
        PROVE  stack'[i].level = LevelOf(i - 1)' + (IF Scopes(stack'[i]) THEN 1 ELSE 0)
    <3>1. i - 1 \in 0 .. Len(stack)
      BY <1>1
    <3>2. CASE i \in 1 .. Len(stack)
      <4>1. stack[i].level = LevelOf(i - 1) + (IF Scopes(stack[i]) THEN 1 ELSE 0)
        BY <1>1, <3>2 DEF Control, Nested
      <4> QED BY <1>5, <2>1, <3>1, <3>2, <4>1
    <3>3. CASE i = Len(stack) + 1
      <4>1. LevelOf(Len(stack)) = Len(frames)
        BY Levels
      <4>2. i - 1 = Len(stack)
        BY <1>1, <3>3
      <4>3. LevelOf(i - 1)' = Len(frames)
        BY <2>1, <3>1, <4>1, <4>2
      <4> QED BY <1>2, <3>3, <4>3
    <3> QED BY <1>4, <3>2, <3>3
  <2>3. Len(frames') = LevelOf(Len(stack))'
    <3>1. Len(stack') # 0 /\ stack'[Len(stack')] = a
      BY <1>1, <1>2
    <3> QED BY <3>1 DEF LevelOf
  <2> QED BY <1>2, <2>2, <2>3 DEF Nested
<1>7. StagesAbove'
  <2> SUFFICES ASSUME NEW i \in 1 .. Len(stack) + 1, NEW j \in 1 .. Len(stack) + 1,
                      i < j, stack'[i].type = "pipe"
               PROVE  stack'[i].level < stack'[j].level
    BY <1>2 DEF StagesAbove
  <2>1. i \in 1 .. Len(stack)
    BY <1>1
  <2>2. CASE j \in 1 .. Len(stack)
    BY <1>1, <1>5, <2>1, <2>2 DEF Control, StagesAbove
  <2>3. CASE j = Len(stack) + 1
    <3>1. stack # << >> /\ Len(stack) \in DOMAIN stack
      BY <1>1, <2>1
    <3>2. CASE i = Len(stack)
      <4>1. Top.type = "pipe" /\ stack'[i].level = Top.level
        BY <1>1, <1>5, <2>1, <3>1, <3>2
      <4>2. Scopes(a)
        BY <3>1, <4>1
      <4> QED BY <1>2, <1>3, <2>3, <3>1, <4>1, <4>2
    <3>3. CASE i # Len(stack)
      <4>0. Len(stack) \in Nat
        BY <1>1
      <4>1. i < Len(stack)
        BY <2>1, <3>3, <4>0
      <4>2. stack[i].level < Top.level
        BY <1>1, <1>5, <2>1, <3>1, <4>1 DEF Control, StagesAbove
      <4>3. stack[i].level \in Nat
        BY <2>1, StackTypes, Kinds
      <4> QED BY <1>2, <1>3, <1>5, <2>1, <2>3, <3>1, <4>2, <4>3
    <3> QED BY <3>2, <3>3
  <2> QED BY <1>4, <2>2, <2>3
<1>8. DefaultSetAside'
  <2>1. ASSUME \A i \in 1 .. Len(stack) : ~OnShellFrame(stack[i])
        PROVE  frames[1] = DefaultStdio
    BY <1>1, <2>1 DEF Control, DefaultSetAside
  <2>2. frames'[1] = frames[1]
    BY <1>3
  <2>3. ASSUME \A i \in 1 .. Len(stack) + 1 : ~OnShellFrame(stack'[i])
        PROVE  frames'[1] = DefaultStdio
    <3>1. \A i \in 1 .. Len(stack) : i \in 1 .. Len(stack) + 1
      BY <1>1
    <3> QED BY <1>5, <2>1, <2>2, <2>3, <3>1
  <2>4. ASSUME NEW i \in 1 .. Len(stack) + 1, OnShellFrame(stack'[i]),
               \A j \in 1 .. i - 1 : ~OnShellFrame(stack'[j])
        PROVE  stack'[i].saved = DefaultStdio
    <3>1. \A j \in 1 .. i - 1 : j \in 1 .. Len(stack)
      BY <1>1
    <3>2. \A j \in 1 .. i - 1 : ~OnShellFrame(stack[j])
      BY <1>5, <2>4, <3>1
    <3>3. CASE i \in 1 .. Len(stack)
      BY <1>1, <1>5, <2>4, <3>2, <3>3 DEF Control, DefaultSetAside
    <3>4. CASE i = Len(stack) + 1
      <4>1. stack'[i] = a /\ 1 .. i - 1 = 1 .. Len(stack)
        BY <1>1, <1>2, <3>4
      <4>2. frames[1] = DefaultStdio
        BY <2>1, <3>2, <4>1
      <4>3. a.type = "segment" /\ ~a.sub /\ a.level = 1
        BY <2>4, <4>1 DEF OnShellFrame
      <4>4. Len(frames) = 1
        BY <1>3, <4>3 DEF Scopes
      <4> QED BY <1>3, <4>1, <4>2, <4>3, <4>4
    <3> QED BY <1>4, <3>3, <3>4
  <2> QED BY <1>2, <2>3, <2>4 DEF DefaultSetAside
<1>9. FdsAreThePrograms'
  <2>1. Top' = a
    BY <1>2, Popped DEF Top
  <2> QED BY <1>2, <2>1 DEF FdsAreThePrograms
<1> QED BY <1>2, <1>6, <1>7, <1>8, <1>9 DEF Control

\* The last activation ends: a scope's frame goes, with_stdio's streams come back.
LEMMA Ends ==
    ASSUME Control, stack # << >>, stack' = Front(stack), frames' \in Seq(Stdio),
           Len(frames') = Len(frames) - (IF Scopes(Top) THEN 1 ELSE 0),
           \A l \in 1 .. Len(frames') :
               frames'[l] = IF l = Len(frames') /\ Top.type = "segment" /\ ~Top.sub
                            THEN Top.saved ELSE frames[l],
           fds' = {}
    PROVE  Control'
<1>1. /\ Len(stack) \in Nat \ {0} /\ DOMAIN stack = 1 .. Len(stack) /\ Top = stack[Len(stack)]
      /\ Len(stack) \in DOMAIN stack
  BY StackLen, StackTypes
<1>2. /\ stack' \in Seq(Activation) /\ Len(stack') = Len(stack) - 1
      /\ DOMAIN stack' = 1 .. Len(stack) - 1
      /\ \A i \in 1 .. Len(stack) - 1 : stack'[i] = stack[i]
  BY StackLen, StackTypes
<1>3. /\ Len(frames) \in Nat \ {0} /\ Len(frames) = Top.level
  BY FrameTypes
<1>4. \A i \in 1 .. Len(stack) - 1 : i \in 1 .. Len(stack)
  BY <1>1
<1>5. Nested'
  <2>1. \A i \in 0 .. Len(stack) - 1 : LevelOf(i)' = LevelOf(i)
    <3>1. \A i \in 0 .. Len(stack) - 1 : i = 0 \/ i \in 1 .. Len(stack) - 1
      BY <1>1
    <3> QED BY <1>2, <3>1 DEF LevelOf
  <2>2. \A i \in 1 .. Len(stack) - 1 : i - 1 \in 0 .. Len(stack) - 1
    BY <1>1
  <2>3. \A i \in 1 .. Len(stack) - 1 :
           stack[i].level = LevelOf(i - 1) + (IF Scopes(stack[i]) THEN 1 ELSE 0)
    BY <1>1, <1>4 DEF Control, Nested
  <2>4. Top.level = LevelOf(Len(stack) - 1) + (IF Scopes(Top) THEN 1 ELSE 0)
    BY <1>1 DEF Control, Nested
  <2>5. Len(stack) - 1 \in 0 .. Len(stack) - 1 /\ LevelOf(Len(stack) - 1) \in Nat \ {0}
    <3>1. Len(stack) - 1 \in 0 .. Len(stack) - 1 /\ Len(stack) - 1 \in 0 .. Len(stack)
      BY <1>1
    <3> QED BY <3>1, Levels
  <2>6. Len(frames') = LevelOf(Len(stack) - 1)
    BY <1>3, <2>4, <2>5
  <2>7. Len(frames') = LevelOf(Len(stack))'
    <3>1. \A k \in 0 .. Len(stack) - 1 : k = Len(stack) - 1 => LevelOf(k)' = Len(frames')
      BY <2>1, <2>6
    <3> QED BY <1>2, <2>5, <3>1
  <2> QED BY <1>2, <2>1, <2>2, <2>3, <2>7 DEF Nested
<1>6. StagesAbove'
  <2> SUFFICES ASSUME NEW i \in 1 .. Len(stack) - 1, NEW j \in 1 .. Len(stack) - 1,
                      i < j, stack'[i].type = "pipe"
               PROVE  stack'[i].level < stack'[j].level
    BY <1>2 DEF StagesAbove
  <2>1. i \in DOMAIN stack /\ j \in DOMAIN stack /\ stack'[i] = stack[i] /\ stack'[j] = stack[j]
    BY <1>1, <1>2, <1>4
  <2> QED BY <2>1 DEF Control, StagesAbove
<1>7. DefaultSetAside'
  <2>1. ASSUME NEW i \in 1 .. Len(stack) - 1, OnShellFrame(stack'[i]),
               \A j \in 1 .. i - 1 : ~OnShellFrame(stack'[j])
        PROVE  stack'[i].saved = DefaultStdio
    <3>1. \A j \in 1 .. i - 1 : j \in 1 .. Len(stack) - 1
      BY <1>1
    <3>2. \A j \in 1 .. i - 1 : ~OnShellFrame(stack[j])
      BY <1>2, <2>1, <3>1
    <3> QED BY <1>1, <1>2, <1>4, <2>1, <3>2 DEF Control, DefaultSetAside
  <2>2. ASSUME \A i \in 1 .. Len(stack) - 1 : ~OnShellFrame(stack'[i])
        PROVE  frames'[1] = DefaultStdio
    <3>1. \A i \in 1 .. Len(stack) - 1 : ~OnShellFrame(stack[i])
      BY <1>2, <2>2
    <3>2. \A i \in 1 .. Len(stack) : i \in 1 .. Len(stack) - 1 \/ i = Len(stack)
      BY <1>1, UpTo
    <3>3. Scopes(Top) => Len(frames) # 1
      <4>1. Top.level = LevelOf(Len(stack) - 1) + (IF Scopes(Top) THEN 1 ELSE 0)
        BY <1>1 DEF Control, Nested
      <4>2. Len(stack) - 1 \in 0 .. Len(stack)
        BY <1>1
      <4>3. LevelOf(Len(stack) - 1) \in Nat \ {0}
        BY <4>2, Levels
      <4> QED BY <1>3, <4>1, <4>3
    <3>4. Len(frames') \in Nat \ {0} /\ 1 \in 1 .. Len(frames')
      <4>1. Len(frames') \in Nat \ {0}
        BY <1>3, <3>3
      <4>2. \A n \in Nat \ {0} : 1 \in 1 .. n
        OBVIOUS
      <4> QED BY <4>1, <4>2
    <3>5. CASE OnShellFrame(Top)
      <4>1. Top.saved = DefaultStdio
        <5>1. OnShellFrame(stack[Len(stack)])
              /\ \A j \in 1 .. Len(stack) - 1 : ~OnShellFrame(stack[j])
          BY <1>1, <3>1, <3>5
        <5>2. stack[Len(stack)].saved = DefaultStdio
          BY <1>1, <5>1 DEF Control, DefaultSetAside
        <5> QED BY <1>1, <5>2
      <4>2. Top.type = "segment" /\ ~Top.sub /\ Len(frames') = 1
        BY <1>3, <3>5 DEF OnShellFrame, Scopes
      <4>4. frames'[1] = Top.saved
        BY <3>4, <4>2
      <4> QED BY <4>1, <4>4
    <3>6. CASE ~OnShellFrame(Top)
      <4>1. frames[1] = DefaultStdio
        BY <1>1, <3>1, <3>2, <3>6 DEF Control, DefaultSetAside
      <4>2. ~(1 = Len(frames') /\ Top.type = "segment" /\ ~Top.sub)
        BY <1>3, <3>6 DEF OnShellFrame, Scopes
      <4> QED BY <3>4, <4>1, <4>2
    <3> QED BY <3>5, <3>6
  <2> QED BY <1>2, <2>1, <2>2 DEF DefaultSetAside
<1> QED BY <1>2, <1>5, <1>6, <1>7 DEF Control, FdsAreThePrograms

\* The last activation goes on, a segment's streams may change.
LEMMA GoesOn ==
    ASSUME Control, NEW base, Continues(base), stack' = base, frames' \in Seq(Stdio),
           Len(frames') = Len(frames), \A l \in 1 .. Len(frames) - 1 : frames'[l] = frames[l],
           frames' = frames \/ (stack # << >> /\ Top.type = "segment"),
           fds' \subseteq (0 .. 3) \X Slot,
           fds' # {} => stack # << >> /\ Top.type = "program"
    PROVE  Control'
<1>1. /\ Len(stack) \in Nat /\ DOMAIN stack = 1 .. Len(stack)
      /\ stack # << >> => /\ Len(stack) \in Nat \ {0} /\ Top = stack[Len(stack)]
                          /\ Len(stack) \in DOMAIN stack
      /\ stack = << >> => Len(stack) = 0
  BY StackLen, StackTypes
<1>2. /\ stack' \in Seq(Activation) /\ Len(stack') = Len(stack)
      /\ DOMAIN stack' = 1 .. Len(stack)
      /\ \A i \in 1 .. Len(stack) : Alike(stack'[i], stack[i])
  <2>1. base \in Seq(Activation) /\ Len(base) = Len(stack)
        /\ \A i \in 1 .. Len(stack) : Alike(base[i], stack[i])
    BY DEF Continues
  <2> QED BY <2>1
<1>3. Len(frames) \in Nat \ {0} /\ (stack # << >> => Len(frames) = Top.level)
  BY FrameTypes
<1>5. \A i \in 1 .. Len(stack) :
         /\ stack'[i].type = stack[i].type /\ stack'[i].level = stack[i].level
         /\ Scopes(stack'[i]) <=> Scopes(stack[i])
         /\ OnShellFrame(stack'[i]) <=> OnShellFrame(stack[i])
         /\ OnShellFrame(stack[i]) => stack'[i].saved = stack[i].saved
  BY <1>2 DEF Alike, Scopes, OnShellFrame
<1>6. Nested'
  <2>1. \A i \in 0 .. Len(stack) : LevelOf(i)' = LevelOf(i)
    <3>1. \A i \in 0 .. Len(stack) : i = 0 \/ i \in 1 .. Len(stack)
      BY <1>1
    <3> QED BY <1>5, <3>1 DEF LevelOf
  <2>2. \A i \in 1 .. Len(stack) : i - 1 \in 0 .. Len(stack)
    BY <1>1
  <2>3. \A i \in 1 .. Len(stack) :
           stack[i].level = LevelOf(i - 1) + (IF Scopes(stack[i]) THEN 1 ELSE 0)
    BY <1>1 DEF Control, Nested
  <2>4. Len(stack) \in 0 .. Len(stack)
    BY <1>1
  <2>5. Len(frames') = LevelOf(Len(stack))'
    <3>1. LevelOf(Len(stack)) = Len(frames)
      BY Levels
    <3>2. \A k \in 0 .. Len(stack) : k = Len(stack) => LevelOf(k)' = Len(frames')
      BY <2>1, <3>1
    <3> QED BY <1>2, <2>4, <3>2
  <2> QED BY <1>2, <1>5, <2>1, <2>2, <2>3, <2>5 DEF Nested
<1>7. StagesAbove'
  BY <1>1, <1>2, <1>5 DEF Control, StagesAbove
<1>8. DefaultSetAside'
  <2>1. ASSUME NEW i \in 1 .. Len(stack), OnShellFrame(stack'[i]),
               \A j \in 1 .. i - 1 : ~OnShellFrame(stack'[j])
        PROVE  stack'[i].saved = DefaultStdio
    <3>1. \A j \in 1 .. i - 1 : j \in 1 .. Len(stack)
      BY <1>1
    <3>2. \A j \in 1 .. i - 1 : ~OnShellFrame(stack[j])
      BY <1>5, <2>1, <3>1
    <3> QED BY <1>1, <1>5, <2>1, <3>2 DEF Control, DefaultSetAside
  <2>2. ASSUME \A i \in 1 .. Len(stack) : ~OnShellFrame(stack'[i])
        PROVE  frames'[1] = DefaultStdio
    <3>1. \A i \in 1 .. Len(stack) : ~OnShellFrame(stack[i])
      BY <1>5, <2>2
    <3>2. frames[1] = DefaultStdio
      BY <1>1, <3>1 DEF Control, DefaultSetAside
    <3>3. CASE frames' = frames
      BY <3>2, <3>3
    <3>4. CASE stack # << >> /\ Top.type = "segment"
      <4>1. Len(frames) # 1
        <5>1. SUFFICES ASSUME Len(frames) = 1 PROVE FALSE
          OBVIOUS
        <5>2. Top.level = 1
          BY <1>3, <3>4, <5>1
        <5>3. Top.level = LevelOf(Len(stack) - 1) + (IF Scopes(Top) THEN 1 ELSE 0)
          BY <1>1, <3>4 DEF Control, Nested
        <5>4. Len(stack) - 1 \in 0 .. Len(stack)
          BY <1>1, <3>4
        <5>5. LevelOf(Len(stack) - 1) \in Nat \ {0}
          BY <5>4, Levels
        <5>6. ~Scopes(Top)
          BY <5>2, <5>3, <5>5
        <5>7. OnShellFrame(Top)
          BY <3>4, <5>2, <5>6 DEF Scopes, OnShellFrame
        <5> QED BY <1>1, <3>1, <3>4, <5>7
      <4>2. 1 \in 1 .. Len(frames) - 1
        <5>1. Len(frames) \in Nat \ {0}
          BY <1>3
        <5> QED BY <4>1, <5>1
      <4> QED BY <3>2, <4>2
    <3> QED BY <3>3, <3>4
  <2> QED BY <1>2, <2>1, <2>2 DEF DefaultSetAside
<1>9. FdsAreThePrograms'
  <2> SUFFICES ASSUME fds' # {} PROVE stack' # << >> /\ Top'.type = "program"
    BY DEF FdsAreThePrograms
  <2>1. stack # << >> /\ Top.type = "program"
    OBVIOUS
  <2>2. stack' # << >>
    BY <1>1, <1>2, <2>1
  <2>3. Top' = stack'[Len(stack)]
    BY <1>2, <2>2, Popped DEF Top
  <2>4. stack'[Len(stack)].type = Top.type
    BY <1>1, <1>5, <2>1
  <2> QED BY <2>1, <2>2, <2>3, <2>4
<1> QED BY <1>2, <1>6, <1>7, <1>8, <1>9 DEF Control

-----------------------------------------------------------------------------
(* Opening.                                                                *)

\* What files::open is given and gives back.
Opening(at, path, mode, content, new) ==
    /\ MayOpen(at, path, mode)
    /\ new = Open(at, path, mode, content)

LEMMA OpenTakesFreeSlot ==
    ASSUME NEW at, NEW path, NEW mode, NEW content, NEW new, Opening(at, path, mode, content, new)
    PROVE  /\ new.id \in Slot /\ at.files[new.id] = Closed
           /\ new.files = [at.files EXCEPT ![new.id] =
                              [node |-> NodeOf(path), mode |-> mode, sees |-> at.disk[NodeOf(path)]]]
           /\ new.disk = IF mode = "w" THEN [at.disk EXCEPT ![NodeOf(path)] = content] ELSE at.disk
           /\ mode = "r" => at.disk[NodeOf(path)] # "none"
<1>1. \E f \in Slot : at.files[f] = Closed
  BY DEF Opening, MayOpen
<1>2. new.id = CHOOSE x \in Slot : at.files[x] = Closed
  BY DEF Opening, Open
<1>3. new.id \in Slot /\ at.files[new.id] = Closed
  BY <1>1, <1>2
<1>4. mode = "r" => at.disk[NodeOf(path)] # "none"
  BY DEF Opening, MayOpen
<1>5. new.disk = IF mode = "w" THEN [at.disk EXCEPT ![NodeOf(path)] = content] ELSE at.disk
  BY DEF Opening, Open
<1>6. new.files = [at.files EXCEPT ![new.id] =
                      [node |-> NodeOf(path), mode |-> mode, sees |-> at.disk[NodeOf(path)]]]
  BY <1>2 DEF Opening, Open
<1> QED BY <1>3, <1>4, <1>5, <1>6

\* The two files of a stage, the pipe before it and the pipe after it.
Reads(pipe) == pipe.at > 1
Feeds(pipe) == pipe.at < Len(pipe.temps) + 1

StageOpening(pipe, bound, in, out) ==
    /\ IF Reads(pipe) THEN Opening(Now, pipe.temps[pipe.at - 1], "r", "none", in) ELSE in = Now
    /\ IF Feeds(pipe) THEN Opening(in, pipe.temps[pipe.at], "w", "empty", out)
       ELSE out = [in EXCEPT !.id = Default]
    /\ bound.in = in.id /\ bound.out = out.id
    /\ bound.files = out.files /\ bound.disk = out.disk

LEMMA StageOpens ==
    ASSUME NEW pipe, NEW bound, bound = StageFiles(pipe), bound.ok
    PROVE  \E in, out : StageOpening(pipe, bound, in, out)
<1> DEFINE i == pipe.at
           r == IF i > 1 THEN Open(Now, pipe.temps[i - 1], "r", "none") ELSE Now
           w == IF i < Len(pipe.temps) + 1 THEN Open(r, pipe.temps[i], "w", "empty")
                ELSE [r EXCEPT !.id = Default]
<1>1. (i > 1 => MayOpen(Now, pipe.temps[i - 1], "r"))
      /\ (i < Len(pipe.temps) + 1 => MayOpen(r, pipe.temps[i], "w"))
  BY DEF StageFiles
<1>2. bound = [ok |-> TRUE, in |-> r.id, out |-> w.id, files |-> w.files, disk |-> w.disk]
  BY <1>1 DEF StageFiles
<1>3. IF Reads(pipe) THEN Opening(Now, pipe.temps[pipe.at - 1], "r", "none", r) ELSE r = Now
  BY <1>1 DEF Reads, Opening
<1>4. IF Feeds(pipe) THEN Opening(r, pipe.temps[pipe.at], "w", "empty", w)
      ELSE w = [r EXCEPT !.id = Default]
  BY <1>1 DEF Feeds, Opening
<1>5. bound.in = r.id /\ bound.out = w.id /\ bound.files = w.files /\ bound.disk = w.disk
  BY <1>2
<1> HIDE DEF r, w
<1> WITNESS r, w
<1> QED BY <1>3, <1>4, <1>5 DEF StageOpening

LEMMA StageIds ==
    ASSUME NEW pipe, NEW bound, bound = StageFiles(pipe), bound.ok
    PROVE  bound.in \in Slot \cup {Default} /\ bound.out \in Slot \cup {Default}
<1>0. PICK in, out : StageOpening(pipe, bound, in, out)
  BY StageOpens
<1>1. /\ IF Reads(pipe) THEN Opening(Now, pipe.temps[pipe.at - 1], "r", "none", in) ELSE in = Now
      /\ IF Feeds(pipe) THEN Opening(in, pipe.temps[pipe.at], "w", "empty", out)
         ELSE out = [in EXCEPT !.id = Default]
      /\ bound.in = in.id /\ bound.out = out.id
  BY <1>0 DEF StageOpening
<1>2. Now.id = Default
  BY DEF Now
<1>3. in.id \in Slot \cup {Default}
  BY <1>1, <1>2, OpenTakesFreeSlot
<1>4. out.id \in Slot \cup {Default}
  <2>1. CASE Feeds(pipe)
    BY <1>1, <2>1, OpenTakesFreeSlot
  <2>2. CASE ~Feeds(pipe)
    <3>1. in = [files |-> in.files, disk |-> in.disk, id |-> in.id]
      <4>1. CASE Reads(pipe)
        BY <1>1, <4>1 DEF Opening, Open
      <4>2. CASE ~Reads(pipe)
        BY <1>1, <4>2 DEF Now
      <4> QED BY <4>1, <4>2
    <3>2. out = [in EXCEPT !.id = Default]
      BY <1>1, <2>2
    <3> QED BY <3>1, <3>2
  <2> QED BY <2>1, <2>2
<1> QED BY <1>1, <1>3, <1>4

LEMMA DepthOfLine ==
    ASSUME Control, AtLine
    PROVE  /\ LineDepth \in 0 .. MaxDepth
           /\ stack # << >> => Top.type = "script"
<1>1. stack # << >> => Top \in ScriptActivation
  BY StackTypes, Kinds DEF AtLine
<1>2. MaxDepth \in Nat
  BY ShellExecAssumption
<1>3. CASE stack = << >>
  BY <1>2, <1>3 DEF LineDepth
<1>4. CASE stack # << >>
  <2>1. Top.depth \in 0 .. MaxDepth - 1
    BY <1>1, <1>4 DEF ScriptActivation
  <2>2. Top.depth + 1 \in 0 .. MaxDepth
    BY <1>2, <2>1
  <2> QED BY <1>4, <2>2 DEF LineDepth, AtLine
<1> QED BY <1>3, <1>4

LEMMA SegmentType ==
    ASSUME NEW level \in Nat \ {0}, NEW depth \in 0 .. MaxDepth, NEW saved \in Stdio
    PROVE  /\ Segment(level, depth, saved, FALSE) \in Activation
           /\ Segment(level, depth, saved, FALSE).type = "segment"
           /\ Segment(level, depth, saved, FALSE).level = level
           /\ Segment(level, depth, saved, FALSE).saved = saved
           /\ ~Segment(level, depth, saved, FALSE).sub
<1>1. 0 \in 0 .. MaxRedirs
  BY ShellExecAssumption
<1>2. Segment(level, depth, saved, FALSE) \in SegmentActivation
  BY <1>1 DEF Segment, SegmentActivation
<1> QED BY <1>2 DEF Segment, Activation

LEMMA StageType ==
    ASSUME NEW level \in Nat \ {0}, NEW depth \in 0 .. MaxDepth, NEW saved \in Stdio
    PROVE  /\ Segment(level, depth, saved, TRUE) \in Activation
           /\ Segment(level, depth, saved, TRUE).type = "segment"
           /\ Segment(level, depth, saved, TRUE).level = level
           /\ Segment(level, depth, saved, TRUE).saved = saved
           /\ Segment(level, depth, saved, TRUE).sub
<1>1. 0 \in 0 .. MaxRedirs
  BY ShellExecAssumption
<1>2. Segment(level, depth, saved, TRUE) \in SegmentActivation
  BY <1>1 DEF Segment, SegmentActivation
<1> QED BY <1>2 DEF Segment, Activation

LEMMA PipeType ==
    ASSUME Control, AtLine, NEW n \in Nat, NEW names \in PipePaths(n)
    PROVE  /\ Pipe(names) \in Activation /\ Pipe(names).type = "pipe"
           /\ Pipe(names).level = Len(frames) /\ Pipe(names).temps = names
           /\ names \in Seq(Temp) /\ DOMAIN names = 1 .. n
<1>1. names \in [1 .. n -> Temp]
  BY DEF PipePaths
<1>2. names \in Seq(Temp) /\ DOMAIN names = 1 .. n
  BY <1>1
<1>3. Pipe(names) \in PipeActivation
  BY <1>2, DepthOfLine, FrameTypes DEF Pipe, PipeActivation
<1> QED BY <1>2, <1>3 DEF Pipe, Activation

-----------------------------------------------------------------------------
(* The control is kept by every step.                                      *)

LEMMA ControlInit == Init => Control
<1> SUFFICES ASSUME Init PROVE Control
  OBVIOUS
<1>1. DefaultStdio \in Stdio
  BY DEF DefaultStdio, Stdio
<1>2. stack = << >> /\ frames = <<DefaultStdio>> /\ fds = {}
  BY DEF Init
<1>3. /\ stack \in Seq(Activation) /\ frames \in Seq(Stdio) /\ DOMAIN stack = {}
      /\ Len(frames) = 1 /\ Len(stack) = 0 /\ frames[1] = DefaultStdio
  BY <1>1, <1>2
<1>4. LevelOf(Len(stack)) = 1
  BY <1>3 DEF LevelOf
<1> QED BY <1>2, <1>3, <1>4 DEF Control, Nested, StagesAbove, FdsAreThePrograms, DefaultSetAside

LEMMA NoFdsHere ==
    ASSUME Control, stack = << >> \/ Top.type # "program"
    PROVE  fds = {}
  BY DEF Control, FdsAreThePrograms

\* A line of a script, or typed.
LEMMA LineKeepsControl ==
    ASSUME Control, Line
    PROVE  Control'
<1>1. Continues(Rest) /\ LineDepth \in 0 .. MaxDepth /\ (stack # << >> => Top.type = "script") /\ fds = {}
  <2>1. AtLine
    BY DEF Line, RunSegment, RunPipeline, RefusePipeline
  <2> QED BY <2>1, RestContinues, DepthOfLine, NoFdsHere
<1>2. /\ Len(frames) \in Nat \ {0} /\ Last(frames) \in Stdio /\ frames \in Seq(Stdio)
  BY FrameTypes DEF Control
<1>3. CASE RunSegment
  <2> DEFINE a == Segment(Len(frames), LineDepth, Last(frames), FALSE)
  <2>3. /\ a \in Activation /\ a.type = "segment" /\ a.level = Len(frames)
        /\ a.saved = Last(frames) /\ ~a.sub
    <3>1. Len(frames) \in Nat \ {0} /\ LineDepth \in 0 .. MaxDepth /\ Last(frames) \in Stdio
      BY <1>1, <1>2
    <3> QED BY <3>1, SegmentType
  <2>1. /\ a \in Activation /\ a.level = Len(frames) /\ a.saved = Last(frames) /\ ~Scopes(a)
    <3> HIDE DEF a
    <3> QED BY <2>3 DEF Scopes
  <2>2. stack' = Append(Rest, a) /\ frames' = frames /\ fds' = fds
    BY <1>3 DEF RunSegment, Release
  <2> HIDE DEF a
  <2> QED BY <1>1, <1>2, <2>1, <2>2, Begins
<1>4. ASSUME NEW n \in 2 .. MaxStages, RunPipeline(n) PROVE Control'
  <2>1. PICK names \in PipePaths(n - 1) : Release(Append(Rest, Pipe(names)), frames, fds, files, disk)
    BY <1>4 DEF RunPipeline
  <2>2. AtLine /\ n - 1 \in Nat
    BY <1>4 DEF RunPipeline
  <2>3. /\ Pipe(names) \in Activation /\ Pipe(names).type = "pipe"
        /\ Pipe(names).level = Len(frames)
    BY <2>2, PipeType
  <2>4. stack' = Append(Rest, Pipe(names)) /\ frames' = frames /\ fds' = fds
    BY <2>1 DEF Release
  <2>5. ~Scopes(Pipe(names))
    BY <2>3 DEF Scopes
  <2> QED BY <1>1, <1>2, <2>3, <2>4, <2>5, Begins
<1>5. ASSUME NEW n \in 2 .. MaxStages, RefusePipeline(n) PROVE Control'
  <2>1. stack' = Rest /\ frames' = frames /\ fds' = fds
    BY <1>5 DEF RefusePipeline, Release
  <2> QED BY <1>1, <1>2, <2>1, GoesOn
<1> QED BY <1>3, <1>4, <1>5 DEF Line

\* A stage's own streams over those of the frame.
Bound(bound, outer) ==
    [s \in Stream |-> IF s = 1 /\ bound.in # Default THEN bound.in
                      ELSE IF s = 2 /\ bound.out # Default THEN bound.out ELSE outer[s]]
Stage == Segment(Top.level + 1, Top.depth, Last(frames), TRUE)
AtNextStage == Append(Front(stack), [Top EXCEPT !.at = @ + 1])

LEMMA NextStage ==
    ASSUME Control, IsPipe
    PROVE  /\ Continues(AtNextStage)
           /\ Stage \in Activation /\ Stage.type = "segment" /\ Stage.level = Len(frames) + 1
           /\ Stage.saved = Last(frames) /\ Stage.sub
           /\ Len(frames) = Top.level /\ fds = {}
<1>1. stack # << >> /\ Top.type = "pipe" /\ Top \in PipeActivation
  BY StackTypes, Kinds DEF IsPipe
<1>2. Top.at + 1 \in Nat \ {0}
  BY <1>1 DEF PipeActivation
<1>3. [Top EXCEPT !.at = @ + 1] \in PipeActivation /\ Alike([Top EXCEPT !.at = @ + 1], Top)
  BY <1>1, <1>2 DEF PipeActivation, Alike
<1>4. [Top EXCEPT !.at = @ + 1] \in Activation
  BY <1>3 DEF Activation
<1>5. Continues(AtNextStage)
  BY <1>1, <1>3, <1>4, TopContinues DEF AtNextStage
<1>6. Len(frames) = Top.level /\ Top.level + 1 \in Nat \ {0} /\ Last(frames) \in Stdio
  BY <1>1, FrameTypes
<1>7. Top.depth \in 0 .. MaxDepth
  BY <1>1 DEF PipeActivation
<1>9. /\ Stage \in Activation /\ Stage.type = "segment" /\ Stage.level = Top.level + 1
      /\ Stage.saved = Last(frames) /\ Stage.sub
  BY <1>6, <1>7, StageType DEF Stage
<1>10. fds = {}
  BY <1>1, NoFdsHere
<1> QED BY <1>5, <1>6, <1>9, <1>10

LEMMA RunStageDoes ==
    ASSUME RunStage
    PROVE  /\ IsPipe /\ StageFiles(Top).ok
           /\ Release(Append(AtNextStage, Stage), Append(frames, Bound(StageFiles(Top), Last(frames))),
                      fds, StageFiles(Top).files, StageFiles(Top).disk)
           /\ UNCHANGED <<counter, tmpMounted>>
  BY DEF RunStage, AtNextStage, Stage, Bound

LEMMA StageKeepsControl ==
    ASSUME Control, RunStage
    PROVE  Control'
<1> DEFINE inner == Bound(StageFiles(Top), Last(frames))
<1>1. /\ IsPipe /\ StageFiles(Top).ok /\ stack' = Append(AtNextStage, Stage)
      /\ frames' = Append(frames, inner) /\ fds' = fds
  BY RunStageDoes DEF Release
<1>2. inner \in Stdio
  <2>1. StageFiles(Top).in \in Slot \cup {Default} /\ StageFiles(Top).out \in Slot \cup {Default}
    BY <1>1, StageIds
  <2>2. \A s \in Stream : Last(frames)[s] \in Slot \cup {Default}
    BY FrameTypes DEF Stdio
  <2> QED BY <2>1, <2>2 DEF Bound, Stdio
<1> HIDE DEF inner
<1>3. /\ frames' \in Seq(Stdio) /\ Len(frames') = Len(frames) + 1
      /\ \A l \in 1 .. Len(frames) : frames'[l] = frames[l]
  BY <1>1, <1>2, Pushed DEF Control
<1>4. Scopes(Stage)
  BY <1>1, NextStage DEF Scopes
<1> QED BY <1>1, <1>3, <1>4, NextStage, Begins

LEMMA PipelineEndKeepsControl ==
    ASSUME Control, AbortPipeline \/ EndPipeline
    PROVE  Control'
<1>1. /\ stack # << >> /\ Top.type = "pipe" /\ stack' = Front(stack)
      /\ frames' = frames /\ fds' = fds
  BY DEF AbortPipeline, EndPipeline, IsPipe, Release
<1>2. fds = {} /\ ~Scopes(Top) /\ Len(frames) \in Nat /\ frames \in Seq(Stdio)
  BY <1>1, NoFdsHere, FrameTypes DEF Scopes, Control
<1>3. Len(frames') = Len(frames) - (IF Scopes(Top) THEN 1 ELSE 0)
  BY <1>1, <1>2
<1> QED BY <1>1, <1>2, <1>3, Ends

\* A redirection changes the streams of the top frame.
LEMMA RedirectDoes ==
    ASSUME Redirect
    PROVE  \E stdio, fs, dk :
              /\ InSegment /\ Top.redirs < MaxRedirs
              /\ Release(Append(Front(stack), [Top EXCEPT !.redirs = @ + 1]), TopStdio(stdio), fds, fs, dk)
              /\ \/ \E path \in UserPath, io \in {<<"r", 1>>, <<"w", 2>>} : \E new :
                       /\ Opening(Now, path, io[1], "user", new)
                       /\ stdio = [Last(frames) EXCEPT ![io[2]] = new.id]
                       /\ fs = new.files /\ dk = new.disk
                 \/ stdio = [Last(frames) EXCEPT ![3] = Last(frames)[2]] /\ fs = files /\ dk = disk
<1>1. ASSUME NEW path \in UserPath, NEW io \in {<<"r", 1>>, <<"w", 2>>}, MayOpen(Now, path, io[1]),
             NEW new, new = Open(Now, path, io[1], "user"),
             Release(Append(Front(stack), [Top EXCEPT !.redirs = @ + 1]),
                     TopStdio([Last(frames) EXCEPT ![io[2]] = new.id]), fds, new.files, new.disk)
      PROVE  \E stdio, fs, dk :
                /\ Release(Append(Front(stack), [Top EXCEPT !.redirs = @ + 1]), TopStdio(stdio), fds, fs, dk)
                /\ \E p \in UserPath, o \in {<<"r", 1>>, <<"w", 2>>} : \E n :
                       /\ Opening(Now, p, o[1], "user", n)
                       /\ stdio = [Last(frames) EXCEPT ![o[2]] = n.id]
                       /\ fs = n.files /\ dk = n.disk
  <2>1. Opening(Now, path, io[1], "user", new)
    BY <1>1 DEF Opening
  <2> QED BY <1>1, <2>1
<1>2. InSegment /\ Top.redirs < MaxRedirs
  BY DEF Redirect
<1>3. CASE \E path \in UserPath, io \in {<<"r", 1>>, <<"w", 2>>} :
              /\ MayOpen(Now, path, io[1])
              /\ Release(Append(Front(stack), [Top EXCEPT !.redirs = @ + 1]),
                         TopStdio([Last(frames) EXCEPT ![io[2]] = Open(Now, path, io[1], "user").id]), fds,
                         Open(Now, path, io[1], "user").files, Open(Now, path, io[1], "user").disk)
  BY <1>1, <1>2, <1>3
<1>4. CASE Release(Append(Front(stack), [Top EXCEPT !.redirs = @ + 1]),
                   TopStdio([Last(frames) EXCEPT ![3] = Last(frames)[2]]), fds, files, disk)
  BY <1>2, <1>4
<1> QED BY <1>3, <1>4 DEF Redirect

LEMMA TopStdioIs ==
    ASSUME Control, NEW stdio \in Stdio
    PROVE  /\ TopStdio(stdio) \in Seq(Stdio) /\ Len(TopStdio(stdio)) = Len(frames)
           /\ DOMAIN TopStdio(stdio) = 1 .. Len(frames)
           /\ \A l \in 1 .. Len(frames) - 1 : TopStdio(stdio)[l] = frames[l]
           /\ TopStdio(stdio)[Len(frames)] = stdio
<1>1. frames \in Seq(Stdio) /\ frames # << >>
  BY FrameTypes DEF Control
<1> QED BY <1>1, Retopped DEF TopStdio

\* The streams that a redirection leaves.
LEMMA RedirectedType ==
    ASSUME Control, NEW stdio,
           \/ \E path \in UserPath, io \in {<<"r", 1>>, <<"w", 2>>} : \E new :
                 /\ Opening(Now, path, io[1], "user", new)
                 /\ stdio = [Last(frames) EXCEPT ![io[2]] = new.id]
           \/ stdio = [Last(frames) EXCEPT ![3] = Last(frames)[2]]
    PROVE  stdio \in Stdio
<1>1. Last(frames) \in Stdio
  BY FrameTypes
<1>2. CASE stdio = [Last(frames) EXCEPT ![3] = Last(frames)[2]]
  BY <1>1, <1>2 DEF Stdio, Stream
<1>3. ASSUME NEW path \in UserPath, NEW io \in {<<"r", 1>>, <<"w", 2>>}, NEW new,
             Opening(Now, path, io[1], "user", new),
             stdio = [Last(frames) EXCEPT ![io[2]] = new.id]
      PROVE  stdio \in Stdio
  <2>1. new.id \in Slot
    BY <1>3, OpenTakesFreeSlot
  <2> QED BY <1>1, <1>3, <2>1 DEF Stdio
<1> QED BY <1>2, <1>3

LEMMA RedirectContinues ==
    ASSUME Control, InSegment, Top.redirs < MaxRedirs
    PROVE  Continues(Append(Front(stack), [Top EXCEPT !.redirs = @ + 1]))
<1>1. stack # << >> /\ Top \in SegmentActivation
  BY StackTypes, Kinds DEF InSegment
<1>2. Top.redirs + 1 \in 0 .. MaxRedirs
  <2>1. Top.redirs \in 0 .. MaxRedirs /\ MaxRedirs \in Nat
    BY <1>1, ShellExecAssumption DEF SegmentActivation
  <2> QED BY <2>1
<1>3. [Top EXCEPT !.redirs = @ + 1] \in SegmentActivation /\ Alike([Top EXCEPT !.redirs = @ + 1], Top)
  BY <1>1, <1>2 DEF SegmentActivation, Alike
<1>4. [Top EXCEPT !.redirs = @ + 1] \in Activation
  BY <1>3 DEF Activation
<1> QED BY <1>1, <1>3, <1>4, TopContinues

LEMMA RedirectKeepsControl ==
    ASSUME Control, Redirect
    PROVE  Control'
<1>1. PICK stdio, fs, dk :
         /\ InSegment /\ Top.redirs < MaxRedirs
         /\ Release(Append(Front(stack), [Top EXCEPT !.redirs = @ + 1]), TopStdio(stdio), fds, fs, dk)
         /\ \/ \E path \in UserPath, io \in {<<"r", 1>>, <<"w", 2>>} : \E new :
                  /\ Opening(Now, path, io[1], "user", new)
                  /\ stdio = [Last(frames) EXCEPT ![io[2]] = new.id]
                  /\ fs = new.files /\ dk = new.disk
            \/ stdio = [Last(frames) EXCEPT ![3] = Last(frames)[2]] /\ fs = files /\ dk = disk
  BY RedirectDoes
<1>2. stdio \in Stdio
  BY <1>1, RedirectedType
<1>3. stack # << >> /\ Top.type = "segment" /\ fds = {}
  <2>1. stack # << >> /\ Top.type = "segment"
    BY <1>1 DEF InSegment
  <2> QED BY <2>1, NoFdsHere
<1>4. /\ stack' = Append(Front(stack), [Top EXCEPT !.redirs = @ + 1])
      /\ frames' = TopStdio(stdio) /\ fds' = fds
  BY <1>1 DEF Release
<1> QED BY <1>1, <1>2, <1>3, <1>4, RedirectContinues, TopStdioIs, GoesOn

LEMMA InSegmentIs ==
    ASSUME Control, InSegment
    PROVE  /\ stack # << >> /\ Top.type = "segment" /\ Top \in SegmentActivation /\ fds = {}
           /\ Len(frames) = Top.level /\ Len(frames) \in Nat \ {0}
<1>1. stack # << >> /\ Top.type = "segment" /\ Top \in SegmentActivation
  BY StackTypes, Kinds DEF InSegment
<1> QED BY <1>1, NoFdsHere, FrameTypes

LEMMA NothingKeepsControl ==
    ASSUME Control, RunNothing
    PROVE  Control'
<1>1. InSegment /\ stack' = Done /\ frames' = frames /\ fds' = fds
  BY DEF RunNothing, Release
<1>2. frames \in Seq(Stdio)
  BY DEF Control
<1> QED BY <1>1, <1>2, InSegmentIs, DoneContinues, GoesOn

Script(scoped, lines) ==
    [type |-> "script", level |-> IF scoped THEN Top.level + 1 ELSE Top.level,
     depth |-> Top.depth, scoped |-> scoped, left |-> lines]
ScriptFrames(scoped) == IF scoped THEN Append(frames, Last(frames)) ELSE frames

LEMMA RunScriptDoes ==
    ASSUME RunScript
    PROVE  /\ InSegment /\ Top.depth < MaxDepth /\ UNCHANGED <<counter, tmpMounted>>
           /\ \E scoped \in BOOLEAN, lines \in 1 .. MaxLines :
                 Release(Append(Done, Script(scoped, lines)), ScriptFrames(scoped), fds, files, disk)
  BY DEF RunScript, Script, ScriptFrames

\* What holds of a script that begins.
ScriptBegins(scoped, lines) ==
    /\ Script(scoped, lines) \in Activation /\ Script(scoped, lines).type = "script"
    /\ ScriptFrames(scoped) \in Seq(Stdio)
    /\ Script(scoped, lines).level = Len(ScriptFrames(scoped))
    /\ Len(ScriptFrames(scoped)) = Len(frames) + (IF Scopes(Script(scoped, lines)) THEN 1 ELSE 0)
    /\ DOMAIN ScriptFrames(scoped) = 1 .. Len(ScriptFrames(scoped))
    /\ \A l \in 1 .. Len(frames) : ScriptFrames(scoped)[l] = frames[l]
    /\ Scopes(Script(scoped, lines)) => ScriptFrames(scoped)[Len(frames) + 1] = Last(frames)

LEMMA ScriptType ==
    ASSUME Control, InSegment, Top.depth < MaxDepth, NEW scoped \in BOOLEAN, NEW lines \in 1 .. MaxLines
    PROVE  ScriptBegins(scoped, lines)
<1>1. /\ Top \in SegmentActivation /\ Len(frames) = Top.level /\ Len(frames) \in Nat \ {0}
      /\ frames \in Seq(Stdio) /\ Last(frames) \in Stdio
  BY InSegmentIs, FrameTypes DEF Control
<1>2. Top.depth \in 0 .. MaxDepth - 1
  <2>1. Top.depth \in 0 .. MaxDepth /\ MaxDepth \in Nat
    BY <1>1, ShellExecAssumption DEF SegmentActivation
  <2> QED BY <2>1
<1>3. lines \in 0 .. MaxLines
  BY ShellExecAssumption
<1>4. ScriptBegins(TRUE, lines)
  <2>1. Script(TRUE, lines) \in ScriptActivation
    <3>1. Top.level + 1 \in Nat \ {0}
      BY <1>1
    <3> QED BY <1>2, <1>3, <3>1 DEF Script, ScriptActivation
  <2>2. /\ Script(TRUE, lines).type = "script" /\ Script(TRUE, lines).level = Top.level + 1
        /\ Script(TRUE, lines).scoped
    BY DEF Script
  <2>3. Scopes(Script(TRUE, lines))
    BY <2>2 DEF Scopes
  <2>4. Script(TRUE, lines) \in Activation
    BY <2>1 DEF Activation
  <2>5. ScriptFrames(TRUE) = Append(frames, Last(frames))
    BY DEF ScriptFrames
  <2>6. /\ Append(frames, Last(frames)) \in Seq(Stdio)
        /\ Len(Append(frames, Last(frames))) = Len(frames) + 1
        /\ DOMAIN Append(frames, Last(frames)) = 1 .. Len(frames) + 1
        /\ \A l \in 1 .. Len(frames) : Append(frames, Last(frames))[l] = frames[l]
        /\ Append(frames, Last(frames))[Len(frames) + 1] = Last(frames)
    BY <1>1, Pushed
  <2> QED BY <1>1, <2>2, <2>3, <2>4, <2>5, <2>6 DEF ScriptBegins
<1>5. ScriptBegins(FALSE, lines)
  <2>1. Script(FALSE, lines) \in ScriptActivation
    BY <1>1, <1>2, <1>3 DEF Script, ScriptActivation
  <2>2. /\ Script(FALSE, lines).type = "script" /\ Script(FALSE, lines).level = Top.level
        /\ ~Script(FALSE, lines).scoped
    BY DEF Script
  <2>3. ~Scopes(Script(FALSE, lines))
    BY <2>2 DEF Scopes
  <2>4. Script(FALSE, lines) \in Activation
    BY <2>1 DEF Activation
  <2>5. ScriptFrames(FALSE) = frames /\ DOMAIN frames = 1 .. Len(frames)
    BY <1>1 DEF ScriptFrames
  <2>6. Len(frames) = Len(frames) + (IF Scopes(Script(FALSE, lines)) THEN 1 ELSE 0)
    BY <1>1, <2>3
  <2>7. \A l \in 1 .. Len(frames) : ScriptFrames(FALSE)[l] = frames[l]
    BY <2>5
  <2>8. Script(FALSE, lines).level = Len(ScriptFrames(FALSE)) /\ ScriptFrames(FALSE) \in Seq(Stdio)
        /\ DOMAIN ScriptFrames(FALSE) = 1 .. Len(ScriptFrames(FALSE))
    BY <1>1, <2>2, <2>5
  <2>9. Len(ScriptFrames(FALSE)) = Len(frames) + (IF Scopes(Script(FALSE, lines)) THEN 1 ELSE 0)
    BY <2>5, <2>6
  <2> QED BY <2>2, <2>3, <2>4, <2>7, <2>8, <2>9 DEF ScriptBegins
<1>6. scoped = TRUE \/ scoped = FALSE
  OBVIOUS
<1> QED BY <1>4, <1>5, <1>6

LEMMA ScriptKeepsControl ==
    ASSUME Control, RunScript
    PROVE  Control'
<1>1. InSegment /\ Top.depth < MaxDepth
  BY RunScriptDoes
<1>2. PICK scoped \in BOOLEAN, lines \in 1 .. MaxLines :
         Release(Append(Done, Script(scoped, lines)), ScriptFrames(scoped), fds, files, disk)
  BY RunScriptDoes
<1>3. /\ stack' = Append(Done, Script(scoped, lines)) /\ frames' = ScriptFrames(scoped) /\ fds' = fds
  BY <1>2 DEF Release
<1>4. stack # << >> /\ Top.type = "segment" /\ fds = {} /\ Continues(Done)
  BY <1>1, InSegmentIs, DoneContinues
<1>5. ScriptBegins(scoped, lines)
  BY <1>1, ScriptType
<1> QED BY <1>3, <1>4, <1>5, Begins DEF ScriptBegins

LEMMA ScriptEndKeepsControl ==
    ASSUME Control, EndScript
    PROVE  Control'
<1>1. /\ stack # << >> /\ Top.type = "script" /\ stack' = Front(stack) /\ fds' = fds
      /\ frames' = IF Top.scoped THEN Front(frames) ELSE frames
  BY DEF EndScript, Release
<1>2. fds = {} /\ (Scopes(Top) <=> Top.scoped)
  BY <1>1, NoFdsHere DEF Scopes
<1>3. /\ Len(frames) \in Nat \ {0} /\ frames \in Seq(Stdio) /\ Front(frames) \in Seq(Stdio)
      /\ Len(Front(frames)) = Len(frames) - 1
      /\ \A l \in 1 .. Len(frames) - 1 : Front(frames)[l] = frames[l]
  BY FrameTypes DEF Control
<1>4. CASE Top.scoped
  <2>1. frames' = Front(frames) /\ Scopes(Top)
    BY <1>1, <1>2, <1>4
  <2>2. /\ frames' \in Seq(Stdio) /\ Len(frames') = Len(frames) - 1
        /\ \A l \in 1 .. Len(frames') : frames'[l] = frames[l]
    BY <1>3, <2>1
  <2> QED BY <1>1, <1>2, <2>1, <2>2, Ends
<1>5. CASE ~Top.scoped
  <2>1. frames' = frames /\ ~Scopes(Top)
    BY <1>1, <1>2, <1>5
  <2>2. Len(frames') = Len(frames) - (IF Scopes(Top) THEN 1 ELSE 0)
    BY <1>3, <2>1
  <2> QED BY <1>1, <1>2, <1>3, <2>1, <2>2, Ends
<1> QED BY <1>4, <1>5

LEMMA SegmentEndKeepsControl ==
    ASSUME Control, EndSegment
    PROVE  Control'
<1>1. /\ stack # << >> /\ Top.type = "segment" /\ stack' = Front(stack) /\ fds' = fds
      /\ frames' = IF Top.sub THEN Front(frames) ELSE TopStdio(Top.saved)
  BY DEF EndSegment, Release
<1>2. fds = {} /\ (Scopes(Top) <=> Top.sub) /\ Top \in SegmentActivation
  BY <1>1, NoFdsHere, StackTypes, Kinds DEF Scopes
<1>3. /\ Len(frames) \in Nat \ {0} /\ frames \in Seq(Stdio) /\ Front(frames) \in Seq(Stdio)
      /\ Len(Front(frames)) = Len(frames) - 1
      /\ \A l \in 1 .. Len(frames) - 1 : Front(frames)[l] = frames[l]
  BY FrameTypes DEF Control
<1>4. CASE Top.sub
  <2>1. frames' = Front(frames) /\ Scopes(Top)
    BY <1>1, <1>2, <1>4
  <2>2. /\ frames' \in Seq(Stdio) /\ Len(frames') = Len(frames) - 1
        /\ \A l \in 1 .. Len(frames') : frames'[l] = frames[l]
    BY <1>3, <2>1
  <2> QED BY <1>1, <1>2, <1>4, <2>1, <2>2, Ends
<1>5. CASE ~Top.sub
  <2>1. Top.saved \in Stdio
    BY <1>2 DEF SegmentActivation
  <2>2. /\ frames' \in Seq(Stdio) /\ Len(frames') = Len(frames)
        /\ \A l \in 1 .. Len(frames) - 1 : frames'[l] = frames[l]
        /\ frames'[Len(frames)] = Top.saved
    BY <1>1, <1>5, <2>1, TopStdioIs
  <2>3. \A l \in 1 .. Len(frames) : l \in 1 .. Len(frames) - 1 \/ l = Len(frames)
    BY <1>3, UpTo
  <2>4. Len(frames') = Len(frames) - (IF Scopes(Top) THEN 1 ELSE 0)
    BY <1>2, <1>3, <1>5, <2>2
  <2>5. \A l \in 1 .. Len(frames') : frames'[l] = IF l = Len(frames') THEN Top.saved ELSE frames[l]
    BY <2>2, <2>3
  <2> QED BY <1>1, <1>2, <1>5, <2>2, <2>4, <2>5, Ends
<1> QED BY <1>4, <1>5

LEMMA LaunchKeepsControl ==
    ASSUME Control, Launch
    PROVE  Control'
<1> DEFINE a == [type |-> "program", level |-> Top.level]
<1>1. /\ InSegment /\ stack' = Append(Done, a) /\ frames' = frames
      /\ fds' = {<<s, Last(frames)[s]>> : s \in {t \in Stream : Last(frames)[t] # Default}}
  BY DEF Launch, Release
<1>2. /\ stack # << >> /\ Top.type = "segment" /\ Len(frames) = Top.level /\ Len(frames) \in Nat \ {0}
      /\ frames \in Seq(Stdio) /\ Continues(Done)
  BY <1>1, InSegmentIs, DoneContinues DEF Control
<1>3. a \in ProgramActivation /\ ~Scopes(a) /\ a.level = Len(frames) /\ a.type = "program"
  BY <1>2 DEF ProgramActivation, Scopes
<1>4. a \in Activation
  BY <1>3 DEF Activation
<1>5. fds' \subseteq (0 .. 3) \X Slot
  <2>1. Last(frames) \in Stdio
    BY FrameTypes
  <2> QED BY <1>1, <2>1 DEF Stdio, Stream
<1> HIDE DEF a
<1>6. Len(frames') = Len(frames) + (IF Scopes(a) THEN 1 ELSE 0)
  BY <1>1, <1>2, <1>3
<1> QED BY <1>1, <1>2, <1>3, <1>4, <1>5, <1>6, Begins

LEMMA ProgramKeepsControl ==
    ASSUME Control, Program
    PROVE  Control'
<1>1. /\ stack # << >> /\ Top.type = "program" /\ frames \in Seq(Stdio) /\ Continues(stack)
      /\ fds \subseteq (0 .. 3) \X Slot
  BY SameContinues DEF Program, ProgramOpen, ProgramClose, ProgramMountsTmp, IsProgram, Control
<1>2. stack' = stack /\ frames' = frames /\ fds' \subseteq (0 .. 3) \X Slot
  <2>1. CASE ProgramOpen
    <3>1. PICK path \in UserPath, mode \in {"r", "w"} :
             /\ MayOpen(Now, path, mode)
             /\ Release(stack, frames, fds \cup {<<0, Open(Now, path, mode, "user").id>>},
                        Open(Now, path, mode, "user").files, Open(Now, path, mode, "user").disk)
      BY <2>1 DEF ProgramOpen
    <3> DEFINE new == Open(Now, path, mode, "user")
    <3>2. Opening(Now, path, mode, "user", new)
      BY <3>1 DEF Opening
    <3>3. stack' = stack /\ frames' = frames /\ fds' = fds \cup {<<0, new.id>>}
      BY <3>1 DEF Release
    <3> HIDE DEF new
    <3>4. new.id \in Slot
      BY <3>2, OpenTakesFreeSlot
    <3> QED BY <1>1, <3>3, <3>4
  <2>2. CASE ProgramClose
    BY <1>1, <2>2 DEF ProgramClose, Release
  <2>3. CASE ProgramMountsTmp
    BY <1>1, <2>3 DEF ProgramMountsTmp
  <2> QED BY <2>1, <2>2, <2>3 DEF Program
<1> QED BY <1>1, <1>2, GoesOn

LEMMA ProgramEndKeepsControl ==
    ASSUME Control, ProgramEnds
    PROVE  Control'
<1>1. /\ stack # << >> /\ Top.type = "program" /\ stack' = Front(stack) /\ fds' = {}
      /\ frames' = frames
  BY DEF ProgramEnds, IsProgram, EndLaunch, Release
<1>2. ~Scopes(Top) /\ Len(frames) \in Nat /\ frames \in Seq(Stdio)
  BY <1>1, FrameTypes DEF Scopes, Control
<1>3. Len(frames') = Len(frames) - (IF Scopes(Top) THEN 1 ELSE 0)
  BY <1>1, <1>2
<1> QED BY <1>1, <1>2, <1>3, Ends

LEMMA ControlStep == Control /\ [Next]_vars => Control'
<1> SUFFICES ASSUME Control, [Next]_vars PROVE Control'
  OBVIOUS
<1>1. CASE Line
  BY <1>1, LineKeepsControl
<1>2. CASE RunStage
  BY <1>2, StageKeepsControl
<1>3. CASE AbortPipeline \/ EndPipeline
  BY <1>3, PipelineEndKeepsControl
<1>4. CASE Redirect
  BY <1>4, RedirectKeepsControl
<1>5. CASE RunNothing
  BY <1>5, NothingKeepsControl
<1>6. CASE RunScript
  BY <1>6, ScriptKeepsControl
<1>7. CASE EndScript
  BY <1>7, ScriptEndKeepsControl
<1>8. CASE EndSegment
  BY <1>8, SegmentEndKeepsControl
<1>9. CASE Launch
  BY <1>9, LaunchKeepsControl
<1>10. CASE Program
  BY <1>10, ProgramKeepsControl
<1>11. CASE ProgramEnds
  BY <1>11, ProgramEndKeepsControl
<1>12. CASE UNCHANGED vars
  <2>1. stack' = stack /\ frames' = frames /\ fds' = fds
    BY <1>12 DEF vars
  <2>2. frames \in Seq(Stdio) /\ fds \subseteq (0 .. 3) \X Slot
        /\ (fds # {} => stack # << >> /\ Top.type = "program")
    BY DEF Control, FdsAreThePrograms
  <2> QED BY <2>1, <2>2, SameContinues, GoesOn
<1> QED BY <1>1, <1>2, <1>3, <1>4, <1>5, <1>6, <1>7, <1>8, <1>9, <1>10, <1>11, <1>12
        DEF Next, Prompt, Shell

LEMMA ControlAlways == Spec => []Control
  BY ControlInit, ControlStep, PTL DEF Spec
-----------------------------------------------------------------------------
(* The references.                                                         *)

Referenced == \A f \in Slot : files[f] # Closed <=> f \in Held(stack, frames, fds)

References ==
    /\ files \in [Slot -> OpenFile \cup {Closed}]
    /\ disk \in [Node -> Content]
    /\ counter \in 0 .. MaxCounter + 1 /\ tmpMounted \in BOOLEAN
    /\ Referenced /\ EmptyHasWriter

\* Files as they may be within a step: those that were open are, and what is
\* not committed has its writer.
Sound(fs, dk) ==
    /\ fs \in [Slot -> OpenFile \cup {Closed}]
    /\ dk \in [Node -> Content]
    /\ \A f \in Slot : files[f] # Closed => fs[f] = files[f]
    /\ \A n \in Node : dk[n] = "empty" =>
           \E f \in Slot : fs[f] # Closed /\ fs[f].mode = "w" /\ fs[f].node = n

LEMMA HeldWithin ==
    ASSUME NEW stk, NEW frs, NEW table, NEW H,
           \A i \in DOMAIN stk : stk[i].type = "segment" => FilesIn(stk[i].saved) \subseteq H,
           \A l \in DOMAIN frs : FilesIn(frs[l]) \subseteq H,
           \A fd \in table : fd[2] \in H
    PROVE  Held(stk, frs, table) \subseteq H
<1> SUFFICES ASSUME NEW f \in Held(stk, frs, table) PROVE f \in H
  OBVIOUS
<1>1. \/ f \in {fd[2] : fd \in table}
      \/ f \in UNION {FilesIn(frs[i]) : i \in DOMAIN frs}
      \/ f \in UNION {FilesIn(stk[i].saved) : i \in {j \in DOMAIN stk : stk[j].type = "segment"}}
  BY DEF Held
<1> QED BY <1>1

LEMMA HeldHas ==
    ASSUME NEW stk, NEW frs, NEW table
    PROVE  /\ \A i \in DOMAIN stk :
                  stk[i].type = "segment" => FilesIn(stk[i].saved) \subseteq Held(stk, frs, table)
           /\ \A l \in DOMAIN frs : FilesIn(frs[l]) \subseteq Held(stk, frs, table)
           /\ \A fd \in table : fd[2] \in Held(stk, frs, table)
<1>1. ASSUME NEW k \in DOMAIN stk, stk[k].type = "segment", NEW f \in FilesIn(stk[k].saved)
      PROVE  f \in Held(stk, frs, table)
  <2>1. k \in {j \in DOMAIN stk : stk[j].type = "segment"}
    BY <1>1
  <2>2. f \in UNION {FilesIn(stk[i].saved) : i \in {j \in DOMAIN stk : stk[j].type = "segment"}}
    BY <1>1, <2>1
  <2> QED BY <2>2 DEF Held
<1>2. ASSUME NEW l \in DOMAIN frs, NEW f \in FilesIn(frs[l])
      PROVE  f \in Held(stk, frs, table)
  <2>1. f \in UNION {FilesIn(frs[i]) : i \in DOMAIN frs}
    BY <1>2
  <2> QED BY <2>1 DEF Held
<1>3. \A fd \in table : fd[2] \in Held(stk, frs, table)
  BY DEF Held
<1> QED BY <1>1, <1>2, <1>3

LEMMA NodeOfIsNode ==
    ASSUME NEW path \in Temp \cup UserPath
    PROVE  NodeOf(path) \in Node /\ NodeOf(path)[2] = path
           /\ NodeOf(path)[1] = IF tmpMounted /\ path \in Temp THEN "over" ELSE "root"
  BY DEF NodeOf, Node

LEMMA NowIsSound ==
    ASSUME References
    PROVE  Sound(files, disk) /\ Now.files = files /\ Now.disk = disk
  BY DEF References, Sound, EmptyHasWriter, Writes, Now

LEMMA CleanedIsSound ==
    ASSUME References, NEW temps
    PROVE  Sound(files, Cleaned(disk, temps))
  BY DEF References, Sound, EmptyHasWriter, Writes, Cleaned, Content

\* What is so after a file was opened.
Opened(at, path, mode, content, new) ==
    /\ Sound(new.files, new.disk)
    /\ new.id \in Slot /\ files[new.id] = Closed /\ at.files[new.id] = Closed
    /\ new.files[new.id] = [node |-> NodeOf(path), mode |-> mode, sees |-> at.disk[NodeOf(path)]]
    /\ new.files[new.id] \in OpenFile /\ new.files[new.id] # Closed
    /\ \A f \in Slot : f # new.id => new.files[f] = at.files[f]
    /\ \A n \in Node : n # NodeOf(path) => new.disk[n] = at.disk[n]
    /\ new.disk[NodeOf(path)] = IF mode = "w" THEN content ELSE at.disk[NodeOf(path)]
    /\ mode = "r" => at.disk[NodeOf(path)] # "none" /\ new.disk = at.disk

LEMMA OpeningIsSound ==
    ASSUME NEW at, Sound(at.files, at.disk), NEW path \in Temp \cup UserPath, NEW mode \in {"r", "w"},
           NEW content \in Content, content = "empty" => mode = "w",
           NEW new, Opening(at, path, mode, content, new)
    PROVE  Opened(at, path, mode, content, new)
<1> DEFINE file == [node |-> NodeOf(path), mode |-> mode, sees |-> at.disk[NodeOf(path)]]
<1>1. /\ new.id \in Slot /\ at.files[new.id] = Closed
      /\ new.files = [at.files EXCEPT ![new.id] = file]
      /\ new.disk = IF mode = "w" THEN [at.disk EXCEPT ![NodeOf(path)] = content] ELSE at.disk
      /\ mode = "r" => at.disk[NodeOf(path)] # "none"
  BY OpenTakesFreeSlot
<1>2. NodeOf(path) \in Node
  BY NodeOfIsNode
<1>3. /\ at.files \in [Slot -> OpenFile \cup {Closed}] /\ at.disk \in [Node -> Content]
      /\ \A f \in Slot : files[f] # Closed => at.files[f] = files[f]
      /\ \A n \in Node : at.disk[n] = "empty" =>
             \E f \in Slot : at.files[f] # Closed /\ at.files[f].mode = "w" /\ at.files[f].node = n
  BY DEF Sound
<1>4. file \in OpenFile /\ file # Closed /\ file.mode = mode /\ file.node = NodeOf(path)
  <2>1. file \in OpenFile
    BY <1>2, <1>3 DEF OpenFile
  <2>2. Closed \notin OpenFile
    BY ShellExecAssumption
  <2> QED BY <2>1, <2>2
<1> HIDE DEF file
<1>5. /\ new.files \in [Slot -> OpenFile \cup {Closed}] /\ new.disk \in [Node -> Content]
      /\ new.files[new.id] = file
      /\ \A f \in Slot : f # new.id => new.files[f] = at.files[f]
      /\ \A n \in Node : n # NodeOf(path) => new.disk[n] = at.disk[n]
      /\ new.disk[NodeOf(path)] = IF mode = "w" THEN content ELSE at.disk[NodeOf(path)]
  BY <1>1, <1>2, <1>3, <1>4
<1>6. files[new.id] = Closed
  BY <1>1, <1>3
<1>7. ASSUME NEW n \in Node, new.disk[n] = "empty"
      PROVE  \E f \in Slot : new.files[f] # Closed /\ new.files[f].mode = "w" /\ new.files[f].node = n
  <2>1. CASE n = NodeOf(path) /\ mode = "w"
    BY <1>1, <1>4, <1>5, <2>1
  <2>2. CASE ~(n = NodeOf(path) /\ mode = "w")
    <3>1. at.disk[n] = "empty"
      BY <1>5, <1>7, <2>2
    <3>2. PICK f \in Slot : at.files[f] # Closed /\ at.files[f].mode = "w" /\ at.files[f].node = n
      BY <1>3, <3>1
    <3>3. f # new.id
      BY <1>1, <3>2
    <3> QED BY <1>5, <3>2, <3>3
  <2> QED BY <2>1, <2>2
<1>8. Sound(new.files, new.disk)
  BY <1>1, <1>3, <1>5, <1>6, <1>7 DEF Sound
<1>9. mode = "r" => new.disk = at.disk
  BY <1>1
<1> QED BY <1>1, <1>4, <1>5, <1>6, <1>8, <1>9 DEF file, Opened

\* What a step that ends in Release leaves.
LEMMA Released ==
    ASSUME NEW stk, NEW frs, NEW table, NEW fs, NEW dk, Sound(fs, dk),
           Release(stk, frs, table, fs, dk), \A f \in Held(stk, frs, table) : f \in Slot => fs[f] # Closed
    PROVE  /\ files' \in [Slot -> OpenFile \cup {Closed}] /\ disk' \in [Node -> Content]
           /\ Referenced' /\ EmptyHasWriter'
           /\ \A f \in Slot : files'[f] # Closed => files'[f] = fs[f]
           /\ \A n \in Node : disk'[n] = dk[n] \/ (dk[n] = "empty" /\ disk'[n] = "full")
<1> DEFINE gone == {f \in Slot : fs[f] # Closed /\ f \notin Held(stk, frs, table)}
<1>1. /\ stack' = stk /\ frames' = frs /\ fds' = table
      /\ files' = [f \in Slot |-> IF f \in gone THEN Closed ELSE fs[f]]
      /\ disk' = [n \in Node |-> IF dk[n] = "empty" /\ \E f \in gone : fs[f].mode = "w" /\ fs[f].node = n
                                 THEN "full" ELSE dk[n]]
  BY DEF Release, Committed
<1>2. /\ fs \in [Slot -> OpenFile \cup {Closed}] /\ dk \in [Node -> Content]
      /\ \A n \in Node : dk[n] = "empty" =>
             \E f \in Slot : fs[f] # Closed /\ fs[f].mode = "w" /\ fs[f].node = n
  BY DEF Sound
<1>3. /\ files' \in [Slot -> OpenFile \cup {Closed}]
      /\ \A f \in Slot : files'[f] # Closed => files'[f] = fs[f]
  BY <1>1, <1>2
<1>4. /\ disk' \in [Node -> Content]
      /\ \A n \in Node : disk'[n] = dk[n] \/ (dk[n] = "empty" /\ disk'[n] = "full")
  BY <1>1, <1>2 DEF Content
<1>5. Referenced'
  <2>1. \A f \in Slot : files'[f] # Closed <=> f \in Held(stk, frs, table)
    BY <1>1
  <2> QED BY <1>1, <2>1 DEF Referenced
<1>6. EmptyHasWriter'
  <2> SUFFICES ASSUME NEW n \in Node, disk'[n] = "empty"
               PROVE  \E f \in Slot : /\ files'[f] # Closed /\ files'[f].mode = "w"
                                      /\ files'[f].node = n
    BY DEF EmptyHasWriter, Writes
  <2>1. dk[n] = "empty" /\ ~\E f \in gone : fs[f].mode = "w" /\ fs[f].node = n
    BY <1>1
  <2>2. PICK f \in Slot : fs[f] # Closed /\ fs[f].mode = "w" /\ fs[f].node = n
    BY <1>2, <2>1
  <2> QED BY <1>1, <2>1, <2>2
<1> QED BY <1>3, <1>4, <1>5, <1>6

\* What is held is open, of the same activations with the same streams.
LEMMA HeldAreOpen ==
    ASSUME Control, References, NEW base, Continues(base)
    PROVE  /\ DOMAIN base = 1 .. Len(stack) /\ base \in Seq(Activation)
           /\ \A i \in DOMAIN base : base[i].type = "segment" =>
                  \A f \in FilesIn(base[i].saved) : f \in Slot /\ files[f] # Closed
           /\ \A l \in DOMAIN frames : \A f \in FilesIn(frames[l]) : f \in Slot /\ files[f] # Closed
           /\ \A fd \in fds : fd[2] \in Slot /\ files[fd[2]] # Closed
<1>1. /\ base \in Seq(Activation) /\ Len(base) = Len(stack)
      /\ \A i \in 1 .. Len(stack) : Alike(base[i], stack[i])
  BY DEF Continues
<1>2. DOMAIN base = 1 .. Len(stack) /\ DOMAIN stack = 1 .. Len(stack)
  BY <1>1, StackLen
<1>3. \A stdio \in Stdio : FilesIn(stdio) \subseteq Slot
  BY DEF Stdio, FilesIn
<1>4. \A f \in Slot : f \in Held(stack, frames, fds) => files[f] # Closed
  BY DEF References, Referenced
<1>5. ASSUME NEW i \in DOMAIN base, base[i].type = "segment"
      PROVE  base[i].saved \in Stdio /\ FilesIn(base[i].saved) \subseteq Held(stack, frames, fds)
  <2>1. base[i].saved = stack[i].saved /\ stack[i].type = "segment"
    BY <1>1, <1>2, <1>5 DEF Alike
  <2>2. stack[i].saved \in Stdio
    <3>1. stack[i] \in SegmentActivation
      BY <1>1, <1>2, <1>5, <2>1, StackTypes, Kinds
    <3> QED BY <3>1 DEF SegmentActivation
  <2> QED BY <1>2, <2>1, <2>2, HeldHas
<1>6. \A l \in DOMAIN frames : FilesIn(frames[l]) \subseteq Slot
                               /\ FilesIn(frames[l]) \subseteq Held(stack, frames, fds)
  BY <1>3, FrameTypes, HeldHas
<1>7. \A fd \in fds : fd[2] \in Slot /\ fd[2] \in Held(stack, frames, fds)
  BY HeldHas DEF Control
<1> QED BY <1>1, <1>2, <1>3, <1>4, <1>5, <1>6, <1>7

\* The step of an activation that begins, goes on or ends.
LEMMA StaysReferenced ==
    ASSUME Control, References, NEW stk, NEW frs, NEW table, NEW fs, NEW dk, Sound(fs, dk),
           Release(stk, frs, table, fs, dk), UNCHANGED tmpMounted, counter' \in 0 .. MaxCounter + 1,
           \A i \in DOMAIN stk : stk[i].type = "segment" =>
               \A f \in FilesIn(stk[i].saved) : f \in Slot /\ fs[f] # Closed,
           \A l \in DOMAIN frs : \A f \in FilesIn(frs[l]) : f \in Slot /\ fs[f] # Closed,
           \A fd \in table : fd[2] \in Slot /\ fs[fd[2]] # Closed
    PROVE  References'
<1> DEFINE H == {f \in Slot : fs[f] # Closed}
<1>1. Held(stk, frs, table) \subseteq H
  <2>1. \A i \in DOMAIN stk : stk[i].type = "segment" => FilesIn(stk[i].saved) \subseteq H
    OBVIOUS
  <2>2. \A l \in DOMAIN frs : FilesIn(frs[l]) \subseteq H
    OBVIOUS
  <2>3. \A fd \in table : fd[2] \in H
    OBVIOUS
  <2> HIDE DEF H
  <2> QED BY <2>1, <2>2, <2>3, HeldWithin
<1>2. \A f \in Held(stk, frs, table) : f \in Slot => fs[f] # Closed
  BY <1>1
<1>3. tmpMounted' \in BOOLEAN
  BY DEF References
<1> QED BY <1>2, <1>3, Released DEF References

LEMMA StillOpen ==
    ASSUME NEW fs, NEW dk, Sound(fs, dk)
    PROVE  \A f \in Slot : files[f] # Closed => fs[f] # Closed
  BY DEF Sound

LEMMA BeginsReferenced ==
    ASSUME Control, References, NEW base, Continues(base), NEW a \in Activation, NEW frs, NEW table,
           NEW fs, NEW dk, Sound(fs, dk), Release(Append(base, a), frs, table, fs, dk),
           UNCHANGED tmpMounted, counter' \in 0 .. MaxCounter + 1,
           a.type = "segment" => \A f \in FilesIn(a.saved) : f \in Slot /\ fs[f] # Closed,
           \A l \in DOMAIN frs : \A f \in FilesIn(frs[l]) : f \in Slot /\ fs[f] # Closed,
           \A fd \in table : fd[2] \in Slot /\ fs[fd[2]] # Closed
    PROVE  References'
<1>1. /\ DOMAIN base = 1 .. Len(stack) /\ base \in Seq(Activation) /\ Len(stack) \in Nat
      /\ \A i \in DOMAIN base : base[i].type = "segment" =>
             \A f \in FilesIn(base[i].saved) : f \in Slot /\ files[f] # Closed
  BY HeldAreOpen, StackLen
<1>2. /\ DOMAIN Append(base, a) = 1 .. Len(stack) + 1
      /\ \A i \in 1 .. Len(stack) : Append(base, a)[i] = base[i]
      /\ Append(base, a)[Len(stack) + 1] = a
  <2>1. Len(base) = Len(stack)
    BY DEF Continues
  <2> QED BY <1>1, <2>1, Pushed
<1>3. \A i \in 1 .. Len(stack) + 1 : i \in 1 .. Len(stack) \/ i = Len(stack) + 1
  BY <1>1
<1>4. \A i \in DOMAIN Append(base, a) : Append(base, a)[i].type = "segment" =>
          \A f \in FilesIn(Append(base, a)[i].saved) : f \in Slot /\ fs[f] # Closed
  BY <1>1, <1>2, <1>3, StillOpen
<1> DEFINE stk == Append(base, a)
<1> HIDE DEF stk
<1>5. Release(stk, frs, table, fs, dk)
      /\ \A i \in DOMAIN stk : stk[i].type = "segment" =>
             \A f \in FilesIn(stk[i].saved) : f \in Slot /\ fs[f] # Closed
  BY <1>4 DEF stk
<1> QED BY <1>5, StaysReferenced

LEMMA GoesOnReferenced ==
    ASSUME Control, References, NEW base, Continues(base), NEW frs, NEW table,
           NEW fs, NEW dk, Sound(fs, dk), Release(base, frs, table, fs, dk),
           UNCHANGED tmpMounted, counter' \in 0 .. MaxCounter + 1,
           \A l \in DOMAIN frs : \A f \in FilesIn(frs[l]) : f \in Slot /\ fs[f] # Closed,
           \A fd \in table : fd[2] \in Slot /\ fs[fd[2]] # Closed
    PROVE  References'
<1>1. \A i \in DOMAIN base : base[i].type = "segment" =>
          \A f \in FilesIn(base[i].saved) : f \in Slot /\ fs[f] # Closed
  BY HeldAreOpen, StillOpen
<1> QED BY <1>1, StaysReferenced

LEMMA EndsReferenced ==
    ASSUME Control, References, stack # << >>, NEW frs, NEW table,
           NEW fs, NEW dk, Sound(fs, dk), Release(Front(stack), frs, table, fs, dk),
           UNCHANGED <<counter, tmpMounted>>,
           \A l \in DOMAIN frs : \A f \in FilesIn(frs[l]) : f \in Slot /\ fs[f] # Closed,
           \A fd \in table : fd[2] \in Slot /\ fs[fd[2]] # Closed
    PROVE  References'
<1>1. \A i \in DOMAIN stack : stack[i].type = "segment" =>
          \A f \in FilesIn(stack[i].saved) : f \in Slot /\ fs[f] # Closed
  BY SameContinues, HeldAreOpen, StillOpen
<1>2. /\ DOMAIN Front(stack) = 1 .. Len(stack) - 1 /\ DOMAIN stack = 1 .. Len(stack)
      /\ \A i \in 1 .. Len(stack) - 1 : Front(stack)[i] = stack[i]
      /\ \A i \in 1 .. Len(stack) - 1 : i \in 1 .. Len(stack)
  <2>1. Len(stack) \in Nat
    BY StackLen
  <2> QED BY <2>1, StackLen, StackTypes
<1>3. \A i \in DOMAIN Front(stack) : Front(stack)[i].type = "segment" =>
          \A f \in FilesIn(Front(stack)[i].saved) : f \in Slot /\ fs[f] # Closed
  BY <1>1, <1>2
<1>4. counter' \in 0 .. MaxCounter + 1
  BY DEF References
<1> QED BY <1>3, <1>4, StaysReferenced

\* The frames and fds there are, whatever is opened.
LEMMA FramesStayOpen ==
    ASSUME Control, References, NEW fs, NEW dk, Sound(fs, dk)
    PROVE  /\ DOMAIN frames = 1 .. Len(frames) /\ Len(frames) \in Nat \ {0}
           /\ \A l \in DOMAIN frames : \A f \in FilesIn(frames[l]) : f \in Slot /\ fs[f] # Closed
           /\ \A fd \in fds : fd[2] \in Slot /\ fs[fd[2]] # Closed
           /\ \A f \in FilesIn(Last(frames)) : f \in Slot /\ fs[f] # Closed
           /\ \A l \in DOMAIN Front(frames) : \A f \in FilesIn(Front(frames)[l]) : f \in Slot /\ fs[f] # Closed
<1>1. /\ \A l \in DOMAIN frames : \A f \in FilesIn(frames[l]) : f \in Slot /\ fs[f] # Closed
      /\ \A fd \in fds : fd[2] \in Slot /\ fs[fd[2]] # Closed
  BY SameContinues, HeldAreOpen, StillOpen
<1>2. /\ DOMAIN frames = 1 .. Len(frames) /\ Len(frames) \in Nat \ {0} /\ Last(frames) = frames[Len(frames)]
      /\ DOMAIN Front(frames) = 1 .. Len(frames) - 1
      /\ \A l \in 1 .. Len(frames) - 1 : Front(frames)[l] = frames[l]
  BY FrameTypes
<1>3. Len(frames) \in DOMAIN frames /\ \A l \in 1 .. Len(frames) - 1 : l \in DOMAIN frames
  BY <1>2
<1> QED BY <1>1, <1>2, <1>3

\* The top frame's streams are replaced, or a frame is put over it.
LEMMA TopStaysOpen ==
    ASSUME Control, References, NEW fs, NEW dk, Sound(fs, dk), NEW stdio \in Stdio,
           \A f \in FilesIn(stdio) : f \in Slot /\ fs[f] # Closed
    PROVE  /\ \A l \in DOMAIN TopStdio(stdio) :
                  \A f \in FilesIn(TopStdio(stdio)[l]) : f \in Slot /\ fs[f] # Closed
           /\ \A l \in DOMAIN Append(frames, stdio) :
                  \A f \in FilesIn(Append(frames, stdio)[l]) : f \in Slot /\ fs[f] # Closed
<1>1. /\ DOMAIN frames = 1 .. Len(frames) /\ Len(frames) \in Nat \ {0}
      /\ \A l \in DOMAIN frames : \A f \in FilesIn(frames[l]) : f \in Slot /\ fs[f] # Closed
  BY FramesStayOpen
<1>2. /\ DOMAIN TopStdio(stdio) = 1 .. Len(frames) /\ TopStdio(stdio)[Len(frames)] = stdio
      /\ \A l \in 1 .. Len(frames) - 1 : TopStdio(stdio)[l] = frames[l]
  BY TopStdioIs
<1>3. /\ DOMAIN Append(frames, stdio) = 1 .. Len(frames) + 1
      /\ \A l \in 1 .. Len(frames) : Append(frames, stdio)[l] = frames[l]
      /\ Append(frames, stdio)[Len(frames) + 1] = stdio
  BY Pushed DEF Control
<1>4. /\ \A l \in 1 .. Len(frames) : l \in 1 .. Len(frames) - 1 \/ l = Len(frames)
      /\ \A l \in 1 .. Len(frames) + 1 : l \in 1 .. Len(frames) \/ l = Len(frames) + 1
  <2>1. Len(frames) \in Nat
    BY <1>1
  <2> QED BY <2>1
<1> QED BY <1>1, <1>2, <1>3, <1>4

LEMMA PipeIs ==
    ASSUME Control, IsPipe
    PROVE  /\ stack # << >> /\ Top.type = "pipe" /\ Top.temps \in Seq(Temp) /\ Top.at \in Nat \ {0}
           /\ Len(Top.temps) \in Nat /\ Top.level = Len(frames) /\ Top = stack[Len(stack)]
           /\ \A j \in 1 .. Len(Top.temps) : Top.temps[j] \in Temp
<1>1. stack # << >> /\ Top \in PipeActivation /\ Top.type = "pipe" /\ Top = stack[Len(stack)]
  BY StackTypes, Kinds DEF IsPipe
<1>2. Top.temps \in Seq(Temp) /\ Top.at \in Nat \ {0}
  BY <1>1 DEF PipeActivation
<1>3. Top.level = Len(frames)
  BY <1>1, FrameTypes
<1> QED BY <1>1, <1>2, <1>3

\* The pipes before and after the stage that is next.
LEMMA StagePaths ==
    ASSUME Control, IsPipe, StagesLeft
    PROVE  /\ Reads(Top) => Top.at - 1 \in 1 .. Len(Top.temps) /\ Top.temps[Top.at - 1] \in Temp
           /\ Feeds(Top) => Top.at \in 1 .. Len(Top.temps) /\ Top.temps[Top.at] \in Temp
<1>1. /\ Top.at \in Nat \ {0} /\ Len(Top.temps) \in Nat /\ Top.at <= Len(Top.temps) + 1
      /\ \A j \in 1 .. Len(Top.temps) : Top.temps[j] \in Temp
  BY PipeIs DEF StagesLeft
<1>2. Top.at > 1 => Top.at - 1 \in 1 .. Len(Top.temps)
  BY <1>1
<1>3. Top.at < Len(Top.temps) + 1 => Top.at \in 1 .. Len(Top.temps)
  BY <1>1
<1> QED BY <1>1, <1>2, <1>3 DEF Reads, Feeds

\* What binding a stage does to the files and the disk.
StageBinds(bound) ==
    /\ Sound(bound.files, bound.disk)
    /\ bound.in \in Slot \cup {Default} /\ bound.out \in Slot \cup {Default}
    /\ bound.in \in Slot => /\ Reads(Top) /\ files[bound.in] = Closed
                            /\ bound.files[bound.in] = [node |-> NodeOf(Top.temps[Top.at - 1]), mode |-> "r",
                                                        sees |-> disk[NodeOf(Top.temps[Top.at - 1])]]
                            /\ disk[NodeOf(Top.temps[Top.at - 1])] # "none"
                            /\ bound.files[bound.in] # Closed
    /\ bound.out \in Slot => /\ Feeds(Top) /\ files[bound.out] = Closed
                             /\ bound.files[bound.out] # Closed
                             /\ bound.files[bound.out].mode = "w"
                             /\ bound.files[bound.out].node = NodeOf(Top.temps[Top.at])
    /\ \A f \in Slot : f # bound.in /\ f # bound.out => bound.files[f] = files[f]
    /\ \A n \in Node : \/ bound.disk[n] = disk[n]
                       \/ Feeds(Top) /\ n = NodeOf(Top.temps[Top.at]) /\ bound.disk[n] = "empty"

LEMMA StageSound ==
    ASSUME Control, References, IsPipe, StagesLeft, NEW bound, bound = StageFiles(Top), bound.ok
    PROVE  StageBinds(bound)
<1>1. PICK in, out : StageOpening(Top, bound, in, out)
  BY StageOpens
<1>2. /\ IF Reads(Top) THEN Opening(Now, Top.temps[Top.at - 1], "r", "none", in) ELSE in = Now
      /\ IF Feeds(Top) THEN Opening(in, Top.temps[Top.at], "w", "empty", out)
         ELSE out = [in EXCEPT !.id = Default]
      /\ bound.in = in.id /\ bound.out = out.id /\ bound.files = out.files /\ bound.disk = out.disk
  BY <1>1 DEF StageOpening
<1>3. Sound(files, disk) /\ Now.files = files /\ Now.disk = disk /\ Now.id = Default
  BY NowIsSound DEF Now
<1>4. Default \notin Slot
  BY ShellExecAssumption
<1>5. /\ Sound(in.files, in.disk) /\ in.disk = disk
      /\ in.id \in Slot \cup {Default} /\ (in.id \in Slot <=> Reads(Top))
      /\ in.id \in Slot => /\ files[in.id] = Closed
                           /\ in.files[in.id] = [node |-> NodeOf(Top.temps[Top.at - 1]), mode |-> "r",
                                                 sees |-> disk[NodeOf(Top.temps[Top.at - 1])]]
                           /\ in.files[in.id] # Closed
                           /\ disk[NodeOf(Top.temps[Top.at - 1])] # "none"
      /\ \A f \in Slot : f # in.id => in.files[f] = files[f]
      /\ in = [files |-> in.files, disk |-> in.disk, id |-> in.id]
  <2>1. CASE Reads(Top)
    <3> DEFINE path == Top.temps[Top.at - 1]
    <3>1. path \in Temp \cup UserPath
      BY <2>1, StagePaths
    <3>2. Opening(Now, path, "r", "none", in)
      BY <1>2, <2>1
    <3>3. in = [files |-> in.files, disk |-> in.disk, id |-> in.id]
      BY <3>2 DEF Opening, Open
    <3>4. "none" \in Content /\ "none" # "empty" /\ "r" \in {"r", "w"}
      BY DEF Content
    <3> HIDE DEF path
    <3>5. Opened(Now, path, "r", "none", in)
      <4>1. Sound(Now.files, Now.disk)
        BY <1>3
      <4> QED BY <3>1, <3>2, <3>4, <4>1, OpeningIsSound
    <3>6. /\ in.disk = disk /\ disk[NodeOf(path)] # "none"
          /\ Sound(in.files, in.disk) /\ in.id \in Slot /\ files[in.id] = Closed
          /\ in.files[in.id] = [node |-> NodeOf(path), mode |-> "r", sees |-> disk[NodeOf(path)]]
          /\ in.files[in.id] # Closed
          /\ \A f \in Slot : f # in.id => in.files[f] = files[f]
      BY <1>3, <3>5 DEF Opened
    <3> QED BY <2>1, <3>3, <3>6 DEF path
  <2>2. CASE ~Reads(Top)
    BY <1>2, <1>3, <1>4, <2>2 DEF Now
  <2> QED BY <2>1, <2>2
<1>6. CASE Feeds(Top)
  <2> DEFINE path == Top.temps[Top.at]
  <2>1. path \in Temp \cup UserPath
    BY <1>6, StagePaths
  <2>2. Opening(in, path, "w", "empty", out)
    BY <1>2, <1>6
  <2>3. "empty" \in Content /\ "w" \in {"r", "w"}
    BY DEF Content
  <2> HIDE DEF path
  <2>4. /\ Sound(out.files, out.disk) /\ out.id \in Slot /\ files[out.id] = Closed /\ in.files[out.id] = Closed
        /\ out.files[out.id] = [node |-> NodeOf(path), mode |-> "w", sees |-> in.disk[NodeOf(path)]]
        /\ out.files[out.id] # Closed
        /\ \A f \in Slot : f # out.id => out.files[f] = in.files[f]
        /\ \A n \in Node : n # NodeOf(path) => out.disk[n] = in.disk[n]
        /\ out.disk[NodeOf(path)] = "empty"
    <3>1. Opened(in, path, "w", "empty", out)
      BY <1>5, <2>1, <2>2, <2>3, OpeningIsSound
    <3> QED BY <3>1 DEF Opened
  <2>5. in.id \in Slot => in.id # out.id
    BY <1>5, <2>4
  <2>6. out.files[out.id].mode = "w" /\ out.files[out.id].node = NodeOf(path)
    BY <2>4
  <2>7. in.id \in Slot => out.files[in.id] = in.files[in.id]
    BY <2>4, <2>5
  <2> QED BY <1>2, <1>5, <1>6, <2>4, <2>6, <2>7 DEF StageBinds, path
<1>7. CASE ~Feeds(Top)
  <2>1. out = [in EXCEPT !.id = Default]
    BY <1>2, <1>7
  <2>2. out.files = in.files /\ out.disk = disk /\ out.id = Default
    BY <1>5, <2>1
  <2> QED BY <1>2, <1>4, <1>5, <2>2 DEF StageBinds
<1> QED BY <1>6, <1>7

-----------------------------------------------------------------------------
(* The references are kept by every step.                                  *)

LEMMA CounterUnchanged ==
    ASSUME References, counter' = counter
    PROVE  counter' \in 0 .. MaxCounter + 1
  BY DEF References

LEMMA Counted ==
    ASSUME NEW k \in Temp
    PROVE  k + 1 \in 0 .. MaxCounter + 1
<1>1. MaxCounter \in Nat
  BY ShellExecAssumption
<1> QED BY <1>1 DEF Temp

\* A pipeline of n stages has n - 1 names, the last of them the greatest.
LEMMA LastName ==
    ASSUME NEW n \in 2 .. MaxStages, NEW names \in PipePaths(n - 1)
    PROVE  /\ n - 1 \in Nat \ {0} /\ names \in [1 .. n - 1 -> Temp]
           /\ n - 1 \in 1 .. n - 1 /\ names[n - 1] \in Temp
<1>1. n - 1 \in Nat \ {0} /\ n - 1 \in 1 .. n - 1
  BY ShellExecAssumption
<1>2. names \in [1 .. n - 1 -> Temp]
  BY DEF PipePaths
<1> QED BY <1>1, <1>2

LEMMA LineKeepsReferences ==
    ASSUME Control, References, Line
    PROVE  References'
<1>1. Continues(Rest) /\ LineDepth \in 0 .. MaxDepth /\ AtLine
  <2>1. AtLine
    BY DEF Line, RunSegment, RunPipeline, RefusePipeline
  <2> QED BY <2>1, RestContinues, DepthOfLine
<1>2. Sound(files, disk)
  BY NowIsSound
<1>3. /\ \A l \in DOMAIN frames : \A f \in FilesIn(frames[l]) : f \in Slot /\ files[f] # Closed
      /\ \A fd \in fds : fd[2] \in Slot /\ files[fd[2]] # Closed
      /\ \A f \in FilesIn(Last(frames)) : f \in Slot /\ files[f] # Closed
      /\ Len(frames) \in Nat \ {0} /\ Last(frames) \in Stdio
  BY <1>2, FramesStayOpen, FrameTypes
<1>4. CASE RunSegment
  <2> DEFINE a == Segment(Len(frames), LineDepth, Last(frames), FALSE)
  <2>1. a \in Activation /\ a.saved = Last(frames)
    BY <1>1, <1>3, SegmentType
  <2>2. Release(Append(Rest, a), frames, fds, files, disk) /\ UNCHANGED <<counter, tmpMounted>>
    BY <1>4 DEF RunSegment
  <2> HIDE DEF a
  <2>3. counter' \in 0 .. MaxCounter + 1
    BY <2>2, CounterUnchanged
  <2>4. \A f \in FilesIn(a.saved) : f \in Slot /\ files[f] # Closed
    BY <1>3, <2>1
  <2> QED BY <1>1, <1>2, <1>3, <2>1, <2>2, <2>3, <2>4, BeginsReferenced
<1>5. ASSUME NEW n \in 2 .. MaxStages, RunPipeline(n) PROVE References'
  <2>1. PICK names \in PipePaths(n - 1) :
           counter' = names[n - 1] + 1 /\ Release(Append(Rest, Pipe(names)), frames, fds, files, disk)
    BY <1>5 DEF RunPipeline
  <2>2. n - 1 \in Nat /\ names[n - 1] \in Temp
    BY LastName
  <2>3. Pipe(names) \in Activation /\ Pipe(names).type = "pipe"
    BY <1>1, <2>2, PipeType
  <2>4. counter' \in 0 .. MaxCounter + 1 /\ UNCHANGED tmpMounted
    BY <1>5, <2>1, <2>2, Counted DEF RunPipeline
  <2> QED BY <1>1, <1>2, <1>3, <2>1, <2>3, <2>4, BeginsReferenced
<1>6. ASSUME NEW n \in 2 .. MaxStages, RefusePipeline(n) PROVE References'
  <2>0. PICK m \in 0 .. n - 2 : \E names \in PipePaths(m) :
           /\ \E k \in Tried(names) : counter' = k + 1
           /\ Release(Rest, frames, fds, files, Cleaned(disk, names))
    BY <1>6 DEF RefusePipeline
  <2>1. PICK names \in PipePaths(m) :
           /\ \E k \in Tried(names) : counter' = k + 1
           /\ Release(Rest, frames, fds, files, Cleaned(disk, names))
    BY <2>0
  <2>2. counter' \in 0 .. MaxCounter + 1 /\ UNCHANGED tmpMounted
    <3>1. Tried(names) \subseteq Temp
      BY DEF Tried, Ahead
    <3> QED BY <1>6, <2>1, <3>1, Counted DEF RefusePipeline
  <2>3. Sound(files, Cleaned(disk, names))
    BY CleanedIsSound
  <2> QED BY <1>1, <1>3, <2>1, <2>2, <2>3, GoesOnReferenced
<1> QED BY <1>4, <1>5, <1>6 DEF Line

LEMMA StageKeepsReferences ==
    ASSUME Control, References, RunStage
    PROVE  References'
<1>1. /\ IsPipe /\ StagesLeft /\ StageFiles(Top).ok /\ UNCHANGED <<counter, tmpMounted>>
      /\ Release(Append(AtNextStage, Stage), Append(frames, Bound(StageFiles(Top), Last(frames))),
                 fds, StageFiles(Top).files, StageFiles(Top).disk)
  BY RunStageDoes DEF RunStage
<1> DEFINE bound == StageFiles(Top)
<1>2. StageBinds(bound)
  BY <1>1, StageSound
<1>3. /\ Continues(AtNextStage) /\ Stage \in Activation /\ Stage.type = "segment"
      /\ Stage.saved = Last(frames)
  BY <1>1, NextStage
<1>4. Release(Append(AtNextStage, Stage), Append(frames, Bound(bound, Last(frames))),
              fds, bound.files, bound.disk)
  BY <1>1
<1> HIDE DEF bound
<1>5. Sound(bound.files, bound.disk)
  BY <1>2 DEF StageBinds
<1>6. /\ \A f \in FilesIn(Last(frames)) : f \in Slot /\ bound.files[f] # Closed
      /\ \A fd \in fds : fd[2] \in Slot /\ bound.files[fd[2]] # Closed
      /\ Last(frames) \in Stdio
  BY <1>5, FramesStayOpen, FrameTypes
<1>7. /\ Bound(bound, Last(frames)) \in Stdio
      /\ \A f \in FilesIn(Bound(bound, Last(frames))) : f \in Slot /\ bound.files[f] # Closed
  <2>1. /\ bound.in \in Slot \cup {Default} /\ bound.out \in Slot \cup {Default}
        /\ bound.in \in Slot => bound.files[bound.in] # Closed
        /\ bound.out \in Slot => bound.files[bound.out] # Closed
    BY <1>2 DEF StageBinds
  <2>2. \A s \in Stream : Last(frames)[s] \in Slot \cup {Default}
                          /\ (Last(frames)[s] # Default => bound.files[Last(frames)[s]] # Closed)
    BY <1>6 DEF Stdio, FilesIn
  <2>3. Bound(bound, Last(frames)) \in Stdio
    BY <2>1, <2>2 DEF Bound, Stdio
  <2>4. \A s \in Stream : Bound(bound, Last(frames))[s] # Default =>
            /\ Bound(bound, Last(frames))[s] \in Slot
            /\ bound.files[Bound(bound, Last(frames))[s]] # Closed
    BY <2>1, <2>2 DEF Bound
  <2> QED BY <2>3, <2>4 DEF FilesIn
<1>8. \A l \in DOMAIN Append(frames, Bound(bound, Last(frames))) :
          \A f \in FilesIn(Append(frames, Bound(bound, Last(frames)))[l]) :
              f \in Slot /\ bound.files[f] # Closed
  BY <1>5, <1>7, TopStaysOpen
<1>9. counter' \in 0 .. MaxCounter + 1
  BY <1>1, CounterUnchanged
<1>10. \A f \in FilesIn(Stage.saved) : f \in Slot /\ bound.files[f] # Closed
  BY <1>3, <1>6
<1> DEFINE frs == Append(frames, Bound(bound, Last(frames)))
<1>11. /\ \A l \in DOMAIN frs : \A f \in FilesIn(frs[l]) : f \in Slot /\ bound.files[f] # Closed
       /\ Release(Append(AtNextStage, Stage), frs, fds, bound.files, bound.disk)
  BY <1>4, <1>8
<1> HIDE DEF frs
<1> QED BY <1>1, <1>3, <1>5, <1>6, <1>9, <1>10, <1>11, BeginsReferenced

LEMMA PipelineEndKeepsReferences ==
    ASSUME Control, References, AbortPipeline \/ EndPipeline
    PROVE  References'
<1>1. /\ stack # << >> /\ UNCHANGED <<counter, tmpMounted>>
      /\ Release(Front(stack), frames, fds, files, Cleaned(disk, Top.temps))
  BY DEF AbortPipeline, EndPipeline, IsPipe
<1>2. Sound(files, Cleaned(disk, Top.temps))
  BY CleanedIsSound
<1> QED BY <1>1, <1>2, FramesStayOpen, EndsReferenced

LEMMA RedirectKeepsReferences ==
    ASSUME Control, References, Redirect
    PROVE  References'
<1>1. PICK stdio, fs, dk :
         /\ InSegment /\ Top.redirs < MaxRedirs
         /\ Release(Append(Front(stack), [Top EXCEPT !.redirs = @ + 1]), TopStdio(stdio), fds, fs, dk)
         /\ \/ \E path \in UserPath, io \in {<<"r", 1>>, <<"w", 2>>} : \E new :
                  /\ Opening(Now, path, io[1], "user", new)
                  /\ stdio = [Last(frames) EXCEPT ![io[2]] = new.id]
                  /\ fs = new.files /\ dk = new.disk
            \/ stdio = [Last(frames) EXCEPT ![3] = Last(frames)[2]] /\ fs = files /\ dk = disk
  BY RedirectDoes
<1>2. stdio \in Stdio
  BY <1>1, RedirectedType
<1>3. Continues(Append(Front(stack), [Top EXCEPT !.redirs = @ + 1]))
  BY <1>1, RedirectContinues
<1>4. UNCHANGED <<counter, tmpMounted>>
  BY DEF Redirect
<1>5. Sound(files, disk) /\ Now.files = files /\ Now.disk = disk /\ Last(frames) \in Stdio
  BY NowIsSound, FrameTypes
<1>6. Sound(fs, dk) /\ \A f \in FilesIn(stdio) : f \in Slot /\ fs[f] # Closed
  <2>1. CASE stdio = [Last(frames) EXCEPT ![3] = Last(frames)[2]] /\ fs = files /\ dk = disk
    <3>1. \A f \in FilesIn(Last(frames)) : f \in Slot /\ files[f] # Closed
      BY <1>5, FramesStayOpen
    <3>2. FilesIn(stdio) \subseteq FilesIn(Last(frames))
      BY <1>5, <2>1 DEF FilesIn, Stdio, Stream
    <3> QED BY <1>5, <2>1, <3>1, <3>2
  <2>2. ASSUME NEW path \in UserPath, NEW io \in {<<"r", 1>>, <<"w", 2>>}, NEW new,
               Opening(Now, path, io[1], "user", new),
               stdio = [Last(frames) EXCEPT ![io[2]] = new.id], fs = new.files, dk = new.disk
        PROVE  Sound(fs, dk) /\ \A f \in FilesIn(stdio) : f \in Slot /\ fs[f] # Closed
    <3>1. Opened(Now, path, io[1], "user", new)
      <4>1. io[1] \in {"r", "w"} /\ "user" \in Content /\ "user" # "empty" /\ Sound(Now.files, Now.disk)
        BY <1>5 DEF Content
      <4> QED BY <2>2, <4>1, OpeningIsSound
    <3>2. Sound(fs, dk) /\ new.id \in Slot /\ fs[new.id] # Closed
      BY <2>2, <3>1 DEF Opened
    <3>3. \A f \in FilesIn(Last(frames)) : f \in Slot /\ fs[f] # Closed
      BY <3>2, FramesStayOpen
    <3>4. FilesIn(stdio) \subseteq FilesIn(Last(frames)) \cup {new.id}
      BY <1>5, <2>2 DEF FilesIn, Stdio, Stream
    <3> QED BY <3>2, <3>3, <3>4
  <2> QED BY <1>1, <2>1, <2>2
<1>7. /\ \A l \in DOMAIN TopStdio(stdio) :
             \A f \in FilesIn(TopStdio(stdio)[l]) : f \in Slot /\ fs[f] # Closed
      /\ \A fd \in fds : fd[2] \in Slot /\ fs[fd[2]] # Closed
  BY <1>2, <1>6, TopStaysOpen, FramesStayOpen
<1>8. counter' \in 0 .. MaxCounter + 1
  BY <1>4, CounterUnchanged
<1> QED BY <1>1, <1>3, <1>4, <1>6, <1>7, <1>8, GoesOnReferenced

LEMMA NothingKeepsReferences ==
    ASSUME Control, References, RunNothing
    PROVE  References'
<1>1. InSegment /\ Release(Done, frames, fds, files, disk) /\ UNCHANGED <<counter, tmpMounted>>
  BY DEF RunNothing
<1>2. Sound(files, disk) /\ counter' \in 0 .. MaxCounter + 1 /\ Continues(Done)
  BY <1>1, NowIsSound, CounterUnchanged, DoneContinues
<1> QED BY <1>1, <1>2, FramesStayOpen, GoesOnReferenced

LEMMA ScriptKeepsReferences ==
    ASSUME Control, References, RunScript
    PROVE  References'
<1>1. InSegment /\ Top.depth < MaxDepth /\ UNCHANGED <<counter, tmpMounted>>
  BY RunScriptDoes
<1>2. PICK scoped \in BOOLEAN, lines \in 1 .. MaxLines :
         Release(Append(Done, Script(scoped, lines)), ScriptFrames(scoped), fds, files, disk)
  BY RunScriptDoes
<1>3. Sound(files, disk) /\ counter' \in 0 .. MaxCounter + 1 /\ Continues(Done)
  BY <1>1, NowIsSound, CounterUnchanged, DoneContinues
<1>4. Script(scoped, lines) \in Activation /\ Script(scoped, lines).type = "script"
  BY <1>1, ScriptType DEF ScriptBegins
<1>5. /\ \A fd \in fds : fd[2] \in Slot /\ files[fd[2]] # Closed
      /\ \A f \in FilesIn(Last(frames)) : f \in Slot /\ files[f] # Closed
      /\ \A l \in DOMAIN frames : \A f \in FilesIn(frames[l]) : f \in Slot /\ files[f] # Closed
      /\ Last(frames) \in Stdio
  BY <1>3, FramesStayOpen, FrameTypes
<1>6. \A l \in DOMAIN ScriptFrames(scoped) :
          \A f \in FilesIn(ScriptFrames(scoped)[l]) : f \in Slot /\ files[f] # Closed
  <2>1. CASE scoped
    <3>1. ScriptFrames(scoped) = Append(frames, Last(frames))
      BY <2>1 DEF ScriptFrames
    <3>2. \A l \in DOMAIN Append(frames, Last(frames)) :
              \A f \in FilesIn(Append(frames, Last(frames))[l]) : f \in Slot /\ files[f] # Closed
      BY <1>3, <1>5, TopStaysOpen
    <3> QED BY <3>1, <3>2
  <2>2. CASE ~scoped
    BY <1>5, <2>2 DEF ScriptFrames
  <2> QED BY <2>1, <2>2
<1> QED BY <1>1, <1>2, <1>3, <1>4, <1>5, <1>6, BeginsReferenced

LEMMA ScriptEndKeepsReferences ==
    ASSUME Control, References, EndScript
    PROVE  References'
<1>1. /\ stack # << >> /\ UNCHANGED <<counter, tmpMounted>>
      /\ Release(Front(stack), IF Top.scoped THEN Front(frames) ELSE frames, fds, files, disk)
  BY DEF EndScript
<1>2. Sound(files, disk)
  BY NowIsSound
<1>3. CASE Top.scoped
  <2>1. Release(Front(stack), Front(frames), fds, files, disk)
    BY <1>1, <1>3
  <2> QED BY <1>1, <1>2, <2>1, FramesStayOpen, EndsReferenced
<1>4. CASE ~Top.scoped
  <2>1. Release(Front(stack), frames, fds, files, disk)
    BY <1>1, <1>4
  <2> QED BY <1>1, <1>2, <2>1, FramesStayOpen, EndsReferenced
<1> QED BY <1>3, <1>4

LEMMA SegmentEndKeepsReferences ==
    ASSUME Control, References, EndSegment
    PROVE  References'
<1>1. /\ stack # << >> /\ UNCHANGED <<counter, tmpMounted>> /\ Top.type = "segment"
      /\ Release(Front(stack), IF Top.sub THEN Front(frames) ELSE TopStdio(Top.saved), fds, files, disk)
  BY DEF EndSegment
<1>2. Sound(files, disk)
  BY NowIsSound
<1>3. Top.saved \in Stdio /\ \A f \in FilesIn(Top.saved) : f \in Slot /\ files[f] # Closed
  <2>1. Top \in SegmentActivation /\ Len(stack) \in DOMAIN stack /\ Top = stack[Len(stack)]
    BY <1>1, StackTypes, Kinds
  <2>2. \A i \in DOMAIN stack : stack[i].type = "segment" =>
            \A f \in FilesIn(stack[i].saved) : f \in Slot /\ files[f] # Closed
    BY SameContinues, HeldAreOpen
  <2> QED BY <1>1, <2>1, <2>2 DEF SegmentActivation
<1>4. CASE Top.sub
  <2>1. Release(Front(stack), Front(frames), fds, files, disk)
    BY <1>1, <1>4
  <2> QED BY <1>1, <1>2, <2>1, FramesStayOpen, EndsReferenced
<1>5. CASE ~Top.sub
  <2>1. Release(Front(stack), TopStdio(Top.saved), fds, files, disk)
    BY <1>1, <1>5
  <2>2. /\ \A l \in DOMAIN TopStdio(Top.saved) :
               \A f \in FilesIn(TopStdio(Top.saved)[l]) : f \in Slot /\ files[f] # Closed
        /\ \A fd \in fds : fd[2] \in Slot /\ files[fd[2]] # Closed
    BY <1>2, <1>3, TopStaysOpen, FramesStayOpen
  <2> QED BY <1>1, <1>2, <2>1, <2>2, EndsReferenced
<1> QED BY <1>4, <1>5

\* The table that prepare makes shares the streams of the frame.
LEMMA LaunchShares ==
    ASSUME Launch
    PROVE  \E a, table :
              /\ InSegment /\ UNCHANGED <<counter, tmpMounted>>
              /\ a \in [type : {"program"}, level : {Top.level}]
              /\ Release(Append(Done, a), frames, table, files, disk)
              /\ \A fd \in table : fd[2] \in FilesIn(Last(frames))
<1> DEFINE table == {<<s, Last(frames)[s]>> : s \in {t \in Stream : Last(frames)[t] # Default}}
           a == [type |-> "program", level |-> Top.level]
<1>1. /\ InSegment /\ UNCHANGED <<counter, tmpMounted>>
      /\ Release(Append(Done, a), frames, table, files, disk)
  BY DEF Launch
<1>2. \A fd \in table : fd[2] \in FilesIn(Last(frames))
  BY DEF FilesIn
<1>3. a \in [type : {"program"}, level : {Top.level}]
  OBVIOUS
<1> HIDE DEF table, a
<1> QED BY <1>1, <1>2, <1>3

LEMMA LaunchKeepsReferences ==
    ASSUME Control, References, Launch
    PROVE  References'
<1>1. PICK a, table :
         /\ InSegment /\ UNCHANGED <<counter, tmpMounted>>
         /\ a \in [type : {"program"}, level : {Top.level}]
         /\ Release(Append(Done, a), frames, table, files, disk)
         /\ \A fd \in table : fd[2] \in FilesIn(Last(frames))
  BY LaunchShares
<1>2. a.type = "program" /\ a \in Activation
  <2>1. Top.level \in Nat \ {0}
    BY <1>1, InSegmentIs, StackTypes, Kinds
  <2>2. a \in ProgramActivation
    BY <1>1, <2>1 DEF ProgramActivation
  <2> QED BY <1>1, <2>2 DEF Activation
<1>3. Sound(files, disk) /\ counter' \in 0 .. MaxCounter + 1 /\ Continues(Done)
  BY <1>1, NowIsSound, CounterUnchanged, DoneContinues
<1>4. /\ \A f \in FilesIn(Last(frames)) : f \in Slot /\ files[f] # Closed
      /\ \A l \in DOMAIN frames : \A f \in FilesIn(frames[l]) : f \in Slot /\ files[f] # Closed
  BY <1>3, FramesStayOpen
<1>5. \A fd \in table : fd[2] \in Slot /\ files[fd[2]] # Closed
  BY <1>1, <1>4
<1> QED BY <1>1, <1>2, <1>3, <1>4, <1>5, BeginsReferenced

LEMMA ProgramOpens ==
    ASSUME Control, References, ProgramOpen
    PROVE  \E path, mode, new :
              /\ path \in UserPath /\ mode \in {"r", "w"}
              /\ Opened(Now, path, mode, "user", new)
              /\ Release(stack, frames, fds \cup {<<0, new.id>>}, new.files, new.disk)
              /\ UNCHANGED <<counter, tmpMounted>>
<1>1. PICK path \in UserPath, mode \in {"r", "w"} :
         /\ MayOpen(Now, path, mode)
         /\ Release(stack, frames, fds \cup {<<0, Open(Now, path, mode, "user").id>>},
                    Open(Now, path, mode, "user").files, Open(Now, path, mode, "user").disk)
  BY DEF ProgramOpen
<1> DEFINE new == Open(Now, path, mode, "user")
<1>2. Opening(Now, path, mode, "user", new)
  BY <1>1 DEF Opening
<1>3. Release(stack, frames, fds \cup {<<0, new.id>>}, new.files, new.disk)
      /\ UNCHANGED <<counter, tmpMounted>>
  BY <1>1 DEF ProgramOpen
<1> HIDE DEF new
<1>4. Opened(Now, path, mode, "user", new)
  <2>1. "user" \in Content /\ "user" # "empty" /\ Sound(Now.files, Now.disk)
    BY NowIsSound DEF Content
  <2> QED BY <1>2, <2>1, OpeningIsSound
<1> QED BY <1>3, <1>4

LEMMA ProgramKeepsReferences ==
    ASSUME Control, References, Program
    PROVE  References'
<1>1. Sound(files, disk) /\ Continues(stack)
  BY NowIsSound, SameContinues
<1>2. CASE ProgramOpen
  <2>1. PICK path, mode, new :
           /\ path \in UserPath /\ mode \in {"r", "w"}
           /\ Opened(Now, path, mode, "user", new)
           /\ Release(stack, frames, fds \cup {<<0, new.id>>}, new.files, new.disk)
           /\ UNCHANGED <<counter, tmpMounted>>
    BY <1>2, ProgramOpens
  <2>2. Sound(new.files, new.disk) /\ new.id \in Slot /\ new.files[new.id] # Closed
    BY <2>1 DEF Opened
  <2>3. /\ \A fd \in fds : fd[2] \in Slot /\ new.files[fd[2]] # Closed
        /\ \A l \in DOMAIN frames : \A f \in FilesIn(frames[l]) : f \in Slot /\ new.files[f] # Closed
    BY <2>2, FramesStayOpen
  <2>4. \A fd \in fds \cup {<<0, new.id>>} : fd[2] \in Slot /\ new.files[fd[2]] # Closed
    BY <2>2, <2>3
  <2>5. counter' \in 0 .. MaxCounter + 1
    BY <2>1, CounterUnchanged
  <2> DEFINE table == fds \cup {<<0, new.id>>}
  <2>6. /\ \A fd \in table : fd[2] \in Slot /\ new.files[fd[2]] # Closed
        /\ Release(stack, frames, table, new.files, new.disk)
    BY <2>1, <2>4
  <2> HIDE DEF table
  <2> QED BY <1>1, <2>1, <2>2, <2>3, <2>5, <2>6, GoesOnReferenced
<1>3. CASE ProgramClose
  <2>1. PICK fd \in fds : Release(stack, frames, fds \ {fd}, files, disk)
    BY <1>3 DEF ProgramClose
  <2>2. UNCHANGED <<counter, tmpMounted>> /\ counter' \in 0 .. MaxCounter + 1
    BY <1>3, CounterUnchanged DEF ProgramClose
  <2>3. /\ \A d \in fds : d[2] \in Slot /\ files[d[2]] # Closed
        /\ \A l \in DOMAIN frames : \A f \in FilesIn(frames[l]) : f \in Slot /\ files[f] # Closed
    BY <1>1, FramesStayOpen
  <2>4. \A d \in fds \ {fd} : d[2] \in Slot /\ files[d[2]] # Closed
    BY <2>3
  <2> QED BY <1>1, <2>1, <2>2, <2>3, <2>4, GoesOnReferenced
<1>4. CASE ProgramMountsTmp
  BY <1>4 DEF ProgramMountsTmp, References, Referenced, EmptyHasWriter, Writes
<1> QED BY <1>2, <1>3, <1>4 DEF Program

LEMMA ProgramEndKeepsReferences ==
    ASSUME Control, References, ProgramEnds
    PROVE  References'
<1>1. /\ stack # << >> /\ UNCHANGED <<counter, tmpMounted>>
      /\ Release(Front(stack), frames, {}, files, disk)
  BY DEF ProgramEnds, IsProgram, EndLaunch
<1>2. Sound(files, disk) /\ \A fd \in {} : fd[2] \in Slot /\ files[fd[2]] # Closed
  BY NowIsSound
<1> QED BY <1>1, <1>2, FramesStayOpen, EndsReferenced

LEMMA ReferencesInit == Init => References
<1> SUFFICES ASSUME Init PROVE References
  OBVIOUS
<1>1. /\ stack = << >> /\ frames = <<DefaultStdio>> /\ fds = {} /\ counter = 0 /\ tmpMounted = FALSE
      /\ files = [f \in Slot |-> Closed]
      /\ disk = [n \in Node |-> IF n[1] = "root" /\ n[2] \in TakenTemp THEN "user" ELSE "none"]
  BY DEF Init
<1>2. Held(stack, frames, fds) \subseteq {}
  <2>1. \A l \in DOMAIN frames : FilesIn(frames[l]) \subseteq {}
    BY <1>1 DEF FilesIn, DefaultStdio
  <2>2. \A i \in DOMAIN stack : stack[i].type = "segment" => FilesIn(stack[i].saved) \subseteq {}
    BY <1>1
  <2>3. \A fd \in fds : fd[2] \in {}
    BY <1>1
  <2> QED BY <2>1, <2>2, <2>3, HeldWithin
<1>3. disk \in [Node -> Content] /\ \A n \in Node : disk[n] # "empty"
  BY <1>1 DEF Content
<1>4. files \in [Slot -> OpenFile \cup {Closed}] /\ \A f \in Slot : files[f] = Closed
  BY <1>1
<1>5. counter \in 0 .. MaxCounter + 1 /\ tmpMounted \in BOOLEAN
  <2>1. MaxCounter \in Nat
    BY ShellExecAssumption
  <2>2. 0 \in 0 .. MaxCounter + 1
    BY <2>1
  <2> QED BY <1>1, <2>2
<1> QED BY <1>2, <1>3, <1>4, <1>5 DEF References, Referenced, EmptyHasWriter

LEMMA ReferencesStep == Control /\ References /\ [Next]_vars => References'
<1> SUFFICES ASSUME Control, References, [Next]_vars PROVE References'
  OBVIOUS
<1>1. CASE Line
  BY <1>1, LineKeepsReferences
<1>2. CASE RunStage
  BY <1>2, StageKeepsReferences
<1>3. CASE AbortPipeline \/ EndPipeline
  BY <1>3, PipelineEndKeepsReferences
<1>4. CASE Redirect
  BY <1>4, RedirectKeepsReferences
<1>5. CASE RunNothing
  BY <1>5, NothingKeepsReferences
<1>6. CASE RunScript
  BY <1>6, ScriptKeepsReferences
<1>7. CASE EndScript
  BY <1>7, ScriptEndKeepsReferences
<1>8. CASE EndSegment
  BY <1>8, SegmentEndKeepsReferences
<1>9. CASE Launch
  BY <1>9, LaunchKeepsReferences
<1>10. CASE Program
  BY <1>10, ProgramKeepsReferences
<1>11. CASE ProgramEnds
  BY <1>11, ProgramEndKeepsReferences
<1>12. CASE UNCHANGED vars
  BY <1>12 DEF vars, References, Referenced, EmptyHasWriter, Writes
<1> QED BY <1>1, <1>2, <1>3, <1>4, <1>5, <1>6, <1>7, <1>8, <1>9, <1>10, <1>11, <1>12
        DEF Next, Prompt, Shell

LEMMA ReferencesAlways == Spec => [](Control /\ References)
<1>1. Init => Control /\ References
  BY ControlInit, ReferencesInit
<1>2. Control /\ References /\ [Next]_vars => (Control /\ References)'
  BY ControlStep, ReferencesStep
<1> QED BY <1>1, <1>2, PTL DEF Spec

(***************************************************************************)
(* However lines, scripts, pipelines and programs are nested, a reference  *)
(* never outlives its file nor a file its last reference, and the frames   *)
(* are the shell's own and one for each scope still running.               *)
(***************************************************************************)
THEOREM TypesHold == Spec => []TypeOK
<1>1. Control /\ References => TypeOK
  BY DEF Control, References, Referenced, TypeOK
<1> QED BY <1>1, ReferencesAlways, PTL

-----------------------------------------------------------------------------
(* What a step leaves of the activations and frames below the last.        *)

LowerActivations ==
    /\ Len(stack') \in Nat /\ Len(stack') <= Len(stack) + 1
    /\ \A i \in 1 .. Len(stack) : i \in 1 .. Len(stack') => Alike(stack'[i], stack[i])

LowerFrames ==
    \A l \in 1 .. Len(frames) :
        /\ l \in 1 .. Len(frames')
        /\ l < Len(frames) \/ stack = << >> \/ Top.type # "segment"
        => frames'[l] = frames[l]

NoNewPipe == Len(stack') = Len(stack) + 1 => stack'[Len(stack) + 1].type # "pipe"

NoneEnds == Len(stack') >= Len(stack)

LEMMA LowerBegins ==
    ASSUME Control, NEW base, Continues(base), NEW a \in Activation, stack' = Append(base, a)
    PROVE  /\ LowerActivations /\ Len(stack') = Len(stack) + 1 /\ stack'[Len(stack) + 1] = a
           /\ NoneEnds
<1>1. /\ base \in Seq(Activation) /\ Len(base) = Len(stack) /\ Len(stack) \in Nat
      /\ \A i \in 1 .. Len(stack) : Alike(base[i], stack[i])
  BY StackLen DEF Continues
<1>2. /\ Len(stack') = Len(stack) + 1 /\ stack'[Len(stack) + 1] = a
      /\ \A i \in 1 .. Len(stack) : stack'[i] = base[i]
  BY <1>1, Pushed
<1> QED BY <1>1, <1>2 DEF LowerActivations, NoneEnds

LEMMA LowerGoesOn ==
    ASSUME Control, NEW base, Continues(base), stack' = base
    PROVE  LowerActivations /\ NoNewPipe /\ NoneEnds
<1>1. /\ Len(base) = Len(stack) /\ Len(stack) \in Nat
      /\ \A i \in 1 .. Len(stack) : Alike(base[i], stack[i])
  BY StackLen DEF Continues
<1> QED BY <1>1 DEF LowerActivations, NoNewPipe, NoneEnds

LEMMA LowerEnds ==
    ASSUME Control, stack # << >>, stack' = Front(stack)
    PROVE  LowerActivations /\ NoNewPipe /\ Len(stack') = Len(stack) - 1
<1>1. /\ Len(stack) \in Nat \ {0} /\ Len(stack') = Len(stack) - 1
      /\ \A i \in 1 .. Len(stack) - 1 : stack'[i] = stack[i]
  BY StackLen, StackTypes
<1>2. \A a : Alike(a, a)
  BY DEF Alike
<1> QED BY <1>1, <1>2 DEF LowerActivations, NoNewPipe

LEMMA SameFrames ==
    ASSUME frames' = frames
    PROVE  LowerFrames
  BY DEF LowerFrames

LEMMA FramePushed ==
    ASSUME Control, NEW stdio \in Stdio, frames' = Append(frames, stdio)
    PROVE  LowerFrames
<1>1. \A l \in 1 .. Len(frames) : frames'[l] = frames[l]
  BY Pushed DEF Control
<1> QED BY <1>1 DEF LowerFrames

LEMMA FramePopped ==
    ASSUME Control, frames' = Front(frames)
    PROVE  LowerFrames
<1>1. /\ Len(frames') = Len(frames) - 1
      /\ \A l \in 1 .. Len(frames) - 1 : frames'[l] = frames[l]
  BY FrameTypes
<1> QED BY <1>1 DEF LowerFrames

LEMMA FrameChanged ==
    ASSUME Control, NEW stdio \in Stdio, frames' = TopStdio(stdio), stack # << >>, Top.type = "segment"
    PROVE  LowerFrames
<1>1. /\ Len(frames) \in Nat \ {0}
      /\ \A l \in 1 .. Len(frames) - 1 : frames'[l] = frames[l]
  BY TopStdioIs, FrameTypes
<1>2. \A l \in 1 .. Len(frames) : l < Len(frames) => l \in 1 .. Len(frames) - 1
  BY <1>1
<1> QED BY <1>1, <1>2 DEF LowerFrames

Lower == LowerActivations /\ LowerFrames

LEMMA LowerLine ==
    ASSUME Control, Line
    PROVE  Lower /\ NoneEnds
<1>1. AtLine /\ frames' = frames
  BY DEF Line, RunSegment, RunPipeline, RefusePipeline, Release
<1>2. Continues(Rest) /\ LineDepth \in 0 .. MaxDepth
  BY <1>1, RestContinues, DepthOfLine
<1>3. CASE RunSegment
  <2>1. Len(frames) \in Nat \ {0} /\ Last(frames) \in Stdio
    BY FrameTypes
  <2>2. Segment(Len(frames), LineDepth, Last(frames), FALSE) \in Activation
    BY <1>2, <2>1, SegmentType
  <2>3. stack' = Append(Rest, Segment(Len(frames), LineDepth, Last(frames), FALSE))
    BY <1>3 DEF RunSegment, Release
  <2> QED BY <1>1, <1>2, <2>2, <2>3, LowerBegins, SameFrames DEF Lower
<1>4. ASSUME NEW n \in 2 .. MaxStages, RunPipeline(n) PROVE Lower /\ NoneEnds
  <2>1. PICK names \in PipePaths(n - 1) : Release(Append(Rest, Pipe(names)), frames, fds, files, disk)
    BY <1>4 DEF RunPipeline
  <2>2. n - 1 \in Nat
    BY LastName
  <2>3. Pipe(names) \in Activation /\ stack' = Append(Rest, Pipe(names))
    BY <1>1, <2>1, <2>2, PipeType DEF Release
  <2> QED BY <1>1, <1>2, <2>3, LowerBegins, SameFrames DEF Lower
<1>5. ASSUME NEW n \in 2 .. MaxStages, RefusePipeline(n) PROVE Lower /\ NoneEnds
  <2>1. stack' = Rest
    BY <1>5 DEF RefusePipeline, Release
  <2> QED BY <1>1, <1>2, <2>1, LowerGoesOn, SameFrames DEF Lower
<1> QED BY <1>3, <1>4, <1>5 DEF Line

LEMMA LowerStage ==
    ASSUME Control, RunStage
    PROVE  Lower /\ NoNewPipe /\ NoneEnds
<1>1. /\ IsPipe /\ StageFiles(Top).ok /\ stack' = Append(AtNextStage, Stage)
      /\ frames' = Append(frames, Bound(StageFiles(Top), Last(frames)))
  BY RunStageDoes DEF Release
<1>2. Continues(AtNextStage) /\ Stage \in Activation /\ Stage.type = "segment"
  BY <1>1, NextStage
<1>3. Bound(StageFiles(Top), Last(frames)) \in Stdio
  <2>1. StageFiles(Top).in \in Slot \cup {Default} /\ StageFiles(Top).out \in Slot \cup {Default}
    BY <1>1, StageIds
  <2>2. \A s \in Stream : Last(frames)[s] \in Slot \cup {Default}
    BY FrameTypes DEF Stdio
  <2> QED BY <2>1, <2>2 DEF Bound, Stdio
<1>4. LowerActivations /\ stack'[Len(stack) + 1] = Stage /\ NoneEnds
  BY <1>1, <1>2, LowerBegins
<1> QED BY <1>1, <1>2, <1>3, <1>4, FramePushed DEF Lower, NoNewPipe

LEMMA LowerSegment ==
    ASSUME Control, Redirect \/ RunNothing \/ RunScript \/ Launch
    PROVE  Lower /\ NoNewPipe /\ NoneEnds
<1>1. stack # << >> /\ Top.type = "segment" /\ Continues(Done)
  <2>1. InSegment
    BY DEF Redirect, RunNothing, RunScript, Launch
  <2> QED BY <2>1, InSegmentIs, DoneContinues
<1>2. CASE Redirect
  <2>1. PICK stdio, fs, dk :
           /\ InSegment /\ Top.redirs < MaxRedirs
           /\ Release(Append(Front(stack), [Top EXCEPT !.redirs = @ + 1]), TopStdio(stdio), fds, fs, dk)
           /\ \/ \E path \in UserPath, io \in {<<"r", 1>>, <<"w", 2>>} : \E new :
                    /\ Opening(Now, path, io[1], "user", new)
                    /\ stdio = [Last(frames) EXCEPT ![io[2]] = new.id]
                    /\ fs = new.files /\ dk = new.disk
              \/ stdio = [Last(frames) EXCEPT ![3] = Last(frames)[2]] /\ fs = files /\ dk = disk
    BY <1>2, RedirectDoes
  <2>2. stdio \in Stdio /\ Continues(Append(Front(stack), [Top EXCEPT !.redirs = @ + 1]))
    BY <2>1, RedirectedType, RedirectContinues
  <2>3. stack' = Append(Front(stack), [Top EXCEPT !.redirs = @ + 1]) /\ frames' = TopStdio(stdio)
    BY <2>1 DEF Release
  <2> QED BY <1>1, <2>2, <2>3, LowerGoesOn, FrameChanged DEF Lower
<1>3. CASE RunNothing
  <2>1. stack' = Done /\ frames' = frames
    BY <1>3 DEF RunNothing, Release
  <2> QED BY <1>1, <2>1, LowerGoesOn, SameFrames DEF Lower
<1>4. CASE RunScript
  <2>1. InSegment /\ Top.depth < MaxDepth
    BY <1>4, RunScriptDoes
  <2>2. PICK scoped \in BOOLEAN, lines \in 1 .. MaxLines :
           Release(Append(Done, Script(scoped, lines)), ScriptFrames(scoped), fds, files, disk)
    BY <1>4, RunScriptDoes
  <2>3. /\ Script(scoped, lines) \in Activation /\ Script(scoped, lines).type = "script"
        /\ stack' = Append(Done, Script(scoped, lines)) /\ frames' = ScriptFrames(scoped)
    BY <2>1, <2>2, ScriptType DEF ScriptBegins, Release
  <2>4. LowerActivations /\ NoNewPipe /\ NoneEnds
    BY <1>1, <2>3, LowerBegins DEF NoNewPipe
  <2>5. LowerFrames
    <3>1. CASE scoped
      BY <2>3, <3>1, FrameTypes, FramePushed DEF ScriptFrames
    <3>2. CASE ~scoped
      BY <2>3, <3>2, SameFrames DEF ScriptFrames
    <3> QED BY <3>1, <3>2
  <2> QED BY <2>4, <2>5 DEF Lower
<1>5. CASE Launch
  <2>1. PICK a, table :
           /\ InSegment
           /\ a \in [type : {"program"}, level : {Top.level}]
           /\ Release(Append(Done, a), frames, table, files, disk)
    BY <1>5, LaunchShares
  <2>2. a.type = "program" /\ a \in Activation
    <3>1. Top.level \in Nat \ {0}
      BY <1>1, StackTypes, Kinds
    <3>2. a \in ProgramActivation
      BY <2>1, <3>1 DEF ProgramActivation
    <3> QED BY <2>1, <3>2 DEF Activation
  <2>3. stack' = Append(Done, a) /\ frames' = frames
    BY <2>1 DEF Release
  <2> QED BY <1>1, <2>2, <2>3, LowerBegins, SameFrames DEF Lower, NoNewPipe
<1> QED BY <1>2, <1>3, <1>4, <1>5

LEMMA LowerEnd ==
    ASSUME Control, AbortPipeline \/ EndPipeline \/ EndScript \/ EndSegment \/ ProgramEnds
    PROVE  Lower /\ NoNewPipe /\ Len(stack') = Len(stack) - 1 /\ stack # << >>
<1>1. stack # << >> /\ stack' = Front(stack)
  BY DEF AbortPipeline, EndPipeline, EndScript, EndSegment, ProgramEnds, IsPipe, IsProgram, Release
<1>2. \/ frames' = frames \/ frames' = Front(frames)
      \/ Top.type = "segment" /\ frames' = TopStdio(Top.saved)
  BY DEF AbortPipeline, EndPipeline, EndScript, EndSegment, ProgramEnds, Release
<1>3. Top.type = "segment" => Top.saved \in Stdio
  BY <1>1, StackTypes, Kinds DEF SegmentActivation
<1> QED BY <1>1, <1>2, <1>3, LowerEnds, SameFrames, FramePopped, FrameChanged DEF Lower

LEMMA LowerProgram ==
    ASSUME Control, Program \/ UNCHANGED vars
    PROVE  Lower /\ NoNewPipe /\ NoneEnds /\ stack' = stack /\ frames' = frames
<1>1. stack' = stack /\ frames' = frames
  BY DEF Program, ProgramOpen, ProgramClose, ProgramMountsTmp, vars, Release
<1> QED BY <1>1, SameContinues, LowerGoesOn, SameFrames DEF Lower

-----------------------------------------------------------------------------
(* What a step may do to the open files and to the disk.                   *)

\* A file that a stage is bound to.
StageFile(file) ==
    \/ /\ Reads(Top) /\ disk[NodeOf(Top.temps[Top.at - 1])] # "none"
       /\ file = [node |-> NodeOf(Top.temps[Top.at - 1]), mode |-> "r",
                  sees |-> disk[NodeOf(Top.temps[Top.at - 1])]]
    \/ Feeds(Top) /\ file.mode = "w" /\ file.node = NodeOf(Top.temps[Top.at])

FilesGained ==
    \A f \in Slot : files'[f] # Closed =>
        \/ files'[f] = files[f]
        \/ files[f] = Closed /\ files'[f].node[2] \in UserPath
        \/ files[f] = Closed /\ RunStage /\ StageFile(files'[f])

DiskChanges ==
    \A n \in Node :
        \/ disk'[n] = disk[n]
        \/ disk[n] = "empty" /\ disk'[n] = "full"
        \/ disk'[n] = "user" /\ n[2] \in UserPath
        \/ /\ disk'[n] = "none" /\ IsPipe
           /\ \E j \in DOMAIN Top.temps : n = NodeOf(Top.temps[j])
        \/ /\ disk'[n] \in {"empty", "full"} /\ RunStage /\ Feeds(Top)
           /\ n = NodeOf(Top.temps[Top.at])

LEMMA ReleasedTo ==
    ASSUME NEW stk, NEW frs, NEW table, NEW fs, NEW dk, Release(stk, frs, table, fs, dk)
    PROVE  /\ \A n \in Node : disk'[n] = dk[n] \/ (dk[n] = "empty" /\ disk'[n] = "full")
           /\ \A f \in Slot : files'[f] # Closed => files'[f] = fs[f]
<1> DEFINE gone == {f \in Slot : fs[f] # Closed /\ f \notin Held(stk, frs, table)}
<1>1. /\ files' = [f \in Slot |-> IF f \in gone THEN Closed ELSE fs[f]]
      /\ disk' = [n \in Node |-> IF dk[n] = "empty" /\ \E f \in gone : fs[f].mode = "w" /\ fs[f].node = n
                                 THEN "full" ELSE dk[n]]
  BY DEF Release, Committed
<1> HIDE DEF gone
<1> QED BY <1>1

\* Nothing is opened or unlinked.
LEMMA QuietStep ==
    ASSUME NEW stk, NEW frs, NEW table, Release(stk, frs, table, files, disk)
    PROVE  FilesGained /\ DiskChanges
  BY ReleasedTo DEF FilesGained, DiskChanges

\* A redirection or a program opens a file.
LEMMA UserOpens ==
    ASSUME NEW stk, NEW frs, NEW table, NEW path \in UserPath, NEW mode \in {"r", "w"}, NEW new,
           Opened(Now, path, mode, "user", new), Release(stk, frs, table, new.files, new.disk)
    PROVE  FilesGained /\ DiskChanges
<1>1. /\ \A n \in Node : disk'[n] = new.disk[n] \/ (new.disk[n] = "empty" /\ disk'[n] = "full")
      /\ \A f \in Slot : files'[f] # Closed => files'[f] = new.files[f]
  BY ReleasedTo
<1>2. /\ new.id \in Slot /\ files[new.id] = Closed
      /\ new.files[new.id].node = NodeOf(path)
      /\ \A f \in Slot : f # new.id => new.files[f] = files[f]
      /\ \A n \in Node : n # NodeOf(path) => new.disk[n] = disk[n]
      /\ new.disk[NodeOf(path)] = "user" \/ new.disk[NodeOf(path)] = disk[NodeOf(path)]
  BY DEF Opened, Now
<1>3. NodeOf(path)[2] = path
  BY NodeOfIsNode
<1>4. FilesGained
  BY <1>1, <1>2, <1>3 DEF FilesGained
<1>5. ASSUME NEW n \in Node
      PROVE  \/ disk'[n] = disk[n] \/ (disk[n] = "empty" /\ disk'[n] = "full")
             \/ disk'[n] = "user" /\ n[2] \in UserPath
  BY <1>1, <1>2, <1>3
<1>6. DiskChanges
  BY <1>5 DEF DiskChanges
<1> QED BY <1>4, <1>6

LEMMA LineFiles ==
    ASSUME Control, References, Line
    PROVE  FilesGained /\ DiskChanges
<1>1. CASE RunSegment
  BY <1>1, QuietStep DEF RunSegment
<1>2. ASSUME NEW n \in 2 .. MaxStages, RunPipeline(n) PROVE FilesGained /\ DiskChanges
  <2>1. PICK names \in PipePaths(n - 1) : Release(Append(Rest, Pipe(names)), frames, fds, files, disk)
    BY <1>2 DEF RunPipeline
  <2> QED BY <2>1, QuietStep
<1>3. ASSUME NEW n \in 2 .. MaxStages, RefusePipeline(n) PROVE FilesGained /\ DiskChanges
  <2>0. PICK m \in 0 .. n - 2 : \E names \in PipePaths(m) :
           Release(Rest, frames, fds, files, Cleaned(disk, names))
    BY <1>3 DEF RefusePipeline
  <2>1. PICK names \in PipePaths(m) : Release(Rest, frames, fds, files, Cleaned(disk, names))
    BY <2>0
  <2>2. /\ \A x \in Node : \/ disk'[x] = Cleaned(disk, names)[x]
                           \/ Cleaned(disk, names)[x] = "empty" /\ disk'[x] = "full"
        /\ \A f \in Slot : files'[f] # Closed => files'[f] = files[f]
    BY <2>1, ReleasedTo
  <2>3. ASSUME NEW i \in DOMAIN names
        PROVE  disk[NodeOf(names[i])] = "none"
    <3>1. i \in 1 .. m /\ names \in [1 .. m -> Temp]
      BY <2>3 DEF PipePaths
    <3>2. names[i] \in NextPipePath(SubSeq(names, 1, i - 1)) /\ names[i] \in Temp
      BY <3>1 DEF PipePaths
    <3> QED BY <3>2 DEF NextPipePath, Taken
  <2>4. \A x \in Node : Cleaned(disk, names)[x] = disk[x]
    BY <2>3 DEF Cleaned
  <2>5. DiskChanges
    BY <2>2, <2>4 DEF DiskChanges
  <2> QED BY <2>2, <2>5 DEF FilesGained
<1> QED BY <1>1, <1>2, <1>3 DEF Line

LEMMA StageFilesStep ==
    ASSUME Control, References, RunStage
    PROVE  FilesGained /\ DiskChanges
<1> DEFINE bound == StageFiles(Top)
<1>1. /\ IsPipe /\ StagesLeft /\ bound.ok
      /\ Release(Append(AtNextStage, Stage), Append(frames, Bound(bound, Last(frames))),
                 fds, bound.files, bound.disk)
  BY RunStageDoes DEF RunStage
<1>2. StageBinds(bound)
  BY <1>1, StageSound
<1> HIDE DEF bound
<1>3. /\ \A n \in Node : disk'[n] = bound.disk[n] \/ (bound.disk[n] = "empty" /\ disk'[n] = "full")
      /\ \A f \in Slot : files'[f] # Closed => files'[f] = bound.files[f]
  BY <1>1, ReleasedTo
<1>4. ASSUME NEW f \in Slot, files'[f] # Closed
      PROVE  files'[f] = files[f] \/ (files[f] = Closed /\ StageFile(files'[f]))
  <2>1. CASE f = bound.in
    <3>1. /\ Reads(Top) /\ files[f] = Closed /\ disk[NodeOf(Top.temps[Top.at - 1])] # "none"
          /\ bound.files[f] = [node |-> NodeOf(Top.temps[Top.at - 1]), mode |-> "r",
                               sees |-> disk[NodeOf(Top.temps[Top.at - 1])]]
      BY <1>2, <2>1 DEF StageBinds
    <3> QED BY <1>3, <1>4, <3>1 DEF StageFile
  <2>2. CASE f = bound.out
    <3>1. /\ Feeds(Top) /\ files[f] = Closed /\ bound.files[f].mode = "w"
          /\ bound.files[f].node = NodeOf(Top.temps[Top.at])
      BY <1>2, <2>2 DEF StageBinds
    <3> QED BY <1>3, <1>4, <3>1 DEF StageFile
  <2>3. CASE f # bound.in /\ f # bound.out
    BY <1>2, <1>3, <1>4, <2>3 DEF StageBinds
  <2> QED BY <2>1, <2>2, <2>3
<1>5. FilesGained
  BY <1>4 DEF FilesGained
<1>6. ASSUME NEW n \in Node
      PROVE  \/ disk'[n] = disk[n] \/ (disk[n] = "empty" /\ disk'[n] = "full")
             \/ disk'[n] \in {"empty", "full"} /\ Feeds(Top) /\ n = NodeOf(Top.temps[Top.at])
  <2>1. \/ bound.disk[n] = disk[n]
        \/ Feeds(Top) /\ n = NodeOf(Top.temps[Top.at]) /\ bound.disk[n] = "empty"
    BY <1>2 DEF StageBinds
  <2> QED BY <1>3, <2>1
<1>7. DiskChanges
  BY <1>6 DEF DiskChanges
<1> QED BY <1>5, <1>7

\* The end of a pipeline unlinks its temp files.
LEMMA PipelineEndFiles ==
    ASSUME Control, References, AbortPipeline \/ EndPipeline
    PROVE  /\ FilesGained /\ DiskChanges
           /\ \A n \in Node : (\E j \in DOMAIN Top.temps : n = NodeOf(Top.temps[j])) => disk'[n] = "none"
<1>1. IsPipe /\ Release(Front(stack), frames, fds, files, Cleaned(disk, Top.temps))
  BY DEF AbortPipeline, EndPipeline
<1>2. /\ \A n \in Node : \/ disk'[n] = Cleaned(disk, Top.temps)[n]
                         \/ Cleaned(disk, Top.temps)[n] = "empty" /\ disk'[n] = "full"
      /\ \A f \in Slot : files'[f] # Closed => files'[f] = files[f]
  BY <1>1, ReleasedTo
<1>3. \A n \in Node : Cleaned(disk, Top.temps)[n] =
          IF \E j \in DOMAIN Top.temps : n = NodeOf(Top.temps[j]) THEN "none" ELSE disk[n]
  BY DEF Cleaned
<1>4. FilesGained
  BY <1>2 DEF FilesGained
<1>5. ASSUME NEW n \in Node
      PROVE  /\ \/ disk'[n] = disk[n] \/ (disk[n] = "empty" /\ disk'[n] = "full")
                \/ disk'[n] = "none" /\ \E j \in DOMAIN Top.temps : n = NodeOf(Top.temps[j])
             /\ (\E j \in DOMAIN Top.temps : n = NodeOf(Top.temps[j])) => disk'[n] = "none"
  BY <1>2, <1>3
<1>6. DiskChanges
  BY <1>1, <1>5 DEF DiskChanges
<1> QED BY <1>4, <1>5, <1>6

LEMMA RedirectFiles ==
    ASSUME Control, References, Redirect
    PROVE  FilesGained /\ DiskChanges
<1>1. PICK stdio, fs, dk :
         /\ InSegment /\ Top.redirs < MaxRedirs
         /\ Release(Append(Front(stack), [Top EXCEPT !.redirs = @ + 1]), TopStdio(stdio), fds, fs, dk)
         /\ \/ \E path \in UserPath, io \in {<<"r", 1>>, <<"w", 2>>} : \E new :
                  /\ Opening(Now, path, io[1], "user", new)
                  /\ stdio = [Last(frames) EXCEPT ![io[2]] = new.id]
                  /\ fs = new.files /\ dk = new.disk
            \/ stdio = [Last(frames) EXCEPT ![3] = Last(frames)[2]] /\ fs = files /\ dk = disk
  BY RedirectDoes
<1>2. CASE fs = files /\ dk = disk
  BY <1>1, <1>2, QuietStep
<1>3. ASSUME NEW path \in UserPath, NEW io \in {<<"r", 1>>, <<"w", 2>>}, NEW new,
             Opening(Now, path, io[1], "user", new), fs = new.files, dk = new.disk
      PROVE  FilesGained /\ DiskChanges
  <2>1. io[1] \in {"r", "w"} /\ "user" \in Content /\ "user" # "empty" /\ Sound(Now.files, Now.disk)
    BY NowIsSound DEF Content
  <2>2. Opened(Now, path, io[1], "user", new)
    BY <1>3, <2>1, OpeningIsSound
  <2> QED BY <1>1, <1>3, <2>1, <2>2, UserOpens
<1> QED BY <1>1, <1>2, <1>3

LEMMA ProgramFiles ==
    ASSUME Control, References, Program
    PROVE  FilesGained /\ DiskChanges
<1>1. CASE ProgramOpen
  <2>1. PICK path, mode, new :
           /\ path \in UserPath /\ mode \in {"r", "w"}
           /\ Opened(Now, path, mode, "user", new)
           /\ Release(stack, frames, fds \cup {<<0, new.id>>}, new.files, new.disk)
    BY <1>1, ProgramOpens
  <2> QED BY <2>1, UserOpens
<1>2. CASE ProgramClose
  BY <1>2, QuietStep DEF ProgramClose
<1>3. CASE ProgramMountsTmp
  BY <1>3 DEF ProgramMountsTmp, FilesGained, DiskChanges
<1> QED BY <1>1, <1>2, <1>3 DEF Program

LEMMA FilesStep ==
    ASSUME Control, References, [Next]_vars
    PROVE  FilesGained /\ DiskChanges
<1>1. CASE Line
  BY <1>1, LineFiles
<1>2. CASE RunStage
  BY <1>2, StageFilesStep
<1>3. CASE AbortPipeline \/ EndPipeline
  BY <1>3, PipelineEndFiles
<1>4. CASE Redirect
  BY <1>4, RedirectFiles
<1>5. CASE RunNothing \/ EndScript \/ EndSegment \/ ProgramEnds \/ Launch
  BY <1>5, QuietStep DEF RunNothing, EndScript, EndSegment, ProgramEnds, Launch
<1>6. CASE RunScript
  <2>1. PICK scoped \in BOOLEAN, lines \in 1 .. MaxLines :
           Release(Append(Done, Script(scoped, lines)), ScriptFrames(scoped), fds, files, disk)
    BY <1>6, RunScriptDoes
  <2> QED BY <2>1, QuietStep
<1>7. CASE Program
  BY <1>7, ProgramFiles
<1>8. CASE UNCHANGED vars
  BY <1>8 DEF vars, FilesGained, DiskChanges
<1> QED BY <1>1, <1>2, <1>3, <1>4, <1>5, <1>6, <1>7, <1>8 DEF Next, Prompt, Shell

-----------------------------------------------------------------------------
(* The names of the pipes.                                                 *)

IsTemp(i, j) == i \in DOMAIN stack /\ stack[i].type = "pipe" /\ j \in DOMAIN stack[i].temps
TempOf(i, j) == stack[i].temps[j]

LEMMA TempsAre ==
    /\ \A p \in Temps : \E i, j : p = <<i, j>> /\ IsTemp(i, j) /\ TempAt(p) = TempOf(i, j)
    /\ \A i, j : IsTemp(i, j) => <<i, j>> \in Temps /\ TempAt(<<i, j>>) = TempOf(i, j)
<1>1. ASSUME NEW p \in Temps
      PROVE  \E i, j : p = <<i, j>> /\ IsTemp(i, j) /\ TempAt(p) = TempOf(i, j)
  <2>1. PICK i \in {k \in DOMAIN stack : stack[k].type = "pipe"} :
           p \in {<<i, j>> : j \in DOMAIN stack[i].temps}
    BY DEF Temps
  <2>2. PICK j \in DOMAIN stack[i].temps : p = <<i, j>>
    BY <2>1
  <2> QED BY <2>1, <2>2 DEF IsTemp, TempAt, TempOf
<1>2. ASSUME NEW k, NEW l, IsTemp(k, l)
      PROVE  <<k, l>> \in Temps /\ TempAt(<<k, l>>) = TempOf(k, l)
  <2>1. k \in {m \in DOMAIN stack : stack[m].type = "pipe"} /\ l \in DOMAIN stack[k].temps
    BY <1>2 DEF IsTemp
  <2>2. <<k, l>> \in {<<k, j>> : j \in DOMAIN stack[k].temps}
    BY <2>1
  <2> QED BY <2>1, <2>2 DEF Temps, TempAt, TempOf
<1> QED BY <1>1, <1>2

Unique ==
    \A i, j, k, l : IsTemp(i, j) /\ IsTemp(k, l) /\ TempOf(i, j) = TempOf(k, l) => i = k /\ j = l
Numbered == \A i, j : IsTemp(i, j) => TempOf(i, j) \in Temp /\ TempOf(i, j) < counter
Accounted ==
    ~tmpMounted => \A n \in Node : disk[n] \in {"empty", "full"}
                                       => n[1] = "root" /\ \E i, j : IsTemp(i, j) /\ TempOf(i, j) = n[2]

Names == Unique /\ Numbered /\ Accounted

\* The names of a pipeline's pipes.
LEMMA NamesAre ==
    ASSUME References, NEW m \in Nat, NEW names \in PipePaths(m)
    PROVE  /\ DOMAIN names = 1 .. m /\ \A i \in 1 .. m : names[i] \in Temp
           /\ \A i \in 1 .. m : counter <= names[i] /\ disk[NodeOf(names[i])] = "none"
           /\ \A i, j \in 1 .. m : i < j => names[i] < names[j]
<1>1. names \in [1 .. m -> Temp] /\ names \in Seq(Temp) /\ Len(names) = m
  <2>1. names \in [1 .. m -> Temp]
    BY DEF PipePaths
  <2> QED BY <2>1
<1>2. ASSUME NEW j \in 1 .. m
      PROVE  /\ counter <= names[j] /\ disk[NodeOf(names[j])] = "none"
             /\ \A i \in 1 .. m : i < j => names[i] < names[j]
  <2> DEFINE before == SubSeq(names, 1, j - 1)
  <2>1. names[j] \in NextPipePath(before) /\ names[j] \in Temp
    BY <1>1 DEF PipePaths
  <2>2. j - 1 \in 0 .. Len(names)
    BY <1>1
  <2>3. /\ DOMAIN before = 1 .. j - 1
        /\ \A i \in 1 .. j - 1 : before[i] = names[i]
    <3>1. before \in Seq(Temp) /\ Len(before) = j - 1
          /\ \A i \in 1 .. j - 1 : before[i] = names[i]
      BY <1>1, <2>2, Beginning
    <3> QED BY <3>1
  <2> HIDE DEF before
  <2>4. /\ counter <= names[j] /\ ~Taken(names[j])
        /\ \A i \in DOMAIN before : before[i] < names[j]
    BY <2>1 DEF NextPipePath, Tried, Ahead, CounterStart
  <2>5. \A i \in 1 .. m : i < j => i \in 1 .. j - 1
    OBVIOUS
  <2> QED BY <2>1, <2>3, <2>4, <2>5 DEF Taken
<1> QED BY <1>1, <1>2

LEMMA PipelineBegins ==
    ASSUME Control, References, NEW n \in 2 .. MaxStages, RunPipeline(n)
    PROVE  \E names \in PipePaths(n - 1) :
              /\ n - 1 \in Nat \ {0} /\ counter' = names[n - 1] + 1
              /\ Len(stack') = Len(stack) + 1 /\ stack'[Len(stack) + 1] = Pipe(names)
              /\ Pipe(names).type = "pipe" /\ Pipe(names).temps = names
              /\ Pipe(names).level = Len(frames)
              /\ frames' = frames /\ UNCHANGED tmpMounted
<1>1. PICK names \in PipePaths(n - 1) :
         counter' = names[n - 1] + 1 /\ Release(Append(Rest, Pipe(names)), frames, fds, files, disk)
  BY DEF RunPipeline
<1>2. AtLine /\ n - 1 \in Nat \ {0} /\ n - 1 \in Nat /\ UNCHANGED tmpMounted
  BY LastName DEF RunPipeline
<1>3. /\ Pipe(names) \in Activation /\ Pipe(names).type = "pipe" /\ Pipe(names).temps = names
      /\ Pipe(names).level = Len(frames)
  BY <1>2, PipeType
<1>4. Continues(Rest)
  BY <1>2, RestContinues
<1>5. stack' = Append(Rest, Pipe(names)) /\ frames' = frames
  BY <1>1 DEF Release
<1>6. Len(stack') = Len(stack) + 1 /\ stack'[Len(stack) + 1] = Pipe(names)
  BY <1>3, <1>4, <1>5, LowerBegins
<1> QED BY <1>1, <1>2, <1>3, <1>5, <1>6

\* How the activations and frames change in a step.
LEMMA StepShape ==
    ASSUME Control, [Next]_vars
    PROVE  /\ Lower
           /\ NoNewPipe \/ \E n \in 2 .. MaxStages : RunPipeline(n)
           /\ \/ NoneEnds
              \/ /\ stack # << >> /\ Len(stack') = Len(stack) - 1
                 /\ AbortPipeline \/ EndPipeline \/ Top.type # "pipe"
<1>1. CASE Line
  <2>1. NoNewPipe \/ \E n \in 2 .. MaxStages : RunPipeline(n)
    <3>1. CASE RunSegment
      <4>1. LineDepth \in 0 .. MaxDepth /\ Continues(Rest)
        BY <3>1, DepthOfLine, RestContinues DEF RunSegment
      <4>2. Len(frames) \in Nat \ {0} /\ Last(frames) \in Stdio
        BY FrameTypes
      <4>3. /\ Segment(Len(frames), LineDepth, Last(frames), FALSE) \in Activation
            /\ Segment(Len(frames), LineDepth, Last(frames), FALSE).type = "segment"
        BY <4>1, <4>2, SegmentType
      <4>4. stack' = Append(Rest, Segment(Len(frames), LineDepth, Last(frames), FALSE))
        BY <3>1 DEF RunSegment, Release
      <4> QED BY <4>1, <4>3, <4>4, LowerBegins DEF NoNewPipe
    <3>2. ASSUME NEW n \in 2 .. MaxStages, RefusePipeline(n) PROVE NoNewPipe
      <4>1. stack' = Rest /\ Continues(Rest)
        BY <3>2, RestContinues DEF RefusePipeline, Release
      <4> QED BY <4>1, LowerGoesOn
    <3> QED BY <1>1, <3>1, <3>2 DEF Line
  <2> QED BY <1>1, <2>1, LowerLine
<1>2. CASE RunStage
  BY <1>2, LowerStage
<1>3. CASE AbortPipeline \/ EndPipeline
  BY <1>3, LowerEnd
<1>4. CASE Redirect \/ RunNothing \/ RunScript \/ Launch
  BY <1>4, LowerSegment
<1>5. CASE EndScript \/ EndSegment \/ ProgramEnds
  <2>1. Top.type # "pipe"
    BY <1>5 DEF EndScript, EndSegment, ProgramEnds, IsProgram
  <2> QED BY <1>5, <2>1, LowerEnd
<1>6. CASE Program \/ UNCHANGED vars
  BY <1>6, LowerProgram
<1> QED BY <1>1, <1>2, <1>3, <1>4, <1>5, <1>6 DEF Next, Prompt, Shell

LEMMA CounterGrows ==
    ASSUME Control, References, [Next]_vars
    PROVE  counter \in Nat /\ counter' \in Nat /\ counter <= counter'
<1>1. counter \in Nat /\ \A k \in Temp : k \in Nat
  <2>1. MaxCounter \in Nat
    BY ShellExecAssumption
  <2> QED BY <2>1 DEF References, Temp
<1>2. CASE Line
  <2>1. CASE RunSegment
    BY <1>1, <2>1 DEF RunSegment
  <2>2. ASSUME NEW n \in 2 .. MaxStages, RunPipeline(n) PROVE counter' \in Nat /\ counter <= counter'
    <3>1. PICK names \in PipePaths(n - 1) : counter' = names[n - 1] + 1
      BY <2>2 DEF RunPipeline
    <3>2. n - 1 \in Nat /\ n - 1 \in 1 .. n - 1
      BY LastName
    <3>3. names[n - 1] \in Temp /\ counter <= names[n - 1]
      BY <3>2, NamesAre
    <3> QED BY <1>1, <3>1, <3>3
  <2>3. ASSUME NEW n \in 2 .. MaxStages, RefusePipeline(n) PROVE counter' \in Nat /\ counter <= counter'
    <3>0. PICK m \in 0 .. n - 2 : \E names \in PipePaths(m) : \E k \in Tried(names) : counter' = k + 1
      BY <2>3 DEF RefusePipeline
    <3>1. PICK names \in PipePaths(m) : \E k \in Tried(names) : counter' = k + 1
      BY <3>0
    <3>2. \A k \in Tried(names) : k \in Temp /\ counter <= k
      BY DEF Tried, Ahead, CounterStart
    <3> QED BY <1>1, <3>1, <3>2
  <2> QED BY <1>1, <1>2, <2>1, <2>2, <2>3 DEF Line
<1>3. CASE UNCHANGED counter
  BY <1>1, <1>3
<1> QED BY <1>2, <1>3
        DEF Next, Prompt, Shell, Program, RunStage, AbortPipeline, EndPipeline, Redirect, RunNothing,
            RunScript, EndScript, EndSegment, Launch, ProgramOpen, ProgramClose, ProgramMountsTmp,
            ProgramEnds, vars

\* A pipeline that begins: its names are new, and the counter is past them.
NewPipe(i) ==
    /\ i = Len(stack) + 1 /\ Len(stack') = i
    /\ stack'[i].type = "pipe" /\ stack'[i].level = Len(frames)
    /\ frames' = frames /\ UNCHANGED tmpMounted
    /\ \A j \in DOMAIN stack'[i].temps :
           /\ stack'[i].temps[j] \in Temp /\ disk[NodeOf(stack'[i].temps[j])] = "none"
           /\ counter <= stack'[i].temps[j] /\ stack'[i].temps[j] < counter'
    /\ \A j, l \in DOMAIN stack'[i].temps : stack'[i].temps[j] = stack'[i].temps[l] => j = l

LEMMA NewPipeIs ==
    ASSUME Control, References, NEW n \in 2 .. MaxStages, RunPipeline(n), NEW i, i = Len(stack) + 1
    PROVE  NewPipe(i)
<1>1. PICK names \in PipePaths(n - 1) :
         /\ n - 1 \in Nat \ {0} /\ counter' = names[n - 1] + 1
         /\ Len(stack') = Len(stack) + 1 /\ stack'[Len(stack) + 1] = Pipe(names)
         /\ Pipe(names).type = "pipe" /\ Pipe(names).temps = names
         /\ Pipe(names).level = Len(frames)
         /\ frames' = frames /\ UNCHANGED tmpMounted
  BY PipelineBegins
<1>2. n - 1 \in Nat /\ n - 1 \in 1 .. n - 1
  BY LastName
<1>3. /\ DOMAIN names = 1 .. n - 1 /\ \A j \in 1 .. n - 1 : names[j] \in Temp
      /\ \A j \in 1 .. n - 1 : counter <= names[j] /\ disk[NodeOf(names[j])] = "none"
      /\ \A j, l \in 1 .. n - 1 : j < l => names[j] < names[l]
  BY <1>2, NamesAre
<1>4. \A k \in Temp : k \in Nat
  <2>1. MaxCounter \in Nat
    BY ShellExecAssumption
  <2> QED BY <2>1 DEF Temp
<1>5. \A j \in 1 .. n - 1 : names[j] < names[n - 1] + 1
  <2>1. \A j \in 1 .. n - 1 : j = n - 1 \/ j < n - 1
    BY <1>2
  <2>2. \A j \in 1 .. n - 1 : names[j] \in Nat /\ names[n - 1] \in Nat
    BY <1>2, <1>3, <1>4
  <2> QED BY <1>2, <1>3, <2>1, <2>2
<1>6. \A j, l \in 1 .. n - 1 : names[j] = names[l] => j = l
  <2>1. \A j, l \in 1 .. n - 1 : j < l \/ l < j \/ j = l
    BY <1>2
  <2>2. \A j, l \in 1 .. n - 1 : j < l => names[j] # names[l]
    BY <1>3, <1>4
  <2> QED BY <2>1, <2>2
<1>7. stack'[i].temps = names /\ stack'[i].type = "pipe" /\ stack'[i].level = Len(frames)
  BY <1>1
<1> QED BY <1>1, <1>3, <1>5, <1>6, <1>7 DEF NewPipe

LEMMA TempsBelow ==
    ASSUME Control, Control', LowerActivations, NEW i \in 1 .. Len(stack), NEW j
    PROVE  /\ IsTemp(i, j)' => /\ IsTemp(i, j) /\ stack'[i].temps[j] = stack[i].temps[j]
                               /\ stack'[i].level = stack[i].level
           /\ IsTemp(i, j) /\ i \in 1 .. Len(stack') =>
                  IsTemp(i, j)' /\ stack'[i].temps[j] = stack[i].temps[j]
<1>1. /\ DOMAIN stack = 1 .. Len(stack) /\ i \in DOMAIN stack
      /\ DOMAIN stack' = 1 .. Len(stack')
  <2>1. stack' \in Seq(Activation)
    BY DEF Control
  <2> QED BY <2>1, StackLen
<1>2. i \in 1 .. Len(stack') => Alike(stack'[i], stack[i])
  BY DEF LowerActivations
<1> QED BY <1>1, <1>2 DEF IsTemp, Alike

\* A pipe after the step was one before, or is of a pipeline that begins.
LEMMA TempsAfter ==
    ASSUME Control, Control', References, [Next]_vars, NEW i, NEW j, IsTemp(i, j)'
    PROVE  /\ j \in DOMAIN stack'[i].temps
           /\ \/ /\ i \in 1 .. Len(stack) /\ IsTemp(i, j) /\ stack'[i].temps[j] = stack[i].temps[j]
                 /\ stack'[i].level = stack[i].level
              \/ NewPipe(i)
<1>1. LowerActivations /\ (NoNewPipe \/ \E n \in 2 .. MaxStages : RunPipeline(n))
  BY StepShape DEF Lower
<1>2. DOMAIN stack' = 1 .. Len(stack') /\ Len(stack) \in Nat
  <2>1. stack' \in Seq(Activation)
    BY DEF Control
  <2> QED BY <2>1, StackLen
<1>3. i \in 1 .. Len(stack') /\ stack'[i].type = "pipe" /\ j \in DOMAIN stack'[i].temps
  BY <1>2 DEF IsTemp
<1>4. i \in 1 .. Len(stack) \/ (i = Len(stack) + 1 /\ Len(stack') = Len(stack) + 1)
  <2>1. Len(stack') \in Nat /\ Len(stack') <= Len(stack) + 1
    BY StepShape DEF Lower, LowerActivations
  <2> QED BY <1>2, <1>3, <2>1, OneMore
<1>5. CASE i \in 1 .. Len(stack)
  <2>1. LowerActivations
    BY StepShape DEF Lower
  <2> QED BY <1>3, <1>5, <2>1, TempsBelow
<1>6. CASE i = Len(stack) + 1 /\ Len(stack') = Len(stack) + 1
  <2>1. \E n \in 2 .. MaxStages : RunPipeline(n)
    BY <1>3, <1>6, StepShape DEF NoNewPipe
  <2> QED BY <1>3, <1>6, <2>1, NewPipeIs
<1> QED BY <1>4, <1>5, <1>6

LEMMA UniqueStep ==
    ASSUME Control, Control', References, Unique, Numbered, [Next]_vars
    PROVE  Unique'
<1> SUFFICES ASSUME NEW i, NEW j, NEW k, NEW l, IsTemp(i, j)', IsTemp(k, l)',
                    stack'[i].temps[j] = stack'[k].temps[l]
             PROVE  i = k /\ j = l
  BY DEF Unique, TempOf
<1>1. /\ j \in DOMAIN stack'[i].temps
      /\ \/ i \in 1 .. Len(stack) /\ IsTemp(i, j) /\ stack'[i].temps[j] = stack[i].temps[j]
         \/ NewPipe(i)
  BY TempsAfter
<1>2. /\ l \in DOMAIN stack'[k].temps
      /\ \/ k \in 1 .. Len(stack) /\ IsTemp(k, l) /\ stack'[k].temps[l] = stack[k].temps[l]
         \/ NewPipe(k)
  BY TempsAfter
<1>3. counter \in Nat /\ \A x \in Temp : x \in Nat
  <2>1. MaxCounter \in Nat
    BY ShellExecAssumption
  <2> QED BY <2>1 DEF References, Temp
<1>4. CASE IsTemp(i, j) /\ stack'[i].temps[j] = stack[i].temps[j]
           /\ IsTemp(k, l) /\ stack'[k].temps[l] = stack[k].temps[l]
  BY <1>4 DEF Unique, TempOf
<1>5. CASE NewPipe(i) /\ NewPipe(k)
  <2>1. i = k
    BY <1>5 DEF NewPipe
  <2> QED BY <1>1, <1>2, <1>5, <2>1 DEF NewPipe
<1>6. CASE NewPipe(i) /\ IsTemp(k, l) /\ stack'[k].temps[l] = stack[k].temps[l]
  <2>1. stack[k].temps[l] \in Temp /\ stack[k].temps[l] < counter
    BY <1>6 DEF Numbered, TempOf
  <2>2. stack'[i].temps[j] \in Temp /\ counter <= stack'[i].temps[j]
    BY <1>1, <1>6 DEF NewPipe
  <2> QED BY <1>3, <1>6, <2>1, <2>2
<1>7. CASE NewPipe(k) /\ IsTemp(i, j) /\ stack'[i].temps[j] = stack[i].temps[j]
  <2>1. stack[i].temps[j] \in Temp /\ stack[i].temps[j] < counter
    BY <1>7 DEF Numbered, TempOf
  <2>2. stack'[k].temps[l] \in Temp /\ counter <= stack'[k].temps[l]
    BY <1>2, <1>7 DEF NewPipe
  <2> QED BY <1>3, <1>7, <2>1, <2>2
<1> QED BY <1>1, <1>2, <1>4, <1>5, <1>6, <1>7

LEMMA NumberedStep ==
    ASSUME Control, Control', References, Numbered, [Next]_vars
    PROVE  Numbered'
<1> SUFFICES ASSUME NEW i, NEW j, IsTemp(i, j)'
             PROVE  stack'[i].temps[j] \in Temp /\ stack'[i].temps[j] < counter'
  BY DEF Numbered, TempOf
<1>1. /\ j \in DOMAIN stack'[i].temps
      /\ \/ IsTemp(i, j) /\ stack'[i].temps[j] = stack[i].temps[j]
         \/ NewPipe(i)
  BY TempsAfter
<1>2. counter \in Nat /\ counter' \in Nat /\ counter <= counter' /\ \A x \in Temp : x \in Nat
  <2>1. MaxCounter \in Nat
    BY ShellExecAssumption
  <2> QED BY <2>1, CounterGrows DEF Temp
<1>3. CASE NewPipe(i)
  BY <1>1, <1>3 DEF NewPipe
<1>4. CASE IsTemp(i, j) /\ stack'[i].temps[j] = stack[i].temps[j]
  <2>1. stack[i].temps[j] \in Temp /\ stack[i].temps[j] < counter
    BY <1>4 DEF Numbered, TempOf
  <2> QED BY <1>2, <1>4, <2>1
<1> QED BY <1>1, <1>3, <1>4

LEMMA AccountedStep ==
    ASSUME Control, Control', References, Accounted, [Next]_vars
    PROVE  Accounted'
<1> SUFFICES ASSUME ~tmpMounted', NEW n \in Node, disk'[n] \in {"empty", "full"}
             PROVE  n[1] = "root" /\ \E i, j : IsTemp(i, j)' /\ stack'[i].temps[j] = n[2]
  BY DEF Accounted, TempOf
<1>1. ~tmpMounted
  <2>1. CASE UNCHANGED tmpMounted
    BY <2>1
  <2>2. CASE ProgramMountsTmp
    BY <2>2 DEF ProgramMountsTmp
  <2> QED BY <2>1, <2>2
          DEF Next, Prompt, Shell, Program, Line, RunSegment, RunPipeline, RefusePipeline, RunStage,
              AbortPipeline, EndPipeline, Redirect, RunNothing, RunScript, EndScript, EndSegment,
              Launch, ProgramOpen, ProgramClose, ProgramEnds, vars
<1>2. Len(stack) \in Nat /\ DOMAIN stack = 1 .. Len(stack) /\ LowerActivations
  BY StackLen, StepShape DEF Lower
<1>3. CASE RunStage /\ Feeds(Top) /\ n = NodeOf(Top.temps[Top.at])
  <2>1. IsPipe /\ StagesLeft
    BY <1>3 DEF RunStage
  <2>2. /\ Top.at \in 1 .. Len(Top.temps) /\ Top.temps[Top.at] \in Temp
        /\ stack # << >> /\ Top = stack[Len(stack)] /\ Top.type = "pipe"
        /\ Top.temps \in Seq(Temp) /\ Len(stack) \in 1 .. Len(stack)
    BY <1>3, <2>1, StagePaths, PipeIs, StackTypes, StackLen
  <2>3. IsTemp(Len(stack), Top.at)
    BY <1>2, <2>2 DEF IsTemp
  <2>4. Len(stack) \in 1 .. Len(stack')
    <3>1. Len(stack') >= Len(stack) /\ Len(stack') \in Nat
      BY <1>3, LowerStage DEF NoneEnds, Lower, LowerActivations
    <3> QED BY <1>2, <2>2, <3>1
  <2>5. IsTemp(Len(stack), Top.at) =>
            \E i, j : IsTemp(i, j)' /\ stack'[i].temps[j] = stack[Len(stack)].temps[Top.at]
    <3>1. \A i \in 1 .. Len(stack) : \A j : IsTemp(i, j) /\ i \in 1 .. Len(stack') =>
              IsTemp(i, j)' /\ stack'[i].temps[j] = stack[i].temps[j]
      BY <1>2, TempsBelow
    <3> QED BY <2>2, <2>4, <3>1
  <2>6. n[1] = "root" /\ n[2] = Top.temps[Top.at]
    BY <1>1, <1>3, <2>2, NodeOfIsNode
  <2> QED BY <2>2, <2>3, <2>5, <2>6
<1>4. CASE disk[n] \in {"empty", "full"}
  <2>1. n[1] = "root" /\ \E i, j : IsTemp(i, j) /\ stack[i].temps[j] = n[2]
    BY <1>1, <1>4 DEF Accounted, TempOf
  <2>2. PICK i, j : IsTemp(i, j) /\ stack[i].temps[j] = n[2]
    BY <2>1
  <2>3. i \in 1 .. Len(stack)
    BY <1>2, <2>2 DEF IsTemp
  <2>4. CASE i \in 1 .. Len(stack')
    BY <1>2, <2>1, <2>2, <2>3, <2>4, TempsBelow
  <2>5. CASE i \notin 1 .. Len(stack')
    <3>1. ~NoneEnds
      BY <1>2, <2>3, <2>5 DEF NoneEnds, LowerActivations
    <3>2. stack # << >> /\ Len(stack') = Len(stack) - 1 /\ (AbortPipeline \/ EndPipeline \/ Top.type # "pipe")
      BY <3>1, StepShape
    <3>3. i = Len(stack)
      BY <1>2, <2>3, <2>5, <3>2, OneLess
    <3>4. stack[i] = Top /\ Top.type = "pipe" /\ j \in DOMAIN Top.temps /\ Top.temps[j] = n[2]
      BY <2>2, <3>2, <3>3, StackTypes DEF IsTemp
    <3>5. AbortPipeline \/ EndPipeline
      BY <3>2, <3>4
    <3>6. Top.temps[j] \in Temp
      <4>1. IsPipe
        BY <3>5 DEF AbortPipeline, EndPipeline
      <4>2. Top.temps \in Seq(Temp)
        BY <4>1, PipeIs
      <4> QED BY <3>4, <4>2
    <3>7. n = NodeOf(Top.temps[j])
      BY <1>1, <2>1, <3>4, <3>6 DEF NodeOf, Node
    <3>8. disk'[n] = "none"
      BY <3>4, <3>5, <3>7, PipelineEndFiles
    <3> QED BY <3>8
  <2> QED BY <2>4, <2>5
<1>5. \/ disk[n] \in {"empty", "full"}
      \/ RunStage /\ Feeds(Top) /\ n = NodeOf(Top.temps[Top.at])
  <2>1. DiskChanges
    BY FilesStep
  <2>2. disk'[n] # "user" /\ disk'[n] # "none"
    OBVIOUS
  <2> QED BY <2>1, <2>2 DEF DiskChanges
<1> QED BY <1>3, <1>4, <1>5

LEMMA NamesInit == Init => Names
<1> SUFFICES ASSUME Init PROVE Names
  OBVIOUS
<1>1. DOMAIN stack = {} /\ \A n \in Node : disk[n] \in {"user", "none"}
  BY DEF Init
<1>2. \A i, j : ~IsTemp(i, j)
  BY <1>1 DEF IsTemp
<1>3. \A n \in Node : disk[n] \notin {"empty", "full"}
  BY <1>1
<1> QED BY <1>2, <1>3 DEF Names, Unique, Numbered, Accounted

Inv == Control /\ References /\ Names

LEMMA InvInit == Init => Inv
  BY ControlInit, ReferencesInit, NamesInit DEF Inv

LEMMA InvStep == Inv /\ [Next]_vars => Inv'
<1> SUFFICES ASSUME Inv, [Next]_vars PROVE Inv'
  OBVIOUS
<1>1. Control' /\ References'
  BY ControlStep, ReferencesStep DEF Inv
<1>2. Unique' /\ Numbered' /\ Accounted'
  BY <1>1, UniqueStep, NumberedStep, AccountedStep DEF Inv, Names
<1> QED BY <1>1, <1>2 DEF Inv, Names

LEMMA InvAlways == Spec => []Inv
  BY InvInit, InvStep, PTL DEF Spec

(***************************************************************************)
(* However pipelines are nested in scripts, no two of their pipes share a  *)
(* temp file, whatever files the user has.                                 *)
(***************************************************************************)
THEOREM NamesDiffer == Spec => []TempsUnique
<1>1. Inv => TempsUnique
  <2> SUFFICES ASSUME Inv, NEW p \in Temps, NEW q \in Temps, TempAt(p) = TempAt(q) PROVE p = q
    BY DEF TempsUnique
  <2>1. PICK i, j : p = <<i, j>> /\ IsTemp(i, j) /\ TempAt(p) = TempOf(i, j)
    BY TempsAre
  <2>2. PICK k, l : q = <<k, l>> /\ IsTemp(k, l) /\ TempAt(q) = TempOf(k, l)
    BY TempsAre
  <2>3. i = k /\ j = l
    BY <2>1, <2>2 DEF Inv, Names, Unique
  <2> QED BY <2>1, <2>2, <2>3
<1> QED BY <1>1, InvAlways, PTL

(***************************************************************************)
(* However a line ends, nothing is left of it at the prompt: no open file, *)
(* no fd, no temp file, no frame but the shell's own, with the streams it  *)
(* started with.                                                           *)
(***************************************************************************)
THEOREM NothingLeft == Spec => []PromptClean
<1>1. Inv => PromptClean
  <2> SUFFICES ASSUME Inv, stack = << >> PROVE PromptClean
    BY DEF PromptClean, TempsRemoved
  <2>1. Control /\ References /\ DOMAIN stack = {}
    BY DEF Inv
  <2>2. \A n \in Node : ~tmpMounted => disk[n] \in {"none", "user"}
    <3>1. \A i, j : ~IsTemp(i, j)
      BY <2>1 DEF IsTemp
    <3>2. \A n \in Node : ~tmpMounted => disk[n] \notin {"empty", "full"}
      BY <3>1 DEF Inv, Names, Accounted
    <3>3. disk \in [Node -> Content]
      BY <2>1 DEF References
    <3> QED BY <3>2, <3>3 DEF Content
  <2>3. fds = {}
    BY <2>1, NoFdsHere
  <2>4. frames = <<DefaultStdio>>
    <3>1. frames[1] = DefaultStdio
      BY <2>1 DEF Control, DefaultSetAside
    <3>2. Len(frames) = 1 /\ frames \in Seq(Stdio)
      BY <2>1, FrameTypes DEF Control
    <3> QED BY <3>1, <3>2
  <2>5. \A f \in Slot : files[f] = Closed
    <3>1. \A l \in DOMAIN frames : FilesIn(frames[l]) \subseteq {}
      BY <2>4 DEF FilesIn, DefaultStdio
    <3>2. \A i \in DOMAIN stack : stack[i].type = "segment" => FilesIn(stack[i].saved) \subseteq {}
      BY <2>1
    <3>3. \A fd \in fds : fd[2] \in {}
      BY <2>3
    <3>4. Held(stack, frames, fds) \subseteq {}
      BY <3>1, <3>2, <3>3, HeldWithin
    <3> QED BY <2>1, <3>4 DEF References, Referenced
  <2> QED BY <2>2, <2>3, <2>4, <2>5 DEF PromptClean, TempsRemoved
<1> QED BY <1>1, InvAlways, PTL

-----------------------------------------------------------------------------
(* The user's files, when none of the user's paths is a temp name.         *)

NotUsers ==
    /\ \A k \in Temp : disk[<<"over", k>>] # "user"
    /\ \A i, j, k : IsTemp(i, j) /\ k = TempOf(i, j) => disk[NodeOf(k)] # "user"

LEMMA TopTemp ==
    ASSUME Control, IsPipe, NEW j \in DOMAIN Top.temps
    PROVE  IsTemp(Len(stack), j) /\ TempOf(Len(stack), j) = Top.temps[j] /\ Top.temps[j] \in Temp
<1>1. /\ stack # << >> /\ Top.type = "pipe" /\ Top = stack[Len(stack)] /\ Top.temps \in Seq(Temp)
      /\ Len(stack) \in DOMAIN stack
  BY PipeIs, StackTypes
<1> QED BY <1>1 DEF IsTemp, TempOf

LEMMA StageFeeds ==
    ASSUME Control, RunStage
    PROVE  /\ IsPipe
           /\ Feeds(Top) => Top.at \in DOMAIN Top.temps
           /\ Reads(Top) => Top.at - 1 \in DOMAIN Top.temps
<1>1. IsPipe /\ StagesLeft
  BY DEF RunStage
<1>2. Top.temps \in Seq(Temp)
  BY <1>1, PipeIs
<1> QED BY <1>1, <1>2, StagePaths

LEMMA MountStays ==
    ASSUME [Next]_vars, ~tmpMounted'
    PROVE  ~tmpMounted
<1>1. CASE UNCHANGED tmpMounted
  BY <1>1
<1>2. CASE ProgramMountsTmp
  BY <1>2 DEF ProgramMountsTmp
<1> QED BY <1>1, <1>2
        DEF Next, Prompt, Shell, Program, Line, RunSegment, RunPipeline, RefusePipeline, RunStage,
            AbortPipeline, EndPipeline, Redirect, RunNothing, RunScript, EndScript, EndSegment,
            Launch, ProgramOpen, ProgramClose, ProgramEnds, vars

LEMMA NotUsersInit == Init => NotUsers
<1> SUFFICES ASSUME Init PROVE NotUsers
  OBVIOUS
<1>1. DOMAIN stack = {}
      /\ disk = [n \in Node |-> IF n[1] = "root" /\ n[2] \in TakenTemp THEN "user" ELSE "none"]
  BY DEF Init
<1>2. \A i, j : ~IsTemp(i, j)
  BY <1>1 DEF IsTemp
<1>3. \A k \in Temp : <<"over", k>> \in Node
  BY DEF Node
<1>4. \A k \in Temp : disk[<<"over", k>>] # "user"
  BY <1>1, <1>3
<1> QED BY <1>2, <1>4 DEF NotUsers

LEMMA NotUsersStep ==
    ASSUME UserPath \cap Temp = {}, Inv, Inv', NotUsers, [Next]_vars
    PROVE  NotUsers'
<1>1. /\ Control /\ References /\ Control' /\ DiskChanges
      /\ \A i, j : IsTemp(i, j)' => stack'[i].temps[j] \in Temp
  BY FilesStep DEF Inv, Names, Numbered, TempOf
<1>2. ASSUME NEW n \in Node, n[2] \in Temp, disk'[n] = "user"
      PROVE  disk[n] = "user"
  BY <1>1, <1>2 DEF DiskChanges
<1>3. ASSUME NEW k \in Temp, disk'[<<"over", k>>] = "user"
      PROVE  FALSE
  <2>1. <<"over", k>> \in Node /\ <<"over", k>>[2] = k
    BY DEF Node
  <2> QED BY <1>2, <1>3, <2>1 DEF NotUsers
<1>4. ASSUME NEW i, NEW j, NEW k, IsTemp(i, j)', k = stack'[i].temps[j], disk'[NodeOf(k)'] = "user"
      PROVE  FALSE
  <2>1. k \in Temp
    BY <1>1, <1>4
  <2>2. CASE tmpMounted'
    <3>1. NodeOf(k)' = <<"over", k>>
      BY <2>1, <2>2 DEF NodeOf
    <3> QED BY <1>3, <1>4, <2>1, <3>1
  <2>3. CASE ~tmpMounted'
    <3>1. ~tmpMounted
      BY <2>3, MountStays
    <3>2. NodeOf(k)' = NodeOf(k)
      BY <2>3, <3>1 DEF NodeOf
    <3>3. NodeOf(k) \in Node /\ NodeOf(k)[2] = k
      BY <2>1, NodeOfIsNode
    <3>4. disk[NodeOf(k)] = "user"
      BY <1>2, <1>4, <2>1, <3>2, <3>3
    <3>5. /\ j \in DOMAIN stack'[i].temps
          /\ (IsTemp(i, j) /\ stack'[i].temps[j] = stack[i].temps[j]) \/ NewPipe(i)
      BY <1>1, <1>4, TempsAfter
    <3>6. CASE IsTemp(i, j) /\ stack'[i].temps[j] = stack[i].temps[j]
      BY <1>4, <3>4, <3>6 DEF NotUsers, TempOf
    <3>7. CASE NewPipe(i)
      BY <1>4, <3>4, <3>5, <3>7 DEF NewPipe
    <3> QED BY <3>5, <3>6, <3>7
  <2> QED BY <2>2, <2>3
<1> QED BY <1>3, <1>4 DEF NotUsers, TempOf

LEMMA NotUsersAlways ==
    ASSUME UserPath \cap Temp = {}
    PROVE  Spec => [](Inv /\ NotUsers)
<1>1. Init => Inv /\ NotUsers
  BY InvInit, NotUsersInit
<1>2. Inv /\ NotUsers /\ [Next]_vars => (Inv /\ NotUsers)'
  BY InvStep, NotUsersStep
<1> QED BY <1>1, <1>2, PTL DEF Spec

(***************************************************************************)
(* While no program and no redirection uses a temp name itself, no file of *)
(* the user's is written to or unlinked by a pipeline, even one that has   *)
(* a temp file's name.                                                     *)
(***************************************************************************)
THEOREM UserFilesStay ==
    ASSUME UserPath \cap Temp = {}
    PROVE  Spec => UserFilesKept
<1>1. Inv /\ NotUsers /\ [Next]_vars => [\A n \in Node : disk[n] = "user" => disk'[n] = "user"]_vars
  <2> SUFFICES ASSUME Inv, NotUsers, [Next]_vars, NEW n \in Node, disk[n] = "user"
               PROVE  disk'[n] = "user"
    OBVIOUS
  <2>1. Control /\ DiskChanges
    BY FilesStep DEF Inv
  <2>2. ASSUME IsPipe, NEW j \in DOMAIN Top.temps, n = NodeOf(Top.temps[j]) PROVE FALSE
    <3>1. IsTemp(Len(stack), j) /\ Top.temps[j] = TempOf(Len(stack), j)
      BY <2>1, <2>2, TopTemp
    <3> QED BY <2>2, <3>1 DEF NotUsers
  <2>3. RunStage /\ Feeds(Top) => IsPipe /\ Top.at \in DOMAIN Top.temps
    BY <2>1, StageFeeds
  <2> QED BY <2>1, <2>2, <2>3 DEF DiskChanges
<1>2. [](Inv /\ NotUsers) /\ [][Next]_vars => UserFilesKept
  BY <1>1, PTL DEF UserFilesKept
<1>3. Spec => [](Inv /\ NotUsers)
  BY NotUsersAlways
<1> QED BY <1>2, <1>3, PTL DEF Spec

-----------------------------------------------------------------------------
(* Who can hold the writer of a pipe's file.                               *)

Above ==
    \A f \in Slot : \A i, j, k : IsTemp(i, j) /\ k = TempOf(i, j) /\ Writes(f, k) =>
        /\ \A l \in 1 .. stack[i].level : f \notin FilesIn(frames[l])
        /\ \A m \in 1 .. i : stack[m].type = "segment" => f \notin FilesIn(stack[m].saved)

Writers == WritersNumbered /\ Above /\ StageSeesCommitted

\* A pipeline's own frame is the top one, or below that of what it runs.
PipesBelow ==
    \A i \in DOMAIN stack : stack[i].type = "pipe" =>
        /\ stack # << >> /\ stack[i].level \in Nat /\ Len(frames) \in Nat
        /\ stack[i].level <= Len(frames)
        /\ stack[i].level < Len(frames) \/ Top.type = "pipe"

LEMMA PipesAreBelow == Control => PipesBelow
<1> SUFFICES ASSUME Control, NEW i \in DOMAIN stack, stack[i].type = "pipe"
             PROVE  /\ stack # << >> /\ stack[i].level \in Nat /\ Len(frames) \in Nat
                    /\ stack[i].level <= Len(frames)
                    /\ stack[i].level < Len(frames) \/ Top.type = "pipe"
  BY DEF PipesBelow
<1>1. /\ DOMAIN stack = 1 .. Len(stack) /\ Len(stack) \in Nat /\ stack # << >>
      /\ stack[i].level \in Nat
  <2>1. DOMAIN stack = 1 .. Len(stack) /\ Len(stack) \in Nat
    BY StackLen
  <2>2. stack # << >>
    OBVIOUS
  <2>3. stack[i] \in Activation
    BY <2>1, StackTypes
  <2> QED BY <2>1, <2>2, <2>3, Kinds
<1>2. Top = stack[Len(stack)] /\ Len(stack) \in DOMAIN stack /\ Len(frames) = Top.level
      /\ Len(frames) \in Nat
  BY <1>1, StackTypes, FrameTypes
<1>3. CASE i = Len(stack)
  BY <1>1, <1>2, <1>3
<1>4. CASE i # Len(stack)
  <2>1. i < Len(stack)
    BY <1>1, <1>4
  <2>2. stack[i].level < Top.level
    BY <1>2, <2>1 DEF Control, StagesAbove
  <2> QED BY <1>1, <1>2, <2>2
<1> QED BY <1>3, <1>4

LEMMA ClosedIsNotHeld ==
    ASSUME Control, References, NEW f \in Slot, files[f] = Closed
    PROVE  /\ \A l \in 1 .. Len(frames) : f \notin FilesIn(frames[l])
           /\ \A m \in 1 .. Len(stack) : stack[m].type = "segment" => f \notin FilesIn(stack[m].saved)
<1>1. f \notin Held(stack, frames, fds)
  BY DEF References, Referenced
<1>2. DOMAIN frames = 1 .. Len(frames) /\ DOMAIN stack = 1 .. Len(stack)
  BY FrameTypes, StackLen
<1> QED BY <1>1, <1>2, HeldHas

LEMMA WriterBefore ==
    ASSUME UserPath \cap Temp = {}, Control, References, [Next]_vars,
           NEW f \in Slot, NEW k \in Temp, Writes(f, k)'
    PROVE  \/ Writes(f, k)
           \/ /\ files[f] = Closed /\ RunStage /\ Feeds(Top) /\ k = Top.temps[Top.at]
<1>1. files'[f] # Closed /\ files'[f].mode = "w" /\ files'[f].node[2] = k
  BY DEF Writes
<1>2. \/ files'[f] = files[f]
      \/ files[f] = Closed /\ files'[f].node[2] \in UserPath
      \/ files[f] = Closed /\ RunStage /\ StageFile(files'[f])
  BY <1>1, FilesStep DEF FilesGained
<1>3. CASE files'[f] = files[f]
  BY <1>1, <1>3 DEF Writes
<1>4. CASE files[f] = Closed /\ RunStage /\ StageFile(files'[f])
  <2>1. Feeds(Top) /\ files'[f].node = NodeOf(Top.temps[Top.at])
    BY <1>1, <1>4 DEF StageFile
  <2>2. Top.temps[Top.at] \in Temp
    BY <1>4, <2>1, StageFeeds, TopTemp
  <2>3. NodeOf(Top.temps[Top.at])[2] = Top.temps[Top.at]
    BY <2>2, NodeOfIsNode
  <2> QED BY <1>1, <1>4, <2>1, <2>3
<1> QED BY <1>1, <1>2, <1>3, <1>4

LEMMA WritersNumberedStep ==
    ASSUME UserPath \cap Temp = {}, Inv, WritersNumbered, [Next]_vars
    PROVE  WritersNumbered'
<1> SUFFICES ASSUME NEW f \in Slot, NEW k \in Temp, Writes(f, k)' PROVE k < counter'
  BY DEF WritersNumbered
<1>1. counter \in Nat /\ counter' \in Nat /\ counter <= counter' /\ k \in Nat
  <2>1. MaxCounter \in Nat
    BY ShellExecAssumption
  <2> QED BY <2>1, CounterGrows DEF Inv, Temp
<1>2. \/ Writes(f, k)
      \/ RunStage /\ Feeds(Top) /\ k = Top.temps[Top.at]
  BY WriterBefore DEF Inv
<1>3. k < counter
  <2>1. CASE Writes(f, k)
    BY <2>1 DEF WritersNumbered
  <2>2. CASE RunStage /\ Feeds(Top) /\ k = Top.temps[Top.at]
    <3>1. IsTemp(Len(stack), Top.at) /\ TempOf(Len(stack), Top.at) = k
      BY <2>2, StageFeeds, TopTemp DEF Inv
    <3> QED BY <3>1 DEF Inv, Names, Numbered
  <2> QED BY <1>2, <2>1, <2>2
<1> QED BY <1>1, <1>3

LEMMA AboveStep ==
    ASSUME UserPath \cap Temp = {}, Inv, Inv', WritersNumbered, Above, [Next]_vars
    PROVE  Above'
<1> SUFFICES ASSUME NEW f \in Slot, NEW i, NEW j, NEW k, IsTemp(i, j)', k = stack'[i].temps[j],
                    Writes(f, k)'
             PROVE  /\ \A l \in 1 .. stack'[i].level : f \notin FilesIn(frames'[l])
                    /\ \A m \in 1 .. i : stack'[m].type = "segment" => f \notin FilesIn(stack'[m].saved)
  BY DEF Above, TempOf
<1>1. Control /\ References /\ Control' /\ Lower
  BY StepShape DEF Inv
<1>2. /\ j \in DOMAIN stack'[i].temps
      /\ \/ /\ i \in 1 .. Len(stack) /\ IsTemp(i, j) /\ stack'[i].temps[j] = stack[i].temps[j]
            /\ stack'[i].level = stack[i].level
         \/ NewPipe(i)
  BY <1>1, TempsAfter
<1>3. k \in Temp /\ k \in Nat
  <2>1. k \in Temp
    BY DEF Inv, Names, Numbered, TempOf
  <2>2. MaxCounter \in Nat
    BY ShellExecAssumption
  <2> QED BY <2>1, <2>2 DEF Temp
<1>4. Writes(f, k) \/ (files[f] = Closed /\ RunStage /\ Feeds(Top) /\ k = Top.temps[Top.at])
  BY <1>1, <1>3, WriterBefore
<1>5. k < counter /\ counter \in Nat
  <2>1. CASE Writes(f, k)
    BY <1>1, <1>3, <2>1 DEF WritersNumbered, References
  <2>2. CASE RunStage /\ Feeds(Top) /\ k = Top.temps[Top.at]
    <3>1. IsTemp(Len(stack), Top.at) /\ TempOf(Len(stack), Top.at) = k
      BY <1>1, <2>2, StageFeeds, TopTemp
    <3> QED BY <1>1, <3>1 DEF Inv, Names, Numbered, References
  <2>3. counter \in Nat
    BY CounterGrows, <1>1
  <2> QED BY <1>4, <2>1, <2>2, <2>3
<1>6. ~NewPipe(i)
  <2> SUFFICES ASSUME NewPipe(i) PROVE FALSE
    OBVIOUS
  <2>1. counter <= k
    BY <1>2 DEF NewPipe
  <2> QED BY <1>3, <1>5, <2>1
<1>7. /\ i \in 1 .. Len(stack) /\ IsTemp(i, j) /\ k = TempOf(i, j) /\ stack'[i].level = stack[i].level
      /\ Len(stack) \in Nat /\ DOMAIN stack = 1 .. Len(stack) /\ stack[i].type = "pipe"
  BY <1>1, <1>2, <1>6, StackLen DEF TempOf, IsTemp
<1>8. /\ stack # << >> /\ stack[i].level \in Nat /\ Len(frames) \in Nat /\ stack[i].level <= Len(frames)
      /\ stack[i].level < Len(frames) \/ Top.type = "pipe"
  BY <1>1, <1>7, PipesAreBelow DEF PipesBelow
<1>9. i \in DOMAIN stack' /\ DOMAIN stack' = 1 .. Len(stack') /\ Len(stack') \in Nat
      /\ stack'[i].type = "pipe"
  <2>1. stack' \in Seq(Activation)
    BY <1>1 DEF Control
  <2> QED BY <2>1 DEF IsTemp
<1>10. Len(frames') \in Nat /\ stack'[i].level <= Len(frames')
  <2>1. PipesBelow'
    BY <1>1, PipesAreBelow, PTL
  <2> QED BY <1>9, <2>1 DEF PipesBelow
<1>11. /\ \A l \in 1 .. stack[i].level : f \notin FilesIn(frames[l])
       /\ \A m \in 1 .. i : stack[m].type = "segment" => f \notin FilesIn(stack[m].saved)
  <2>1. CASE Writes(f, k)
    BY <1>7, <2>1 DEF Above
  <2>2. CASE files[f] = Closed
    <3>1. /\ \A l \in 1 .. Len(frames) : f \notin FilesIn(frames[l])
          /\ \A m \in 1 .. Len(stack) : stack[m].type = "segment" => f \notin FilesIn(stack[m].saved)
      BY <1>1, <2>2, ClosedIsNotHeld
    <3>2. \A l \in 1 .. stack[i].level : l \in 1 .. Len(frames)
      BY <1>8
    <3>3. \A m \in 1 .. i : m \in 1 .. Len(stack)
      BY <1>7
    <3> QED BY <3>1, <3>2, <3>3
  <2> QED BY <1>4, <2>1, <2>2
<1>12. ASSUME NEW l \in 1 .. stack'[i].level PROVE f \notin FilesIn(frames'[l])
  <2>1. l \in 1 .. stack[i].level
    BY <1>7
  <2>2. l \in 1 .. Len(frames) /\ l \in 1 .. Len(frames')
    BY <1>7, <1>8, <1>10, <2>1
  <2>3. l < Len(frames) \/ Top.type # "segment"
    BY <1>8, <2>1
  <2>4. frames'[l] = frames[l]
    BY <1>1, <2>2, <2>3 DEF Lower, LowerFrames
  <2> QED BY <1>11, <2>1, <2>4
<1>13. ASSUME NEW m \in 1 .. i, stack'[m].type = "segment" PROVE f \notin FilesIn(stack'[m].saved)
  <2>1. m \in 1 .. Len(stack) /\ m \in 1 .. Len(stack')
    BY <1>7, <1>9
  <2>2. Alike(stack'[m], stack[m])
    BY <1>1, <2>1 DEF Lower, LowerActivations
  <2> QED BY <1>11, <1>13, <2>2 DEF Alike
<1> QED BY <1>12, <1>13

\* The file a stage is about to read has been committed.
LEMMA StageReadsCommitted ==
    ASSUME Inv, NotUsers, Above, RunStage, Reads(Top),
           disk[NodeOf(Top.temps[Top.at - 1])] # "none"
    PROVE  disk[NodeOf(Top.temps[Top.at - 1])] = "full"
<1> DEFINE j == Top.at - 1
           k == Top.temps[j]
           n == NodeOf(k)
<1>1. Control /\ References
  BY DEF Inv
<1>2. IsPipe /\ j \in DOMAIN Top.temps
  BY <1>1, StageFeeds
<1>3. IsTemp(Len(stack), j) /\ TempOf(Len(stack), j) = k /\ k \in Temp
  BY <1>1, <1>2, TopTemp
<1>4. n \in Node /\ n[2] = k
  BY <1>3, NodeOfIsNode
<1>5. /\ stack # << >> /\ Top.level = Len(frames) /\ Top = stack[Len(stack)] /\ Top.type = "pipe"
      /\ Len(stack) \in Nat
  BY <1>1, <1>2, PipeIs, StackLen
<1> HIDE DEF j, k
<1>6. disk[n] # "user"
  BY <1>3 DEF NotUsers
<1>7. disk[n] # "empty"
  <2> SUFFICES ASSUME disk[n] = "empty" PROVE FALSE
    OBVIOUS
  <2>1. PICK f \in Slot : Writes(f, k) /\ files[f] # Closed
    BY <1>1, <1>4 DEF References, EmptyHasWriter, Writes
  <2>2. /\ \A l \in 1 .. Len(frames) : f \notin FilesIn(frames[l])
        /\ \A m \in 1 .. Len(stack) : stack[m].type = "segment" => f \notin FilesIn(stack[m].saved)
    BY <1>3, <1>5, <2>1 DEF Above
  <2>3. fds = {}
    BY <1>1, <1>5, NoFdsHere
  <2>4. DOMAIN frames = 1 .. Len(frames) /\ DOMAIN stack = 1 .. Len(stack)
    BY <1>1, FrameTypes, StackLen
  <2>5. f \in Held(stack, frames, fds)
    BY <1>1, <2>1 DEF References, Referenced
  <2> DEFINE H == Held(stack, frames, fds) \ {f}
  <2>6. \A m \in DOMAIN stack : stack[m].type = "segment" => FilesIn(stack[m].saved) \subseteq H
    BY <2>2, <2>4, HeldHas
  <2>7. \A l \in DOMAIN frames : FilesIn(frames[l]) \subseteq H
    BY <2>2, <2>4, HeldHas
  <2>8. \A fd \in fds : fd[2] \in H
    BY <2>3
  <2>9. f \notin H
    OBVIOUS
  <2> HIDE DEF H
  <2>10. Held(stack, frames, fds) \subseteq H
    BY <2>6, <2>7, <2>8, HeldWithin
  <2> QED BY <2>5, <2>9, <2>10
<1>8. disk[n] \in Content
  BY <1>1, <1>4 DEF References
<1> QED BY <1>6, <1>7, <1>8 DEF Content, j, k

LEMMA CommittedStep ==
    ASSUME UserPath \cap Temp = {}, Inv, NotUsers, Above, StageSeesCommitted, [Next]_vars
    PROVE  StageSeesCommitted'
<1> SUFFICES ASSUME NEW f \in Slot, files'[f] # Closed, files'[f].mode = "r",
                    files'[f].node[2] \in Temp
             PROVE  files'[f].sees = "full"
  BY DEF StageSeesCommitted
<1>1. \/ files'[f] = files[f]
      \/ files[f] = Closed /\ files'[f].node[2] \in UserPath
      \/ files[f] = Closed /\ RunStage /\ StageFile(files'[f])
  BY FilesStep DEF FilesGained, Inv
<1>2. CASE files'[f] = files[f]
  BY <1>2 DEF StageSeesCommitted
<1>3. CASE RunStage /\ StageFile(files'[f])
  <2>1. /\ Reads(Top) /\ disk[NodeOf(Top.temps[Top.at - 1])] # "none"
        /\ files'[f].sees = disk[NodeOf(Top.temps[Top.at - 1])]
    BY <1>3 DEF StageFile
  <2> QED BY <1>3, <2>1, StageReadsCommitted
<1> QED BY <1>1, <1>2, <1>3

LEMMA WritersInit == Init => Writers
<1> SUFFICES ASSUME Init PROVE Writers
  OBVIOUS
<1>1. \A f \in Slot : files[f] = Closed
  BY DEF Init
<1> QED BY <1>1 DEF Writers, WritersNumbered, Above, StageSeesCommitted, Writes

(***************************************************************************)
(* While no program and no redirection uses a temp name itself, a stage    *)
(* reads all of what the stage before it wrote, whatever ran in between.   *)
(***************************************************************************)
THEOREM StagesReadAll ==
    ASSUME UserPath \cap Temp = {}
    PROVE  Spec => []StageSeesCommitted
<1>1. Init => Inv /\ NotUsers /\ Writers
  BY InvInit, NotUsersInit, WritersInit
<1>2. Inv /\ NotUsers /\ Writers /\ [Next]_vars => (Inv /\ NotUsers /\ Writers)'
  <2> SUFFICES ASSUME Inv, NotUsers, Writers, [Next]_vars PROVE Inv' /\ NotUsers' /\ Writers'
    OBVIOUS
  <2>1. Inv'
    BY InvStep
  <2>2. NotUsers'
    BY <2>1, NotUsersStep
  <2> QED BY <2>1, <2>2, WritersNumberedStep, AboveStep, CommittedStep DEF Writers
<1>3. Writers => StageSeesCommitted
  BY DEF Writers
<1> QED BY <1>1, <1>2, <1>3, PTL DEF Spec

=============================================================================
