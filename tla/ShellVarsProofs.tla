-------------------------- MODULE ShellVarsProofs ---------------------------
(***************************************************************************)
(* Proofs about ShellVars, for any names, values, bounds and depth.        *)
(***************************************************************************)
EXTENDS ShellVars, SequenceTheorems, WellFoundedInduction, TLAPS

-----------------------------------------------------------------------------
(* Sequences used as stacks.                                               *)

LEMMA UpTo ==
    ASSUME NEW n \in Nat, NEW i \in 1 .. n
    PROVE  n # 0 /\ (i \in 1 .. n - 1 \/ i = n)
  OBVIOUS

LEMMA Indices ==
    ASSUME NEW S, NEW s \in Seq(S)
    PROVE  DOMAIN s = 1 .. Len(s)
  OBVIOUS

LEMMA Pushed ==
    ASSUME NEW S, NEW s \in Seq(S), NEW e \in S
    PROVE  /\ Append(s, e) \in Seq(S)
           /\ Len(Append(s, e)) = Len(s) + 1 /\ Len(s) \in Nat
           /\ \A i \in 1 .. Len(s) : Append(s, e)[i] = s[i]
           /\ Append(s, e)[Len(s) + 1] = e
  OBVIOUS

LEMMA Beginning ==
    ASSUME NEW S, NEW s \in Seq(S), NEW n \in 0 .. Len(s)
    PROVE  /\ SubSeq(s, 1, n) \in Seq(S)
           /\ Len(SubSeq(s, 1, n)) = n
           /\ \A i \in 1 .. n : SubSeq(s, 1, n)[i] = s[i]
<1>1. \A i \in 1 .. n : s[i] \in S
  OBVIOUS
<1> QED BY <1>1, SubSeqProperties

LEMMA Popped ==
    ASSUME NEW S, NEW s \in Seq(S), s # << >>
    PROVE  /\ Front(s) \in Seq(S)
           /\ Len(Front(s)) = Len(s) - 1 /\ Len(s) \in Nat \ {0}
           /\ \A i \in 1 .. Len(s) - 1 : Front(s)[i] = s[i]
           /\ Last(s) = s[Len(s)] /\ Last(s) \in S
<1>1. Len(s) \in Nat \ {0} /\ s[Len(s)] \in S
  OBVIOUS
<1>2. Len(s) - 1 \in 0 .. Len(s)
  BY <1>1
<1> QED BY <1>1, <1>2, Beginning DEF Front, Last

LEMMA Replaced ==
    ASSUME NEW S, NEW s \in Seq(S), s # << >>, NEW e \in S
    PROVE  /\ [s EXCEPT ![Len(s)] = e] \in Seq(S)
           /\ Len([s EXCEPT ![Len(s)] = e]) = Len(s) /\ Len(s) \in Nat \ {0}
           /\ \A i \in 1 .. Len(s) - 1 : [s EXCEPT ![Len(s)] = e][i] = s[i]
           /\ [s EXCEPT ![Len(s)] = e][Len(s)] = e
<1>1. Len(s) \in Nat \ {0}
  OBVIOUS
<1>2. [s EXCEPT ![Len(s)] = e] \in Seq(S)
  BY <1>1
<1> QED BY <1>1, <1>2

\* A nonempty set of natural numbers has a least.
LEMMA Least ==
    ASSUME NEW T, T \subseteq Nat, T # {}
    PROVE  \E c \in T : \A d \in T : c <= d
<1>1. PICK x \in T : \A y \in T : ~(<<y, x>> \in OpToRel(<, Nat))
  BY WFMin, NatLessThanWellFounded
<1>2. \A y \in T : x \in Nat /\ y \in Nat /\ ~(y < x)
  BY <1>1 DEF OpToRel
<1> QED BY <1>2

-----------------------------------------------------------------------------
(* What a segment has saved.                                               *)

LEMMA FirstExists ==
    ASSUME NEW saved \in Seq(Saved), NEW n, Keeps(saved, n)
    PROVE  \E k \in DOMAIN saved : IsFirst(k, saved, n)
<1> DEFINE T == {k \in DOMAIN saved : saved[k].name = n}
<1>1. T \subseteq Nat /\ T # {}
  BY DEF Keeps
<1>2. PICK k \in T : \A d \in T : k <= d
  BY <1>1, Least
<1>3. \A l \in 1 .. k - 1 : l \in DOMAIN saved /\ ~(k <= l)
  BY <1>2
<1> QED BY <1>2, <1>3 DEF IsFirst

LEMMA FirstIs ==
    ASSUME NEW saved \in Seq(Saved), NEW n, NEW k, IsFirst(k, saved, n)
    PROVE  FirstKept(saved, n) = saved[k].was
<1> DEFINE c == CHOOSE x \in DOMAIN saved : IsFirst(x, saved, n)
<1>1. c \in DOMAIN saved /\ IsFirst(c, saved, n)
  BY DEF IsFirst
<1>2. c = k
  <2>1. k \in 1 .. Len(saved) /\ c \in 1 .. Len(saved)
    BY <1>1 DEF IsFirst
  <2>2. ~(c < k) /\ ~(k < c)
    <3> HIDE DEF c
    <3> QED BY <1>1, <2>1 DEF IsFirst
  <2> HIDE DEF c
  <2> QED BY <2>1, <2>2
<1> QED BY <1>2 DEF FirstKept

\* One more is saved.
LEMMA KeptMore ==
    ASSUME NEW saved \in Seq(Saved), NEW e \in Saved, NEW n
    PROVE  /\ Keeps(Append(saved, e), n) <=> Keeps(saved, n) \/ e.name = n
           /\ Keeps(saved, n) => FirstKept(Append(saved, e), n) = FirstKept(saved, n)
           /\ ~Keeps(saved, n) /\ e.name = n => FirstKept(Append(saved, e), n) = e.was
<1> DEFINE t == Append(saved, e)
<1>1. /\ t \in Seq(Saved) /\ Len(t) = Len(saved) + 1 /\ Len(saved) \in Nat
      /\ DOMAIN t = 1 .. Len(saved) + 1 /\ DOMAIN saved = 1 .. Len(saved)
      /\ \A i \in 1 .. Len(saved) : t[i] = saved[i]
      /\ t[Len(saved) + 1] = e
  OBVIOUS
<1> HIDE DEF t
<1>2. Keeps(t, n) <=> Keeps(saved, n) \/ e.name = n
  BY <1>1 DEF Keeps
<1>3. ASSUME Keeps(saved, n) PROVE FirstKept(t, n) = FirstKept(saved, n)
  <2>1. PICK k \in DOMAIN saved : IsFirst(k, saved, n)
    BY <1>3, FirstExists
  <2>2. k \in 1 .. Len(saved) /\ \A l \in 1 .. k - 1 : l \in 1 .. Len(saved)
    BY <1>1, <2>1
  <2>3. IsFirst(k, t, n)
    BY <1>1, <2>1, <2>2 DEF IsFirst
  <2>4. FirstKept(t, n) = t[k].was /\ FirstKept(saved, n) = saved[k].was
    BY <1>1, <2>1, <2>3, FirstIs
  <2> QED BY <1>1, <2>2, <2>4
<1>4. ASSUME ~Keeps(saved, n), e.name = n PROVE FirstKept(t, n) = e.was
  <2>1. IsFirst(Len(saved) + 1, t, n)
    BY <1>1, <1>4 DEF IsFirst, Keeps
  <2> QED BY <1>1, <2>1, FirstIs
<1> QED BY <1>2, <1>3, <1>4 DEF t

\* The last of what is saved is put back.
LEMMA KeptLess ==
    ASSUME NEW saved \in Seq(Saved), saved # << >>, NEW n
    PROVE  /\ Keeps(saved, n) <=> Keeps(Front(saved), n) \/ Last(saved).name = n
           /\ Keeps(Front(saved), n) => FirstKept(Front(saved), n) = FirstKept(saved, n)
           /\ ~Keeps(Front(saved), n) /\ Last(saved).name = n
                 => FirstKept(saved, n) = Last(saved).was
<1>1. saved = Append(Front(saved), Last(saved))
  BY DEF Front, Last
<1>2. Front(saved) \in Seq(Saved) /\ Last(saved) \in Saved
  BY Popped
<1>3. /\ Keeps(Append(Front(saved), Last(saved)), n)
            <=> Keeps(Front(saved), n) \/ Last(saved).name = n
      /\ Keeps(Front(saved), n)
            => FirstKept(Append(Front(saved), Last(saved)), n) = FirstKept(Front(saved), n)
      /\ ~Keeps(Front(saved), n) /\ Last(saved).name = n
            => FirstKept(Append(Front(saved), Last(saved)), n) = Last(saved).was
  BY <1>2, KeptMore
<1> QED BY <1>1, <1>3

\* Nothing is saved at first.
LEMMA KeepsNothing == \A n : ~Keeps(<< >>, n)
  BY DEF Keeps


-----------------------------------------------------------------------------
(* The invariant.                                                          *)

Inv == TypeOK /\ Nested /\ Orderly /\ KeptOrBack

\* What TypeOK says of the top of each stack.
LEMMA TopTypes ==
    ASSUME TypeOK
    PROVE  /\ Len(frames) \in Nat \ {0} /\ Here = frames[Len(frames)] /\ Here \in Env
           /\ Len(stack) \in Nat /\ DOMAIN stack = 1 .. Len(stack)
           /\ stack # << >> => /\ Len(stack) \in Nat \ {0} /\ Top = stack[Len(stack)]
                               /\ Top \in Activation /\ Len(stack) \in DOMAIN stack
<1>1. /\ frames \in Seq(Env) /\ frames # << >> /\ stack \in Seq(Activation)
  BY DEF TypeOK
<1>2. Len(frames) \in Nat \ {0} /\ Here = frames[Len(frames)] /\ Here \in Env
  BY <1>1, Popped DEF Here
<1>3. Len(stack) \in Nat /\ DOMAIN stack = 1 .. Len(stack)
  BY <1>1
<1>4. ASSUME stack # << >>
      PROVE  /\ Len(stack) \in Nat \ {0} /\ Top = stack[Len(stack)] /\ Top \in Activation
             /\ Len(stack) \in DOMAIN stack
  <2>1. Len(stack) \in Nat \ {0} /\ Top = stack[Len(stack)] /\ Top \in Activation
    BY <1>1, <1>4, Popped DEF Top
  <2> QED BY <1>3, <2>1
<1> QED BY <1>2, <1>3, <1>4

\* A variable of the top frame is given a value, or taken away.
LEMMA SetHereKeeps ==
    ASSUME TypeOK, NEW n \in Name, NEW w \in Var \cup {Unset}, SetHere(n, w)
    PROVE  /\ frames' \in Seq(Env) /\ frames' # << >> /\ Len(frames') = Len(frames)
           /\ \A i \in 1 .. Len(frames) - 1 : frames'[i] = frames[i]
           /\ Here' = [Here EXCEPT ![n] = w]
<1> DEFINE e == [Here EXCEPT ![n] = w]
<1>1. frames \in Seq(Env) /\ frames # << >> /\ Len(frames) \in Nat \ {0} /\ Here \in Env
      /\ Here = frames[Len(frames)]
  BY TopTypes DEF TypeOK
<1>2. e \in Env
  BY <1>1 DEF Env
<1>3. frames' = [frames EXCEPT ![Len(frames)] = e]
  BY <1>1 DEF SetHere
<1> HIDE DEF e
<1>4. /\ frames' \in Seq(Env) /\ Len(frames') = Len(frames)
      /\ \A i \in 1 .. Len(frames) - 1 : frames'[i] = frames[i]
      /\ frames'[Len(frames)] = e
  BY <1>1, <1>2, <1>3, Replaced
<1>5. frames' # << >>
  BY <1>1, <1>4
<1>6. Here' = e
  BY <1>4, <1>5, Popped DEF Here
<1> QED BY <1>4, <1>5, <1>6 DEF e

\* An activation that begins, with nothing saved.
IsNew(a, kind, level) ==
    /\ a \in Activation /\ a.kind = kind /\ a.level = level
    /\ a.saved = << >> /\ DOMAIN a.first = {}
    /\ kind # "segment" => a.phase = "run"

LEMMA BegunIsNew ==
    ASSUME NEW kind \in {"segment", "source", "script", "pipe", "stage"},
           NEW level \in Nat \ {0}, NEW depth \in Nat, NEW left \in Nat
    PROVE  IsNew(Begun(kind, level, depth, left), kind, level)
<1>1. [n \in {} |-> Unset] \in Before /\ DOMAIN [n \in {} |-> Unset] = {}
  <2>1. [n \in {} |-> Unset] \in [{} -> Var \cup {Unset}] /\ {} \in SUBSET Name
    OBVIOUS
  <2> QED BY <2>1 DEF Before
<1>2. << >> \in Seq(Saved)
  OBVIOUS
<1> QED BY <1>1, <1>2 DEF Begun, Activation, IsNew

LEMMA LineIsNew ==
    ASSUME NEW level \in Nat \ {0}, NEW depth \in Nat, NEW left \in Nat, NEW command \in BOOLEAN
    PROVE  IsNew([Begun("segment", level, depth, left) EXCEPT !.command = command,
                                                               !.phase = "assign"],
                 "segment", level)
<1> DEFINE a == Begun("segment", level, depth, left)
<1>1. IsNew(a, "segment", level)
  BY BegunIsNew
<1> HIDE DEF a
<1>2. [a EXCEPT !.command = command, !.phase = "assign"] \in Activation
  BY <1>1 DEF IsNew, Activation
<1>3. a \in Activation
  BY <1>1 DEF IsNew
<1>4. IsNew([a EXCEPT !.command = command, !.phase = "assign"], "segment", level)
  BY <1>1, <1>2, <1>3 DEF IsNew, Activation
<1> QED BY <1>4 DEF a

\* The top with one thing less to run.
LEMMA SpentType ==
    ASSUME TypeOK, stack = << >> \/ Top.left > 0
    PROVE  /\ Spent \in Seq(Activation) /\ Len(Spent) = Len(stack)
           /\ \A i \in 1 .. Len(stack) - 1 : Spent[i] = stack[i]
           /\ stack # << >> => Spent[Len(stack)] = [Top EXCEPT !.left = @ - 1]
<1>1. CASE stack = << >>
  BY <1>1 DEF Spent
<1>2. CASE stack # << >>
  <2> DEFINE a == [Top EXCEPT !.left = @ - 1]
  <2>1. stack \in Seq(Activation) /\ Top = stack[Len(stack)] /\ Top \in Activation
    BY <1>2, TopTypes DEF TypeOK
  <2>2. a \in Activation
    <3>1. Top.left \in Nat /\ Top.left > 0
      BY <1>2, <2>1 DEF Activation
    <3>2. Top.left - 1 \in Nat
      BY <3>1
    <3> QED BY <2>1, <3>2 DEF Activation
  <2>3. Spent = [stack EXCEPT ![Len(stack)] = a]
    BY <1>2, <2>1 DEF Spent
  <2> HIDE DEF a
  <2> QED BY <1>2, <2>1, <2>2, <2>3, Replaced DEF a
<1> QED BY <1>1, <1>2


-----------------------------------------------------------------------------
(* A step begins an activation, ends one or changes the last one.          *)

\* An activation begins, with a frame of its own or on the one there is.
LEMMA BeginKeeps ==
    ASSUME Inv, NEW a \in Activation,
           stack = << >> \/ (Top.left > 0 /\ Top.phase = "run"),
           a.saved = << >>, DOMAIN a.first = {}, a.kind # "segment" => a.phase = "run",
           a.level = Len(frames) + Pushes(a), a.level = Len(frames'),
           stack' = Append(Spent, a), frames' \in Seq(Env), frames' # << >>
    PROVE  Inv'
<1> USE DEF Inv
<1>1. /\ Len(stack) \in Nat /\ DOMAIN stack = 1 .. Len(stack) /\ Len(frames) \in Nat \ {0}
      /\ Here = frames[Len(frames)] /\ stack \in Seq(Activation)
      /\ frames \in Seq(Env) /\ frames # << >>
  BY TopTypes DEF TypeOK
<1>0. \A i \in 1 .. Len(stack) + 1 : i = Len(stack) + 1 \/ i \in 1 .. Len(stack)
  BY <1>1
<1>2. /\ Spent \in Seq(Activation) /\ Len(Spent) = Len(stack)
      /\ \A i \in 1 .. Len(stack) - 1 : Spent[i] = stack[i]
      /\ stack # << >> => Spent[Len(stack)] = [Top EXCEPT !.left = @ - 1]
  BY SpentType
<1>3. /\ stack' \in Seq(Activation) /\ Len(stack') = Len(stack) + 1
      /\ DOMAIN stack' = 1 .. Len(stack) + 1
      /\ \A i \in 1 .. Len(stack) : stack'[i] = Spent[i]
      /\ stack'[Len(stack) + 1] = a
  BY <1>1, <1>2, Pushed
<1>4. \A i \in 1 .. Len(stack) :
         /\ stack'[i].kind = stack[i].kind /\ stack'[i].level = stack[i].level
         /\ stack'[i].phase = stack[i].phase /\ stack'[i].saved = stack[i].saved
         /\ stack'[i].first = stack[i].first
  <2> SUFFICES ASSUME NEW i \in 1 .. Len(stack)
               PROVE  /\ Spent[i].kind = stack[i].kind /\ Spent[i].level = stack[i].level
                      /\ Spent[i].phase = stack[i].phase /\ Spent[i].saved = stack[i].saved
                      /\ Spent[i].first = stack[i].first
    BY <1>3
  <2>0. i \in 1 .. Len(stack) - 1 \/ i = Len(stack)
    BY <1>1, UpTo
  <2>1. CASE i \in 1 .. Len(stack) - 1
    BY <1>2, <2>1
  <2>2. CASE i = Len(stack)
    <3>1. stack # << >> /\ Top = stack[i] /\ Top \in Activation
      BY <1>1, <2>2, TopTypes
    <3> QED BY <1>2, <2>2, <3>1 DEF Activation
  <2> QED BY <2>0, <2>1, <2>2
<1>6. TypeOK'
  BY <1>3 DEF TypeOK
<1>7. \A i \in 0 .. Len(stack) : LevelOf(i)' = LevelOf(i)
  <2> SUFFICES ASSUME NEW i \in 0 .. Len(stack) PROVE LevelOf(i)' = LevelOf(i)
    OBVIOUS
  <2>1. i = 0 \/ i \in 1 .. Len(stack)
    BY <1>1
  <2> QED BY <1>4, <2>1 DEF LevelOf
<1>8. Nested'
  <2>1. Len(frames') = LevelOf(Len(stack))'
    <3>1. Len(stack') # 0 /\ stack'[Len(stack')].level = a.level
      BY <1>1, <1>3
    <3> QED BY <3>1 DEF LevelOf
  <2>2. LevelOf(Len(stack)) = Len(frames)
    BY DEF Nested
  <2>3. ASSUME NEW i \in 1 .. Len(stack) + 1
        PROVE  stack'[i].level = LevelOf(i - 1)' + Pushes(stack'[i])
    <3>1. CASE i = Len(stack) + 1
      <4>1. i - 1 = Len(stack)
        BY <1>1, <3>1
      <4>2. LevelOf(i - 1)' = Len(frames)
        BY <1>1, <1>7, <2>2, <4>1
      <4> QED BY <1>3, <3>1, <4>2
    <3>2. CASE i \in 1 .. Len(stack)
      <4>1. stack[i].level = LevelOf(i - 1) + Pushes(stack[i])
        BY <1>1, <3>2 DEF Nested
      <4>2. LevelOf(i - 1)' = LevelOf(i - 1)
        BY <1>1, <1>7, <3>2
      <4> QED BY <1>4, <3>2, <4>1, <4>2 DEF Pushes
    <3> QED BY <1>0, <3>1, <3>2
  <2> QED BY <1>3, <2>1, <2>3 DEF Nested
<1>9. \A i \in 1 .. Len(stack) : stack[i].phase = "run"
  <2> SUFFICES ASSUME NEW i \in 1 .. Len(stack) PROVE stack[i].phase = "run"
    OBVIOUS
  <2>0. i \in 1 .. Len(stack) - 1 \/ i = Len(stack)
    BY <1>1, UpTo
  <2>1. CASE i \in 1 .. Len(stack) - 1
    BY <1>1, <2>1 DEF Orderly
  <2>2. CASE i = Len(stack)
    <3>1. stack # << >>
      BY <1>1, <2>2
    <3> QED BY <2>2, <3>1, TopTypes
  <2> QED BY <2>0, <2>1, <2>2
<1>10. Orderly'
  <2> SUFFICES ASSUME NEW i \in 1 .. Len(stack) + 1
               PROVE  /\ i < Len(stack) + 1 => stack'[i].phase = "run"
                      /\ stack'[i].kind # "segment" =>
                            /\ stack'[i].phase = "run" /\ stack'[i].saved = << >>
                            /\ DOMAIN stack'[i].first = {}
    BY <1>3 DEF Orderly
  <2>1. CASE i = Len(stack) + 1
    BY <1>1, <1>3, <2>1
  <2>2. CASE i \in 1 .. Len(stack)
    <3>1. stack[i].phase = "run"
      BY <1>9, <2>2
    <3> QED BY <1>1, <1>4, <2>2, <3>1 DEF Orderly
  <2> QED BY <1>0, <2>1, <2>2
<1>11. KeptOrBack'
  <2> SUFFICES ASSUME NEW i \in 1 .. Len(stack) + 1
               PROVE  /\ \A n \in Name : Keeps(stack'[i].saved, n) => n \in DOMAIN stack'[i].first
                      /\ \A n \in DOMAIN stack'[i].first :
                             IF Keeps(stack'[i].saved, n)
                             THEN FirstKept(stack'[i].saved, n) = stack'[i].first[n]
                             ELSE stack'[i].phase = "restore" /\ Here'[n] = stack'[i].first[n]
    BY <1>3 DEF KeptOrBack
  <2>1. CASE i = Len(stack) + 1
    BY <1>3, <2>1, KeepsNothing
  <2>2. CASE i \in 1 .. Len(stack)
    <3>1. /\ \A n \in Name : Keeps(stack[i].saved, n) => n \in DOMAIN stack[i].first
          /\ \A n \in DOMAIN stack[i].first :
                 IF Keeps(stack[i].saved, n)
                 THEN FirstKept(stack[i].saved, n) = stack[i].first[n]
                 ELSE stack[i].phase = "restore" /\ Here[n] = stack[i].first[n]
      BY <1>1, <2>2 DEF KeptOrBack
    <3>2. stack[i].phase = "run"
      BY <1>9, <2>2
    <3> QED BY <1>4, <2>2, <3>1, <3>2
  <2> QED BY <1>0, <2>1, <2>2
<1> QED BY <1>6, <1>8, <1>10, <1>11

\* The last activation ends, and the frame it pushed, if it did, goes.
LEMMA EndKeeps ==
    ASSUME Inv, stack # << >>,
           stack' = Front(stack), frames' \in Seq(Env), frames' # << >>,
           Len(frames') = Len(frames) - Pushes(Top)
    PROVE  Inv'
<1> USE DEF Inv
<1>1. /\ Len(stack) \in Nat \ {0} /\ Len(frames) \in Nat \ {0} /\ Top = stack[Len(stack)]
      /\ stack \in Seq(Activation) /\ DOMAIN stack = 1 .. Len(stack)
  BY TopTypes DEF TypeOK
<1>2. /\ stack' \in Seq(Activation) /\ Len(stack') = Len(stack) - 1
      /\ DOMAIN stack' = 1 .. Len(stack) - 1
      /\ \A i \in 1 .. Len(stack) - 1 : stack'[i] = stack[i]
  <2>1. /\ stack' \in Seq(Activation) /\ Len(stack') = Len(stack) - 1
        /\ \A i \in 1 .. Len(stack) - 1 : stack'[i] = stack[i]
    BY <1>1, Popped
  <2> QED BY <2>1
<1>3. \A i \in 1 .. Len(stack) - 1 : i \in 1 .. Len(stack) /\ i < Len(stack)
  BY <1>1
<1>4. \A i \in 0 .. Len(stack) - 1 : LevelOf(i)' = LevelOf(i)
  <2> SUFFICES ASSUME NEW i \in 0 .. Len(stack) - 1 PROVE LevelOf(i)' = LevelOf(i)
    OBVIOUS
  <2>1. i = 0 \/ i \in 1 .. Len(stack) - 1
    BY <1>1
  <2> QED BY <1>2, <2>1 DEF LevelOf
<1>5. TypeOK'
  BY <1>2 DEF TypeOK
<1>6. Nested'
  <2>1. Len(frames') = LevelOf(Len(stack))'
    <3>1. Top.level = LevelOf(Len(stack) - 1) + Pushes(Top)
      BY <1>1 DEF Nested
    <3>2. Len(frames) = Top.level
      BY <1>1 DEF Nested, LevelOf
    <3>3. Len(stack') \in 0 .. Len(stack) - 1 /\ Len(stack) - 1 \in 0 .. Len(stack) - 1
      BY <1>1, <1>2
    <3>4. LevelOf(Len(stack))' = LevelOf(Len(stack) - 1)
      <4>1. CASE Len(stack) - 1 = 0
        BY <1>2, <4>1 DEF LevelOf
      <4>2. CASE Len(stack) - 1 # 0
        <5>1. Len(stack) - 1 \in 1 .. Len(stack) - 1
          BY <1>1, <4>2
        <5> QED BY <1>2, <4>2, <5>1 DEF LevelOf
      <4> QED BY <4>1, <4>2
    <3>5. LevelOf(Len(stack) - 1) \in Nat /\ Pushes(Top) \in Nat
      <4>1. CASE Len(stack) - 1 = 0
        BY <4>1 DEF LevelOf, Pushes
      <4>2. CASE Len(stack) - 1 # 0
        <5>1. Len(stack) - 1 \in DOMAIN stack /\ stack[Len(stack) - 1] \in Activation
          BY <1>1, <4>2
        <5> QED BY <4>2, <5>1 DEF LevelOf, Pushes, Activation
      <4> QED BY <4>1, <4>2
    <3> QED BY <3>1, <3>2, <3>4, <3>5
  <2>2. ASSUME NEW i \in 1 .. Len(stack) - 1
        PROVE  stack'[i].level = LevelOf(i - 1)' + Pushes(stack'[i])
    <3>1. i - 1 \in 0 .. Len(stack) - 1
      BY <1>1
    <3>2. stack[i].level = LevelOf(i - 1) + Pushes(stack[i])
      BY <1>1, <1>3 DEF Nested
    <3> QED BY <1>2, <1>4, <3>1, <3>2 DEF Pushes
  <2> QED BY <1>2, <2>1, <2>2 DEF Nested
<1>7. \A i \in 1 .. Len(stack) - 1 : stack[i].phase = "run"
  BY <1>1, <1>3 DEF Orderly
<1>8. Orderly'
  BY <1>1, <1>2, <1>3, <1>7 DEF Orderly
<1>9. KeptOrBack'
  <2> SUFFICES ASSUME NEW i \in 1 .. Len(stack) - 1
               PROVE  /\ \A n \in Name : Keeps(stack[i].saved, n) => n \in DOMAIN stack[i].first
                      /\ \A n \in DOMAIN stack[i].first :
                             /\ Keeps(stack[i].saved, n)
                             /\ FirstKept(stack[i].saved, n) = stack[i].first[n]
    BY <1>2 DEF KeptOrBack
  <2> QED BY <1>1, <1>3, <1>7 DEF KeptOrBack
<1> QED BY <1>5, <1>6, <1>8, <1>9

\* The last activation is `a` now.
TopBecomes(a) ==
    /\ stack' \in Seq(Activation) /\ Len(stack') = Len(stack) /\ DOMAIN stack' = 1 .. Len(stack)
    /\ \A i \in 1 .. Len(stack) - 1 : stack'[i] = stack[i]
    /\ stack'[Len(stack)] = a

LEMMA TopReplaced ==
    ASSUME TypeOK, stack # << >>, NEW a \in Activation,
           stack' = [stack EXCEPT ![Len(stack)] = a]
    PROVE  TopBecomes(a)
<1>1. stack \in Seq(Activation)
  BY DEF TypeOK
<1>2. /\ stack' \in Seq(Activation) /\ Len(stack') = Len(stack)
      /\ \A i \in 1 .. Len(stack) - 1 : stack'[i] = stack[i]
      /\ stack'[Len(stack)] = a
  BY <1>1, Replaced
<1>3. DOMAIN stack' = 1 .. Len(stack)
  BY <1>2, Indices
<1> QED BY <1>2, <1>3 DEF TopBecomes

\* The segment that is being run goes on, on the same frame.
LEMMA ChangeKeeps ==
    ASSUME Inv, stack # << >>, Top.kind = "segment",
           NEW a \in Activation, a.kind = "segment", a.level = Top.level,
           TopBecomes(a),
           frames' \in Seq(Env), frames' # << >>, Len(frames') = Len(frames),
           \A n \in Name : Keeps(a.saved, n) => n \in DOMAIN a.first,
           \A n \in DOMAIN a.first :
               IF Keeps(a.saved, n) THEN FirstKept(a.saved, n) = a.first[n]
               ELSE a.phase = "restore" /\ Here'[n] = a.first[n]
    PROVE  Inv'
<1> USE DEF Inv
<1>1. /\ Len(stack) \in Nat \ {0} /\ Top = stack[Len(stack)]
      /\ stack \in Seq(Activation) /\ DOMAIN stack = 1 .. Len(stack)
  BY TopTypes DEF TypeOK
<1>2. /\ stack' \in Seq(Activation) /\ Len(stack') = Len(stack)
      /\ DOMAIN stack' = 1 .. Len(stack)
      /\ \A i \in 1 .. Len(stack) - 1 : stack'[i] = stack[i]
      /\ stack'[Len(stack)] = a
  BY DEF TopBecomes
<1>3. \A i \in 1 .. Len(stack) : i \in 1 .. Len(stack) - 1 \/ i = Len(stack)
  BY <1>1, UpTo
<1>4. \A i \in 1 .. Len(stack) - 1 : i \in 1 .. Len(stack) /\ i < Len(stack)
  BY <1>1
<1>5. \A i \in 1 .. Len(stack) :
         stack'[i].level = stack[i].level /\ stack'[i].kind = stack[i].kind
  BY <1>1, <1>2, <1>3
<1>6. \A i \in 0 .. Len(stack) : LevelOf(i)' = LevelOf(i)
  <2> SUFFICES ASSUME NEW i \in 0 .. Len(stack) PROVE LevelOf(i)' = LevelOf(i)
    OBVIOUS
  <2>1. i = 0 \/ i \in 1 .. Len(stack)
    BY <1>1
  <2> QED BY <1>5, <2>1 DEF LevelOf
<1>7. TypeOK'
  BY <1>2 DEF TypeOK
<1>8. Nested'
  <2>1. Len(frames') = LevelOf(Len(stack))'
    <3>1. Len(stack) # 0 /\ Len(stack') # 0 /\ stack'[Len(stack')].level = stack[Len(stack)].level
      BY <1>1, <1>2
    <3> QED BY <3>1 DEF LevelOf, Nested
  <2>2. ASSUME NEW i \in 1 .. Len(stack)
        PROVE  stack'[i].level = LevelOf(i - 1)' + Pushes(stack'[i])
    <3>1. i - 1 \in 0 .. Len(stack)
      BY <1>1
    <3>2. stack[i].level = LevelOf(i - 1) + Pushes(stack[i])
      BY <1>1 DEF Nested
    <3> QED BY <1>5, <1>6, <3>1, <3>2 DEF Pushes
  <2> QED BY <1>2, <2>1, <2>2 DEF Nested
<1>9. Orderly'
  <2> SUFFICES ASSUME NEW i \in 1 .. Len(stack)
               PROVE  /\ i < Len(stack) => stack'[i].phase = "run"
                      /\ stack'[i].kind # "segment" =>
                            /\ stack'[i].phase = "run" /\ stack'[i].saved = << >>
                            /\ DOMAIN stack'[i].first = {}
    BY <1>2 DEF Orderly
  <2>1. CASE i \in 1 .. Len(stack) - 1
    BY <1>1, <1>2, <2>1 DEF Orderly
  <2>2. CASE i = Len(stack)
    <3>1. ~(i < Len(stack))
      BY <1>1, <2>2
    <3> QED BY <1>2, <2>2, <3>1
  <2> QED BY <1>3, <2>1, <2>2
<1>10. KeptOrBack'
  <2> SUFFICES ASSUME NEW i \in 1 .. Len(stack)
               PROVE  /\ \A n \in Name : Keeps(stack'[i].saved, n) => n \in DOMAIN stack'[i].first
                      /\ \A n \in DOMAIN stack'[i].first :
                             IF Keeps(stack'[i].saved, n)
                             THEN FirstKept(stack'[i].saved, n) = stack'[i].first[n]
                             ELSE stack'[i].phase = "restore" /\ Here'[n] = stack'[i].first[n]
    BY <1>2 DEF KeptOrBack
  <2>1. CASE i \in 1 .. Len(stack) - 1
    <3>1. stack[i].phase = "run" /\ stack'[i] = stack[i]
      BY <1>1, <1>2, <1>4, <2>1 DEF Orderly
    <3> QED BY <1>1, <2>1, <3>1 DEF KeptOrBack
  <2>2. CASE i = Len(stack)
    BY <1>2, <2>2
  <2> QED BY <1>3, <2>1, <2>2
<1> QED BY <1>7, <1>8, <1>9, <1>10

-----------------------------------------------------------------------------
(* The actions.                                                            *)

\* What begins: a line at the prompt, a script's or a stage's, or a script of a segment's.
LEMMA Begins ==
    ASSUME Inv, NEW kind, NEW level, NEW a, IsNew(a, kind, level),
           stack = << >> \/ (Top.left > 0 /\ (Top.kind = "segment" => Top.phase = "run")),
           level = Len(frames) + (IF kind \in {"script", "stage"} THEN 1 ELSE 0),
           stack' = Append(Spent, a),
           level = Len(frames'), frames' \in Seq(Env), frames' # << >>
    PROVE  Inv'
<1>1. /\ a \in Activation /\ a.level = level /\ a.saved = << >> /\ DOMAIN a.first = {}
      /\ a.kind # "segment" => a.phase = "run"
  BY DEF IsNew
<1>2. stack = << >> \/ (Top.left > 0 /\ Top.phase = "run")
  <2>1. ASSUME stack # << >>, Top.kind # "segment" PROVE Top.phase = "run"
    BY <2>1, TopTypes DEF Inv, Orderly
  <2> QED BY <2>1
<1>3. a.level = Len(frames) + Pushes(a)
  BY DEF Pushes, IsNew
<1>4. a.level = Len(frames')
  BY <1>1
<1> QED BY <1>1, <1>2, <1>3, <1>4, BeginKeeps

\* The frames with one more on top, and with one less.
LEMMA OneMore ==
    ASSUME TypeOK, NEW e \in Env, frames' = Append(frames, e)
    PROVE  frames' \in Seq(Env) /\ frames' # << >> /\ Len(frames') = Len(frames) + 1
  BY DEF TypeOK

LEMMA OneLess ==
    ASSUME Inv, stack # << >>, Top.kind \in {"script", "stage"}, frames' = Front(frames)
    PROVE  frames' \in Seq(Env) /\ frames' # << >> /\ Len(frames') = Len(frames) - 1
<1>1. /\ Len(stack) \in Nat \ {0} /\ Len(frames) \in Nat \ {0} /\ Top = stack[Len(stack)]
      /\ stack \in Seq(Activation) /\ DOMAIN stack = 1 .. Len(stack)
      /\ frames \in Seq(Env) /\ frames # << >>
  BY TopTypes DEF Inv, TypeOK
<1>2. Len(frames) = LevelOf(Len(stack) - 1) + 1
  BY <1>1 DEF Inv, Nested, LevelOf, Pushes
<1>3. LevelOf(Len(stack) - 1) \in Nat \ {0}
  <2>1. CASE Len(stack) - 1 = 0
    BY <2>1 DEF LevelOf
  <2>2. CASE Len(stack) - 1 # 0
    <3>1. Len(stack) - 1 \in DOMAIN stack /\ stack[Len(stack) - 1] \in Activation
      BY <1>1, <2>2
    <3> QED BY <2>2, <3>1 DEF LevelOf, Activation
  <2> QED BY <2>1, <2>2
<1>4. frames' \in Seq(Env) /\ Len(frames') = Len(frames) - 1
  BY <1>1, Popped
<1> QED BY <1>2, <1>3, <1>4

\* The segment on top, with whatever the action leaves of what it has saved.
LEMMA SegmentTop ==
    ASSUME Inv, In({"segment"})
    PROVE  /\ stack # << >> /\ Top \in Activation /\ Top.kind = "segment"
           /\ Top = stack[Len(stack)] /\ TypeOK
           /\ \A n \in Name : Keeps(Top.saved, n) => n \in DOMAIN Top.first
           /\ \A n \in DOMAIN Top.first :
                  IF Keeps(Top.saved, n) THEN FirstKept(Top.saved, n) = Top.first[n]
                  ELSE Top.phase = "restore" /\ Here[n] = Top.first[n]
  BY TopTypes DEF Inv, In, KeptOrBack

\* A step of the segment that leaves alone what it saved, before it puts anything back.
LEMMA SameSaved ==
    ASSUME Inv, In({"segment"}), Top.phase # "restore",
           NEW phase \in {"assign", "run", "export", "unset", "restore"}, NEW left \in Nat,
           TopBecomes([Top EXCEPT !.phase = phase, !.left = left]),
           frames' \in Seq(Env), frames' # << >>, Len(frames') = Len(frames)
    PROVE  Inv'
<1> DEFINE a == [Top EXCEPT !.phase = phase, !.left = left]
<1>1. stack # << >> /\ Top \in Activation /\ Top.kind = "segment"
  BY SegmentTop
<1>2. /\ a \in Activation /\ a.kind = "segment" /\ a.level = Top.level
      /\ a.saved = Top.saved /\ a.first = Top.first
  BY <1>1 DEF Activation
<1>3. TopBecomes(a)
  OBVIOUS
<1> HIDE DEF a
<1>4. /\ \A n \in Name : Keeps(a.saved, n) => n \in DOMAIN a.first
      /\ \A n \in DOMAIN a.first :
             IF Keeps(a.saved, n) THEN FirstKept(a.saved, n) = a.first[n]
             ELSE a.phase = "restore" /\ Here'[n] = a.first[n]
  BY <1>2, SegmentTop
<1> QED BY <1>1, <1>2, <1>3, <1>4, ChangeKeeps

LEMMA RunSegmentKeeps == Inv /\ RunSegment => Inv'
<1> SUFFICES ASSUME Inv, RunSegment PROVE Inv'
  OBVIOUS
<1>1. TypeOK /\ Len(frames) \in Nat \ {0} /\ Depth \in Nat /\ MaxAssign \in Nat
  BY TopTypes, ShellVarsAssumption DEF Inv, Depth, Activation
<1>2. PICK command \in BOOLEAN :
         stack' = Append(Spent, [Begun("segment", Len(frames), Depth, MaxAssign)
                                 EXCEPT !.command = command, !.phase = "assign"])
  BY DEF RunSegment
<1> DEFINE a == [Begun("segment", Len(frames), Depth, MaxAssign)
                 EXCEPT !.command = command, !.phase = "assign"]
<1>3. IsNew(a, "segment", Len(frames)) /\ stack' = Append(Spent, a)
  BY <1>1, <1>2, LineIsNew
<1> HIDE DEF a
<1>4. stack = << >> \/ (Top.left > 0 /\ (Top.kind = "segment" => Top.phase = "run"))
  BY DEF RunSegment, MayRun, In
<1>5. Len(frames) = Len(frames') /\ frames' \in Seq(Env) /\ frames' # << >>
  BY <1>1 DEF RunSegment, TypeOK
<1> QED BY <1>1, <1>3, <1>4, <1>5, Begins

LEMMA RunPipelineKeeps == Inv /\ RunPipeline => Inv'
<1> SUFFICES ASSUME Inv, RunPipeline PROVE Inv'
  OBVIOUS
<1>1. TypeOK /\ Len(frames) \in Nat \ {0} /\ Depth \in Nat /\ MaxStages \in Nat
  BY TopTypes, ShellVarsAssumption DEF Inv, Depth, Activation
<1> DEFINE a == Begun("pipe", Len(frames), Depth, MaxStages)
<1>2. IsNew(a, "pipe", Len(frames)) /\ stack' = Append(Spent, a)
  BY <1>1, BegunIsNew DEF RunPipeline
<1> HIDE DEF a
<1>3. stack = << >> \/ (Top.left > 0 /\ (Top.kind = "segment" => Top.phase = "run"))
  BY DEF RunPipeline, MayRun, In
<1>4. Len(frames) = Len(frames') /\ frames' \in Seq(Env) /\ frames' # << >>
  BY <1>1 DEF RunPipeline, TypeOK
<1> QED BY <1>1, <1>2, <1>3, <1>4, Begins

LEMMA RunStageKeeps == Inv /\ RunStage => Inv'
<1> SUFFICES ASSUME Inv, RunStage PROVE Inv'
  OBVIOUS
<1>1. /\ TypeOK /\ Len(frames) \in Nat \ {0} /\ Len(frames) + 1 \in Nat \ {0}
      /\ Depth \in Nat /\ Here \in Env
  BY TopTypes DEF Inv, Depth, Activation
<1> DEFINE a == Begun("stage", Len(frames) + 1, Depth, 1)
<1>2. IsNew(a, "stage", Len(frames) + 1) /\ stack' = Append(Spent, a)
  BY <1>1, BegunIsNew DEF RunStage
<1> HIDE DEF a
<1>3. Top.left > 0 /\ (Top.kind = "segment" => Top.phase = "run")
  BY DEF RunStage, In
<1>4. Len(frames') = Len(frames) + 1 /\ frames' \in Seq(Env) /\ frames' # << >>
  BY <1>1, OneMore DEF RunStage, PushSubshell
<1> QED BY <1>2, <1>3, <1>4, Begins

LEMMA SourceKeeps == Inv /\ Source => Inv'
<1> SUFFICES ASSUME Inv, Source PROVE Inv'
  OBVIOUS
<1>1. TypeOK /\ Len(frames) \in Nat \ {0} /\ Top.depth + 1 \in Nat /\ MaxLines \in Nat
  BY TopTypes, ShellVarsAssumption DEF Inv, Activation, Source, Running, In
<1> DEFINE a == Begun("source", Len(frames), Top.depth + 1, MaxLines)
<1>2. IsNew(a, "source", Len(frames)) /\ stack' = Append(Spent, a)
  BY <1>1, BegunIsNew DEF Source
<1> HIDE DEF a
<1>3. Top.left > 0 /\ (Top.kind = "segment" => Top.phase = "run")
  BY DEF Source, Running
<1>4. Len(frames) = Len(frames') /\ frames' \in Seq(Env) /\ frames' # << >>
  BY <1>1 DEF Source, TypeOK
<1> QED BY <1>1, <1>2, <1>3, <1>4, Begins

LEMMA RunScriptKeeps == Inv /\ RunScript => Inv'
<1> SUFFICES ASSUME Inv, RunScript PROVE Inv'
  OBVIOUS
<1>1. /\ TypeOK /\ Len(frames) \in Nat \ {0} /\ Len(frames) + 1 \in Nat \ {0}
      /\ Top.depth + 1 \in Nat /\ MaxLines \in Nat /\ Here \in Env
  BY TopTypes, ShellVarsAssumption DEF Inv, Activation, RunScript, Running, In
<1> DEFINE a == Begun("script", Len(frames) + 1, Top.depth + 1, MaxLines)
<1>2. IsNew(a, "script", Len(frames) + 1) /\ stack' = Append(Spent, a)
  BY <1>1, BegunIsNew DEF RunScript
<1> HIDE DEF a
<1>3. Top.left > 0 /\ (Top.kind = "segment" => Top.phase = "run")
  BY DEF RunScript, Running
<1>4. [n \in Name |-> IF IsExported(n) THEN Here[n] ELSE Unset] \in Env
  BY <1>1 DEF Env
<1>5. Len(frames') = Len(frames) + 1 /\ frames' \in Seq(Env) /\ frames' # << >>
  BY <1>1, <1>4, OneMore DEF RunScript, PushChild
<1> QED BY <1>2, <1>3, <1>5, Begins

\* What ends on the frame it began on, and what takes its frame along.
LEMMA EndsKeep ==
    Inv /\ (EndPipeline \/ EndSource \/ EndSegment \/ EndStage \/ EndScript) => Inv'
<1> SUFFICES ASSUME Inv, EndPipeline \/ EndSource \/ EndSegment \/ EndStage \/ EndScript
             PROVE  Inv'
  OBVIOUS
<1>1. stack # << >> /\ stack' = Front(stack) /\ TypeOK
  BY DEF EndPipeline, EndSource, EndSegment, EndStage, EndScript, Running, In, Return, Inv
<1>2. CASE EndPipeline \/ EndSource \/ EndSegment
  <2>1. Pushes(Top) = 0
    BY <1>2 DEF Pushes, EndPipeline, EndSource, EndSegment, Running, In
  <2>2. frames' \in Seq(Env) /\ frames' # << >> /\ Len(frames') = Len(frames)
    BY <1>1, <1>2 DEF EndPipeline, EndSource, EndSegment, TypeOK
  <2>3. Len(frames) = Len(frames) - 0
    BY <1>1, TopTypes
  <2>4. Len(frames') = Len(frames) - Pushes(Top)
    BY <2>1, <2>2, <2>3
  <2> QED BY <1>1, <2>2, <2>4, EndKeeps
<1>3. CASE EndStage \/ EndScript
  <2>1. Top.kind \in {"script", "stage"} /\ frames' = Front(frames)
    BY <1>3 DEF EndStage, EndScript, In, Pop
  <2>2. frames' \in Seq(Env) /\ frames' # << >> /\ Len(frames') = Len(frames) - Pushes(Top)
    BY <1>1, <2>1, OneLess DEF Pushes
  <2> QED BY <1>1, <2>2, EndKeeps
<1> QED BY <1>2, <1>3

\* A word expands to a value, and what a variable becomes is a variable.
LEMMA Expands ==
    ASSUME TypeOK, NEW word \in Words
    PROVE  Expanded(word) \in Value
<1>1. Here \in Env
  BY TopTypes
<1> QED BY <1>1 DEF Words, Expanded, Value, Env, Var

LEMMA VarBecomes ==
    ASSUME TypeOK, NEW n \in Name, NEW value \in Value
    PROVE  /\ [value |-> value, exported |-> IsExported(n)] \in Var \cup {Unset}
           /\ [value |-> value, exported |-> TRUE] \in Var \cup {Unset}
<1>1. Here \in Env
  BY TopTypes
<1>2. IsExported(n) \in BOOLEAN
  BY <1>1 DEF IsExported, Env, Var
<1> QED BY <1>2 DEF Var

\* With nothing but its count and its phase changed, the segment is a segment as before.
LEMMA TopStays ==
    ASSUME TypeOK, In({"segment"}), UNCHANGED stack
    PROVE  TopBecomes([Top EXCEPT !.phase = Top.phase, !.left = Top.left])
<1>1. stack \in Seq(Activation) /\ Top = stack[Len(stack)] /\ Top \in Activation
  BY TopTypes DEF TypeOK, In
<1>2. [Top EXCEPT !.phase = Top.phase, !.left = Top.left] = Top
  BY <1>1 DEF Activation
<1>3. DOMAIN stack = 1 .. Len(stack)
  BY TopTypes
<1> QED BY <1>1, <1>2, <1>3 DEF TopBecomes

LEMMA RunCommandKeeps == Inv /\ RunCommand => Inv'
<1> SUFFICES ASSUME Inv, RunCommand PROVE Inv'
  OBVIOUS
<1>1. In({"segment"}) /\ Top.phase # "restore" /\ stack # << >> /\ TypeOK
  BY DEF RunCommand, Running, Inv, In
<1>2. PICK phase \in {"run", "export", "unset", "restore"} :
         stack' = [stack EXCEPT ![Len(stack)] = [@ EXCEPT !.phase = phase, !.left = 1]]
  BY DEF RunCommand
<1> DEFINE a == [Top EXCEPT !.phase = phase, !.left = 1]
<1>3. Top = stack[Len(stack)] /\ Top \in Activation /\ Len(stack) \in DOMAIN stack
  BY <1>1, TopTypes
<1>4. a \in Activation /\ stack' = [stack EXCEPT ![Len(stack)] = a]
  BY <1>2, <1>3 DEF Activation
<1>5. TopBecomes(a)
  <2> HIDE DEF a
  <2> QED BY <1>1, <1>4, TopReplaced
<1>6. frames' \in Seq(Env) /\ frames' # << >> /\ Len(frames') = Len(frames)
  BY <1>1 DEF RunCommand, TypeOK
<1> QED BY <1>1, <1>5, <1>6, SameSaved

LEMMA CommandEndsKeeps == Inv /\ CommandEnds => Inv'
<1> SUFFICES ASSUME Inv, CommandEnds PROVE Inv'
  OBVIOUS
<1>1. In({"segment"}) /\ Top.phase # "restore" /\ stack # << >> /\ TypeOK
  BY DEF CommandEnds, Running, Inv, In
<1>2. Top = stack[Len(stack)] /\ Top \in Activation /\ Len(stack) \in DOMAIN stack
  BY <1>1, TopTypes
<1> DEFINE a == [Top EXCEPT !.phase = "restore", !.left = Top.left]
<1>3. a \in Activation /\ Top.left \in Nat
  BY <1>2 DEF Activation
<1>4. a = [Top EXCEPT !.phase = "restore"]
  BY <1>2 DEF Activation
<1>5. stack' = [stack EXCEPT ![Len(stack)] = a]
  BY <1>2, <1>4 DEF CommandEnds
<1>6. TopBecomes(a)
  <2> HIDE DEF a
  <2> QED BY <1>1, <1>3, <1>5, TopReplaced
<1>7. frames' \in Seq(Env) /\ frames' # << >> /\ Len(frames') = Len(frames)
  BY <1>1 DEF CommandEnds, TypeOK
<1> QED BY <1>1, <1>3, <1>6, <1>7, SameSaved

\* export and unset change the variables and nothing of the segment.
LEMMA BuiltinsKeep == Inv /\ (Export \/ UnsetVar) => Inv'
<1> SUFFICES ASSUME Inv, Export \/ UnsetVar PROVE Inv'
  OBVIOUS
<1>1. In({"segment"}) /\ Top.phase # "restore" /\ stack # << >> /\ TypeOK /\ UNCHANGED stack
  BY DEF Export, UnsetVar, Running, Inv, In
<1>2. \E n \in Name : \E w \in Var \cup {Unset} : SetHere(n, w)
  <2>1. CASE Export
    <3>1. Here \in Env
      BY <1>1, TopTypes
    <3>2. \E n \in Name, value \in Value : ExportVar(n, value)
      BY <1>1, <2>1, <3>1, Expands DEF Export, Env, Var, Value
    <3> QED BY <1>1, <3>2, VarBecomes DEF ExportVar
  <2>2. CASE UnsetVar
    BY <2>2 DEF UnsetVar
  <2> QED BY <2>1, <2>2
<1>3. frames' \in Seq(Env) /\ frames' # << >> /\ Len(frames') = Len(frames)
  BY <1>1, <1>2, SetHereKeeps
<1>4. TopBecomes([Top EXCEPT !.phase = Top.phase, !.left = Top.left])
  BY <1>1, TopStays
<1>5. Top.phase \in {"assign", "run", "export", "unset", "restore"} /\ Top.left \in Nat
  BY <1>1, TopTypes DEF Activation
<1> QED BY <1>1, <1>3, <1>4, <1>5, SameSaved

\* One more assignment for the command: what the name was is saved, first or again.
LEMMA SaveOneMore ==
    ASSUME NEW saved \in Seq(Saved), NEW e \in Saved, NEW first, NEW more,
           DOMAIN more = DOMAIN first \cup {e.name},
           more[e.name] = IF e.name \in DOMAIN first THEN first[e.name] ELSE e.was,
           \A m \in DOMAIN first : more[m] = first[m],
           \A m \in Name : Keeps(saved, m) => m \in DOMAIN first,
           \A m \in DOMAIN first : Keeps(saved, m) /\ FirstKept(saved, m) = first[m]
    PROVE  /\ \A m \in Name : Keeps(Append(saved, e), m) => m \in DOMAIN more
           /\ \A m \in DOMAIN more : /\ Keeps(Append(saved, e), m)
                                     /\ FirstKept(Append(saved, e), m) = more[m]
<1>1. e.name \in Name
  BY DEF Saved
<1>2. ASSUME NEW m \in Name, Keeps(Append(saved, e), m) PROVE m \in DOMAIN more
  <2>1. Keeps(saved, m) \/ e.name = m
    BY <1>2, KeptMore
  <2> QED BY <2>1
<1>3. ASSUME NEW m \in DOMAIN more
      PROVE  Keeps(Append(saved, e), m) /\ FirstKept(Append(saved, e), m) = more[m]
  <2>1. /\ Keeps(Append(saved, e), m) <=> Keeps(saved, m) \/ e.name = m
        /\ Keeps(saved, m) => FirstKept(Append(saved, e), m) = FirstKept(saved, m)
        /\ ~Keeps(saved, m) /\ e.name = m => FirstKept(Append(saved, e), m) = e.was
    BY KeptMore
  <2>2. CASE m \in DOMAIN first
    BY <2>1, <2>2
  <2>3. CASE m \notin DOMAIN first
    <3>1. m = e.name /\ ~Keeps(saved, m) /\ more[m] = e.was
      BY <1>1, <2>3
    <3> QED BY <2>1, <3>1
  <2> QED BY <2>2, <2>3
<1> QED BY <1>2, <1>3

LEMMA SavesFirst ==
    ASSUME Inv, In({"segment"}), Top.phase = "assign", Top.left > 0, NEW n \in Name,
           NEW a, a = Saving(Top, n)
    PROVE  /\ a \in Activation /\ a.kind = "segment" /\ a.level = Top.level
           /\ \A m \in Name : Keeps(a.saved, m) => m \in DOMAIN a.first
           /\ \A m \in DOMAIN a.first :
                  Keeps(a.saved, m) /\ FirstKept(a.saved, m) = a.first[m]
<1> DEFINE e == [name |-> n, was |-> Here[n]]
           f == Top.first
           g == [m \in DOMAIN f \cup {n} |-> IF m \in DOMAIN f THEN f[m] ELSE Here[n]]
<1>1. /\ Top \in Activation /\ Top.kind = "segment" /\ TypeOK
      /\ \A m \in Name : Keeps(Top.saved, m) => m \in DOMAIN f
      /\ \A m \in DOMAIN f : Keeps(Top.saved, m) /\ FirstKept(Top.saved, m) = f[m]
  BY SegmentTop
<1>2. Here[n] \in Var \cup {Unset}
  BY <1>1, TopTypes DEF Env
<1>3. e \in Saved /\ e.name = n /\ e.was = Here[n]
  BY <1>2 DEF Saved
<1>4. f \in Before /\ DOMAIN f \subseteq Name /\ \A m \in DOMAIN f : f[m] \in Var \cup {Unset}
  BY <1>1 DEF Activation, Before
<1>5. g \in Before
  <2>1. DOMAIN f \cup {n} \in SUBSET Name
    BY <1>4
  <2>2. g \in [DOMAIN f \cup {n} -> Var \cup {Unset}]
    BY <1>2, <1>4
  <2> QED BY <2>1, <2>2 DEF Before
<1>6. Top.saved \in Seq(Saved) /\ Top.left - 1 \in Nat
  BY <1>1 DEF Activation
<1>7. Append(Top.saved, e) \in Seq(Saved)
  BY <1>3, <1>6
<1>8. a = [Top EXCEPT !.left = Top.left - 1, !.saved = Append(Top.saved, e), !.first = g]
  BY <1>1 DEF Activation, Saving
<1>9. DOMAIN g = DOMAIN f \cup {n} /\ g[n] = (IF n \in DOMAIN f THEN f[n] ELSE Here[n])
      /\ \A m \in DOMAIN f : g[m] = f[m]
  OBVIOUS
<1> HIDE DEF e, f, g
<1>10. /\ a \in Activation /\ a.kind = "segment" /\ a.level = Top.level
       /\ a.saved = Append(Top.saved, e) /\ a.first = g
  BY <1>1, <1>5, <1>6, <1>7, <1>8 DEF Activation
<1>a. /\ DOMAIN g = DOMAIN f \cup {e.name}
      /\ g[e.name] = IF e.name \in DOMAIN f THEN f[e.name] ELSE e.was
  BY <1>3, <1>9
<1>11. /\ \A m \in Name : Keeps(Append(Top.saved, e), m) => m \in DOMAIN g
       /\ \A m \in DOMAIN g : /\ Keeps(Append(Top.saved, e), m)
                              /\ FirstKept(Append(Top.saved, e), m) = g[m]
  BY <1>1, <1>3, <1>6, <1>9, <1>a, SaveOneMore
<1> QED BY <1>10, <1>11

LEMMA AssignmentKeeps == Inv /\ Assignment => Inv'
<1> SUFFICES ASSUME Inv, Assignment PROVE Inv'
  OBVIOUS
<1>1. /\ In({"segment"}) /\ Top.phase = "assign" /\ Top.left > 0 /\ stack # << >> /\ TypeOK
      /\ Top \in Activation /\ Top = stack[Len(stack)] /\ Len(stack) \in DOMAIN stack
      /\ Top.kind = "segment"
  BY TopTypes DEF Assignment, Running, Inv, In
<1>2. CASE Top.command
  <2>1. PICK n \in Name, word \in Words :
           /\ ExportVar(n, Expanded(word))
           /\ stack' = [stack EXCEPT ![Len(stack)] = Saving(@, n)]
    BY <1>2 DEF Assignment
  <2> DEFINE a == Saving(Top, n)
  <2>2. /\ a \in Activation /\ a.kind = "segment" /\ a.level = Top.level
        /\ \A m \in Name : Keeps(a.saved, m) => m \in DOMAIN a.first
        /\ \A m \in DOMAIN a.first : Keeps(a.saved, m) /\ FirstKept(a.saved, m) = a.first[m]
    BY <1>1, SavesFirst
  <2>3. stack' = [stack EXCEPT ![Len(stack)] = a]
    BY <1>1, <2>1
  <2> HIDE DEF a
  <2>4. TopBecomes(a)
    BY <1>1, <2>2, <2>3, TopReplaced
  <2>5. frames' \in Seq(Env) /\ frames' # << >> /\ Len(frames') = Len(frames)
    BY <1>1, <2>1, Expands, VarBecomes, SetHereKeeps DEF ExportVar
  <2> QED BY <1>1, <2>2, <2>4, <2>5, ChangeKeeps
<1>3. CASE ~Top.command
  <2>1. PICK n \in Name, word \in Words : SetVar(n, Expanded(word)) /\ stack' = Spent
    BY <1>3 DEF Assignment
  <2> DEFINE a == [Top EXCEPT !.phase = "assign", !.left = Top.left - 1]
  <2>2. Top.left - 1 \in Nat /\ a \in Activation
    <3>1. Top.left \in Nat
      BY <1>1 DEF Activation
    <3>2. Top.left - 1 \in Nat
      BY <1>1, <3>1
    <3> QED BY <1>1, <3>2 DEF Activation
  <2>3. a = [Top EXCEPT !.left = Top.left - 1]
    BY <1>1 DEF Activation
  <2>4. stack' = [stack EXCEPT ![Len(stack)] = a]
    BY <1>1, <2>1, <2>3 DEF Spent
  <2>5. TopBecomes(a)
    <3> HIDE DEF a
    <3> QED BY <1>1, <2>2, <2>4, TopReplaced
  <2>6. frames' \in Seq(Env) /\ frames' # << >> /\ Len(frames') = Len(frames)
    BY <1>1, <2>1, Expands, VarBecomes, SetHereKeeps DEF SetVar
  <2>7. Top.phase # "restore"
    BY <1>1
  <2> QED BY <1>1, <2>2, <2>5, <2>6, <2>7, SameSaved
<1> QED BY <1>2, <1>3

\* The last that was saved is put back: its name is what it was, or has more to come.
LEMMA PutBack ==
    ASSUME NEW saved \in Seq(Saved), saved # << >>,
           NEW first, DOMAIN first \subseteq Name, NEW before, NEW after,
           after[Last(saved).name] = Last(saved).was,
           \A m \in Name : m # Last(saved).name => after[m] = before[m],
           \A m \in Name : Keeps(saved, m) => m \in DOMAIN first,
           \A m \in DOMAIN first :
               IF Keeps(saved, m) THEN FirstKept(saved, m) = first[m] ELSE before[m] = first[m]
    PROVE  /\ \A m \in Name : Keeps(Front(saved), m) => m \in DOMAIN first
           /\ \A m \in DOMAIN first :
                  IF Keeps(Front(saved), m) THEN FirstKept(Front(saved), m) = first[m]
                  ELSE after[m] = first[m]
<1>1. \A m : Keeps(Front(saved), m) => Keeps(saved, m)
  BY KeptLess
<1>2. ASSUME NEW m \in DOMAIN first
      PROVE  IF Keeps(Front(saved), m) THEN FirstKept(Front(saved), m) = first[m]
             ELSE after[m] = first[m]
  <2>1. /\ Keeps(saved, m) <=> Keeps(Front(saved), m) \/ Last(saved).name = m
        /\ Keeps(Front(saved), m) => FirstKept(Front(saved), m) = FirstKept(saved, m)
        /\ ~Keeps(Front(saved), m) /\ Last(saved).name = m
              => FirstKept(saved, m) = Last(saved).was
    BY KeptLess
  <2>2. m \in Name
    OBVIOUS
  <2>3. CASE Keeps(Front(saved), m)
    BY <2>1, <2>3
  <2>4. CASE ~Keeps(Front(saved), m) /\ m = Last(saved).name
    BY <2>1, <2>4
  <2>5. CASE ~Keeps(Front(saved), m) /\ m # Last(saved).name
    BY <2>1, <2>2, <2>5
  <2> QED BY <2>3, <2>4, <2>5
<1> QED BY <1>1, <1>2

LEMMA RestoreKeeps == Inv /\ RestoreAssignment => Inv'
<1> SUFFICES ASSUME Inv, RestoreAssignment PROVE Inv'
  OBVIOUS
<1>1. /\ In({"segment"}) /\ Top.phase = "restore" /\ stack # << >> /\ TypeOK
      /\ Top \in Activation /\ Top = stack[Len(stack)] /\ Len(stack) \in DOMAIN stack
      /\ Top.kind = "segment" /\ Top.saved # << >> /\ Here \in Env
  BY TopTypes DEF RestoreAssignment, Running, Inv, In
<1>2. Top.saved \in Seq(Saved)
  BY <1>1 DEF Activation
<1>3. Last(Top.saved) \in Saved /\ Front(Top.saved) \in Seq(Saved)
  BY <1>1, <1>2, Popped
<1> DEFINE n == Last(Top.saved).name
           w == Last(Top.saved).was
           a == [Top EXCEPT !.saved = Front(Top.saved)]
<1>4. n \in Name /\ w \in Var \cup {Unset} /\ SetHere(n, w)
  BY <1>3 DEF Saved, RestoreAssignment
<1>5. /\ a \in Activation /\ a.kind = "segment" /\ a.level = Top.level /\ a.phase = "restore"
      /\ a.saved = Front(Top.saved) /\ a.first = Top.first
  BY <1>1, <1>3 DEF Activation
<1>6. stack' = [stack EXCEPT ![Len(stack)] = a]
  BY <1>1 DEF RestoreAssignment
<1> HIDE DEF n, w, a
<1>8. /\ frames' \in Seq(Env) /\ frames' # << >> /\ Len(frames') = Len(frames)
      /\ Here' = [Here EXCEPT ![n] = w]
  BY <1>1, <1>4, SetHereKeeps
<1>9. Here'[n] = w /\ \A m \in Name : m # n => Here'[m] = Here[m]
  BY <1>1, <1>4, <1>8 DEF Env
<1>10. TopBecomes(a)
  BY <1>1, <1>5, <1>6, TopReplaced
<1>11. DOMAIN Top.first \subseteq Name
  BY <1>1 DEF Activation, Before
<1>12. /\ \A m \in Name : Keeps(Top.saved, m) => m \in DOMAIN Top.first
       /\ \A m \in DOMAIN Top.first :
              IF Keeps(Top.saved, m) THEN FirstKept(Top.saved, m) = Top.first[m]
              ELSE Here[m] = Top.first[m]
  BY <1>1, SegmentTop
<1>13. /\ \A m \in Name : Keeps(Front(Top.saved), m) => m \in DOMAIN Top.first
       /\ \A m \in DOMAIN Top.first :
              IF Keeps(Front(Top.saved), m) THEN FirstKept(Front(Top.saved), m) = Top.first[m]
              ELSE Here'[m] = Top.first[m]
  BY <1>1, <1>2, <1>9, <1>11, <1>12, PutBack DEF n, w
<1>14. /\ \A m \in Name : Keeps(a.saved, m) => m \in DOMAIN a.first
       /\ \A m \in DOMAIN a.first :
              IF Keeps(a.saved, m) THEN FirstKept(a.saved, m) = a.first[m]
              ELSE a.phase = "restore" /\ Here'[m] = a.first[m]
  BY <1>5, <1>13
<1> QED BY <1>1, <1>5, <1>8, <1>10, <1>14, ChangeKeeps

-----------------------------------------------------------------------------
(* The theorems.                                                           *)

LEMMA InitInv == Init => Inv
<1> SUFFICES ASSUME Init PROVE Inv
  OBVIOUS
<1>1. [n \in Name |-> Unset] \in Env
  BY DEF Env
<1>2. TypeOK /\ Len(frames) = 1 /\ Len(stack) = 0 /\ DOMAIN stack = {}
  BY <1>1 DEF Init, TypeOK
<1> QED BY <1>2 DEF Inv, Nested, LevelOf, Orderly, KeptOrBack

LEMMA NextInv == Inv /\ [Next]_vars => Inv'
<1> SUFFICES ASSUME Inv, [Next]_vars PROVE Inv'
  OBVIOUS
<1>1. CASE Next
  BY <1>1, RunSegmentKeeps, RunPipelineKeeps, RunStageKeeps, EndsKeep, AssignmentKeeps,
     RunCommandKeeps, BuiltinsKeep, SourceKeeps, RunScriptKeeps, CommandEndsKeeps, RestoreKeeps
     DEF Next
<1>2. CASE UNCHANGED vars
  BY <1>2 DEF vars, Inv, TypeOK, Nested, Orderly, KeptOrBack, LevelOf, Here
<1> QED BY <1>1, <1>2

LEMMA Always == Spec => []Inv
  BY InitInv, NextInv, PTL DEF Spec

(***************************************************************************)
(* Whatever runs inside a command, when it has put its variables back each *)
(* name it assigned is what it was before, and it is on the frame it began *)
(* on: for any number of names, values, assignments, scripts and stages.   *)
(***************************************************************************)
THEOREM Undone == Spec => []AssignmentsUndone
<1>1. Inv => AssignmentsUndone
  <2> SUFFICES ASSUME Inv, Running({"restore"}), Top.saved = << >>
               PROVE  /\ Len(frames) = Top.level
                      /\ \A n \in DOMAIN Top.first : Here[n] = Top.first[n]
    BY DEF AssignmentsUndone
  <2>1. In({"segment"}) /\ stack # << >> /\ TypeOK
    BY DEF Running, In, Inv
  <2>2. Len(stack) # 0 /\ Top = stack[Len(stack)]
    BY <2>1, TopTypes
  <2>3. Len(frames) = Top.level
    BY <2>2 DEF Inv, Nested, LevelOf
  <2>4. \A n \in DOMAIN Top.first : Here[n] = Top.first[n]
    BY <2>1, SegmentTop, KeepsNothing
  <2> QED BY <2>3, <2>4
<1> QED BY <1>1, Always, PTL

-----------------------------------------------------------------------------
(* Scopes of any frames f and activations s, to compare two states by.     *)

LevelIn(s, i) == IF i = 0 THEN 1 ELSE s[i].level
KeepersIn(s, i, n) ==
    {j \in i + 1 .. Len(s) : s[j].level = LevelIn(s, i) /\ Keeps(s[j].saved, n)}
IsNearest(j, s, i, n) == j \in KeepersIn(s, i, n) /\ \A k \in KeepersIn(s, i, n) : j <= k
SeenIn(f, s, i, n) ==
    IF KeepersIn(s, i, n) = {} THEN f[LevelIn(s, i)][n]
    ELSE FirstKept(s[CHOOSE j \in KeepersIn(s, i, n) :
                         \A k \in KeepersIn(s, i, n) : j <= k].saved, n)
BoundIn(s, i) ==
    IF i = 0 \/ s[i].kind \in {"script", "stage"} THEN Name
    ELSE {n \in Name : Keeps(s[i].saved, n)}
KindIn(s, i) ==
    IF i = 0 \/ s[i].kind = "script" THEN "process"
    ELSE IF s[i].kind = "stage" THEN "subshell" ELSE "local"
ScopeIn(f, s, i) ==
    [kind |-> KindIn(s, i), of |-> [n \in BoundIn(s, i) |-> SeenIn(f, s, i, n)]]
Scopes(f, s, o) == [i \in 1 .. o + 1 |-> ScopeIn(f, s, i - 1)]
OpenIn(s) ==
    IF s # << >> /\ Last(s).kind \in {"segment"} /\ Last(s).phase \in {"restore"}
    THEN Len(s) - 1 ELSE Len(s)

LEMMA ScopesNowAre ==
    /\ ScopesNow = Scopes(frames, stack, OpenIn(stack))
    /\ ScopesNow' = Scopes(frames', stack', OpenIn(stack'))
<1>1. ScopesNow = Scopes(frames, stack, OpenIn(stack))
  BY DEF ScopesNow, Open, Running, In, Top, KindOf, Bound, SeenAt, Keepers, LevelOf,
         Scopes, ScopeIn, KindIn, BoundIn, SeenIn, KeepersIn, LevelIn, OpenIn
<1>2. ScopesNow' = Scopes(frames', stack', OpenIn(stack'))
  BY DEF ScopesNow, Open, Running, In, Top, KindOf, Bound, SeenAt, Keepers, LevelOf,
         Scopes, ScopeIn, KindIn, BoundIn, SeenIn, KeepersIn, LevelIn, OpenIn
<1> QED BY <1>1, <1>2

LEMMA SeenBy ==
    ASSUME NEW f, NEW s, Len(s) \in Nat, NEW i \in Nat, NEW n
    PROVE  /\ KeepersIn(s, i, n) = {} => SeenIn(f, s, i, n) = f[LevelIn(s, i)][n]
           /\ KeepersIn(s, i, n) # {} => \E j : IsNearest(j, s, i, n)
<1> DEFINE K == KeepersIn(s, i, n)
<1>1. K \subseteq Nat
  BY DEF KeepersIn
<1>2. ASSUME K # {} PROVE \E j : IsNearest(j, s, i, n)
  BY <1>1, <1>2, Least DEF IsNearest
<1>3. K = {} => SeenIn(f, s, i, n) = f[LevelIn(s, i)][n]
  BY DEF SeenIn
<1> QED BY <1>2, <1>3

LEMMA SeenFrom ==
    ASSUME NEW f, NEW s, Len(s) \in Nat, NEW i \in Nat, NEW n, NEW j, IsNearest(j, s, i, n)
    PROVE  SeenIn(f, s, i, n) = FirstKept(s[j].saved, n)
<1> DEFINE K == KeepersIn(s, i, n)
           c == CHOOSE d \in K : \A k \in K : d <= k
<1>1. K \subseteq Nat
  BY DEF KeepersIn
<1>2. c \in K /\ \A k \in K : c <= k
  BY DEF IsNearest
<1>3. j \in K /\ \A k \in K : j <= k
  BY DEF IsNearest
<1>4. SeenIn(f, s, i, n) = FirstKept(s[c].saved, n)
  BY <1>3 DEF SeenIn
<1>5. c = j
  <2> HIDE DEF c, K
  <2> QED BY <1>1, <1>2, <1>3
<1> QED BY <1>4, <1>5

\* What is seen is the same if those who keep the name are, and what they keep of it.
KeptAlike(f, s, g, t, i, n) ==
    /\ Len(s) \in Nat /\ Len(t) \in Nat /\ i \in Nat
    /\ LevelIn(t, i) = LevelIn(s, i) /\ KeepersIn(t, i, n) = KeepersIn(s, i, n)
    /\ \A j \in KeepersIn(s, i, n) : FirstKept(t[j].saved, n) = FirstKept(s[j].saved, n)
    /\ KeepersIn(s, i, n) = {} => g[LevelIn(s, i)][n] = f[LevelIn(s, i)][n]

LEMMA SeenSame ==
    ASSUME NEW f, NEW s, NEW g, NEW t, NEW i, NEW n, KeptAlike(f, s, g, t, i, n)
    PROVE  SeenIn(g, t, i, n) = SeenIn(f, s, i, n)
<1> USE DEF KeptAlike
<1>1. CASE KeepersIn(s, i, n) = {}
  BY <1>1, SeenBy
<1>2. CASE KeepersIn(s, i, n) # {}
  <2>1. PICK j : IsNearest(j, s, i, n)
    BY <1>2, SeenBy
  <2>2. IsNearest(j, t, i, n)
    BY <2>1 DEF IsNearest
  <2>3. j \in KeepersIn(s, i, n)
    BY <2>1 DEF IsNearest
  <2>4. SeenIn(f, s, i, n) = FirstKept(s[j].saved, n)
    BY <2>1, SeenFrom
  <2>5. SeenIn(g, t, i, n) = FirstKept(t[j].saved, n)
    BY <2>2, SeenFrom
  <2> QED BY <2>3, <2>4, <2>5
<1> QED BY <1>1, <1>2

\* Activation j is the same in t as in s but for what it has still to run.
Alike(s, t, j) ==
    t[j].kind = s[j].kind /\ t[j].level = s[j].level /\ t[j].saved = s[j].saved

\* The activations are alike up to o, and the others keep nothing.
AlikeTo(o, s, t) ==
    /\ Len(s) \in Nat /\ Len(t) \in Nat /\ o \in Nat /\ o <= Len(s) /\ o <= Len(t)
    /\ \A j \in 1 .. o : Alike(s, t, j)
    /\ \A j \in 1 .. Len(s) : j > o => s[j].saved = << >>
    /\ \A j \in 1 .. Len(t) : j > o => t[j].saved = << >>

\* The scopes up to o have the same names then, and what they hold is kept in the same place.
LEMMA SkeletonSame ==
    ASSUME NEW s, NEW t, NEW o, AlikeTo(o, s, t), NEW i \in 0 .. o
    PROVE  /\ LevelIn(t, i) = LevelIn(s, i) /\ KindIn(t, i) = KindIn(s, i)
           /\ BoundIn(t, i) = BoundIn(s, i)
           /\ \A n : /\ KeepersIn(t, i, n) = KeepersIn(s, i, n)
                     /\ \A j \in KeepersIn(s, i, n) :
                            FirstKept(t[j].saved, n) = FirstKept(s[j].saved, n)
<1> USE DEF AlikeTo
<1>1. i \in Nat /\ (i = 0 \/ i \in 1 .. o)
  OBVIOUS
<1>2. LevelIn(t, i) = LevelIn(s, i) /\ KindIn(t, i) = KindIn(s, i) /\ BoundIn(t, i) = BoundIn(s, i)
  <2>1. CASE i = 0
    BY <2>1 DEF LevelIn, KindIn, BoundIn
  <2>2. CASE i \in 1 .. o
    BY <2>2 DEF LevelIn, KindIn, BoundIn, Alike
  <2> QED BY <1>1, <2>1, <2>2
<1>3. ASSUME NEW n
      PROVE  /\ KeepersIn(t, i, n) = KeepersIn(s, i, n)
             /\ \A j \in KeepersIn(s, i, n) : FirstKept(t[j].saved, n) = FirstKept(s[j].saved, n)
  <2>1. ASSUME NEW j \in KeepersIn(s, i, n)
        PROVE  j \in KeepersIn(t, i, n) /\ FirstKept(t[j].saved, n) = FirstKept(s[j].saved, n)
    <3>1. j \in i + 1 .. Len(s) /\ s[j].level = LevelIn(s, i) /\ Keeps(s[j].saved, n)
      BY DEF KeepersIn
    <3>2. j \in 1 .. Len(s)
      BY <1>1, <3>1
    <3>3. j <= o
      BY <3>1, <3>2, KeepsNothing
    <3>4. j \in 1 .. o /\ j \in i + 1 .. Len(t)
      BY <1>1, <3>1, <3>3
    <3> QED BY <1>2, <3>1, <3>4 DEF Alike, KeepersIn
  <2>2. ASSUME NEW j \in KeepersIn(t, i, n) PROVE j \in KeepersIn(s, i, n)
    <3>1. j \in i + 1 .. Len(t) /\ t[j].level = LevelIn(t, i) /\ Keeps(t[j].saved, n)
      BY DEF KeepersIn
    <3>2. j \in 1 .. Len(t)
      BY <1>1, <3>1
    <3>3. j <= o
      BY <3>1, <3>2, KeepsNothing
    <3>4. j \in 1 .. o /\ j \in i + 1 .. Len(s)
      BY <1>1, <3>1, <3>3
    <3> QED BY <1>2, <3>1, <3>4 DEF Alike, KeepersIn
  <2> QED BY <2>1, <2>2
<1> QED BY <1>2, <1>3

\* They are the same scopes if the frames they run on are the same, too.
LEMMA ScopeSame ==
    ASSUME NEW f, NEW s, NEW g, NEW t, NEW o, AlikeTo(o, s, t),
           NEW i \in 0 .. o, g[LevelIn(s, i)] = f[LevelIn(s, i)]
    PROVE  ScopeIn(g, t, i) = ScopeIn(f, s, i)
<1>1. i \in Nat /\ Len(s) \in Nat /\ Len(t) \in Nat
  BY DEF AlikeTo
<1>2. /\ LevelIn(t, i) = LevelIn(s, i) /\ KindIn(t, i) = KindIn(s, i)
      /\ BoundIn(t, i) = BoundIn(s, i)
      /\ \A n : /\ KeepersIn(t, i, n) = KeepersIn(s, i, n)
                /\ \A j \in KeepersIn(s, i, n) :
                       FirstKept(t[j].saved, n) = FirstKept(s[j].saved, n)
  BY SkeletonSame
<1>3. \A n \in BoundIn(s, i) : SeenIn(g, t, i, n) = SeenIn(f, s, i, n)
  BY <1>1, <1>2, SeenSame DEF KeptAlike
<1> QED BY <1>2, <1>3 DEF ScopeIn

-----------------------------------------------------------------------------
(* The scopes as a sequence.                                               *)

LEMMA ScopesAre ==
    ASSUME NEW f, NEW s, NEW o \in Nat, NEW S, \A i \in 0 .. o : ScopeIn(f, s, i) \in S
    PROVE  /\ Scopes(f, s, o) \in Seq(S)
           /\ Len(Scopes(f, s, o)) = o + 1 /\ DOMAIN Scopes(f, s, o) = 1 .. o + 1
           /\ \A i \in 1 .. o + 1 : Scopes(f, s, o)[i] = ScopeIn(f, s, i - 1)
<1>1. \A i \in 1 .. o + 1 : i - 1 \in 0 .. o
  OBVIOUS
<1>2. Scopes(f, s, o) \in [1 .. o + 1 -> S]
  BY <1>1 DEF Scopes
<1>3. o + 1 \in Nat
  OBVIOUS
<1>4. Scopes(f, s, o) \in Seq(S)
  BY <1>2, <1>3
<1>5. Len(Scopes(f, s, o)) = o + 1
  BY <1>2, <1>3, <1>4
<1> QED BY <1>2, <1>4, <1>5 DEF Scopes

LEMMA ScopesStay ==
    ASSUME NEW f, NEW s, NEW g, NEW t, NEW o \in Nat,
           \A i \in 0 .. o : ScopeIn(g, t, i) = ScopeIn(f, s, i)
    PROVE  Scopes(g, t, o) = Scopes(f, s, o)
<1>1. \A i \in 1 .. o + 1 : ScopeIn(g, t, i - 1) = ScopeIn(f, s, i - 1)
  OBVIOUS
<1> QED BY <1>1 DEF Scopes

LEMMA ScopesEntered ==
    ASSUME NEW f, NEW s, NEW g, NEW t, NEW o \in Nat,
           \A i \in 0 .. o : ScopeIn(g, t, i) = ScopeIn(f, s, i)
    PROVE  Scopes(g, t, o + 1) = Append(Scopes(f, s, o), ScopeIn(g, t, o + 1))
<1> DEFINE A == Scopes(f, s, o)
           e == ScopeIn(g, t, o + 1)
           S == {ScopeIn(f, s, i) : i \in 0 .. o} \cup {e}
           B == Append(A, e)
<1>0. \A i \in 0 .. o : ScopeIn(f, s, i) \in S
  OBVIOUS
<1>1. A \in Seq(S) /\ Len(A) = o + 1 /\ \A i \in 1 .. o + 1 : A[i] = ScopeIn(f, s, i - 1)
  <2> HIDE DEF S
  <2> QED BY <1>0, ScopesAre
<1> HIDE DEF A
<1>2. e \in S
  OBVIOUS
<1> HIDE DEF S, e
<1>3. B \in Seq(S) /\ Len(B) = o + 2 /\ DOMAIN B = 1 .. o + 2
      /\ (\A i \in 1 .. o + 1 : B[i] = A[i]) /\ B[o + 2] = e
  BY <1>1, <1>2
<1> HIDE DEF B
<1>4. B = [i \in 1 .. o + 2 |-> B[i]]
  BY <1>3
<1>5. \A i \in 1 .. o + 2 : B[i] = ScopeIn(g, t, i - 1)
  <2> SUFFICES ASSUME NEW i \in 1 .. o + 2 PROVE B[i] = ScopeIn(g, t, i - 1)
    OBVIOUS
  <2>1. CASE i = o + 2
    <3>1. i - 1 = o + 1
      BY <2>1
    <3> QED BY <1>3, <2>1, <3>1 DEF e
  <2>2. CASE i # o + 2
    <3>1. i \in 1 .. o + 1 /\ i - 1 \in 0 .. o
      BY <2>2
    <3> QED BY <1>1, <1>3, <3>1
  <2> QED BY <2>1, <2>2
<1>6. (o + 1) + 1 = o + 2
  OBVIOUS
<1>7. B = Scopes(g, t, o + 1)
  BY <1>4, <1>5, <1>6 DEF Scopes
<1> QED BY <1>7 DEF B, A, e

LEMMA ScopesLeft ==
    ASSUME NEW f, NEW s, NEW g, NEW t, NEW o \in Nat,
           \A i \in 0 .. o : ScopeIn(g, t, i) = ScopeIn(f, s, i)
    PROVE  Scopes(g, t, o) = Front(Scopes(f, s, o + 1)) /\ Len(Scopes(f, s, o + 1)) > 1
<1> DEFINE A == Scopes(f, s, o + 1)
           S == {ScopeIn(f, s, i) : i \in 0 .. o + 1}
           B == Front(A)
<1>0. o + 1 \in Nat /\ (o + 1) + 1 = o + 2
  OBVIOUS
<1>a. \A i \in 0 .. o + 1 : ScopeIn(f, s, i) \in S
  OBVIOUS
<1>1. A \in Seq(S) /\ Len(A) = o + 2 /\ \A i \in 1 .. o + 2 : A[i] = ScopeIn(f, s, i - 1)
  <2>1. /\ A \in Seq(S) /\ Len(A) = (o + 1) + 1
        /\ \A i \in 1 .. (o + 1) + 1 : A[i] = ScopeIn(f, s, i - 1)
    <3> HIDE DEF S
    <3> QED BY <1>0, <1>a, ScopesAre
  <2> QED BY <1>0, <2>1
<1> HIDE DEF A, S
<1>2. A # << >>
  BY <1>1
<1>3. B \in Seq(S) /\ Len(B) = o + 1 /\ \A i \in 1 .. o + 1 : B[i] = A[i]
  <2>1. Len(A) - 1 = o + 1
    BY <1>1
  <2> QED BY <1>1, <1>2, <2>1, Popped
<1> HIDE DEF B
<1>4. B = [i \in 1 .. o + 1 |-> B[i]]
  BY <1>3
<1>5. \A i \in 1 .. o + 1 : B[i] = ScopeIn(g, t, i - 1)
  <2> SUFFICES ASSUME NEW i \in 1 .. o + 1 PROVE B[i] = ScopeIn(g, t, i - 1)
    OBVIOUS
  <2>1. i \in 1 .. o + 2 /\ i - 1 \in 0 .. o
    OBVIOUS
  <2> QED BY <1>1, <1>3, <2>1
<1>6. B = Scopes(g, t, o)
  BY <1>4, <1>5 DEF Scopes
<1>7. Len(A) > 1
  BY <1>1
<1> QED BY <1>6, <1>7 DEF B, A

LEMMA ScopesChanged ==
    ASSUME NEW f, NEW s, NEW g, NEW t, NEW o \in Nat, NEW m \in 0 .. o, NEW e,
           \A i \in 0 .. o : i # m => ScopeIn(g, t, i) = ScopeIn(f, s, i),
           ScopeIn(g, t, m) = e
    PROVE  Scopes(g, t, o) = [Scopes(f, s, o) EXCEPT ![m + 1] = e]
<1> DEFINE A == Scopes(f, s, o)
<1>1. A = [i \in 1 .. o + 1 |-> ScopeIn(f, s, i - 1)]
  BY DEF Scopes
<1>2. [A EXCEPT ![m + 1] = e] = [i \in 1 .. o + 1 |-> IF i = m + 1 THEN e ELSE A[i]]
  BY <1>1
<1>3. \A i \in 1 .. o + 1 : ScopeIn(g, t, i - 1) = IF i = m + 1 THEN e ELSE A[i]
  <2> SUFFICES ASSUME NEW i \in 1 .. o + 1
               PROVE  ScopeIn(g, t, i - 1) = IF i = m + 1 THEN e ELSE A[i]
    OBVIOUS
  <2>1. CASE i = m + 1
    <3>1. i - 1 = m
      BY <2>1
    <3> QED BY <2>1, <3>1
  <2>2. CASE i # m + 1
    <3>1. i - 1 \in 0 .. o /\ i - 1 # m
      BY <2>2
    <3> QED BY <1>1, <2>2, <3>1
  <2> QED BY <2>1, <2>2
<1> QED BY <1>2, <1>3 DEF Scopes

-----------------------------------------------------------------------------
(* Levels rise along the activations.                                      *)

LEMMA LevelStep ==
    ASSUME Inv
    PROVE  /\ Len(stack) \in Nat /\ DOMAIN stack = 1 .. Len(stack) /\ Len(frames) \in Nat \ {0}
           /\ LevelIn(stack, Len(stack)) = Len(frames) /\ LevelIn(stack, 0) = 1
           /\ \A i \in 0 .. Len(stack) : LevelIn(stack, i) \in Nat \ {0}
           /\ \A i \in 1 .. Len(stack) :
                  LevelIn(stack, i) = LevelIn(stack, i - 1)
                                      + (IF stack[i].kind \in {"script", "stage"} THEN 1 ELSE 0)
<1>1. /\ TypeOK /\ Len(stack) \in Nat /\ DOMAIN stack = 1 .. Len(stack)
      /\ Len(frames) \in Nat \ {0} /\ stack \in Seq(Activation)
  BY TopTypes DEF Inv, TypeOK
<1>2. \A i : LevelOf(i) = LevelIn(stack, i)
  BY DEF LevelOf, LevelIn
<1>3. LevelIn(stack, Len(stack)) = Len(frames) /\ LevelIn(stack, 0) = 1
  BY <1>2 DEF Inv, Nested, LevelOf
<1>4. ASSUME NEW i \in 0 .. Len(stack) PROVE LevelIn(stack, i) \in Nat \ {0}
  <2>1. CASE i = 0
    BY <2>1 DEF LevelIn
  <2>2. CASE i # 0
    <3>1. i \in 1 .. Len(stack)
      BY <1>1, <2>2
    <3>2. stack[i] \in Activation
      BY <1>1, <3>1
    <3> QED BY <2>2, <3>2 DEF LevelIn, Activation
  <2> QED BY <2>1, <2>2
<1>5. ASSUME NEW i \in 1 .. Len(stack)
      PROVE  LevelIn(stack, i) = LevelIn(stack, i - 1)
                                 + (IF stack[i].kind \in {"script", "stage"} THEN 1 ELSE 0)
  <2>1. stack[i].level = LevelOf(i - 1) + Pushes(stack[i])
    BY <1>1 DEF Inv, Nested
  <2>2. i # 0
    BY <1>1
  <2>3. LevelIn(stack, i) = stack[i].level
    BY <2>2 DEF LevelIn
  <2> QED BY <1>2, <2>1, <2>3 DEF Pushes
<1> QED BY <1>1, <1>3, <1>4, <1>5

LEMMA LevelsRise ==
    ASSUME Inv, NEW i \in 0 .. Len(stack), NEW j \in 0 .. Len(stack), i <= j
    PROVE  LevelIn(stack, i) <= LevelIn(stack, j)
<1>1. Len(stack) \in Nat
  BY LevelStep
<1> DEFINE T == {k \in i .. Len(stack) : LevelIn(stack, k) < LevelIn(stack, i)}
<1>2. ASSUME T # {} PROVE FALSE
  <2>1. T \subseteq Nat
    BY <1>1
  <2>2. PICK k \in T : \A d \in T : k <= d
    BY <1>2, <2>1, Least
  <2>3. k \in i .. Len(stack) /\ LevelIn(stack, k) < LevelIn(stack, i)
    OBVIOUS
  <2> HIDE DEF T
  <2>4. LevelIn(stack, i) \in Nat /\ LevelIn(stack, k) \in Nat
    <3>1. k \in 0 .. Len(stack)
      BY <1>1, <2>3
    <3> QED BY <3>1, LevelStep
  <2>5. k # i
    BY <2>3, <2>4
  <2>6. k \in 1 .. Len(stack) /\ k - 1 \in i .. Len(stack) /\ ~(k <= k - 1) /\ k - 1 \in 0 .. Len(stack)
    BY <1>1, <2>3, <2>5
  <2>7. ~(LevelIn(stack, k - 1) < LevelIn(stack, i))
    BY <2>2, <2>6 DEF T
  <2>8. LevelIn(stack, k - 1) \in Nat /\ LevelIn(stack, k - 1) <= LevelIn(stack, k)
    <3>1. LevelIn(stack, k - 1) \in Nat
      BY <2>6, LevelStep
    <3>2. \/ LevelIn(stack, k) = LevelIn(stack, k - 1) + 1
          \/ LevelIn(stack, k) = LevelIn(stack, k - 1) + 0
      BY <2>6, LevelStep
    <3> QED BY <3>1, <3>2
  <2> QED BY <2>3, <2>4, <2>7, <2>8
<1>3. j \in i .. Len(stack)
  BY <1>1
<1>4. LevelIn(stack, i) \in Nat /\ LevelIn(stack, j) \in Nat
  BY LevelStep
<1> QED BY <1>2, <1>3, <1>4

\* Above the last activation with a frame of its own, all run on the top frame.
LEMMA LevelsFlat ==
    ASSUME Inv, NEW m \in 0 .. Len(stack),
           \A j \in m + 1 .. Len(stack) : stack[j].kind \notin {"script", "stage"}
    PROVE  LevelIn(stack, m) = Len(frames)
<1>1. Len(stack) \in Nat /\ LevelIn(stack, m) \in Nat
  BY LevelStep
<1> DEFINE T == {k \in m .. Len(stack) : LevelIn(stack, k) # LevelIn(stack, m)}
<1>2. ASSUME T # {} PROVE FALSE
  <2>1. T \subseteq Nat
    BY <1>1
  <2>2. PICK k \in T : \A d \in T : k <= d
    BY <1>2, <2>1, Least
  <2>3. k \in m .. Len(stack) /\ k # m /\ LevelIn(stack, k) # LevelIn(stack, m)
    OBVIOUS
  <2> HIDE DEF T
  <2>4. k \in 1 .. Len(stack) /\ k \in m + 1 .. Len(stack) /\ k - 1 \in m .. Len(stack)
        /\ ~(k <= k - 1) /\ k - 1 \in 0 .. Len(stack)
    BY <1>1, <2>3
  <2>5. LevelIn(stack, k - 1) = LevelIn(stack, m)
    BY <2>2, <2>4 DEF T
  <2>6. LevelIn(stack, k) = LevelIn(stack, k - 1) + 0
    BY <2>4, LevelStep
  <2> QED BY <1>1, <2>3, <2>5, <2>6
<1>3. Len(stack) \in m .. Len(stack)
  BY <1>1
<1> QED BY <1>2, <1>3, LevelStep

-----------------------------------------------------------------------------
(* The innermost binding of a name is what the top frame holds.            *)

IsInnermost(m, n) ==
    /\ m \in 0 .. Len(stack) /\ n \in BoundIn(stack, m)
    /\ \A j \in m + 1 .. Len(stack) : n \notin BoundIn(stack, j)

LEMMA InnermostExists ==
    ASSUME Inv, NEW n \in Name
    PROVE  \E m : IsInnermost(m, n)
<1>1. Len(stack) \in Nat
  BY LevelStep
<1> DEFINE T == {d \in 0 .. Len(stack) : n \in BoundIn(stack, Len(stack) - d)}
<1>2. Len(stack) \in T
  <2>1. Len(stack) - Len(stack) = 0 /\ Len(stack) \in 0 .. Len(stack)
    BY <1>1
  <2> QED BY <2>1 DEF BoundIn
<1>3. T \subseteq Nat /\ T # {}
  BY <1>1, <1>2
<1>4. PICK d \in T : \A e \in T : d <= e
  BY <1>3, Least
<1>5. d \in 0 .. Len(stack) /\ n \in BoundIn(stack, Len(stack) - d)
  OBVIOUS
<1>6. ASSUME NEW j \in (Len(stack) - d) + 1 .. Len(stack) PROVE n \notin BoundIn(stack, j)
  <2>1. Len(stack) - j \in 0 .. Len(stack) /\ ~(d <= Len(stack) - j)
        /\ Len(stack) - (Len(stack) - j) = j
    BY <1>1, <1>5
  <2>2. Len(stack) - j \notin T
    BY <1>4, <2>1
  <2> QED BY <2>1, <2>2
<1>7. Len(stack) - d \in 0 .. Len(stack)
  BY <1>1, <1>5
<1> QED BY <1>5, <1>6, <1>7 DEF IsInnermost

\* No frame is pushed and nothing of n is kept above m.
LEMMA AboveInnermost ==
    ASSUME Inv, NEW n \in Name, NEW m, IsInnermost(m, n)
    PROVE  /\ m \in 0 .. Len(stack) /\ m \in Nat
           /\ \A j \in m + 1 .. Len(stack) : stack[j].kind \notin {"script", "stage"}
                                             /\ ~Keeps(stack[j].saved, n)
           /\ LevelIn(stack, m) = Len(frames) /\ KeepersIn(stack, m, n) = {}
           /\ \A f : SeenIn(f, stack, m, n) = f[Len(frames)][n]
<1>1. Len(stack) \in Nat /\ m \in 0 .. Len(stack) /\ m \in Nat
  BY LevelStep DEF IsInnermost
<1>2. ASSUME NEW j \in m + 1 .. Len(stack)
      PROVE  stack[j].kind \notin {"script", "stage"} /\ ~Keeps(stack[j].saved, n)
  <2>1. j # 0
    BY <1>1
  <2> QED BY <2>1 DEF IsInnermost, BoundIn
<1>3. LevelIn(stack, m) = Len(frames)
  BY <1>1, <1>2, LevelsFlat
<1>4. KeepersIn(stack, m, n) = {}
  BY <1>2 DEF KeepersIn
<1>5. \A f : SeenIn(f, stack, m, n) = f[Len(frames)][n]
  BY <1>3, <1>4 DEF SeenIn
<1> QED BY <1>1, <1>2, <1>3, <1>4, <1>5

\* Below it, a binding of n is of another frame, or what it holds is kept.
LEMMA BelowInnermost ==
    ASSUME Inv, NEW n \in Name, NEW m, IsInnermost(m, n), NEW i \in 0 .. m - 1
    PROVE  LevelIn(stack, i) # Len(frames) \/ KeepersIn(stack, i, n) # {}
<1>1. /\ Len(stack) \in Nat /\ m \in 0 .. Len(stack) /\ LevelIn(stack, m) = Len(frames)
      /\ Len(frames) \in Nat
  BY AboveInnermost, LevelStep
<1>2. m \in 1 .. Len(stack) /\ i \in 0 .. Len(stack) /\ m - 1 \in 0 .. Len(stack) /\ i <= m - 1
      /\ m \in i + 1 .. Len(stack) /\ m # 0
  BY <1>1
<1>3. LevelIn(stack, i) \in Nat /\ LevelIn(stack, m - 1) \in Nat
      /\ LevelIn(stack, i) <= LevelIn(stack, m - 1)
  BY <1>2, LevelStep, LevelsRise
<1>4. CASE stack[m].kind \in {"script", "stage"}
  <2>1. LevelIn(stack, m) = LevelIn(stack, m - 1) + 1
    BY <1>2, <1>4, LevelStep
  <2> QED BY <1>1, <1>3, <2>1
<1>5. CASE stack[m].kind \notin {"script", "stage"}
  <2>1. Keeps(stack[m].saved, n)
    BY <1>2, <1>5 DEF IsInnermost, BoundIn
  <2>2. stack[m].level = Len(frames)
    BY <1>1, <1>2 DEF LevelIn
  <2>3. LevelIn(stack, i) = Len(frames) => m \in KeepersIn(stack, i, n)
    BY <1>2, <2>1, <2>2 DEF KeepersIn
  <2> QED BY <2>3
<1> QED BY <1>4, <1>5

\* What the scopes say of a name, when no segment is putting back what it saved.
LEMMA PromiseSees ==
    ASSUME Inv, OpenIn(stack) = Len(stack), NEW n \in Name, NEW m, IsInnermost(m, n)
    PROVE  /\ Promise!Innermost(n) = m + 1
           /\ Promise!Seen(n) = Here[n]
           /\ Promise!IsExported(n) = IsExported(n)
<1>1. /\ Len(stack) \in Nat /\ m \in 0 .. Len(stack)
      /\ Here = frames[Len(frames)]
  BY AboveInnermost, LevelStep, TopTypes DEF Inv
<1> DEFINE A == ScopesNow
<1>2. /\ DOMAIN A = 1 .. Len(stack) + 1 /\ Len(A) = Len(stack) + 1
      /\ \A i \in 1 .. Len(stack) + 1 : A[i] = ScopeIn(frames, stack, i - 1)
  <2>1. A = Scopes(frames, stack, Len(stack))
    BY ScopesNowAre
  <2> DEFINE S == {ScopeIn(frames, stack, i) : i \in 0 .. Len(stack)}
  <2>2. \A i \in 0 .. Len(stack) : ScopeIn(frames, stack, i) \in S
    OBVIOUS
  <2> HIDE DEF S
  <2> QED BY <1>1, <2>1, <2>2, ScopesAre
<1> HIDE DEF A
<1>3. \A i \in 1 .. Len(stack) + 1 : DOMAIN A[i].of = BoundIn(stack, i - 1)
  BY <1>2 DEF ScopeIn
<1>4. m + 1 \in DOMAIN A /\ (m + 1) - 1 = m
  BY <1>1, <1>2
<1> DEFINE P(i) == n \in DOMAIN A[i].of /\ \A j \in i + 1 .. Len(A) : n \notin DOMAIN A[j].of
<1>5. P(m + 1)
  <2>1. n \in DOMAIN A[m + 1].of
    BY <1>2, <1>3, <1>4 DEF IsInnermost
  <2>2. ASSUME NEW j \in (m + 1) + 1 .. Len(A) PROVE n \notin DOMAIN A[j].of
    <3>1. j \in 1 .. Len(stack) + 1 /\ j - 1 \in m + 1 .. Len(stack)
      BY <1>1, <1>2
    <3> QED BY <1>3, <3>1 DEF IsInnermost
  <2> QED BY <2>1, <2>2
<1>6. ASSUME NEW i \in DOMAIN A, P(i) PROVE i = m + 1
  <2>1. i \in 1 .. Len(stack) + 1 /\ m + 1 \in 1 .. Len(stack) + 1
    BY <1>2, <1>4
  <2>2. ~(i < m + 1)
    <3>1. i < m + 1 => m + 1 \in i + 1 .. Len(A)
      BY <1>1, <1>2, <2>1
    <3> QED BY <1>5, <1>6, <3>1
  <2>3. ~(m + 1 < i)
    <3>1. m + 1 < i => i \in (m + 1) + 1 .. Len(A)
      BY <1>1, <1>2, <2>1
    <3> QED BY <1>5, <1>6, <3>1
  <2> QED BY <1>1, <2>1, <2>2, <2>3
<1>7. Promise!Innermost(n) = m + 1
  <2>1. Promise!Innermost(n) = CHOOSE i \in DOMAIN A : P(i)
    BY DEF Promise!Innermost, A
  <2> HIDE DEF P
  <2> QED BY <1>4, <1>5, <1>6, <2>1
<1>8. A[m + 1] = ScopeIn(frames, stack, m)
  BY <1>2, <1>4
<1>9. Promise!Seen(n) = Here[n]
  <2>1. Promise!Seen(n) = A[m + 1].of[n]
    BY <1>7 DEF Promise!Seen, A
  <2>2. A[m + 1].of[n] = SeenIn(frames, stack, m, n)
    BY <1>8 DEF ScopeIn, IsInnermost
  <2> QED BY <1>1, <2>1, <2>2, AboveInnermost
<1>10. Promise!IsExported(n) = IsExported(n)
  BY <1>9 DEF Promise!IsExported, IsExported
<1> QED BY <1>7, <1>9, <1>10

-----------------------------------------------------------------------------
(* One more assignment saved, or one less to put back.                     *)

\* t is s after the last activation has saved e and set the variable, or s is t after it has
\* put e back: the scopes below it cannot tell.
OneSaved(f, s, g, t, e) ==
    /\ Len(t) = Len(s)
    /\ \A j \in 1 .. Len(s) - 1 : Alike(s, t, j)
    /\ t[Len(s)].kind = s[Len(s)].kind /\ t[Len(s)].level = s[Len(s)].level
    /\ t[Len(s)].saved = Append(s[Len(s)].saved, e)
    /\ e.was = f[s[Len(s)].level][e.name]
    /\ \A i \in 0 .. Len(s) - 1 : \A n \in Name :
           LevelIn(s, i) # s[Len(s)].level \/ n # e.name
               => g[LevelIn(s, i)][n] = f[LevelIn(s, i)][n]

LEMMA OneSavedUnseen ==
    ASSUME NEW f, NEW s, NEW g, NEW t, NEW e \in Saved, Len(s) \in Nat \ {0},
           s[Len(s)].saved \in Seq(Saved), OneSaved(f, s, g, t, e), NEW i \in 0 .. Len(s) - 1
    PROVE  ScopeIn(g, t, i) = ScopeIn(f, s, i)
<1> DEFINE L == Len(s)
<1>1. L \in Nat \ {0} /\ i \in Nat /\ (i = 0 \/ i \in 1 .. L - 1) /\ L \in i + 1 .. L
  OBVIOUS
<1>2. /\ Len(t) = L /\ \A j \in 1 .. L - 1 : Alike(s, t, j)
      /\ t[L].kind = s[L].kind /\ t[L].level = s[L].level
      /\ t[L].saved = Append(s[L].saved, e)
      /\ e.was = f[s[L].level][e.name]
  BY DEF OneSaved
<1>0. Len(s) \in Nat /\ Len(t) \in Nat
  BY <1>1, <1>2
<1>3. \A n \in Name : LevelIn(s, i) # s[L].level \/ n # e.name
                          => g[LevelIn(s, i)][n] = f[LevelIn(s, i)][n]
  BY DEF OneSaved
<1>4. LevelIn(t, i) = LevelIn(s, i) /\ KindIn(t, i) = KindIn(s, i) /\ BoundIn(t, i) = BoundIn(s, i)
  <2>1. CASE i = 0
    BY <2>1 DEF LevelIn, KindIn, BoundIn
  <2>2. CASE i \in 1 .. L - 1
    BY <1>2, <2>2 DEF LevelIn, KindIn, BoundIn, Alike
  <2> QED BY <1>1, <2>1, <2>2
<1>5. \A n : /\ Keeps(t[L].saved, n) <=> Keeps(s[L].saved, n) \/ e.name = n
             /\ Keeps(s[L].saved, n) => FirstKept(t[L].saved, n) = FirstKept(s[L].saved, n)
             /\ ~Keeps(s[L].saved, n) /\ e.name = n => FirstKept(t[L].saved, n) = e.was
  BY <1>2, KeptMore
<1>6. \A j \in i + 1 .. L : j = L \/ j \in 1 .. L - 1
  BY <1>1
<1>7. ASSUME NEW n
      PROVE  /\ KeepersIn(s, i, n) \subseteq KeepersIn(t, i, n)
             /\ \A j \in KeepersIn(t, i, n) :
                    j \notin KeepersIn(s, i, n)
                        => j = L /\ LevelIn(s, i) = s[L].level /\ n = e.name
                           /\ ~Keeps(s[L].saved, n)
             /\ \A j \in KeepersIn(s, i, n) :
                    FirstKept(t[j].saved, n) = FirstKept(s[j].saved, n)
  <2>1. ASSUME NEW j \in i + 1 .. L
        PROVE  /\ j \in KeepersIn(s, i, n) =>
                      j \in KeepersIn(t, i, n) /\ FirstKept(t[j].saved, n) = FirstKept(s[j].saved, n)
               /\ j \in KeepersIn(t, i, n) /\ j \notin KeepersIn(s, i, n) =>
                      j = L /\ LevelIn(s, i) = s[L].level /\ n = e.name /\ ~Keeps(s[L].saved, n)
    <3>1. CASE j = L
      BY <1>2, <1>4, <1>5, <3>1 DEF KeepersIn
    <3>2. CASE j \in 1 .. L - 1
      BY <1>2, <1>4, <3>2 DEF KeepersIn, Alike
    <3> QED BY <1>6, <3>1, <3>2
  <2>2. \A j \in KeepersIn(s, i, n) \cup KeepersIn(t, i, n) : j \in i + 1 .. L
    BY <1>2 DEF KeepersIn
  <2> QED BY <2>1, <2>2
<1>8. ASSUME NEW n \in BoundIn(s, i) PROVE SeenIn(g, t, i, n) = SeenIn(f, s, i, n)
  <2>0. n \in Name
    BY DEF BoundIn
  <2>1. CASE L \in KeepersIn(t, i, n) /\ L \notin KeepersIn(s, i, n)
    <3>1. LevelIn(s, i) = s[L].level /\ n = e.name /\ FirstKept(t[L].saved, n) = e.was
      BY <1>5, <1>7, <2>1
    <3>2. CASE KeepersIn(s, i, n) = {}
      <4>1. SeenIn(f, s, i, n) = f[LevelIn(s, i)][n]
        BY <1>1, <3>2, SeenBy
      <4>2. IsNearest(L, t, i, n)
        <5>1. KeepersIn(t, i, n) = {L}
          BY <1>7, <2>1, <3>2
        <5> QED BY <1>1, <5>1 DEF IsNearest
      <4>3. SeenIn(g, t, i, n) = FirstKept(t[L].saved, n)
        BY <1>0, <1>1, <4>2, SeenFrom
      <4> QED BY <1>2, <3>1, <4>1, <4>3
    <3>3. CASE KeepersIn(s, i, n) # {}
      <4>1. PICK j : IsNearest(j, s, i, n)
        BY <1>1, <3>3, SeenBy
      <4>2. j \in KeepersIn(s, i, n) /\ j \in i + 1 .. L /\ j <= L
        BY <1>1, <4>1 DEF IsNearest, KeepersIn
      <4>3. IsNearest(j, t, i, n)
        BY <1>7, <4>1, <4>2 DEF IsNearest
      <4>4. SeenIn(f, s, i, n) = FirstKept(s[j].saved, n)
        BY <1>1, <4>1, SeenFrom
      <4>5. SeenIn(g, t, i, n) = FirstKept(t[j].saved, n)
        BY <1>0, <1>1, <4>3, SeenFrom
      <4> QED BY <1>7, <4>2, <4>4, <4>5
    <3> QED BY <3>2, <3>3
  <2>2. CASE ~(L \in KeepersIn(t, i, n) /\ L \notin KeepersIn(s, i, n))
    <3>1. KeepersIn(t, i, n) = KeepersIn(s, i, n)
      <4>1. \A j \in KeepersIn(t, i, n) : j \in KeepersIn(s, i, n)
        <5> SUFFICES ASSUME NEW j \in KeepersIn(t, i, n), j \notin KeepersIn(s, i, n) PROVE FALSE
          OBVIOUS
        <5>1. j = L
          BY <1>7
        <5> QED BY <2>2, <5>1
      <4>2. KeepersIn(s, i, n) \subseteq KeepersIn(t, i, n)
        BY <1>7
      <4> QED BY <4>1, <4>2
    <3>2. ASSUME KeepersIn(s, i, n) = {}
          PROVE  g[LevelIn(s, i)][n] = f[LevelIn(s, i)][n]
      <4>1. ~(LevelIn(s, i) = s[L].level /\ n = e.name)
        <5>1. LevelIn(s, i) = s[L].level /\ n = e.name => L \in KeepersIn(t, i, n)
          BY <1>1, <1>2, <1>4, <1>5 DEF KeepersIn
        <5> QED BY <3>1, <3>2, <5>1
      <4> QED BY <1>3, <2>0, <4>1
    <3>3. \A j \in KeepersIn(s, i, n) : FirstKept(t[j].saved, n) = FirstKept(s[j].saved, n)
      BY <1>7
    <3>4. LevelIn(t, i) = LevelIn(s, i) /\ i \in Nat
      BY <1>1, <1>4
    <3>5. KeptAlike(f, s, g, t, i, n)
      BY <1>0, <3>1, <3>2, <3>3, <3>4 DEF KeptAlike
    <3> QED BY <3>5, SeenSame
  <2> QED BY <2>1, <2>2
<1> QED BY <1>4, <1>8 DEF ScopeIn

-----------------------------------------------------------------------------
(* What each step is to the scopes.                                        *)

LEMMA Topmost ==
    ASSUME NEW n \in Nat \ {0}, NEW j \in 1 .. n, j > n - 1
    PROVE  j = n
  OBVIOUS

LEMMA OpenAt ==
    ASSUME NEW s \in Seq(Activation)
    PROVE  /\ Len(s) \in Nat
           /\ s = << >> => OpenIn(s) = Len(s)
           /\ s # << >> /\ s[Len(s)].phase # "restore" => OpenIn(s) = Len(s)
           /\ s # << >> /\ s[Len(s)].kind = "segment" /\ s[Len(s)].phase = "restore"
                  => OpenIn(s) = Len(s) - 1
<1>1. s # << >> => Last(s) = s[Len(s)]
  BY DEF Last
<1> QED BY <1>1 DEF OpenIn

LEMMA StateIs ==
    ASSUME Inv
    PROVE  /\ stack \in Seq(Activation) /\ frames \in Seq(Env) /\ Len(stack) \in Nat
           /\ DOMAIN stack = 1 .. Len(stack) /\ Len(frames) \in Nat \ {0}
           /\ Here = frames[Len(frames)] /\ Here \in Env
           /\ \A i \in 1 .. Len(stack) : i < Len(stack) => stack[i].phase = "run"
           /\ \A i \in 1 .. Len(stack) :
                  stack[i].kind # "segment" => stack[i].phase = "run" /\ stack[i].saved = << >>
           /\ stack # << >> => /\ Len(stack) \in Nat \ {0} /\ Top = stack[Len(stack)]
                               /\ Top \in Activation
  BY TopTypes DEF Inv, TypeOK, Orderly

\* An activation begins: one more scope.
LEMMA BeginScopes ==
    ASSUME Inv, NEW kind, NEW level, NEW a, IsNew(a, kind, level), a.phase # "restore",
           stack = << >> \/ (Top.left > 0 /\ (Top.kind = "segment" => Top.phase = "run")),
           stack' = Append(Spent, a),
           \A l \in 1 .. Len(frames) : frames'[l] = frames[l]
    PROVE  /\ OpenIn(stack) = Len(stack)
           /\ stack'[Len(stack) + 1] = a /\ Len(stack') = Len(stack) + 1 /\ Len(stack) \in Nat
           /\ ScopesNow' = Append(ScopesNow, ScopeIn(frames', stack', Len(stack) + 1))
<1>1. /\ TypeOK /\ stack \in Seq(Activation) /\ Len(stack) \in Nat /\ Len(frames) \in Nat \ {0}
      /\ stack # << >> => /\ Len(stack) \in Nat \ {0} /\ Top = stack[Len(stack)]
                          /\ Top \in Activation
  BY StateIs DEF Inv
<1>2. /\ Spent \in Seq(Activation) /\ Len(Spent) = Len(stack)
      /\ \A i \in 1 .. Len(stack) - 1 : Spent[i] = stack[i]
      /\ stack # << >> => Spent[Len(stack)] = [Top EXCEPT !.left = @ - 1]
  BY <1>1, SpentType
<1>3. /\ stack' \in Seq(Activation) /\ Len(stack') = Len(stack) + 1
      /\ \A i \in 1 .. Len(stack) : stack'[i] = Spent[i]
      /\ stack'[Len(stack) + 1] = a
  BY <1>1, <1>2, Pushed DEF IsNew
<1>4. \A j \in 1 .. Len(stack) : Alike(stack, stack', j)
  <2> SUFFICES ASSUME NEW j \in 1 .. Len(stack) PROVE Alike(stack, stack', j)
    OBVIOUS
  <2>0. j \in 1 .. Len(stack) - 1 \/ j = Len(stack)
    BY <1>1, UpTo
  <2>1. CASE j \in 1 .. Len(stack) - 1
    BY <1>2, <1>3, <2>1 DEF Alike
  <2>2. CASE j = Len(stack)
    <3>1. stack # << >> /\ Top = stack[j] /\ Top \in Activation
      BY <1>1, <2>2
    <3>2. stack'[j] = [Top EXCEPT !.left = @ - 1]
      BY <1>2, <1>3, <2>2, <3>1
    <3> QED BY <3>1, <3>2 DEF Activation, Alike
  <2> QED BY <2>0, <2>1, <2>2
<1>5. OpenIn(stack) = Len(stack)
  <2>1. stack # << >> => stack[Len(stack)].phase # "restore"
    <3>1. ASSUME stack # << >>, Top.kind # "segment" PROVE Top.phase = "run"
      <4>1. Len(stack) \in 1 .. Len(stack)
        BY <1>1, <3>1
      <4> QED BY <1>1, <3>1, <4>1, StateIs
    <3> QED BY <1>1, <3>1
  <2> QED BY <1>1, <2>1, OpenAt
<1>6. OpenIn(stack') = Len(stack) + 1
  <2>1. stack' # << >>
    BY <1>1, <1>3
  <2> QED BY <1>3, <2>1, OpenAt
<1>7. \A i \in 0 .. Len(stack) : ScopeIn(frames', stack', i) = ScopeIn(frames, stack, i)
  <2> SUFFICES ASSUME NEW i \in 0 .. Len(stack)
               PROVE  ScopeIn(frames', stack', i) = ScopeIn(frames, stack, i)
    OBVIOUS
  <2>1. frames'[LevelIn(stack, i)] = frames[LevelIn(stack, i)]
    <3>1. LevelIn(stack, i) \in Nat \ {0} /\ LevelIn(stack, i) <= Len(frames)
      <4>1. Len(stack) \in 0 .. Len(stack) /\ i <= Len(stack)
        BY <1>1
      <4>2. LevelIn(stack, i) <= LevelIn(stack, Len(stack))
        BY <4>1, LevelsRise
      <4> QED BY <4>2, LevelStep
    <3>2. LevelIn(stack, i) \in 1 .. Len(frames)
      BY <1>1, <3>1
    <3> QED BY <3>2
  <2>2. /\ Len(stack) <= Len(stack) /\ Len(stack) <= Len(stack') /\ Len(stack') \in Nat
        /\ \A j \in 1 .. Len(stack) : j > Len(stack) => stack[j].saved = << >>
    BY <1>1, <1>3
  <2>3. \A j \in 1 .. Len(stack') : j > Len(stack) => stack'[j].saved = << >>
    <3> SUFFICES ASSUME NEW j \in 1 .. Len(stack'), j > Len(stack) PROVE stack'[j].saved = << >>
      OBVIOUS
    <3>1. j = Len(stack) + 1
      BY <1>1, <1>3
    <3> QED BY <1>3, <3>1 DEF IsNew
  <2>4. AlikeTo(Len(stack), stack, stack')
    BY <1>1, <1>4, <2>2, <2>3 DEF AlikeTo
  <2> QED BY <2>1, <2>4, ScopeSame
<1>8. Scopes(frames', stack', Len(stack) + 1)
         = Append(Scopes(frames, stack, Len(stack)), ScopeIn(frames', stack', Len(stack) + 1))
  BY <1>1, <1>7, ScopesEntered
<1> QED BY <1>1, <1>3, <1>5, <1>6, <1>8, ScopesNowAre

\* ... without bindings, on the frame there is,
LEMMA LocalBegins ==
    ASSUME Inv, NEW kind \in {"segment", "source", "pipe"}, NEW level, NEW a,
           IsNew(a, kind, level), a.phase # "restore",
           stack = << >> \/ (Top.left > 0 /\ (Top.kind = "segment" => Top.phase = "run")),
           stack' = Append(Spent, a), frames' = frames
    PROVE  Promise!EnterLocal
<1>1. /\ stack'[Len(stack) + 1] = a /\ Len(stack') = Len(stack) + 1 /\ Len(stack) \in Nat
      /\ ScopesNow' = Append(ScopesNow, ScopeIn(frames', stack', Len(stack) + 1))
  BY BeginScopes
<1>2. Len(stack) + 1 # 0 /\ a.saved = << >> /\ a.kind \notin {"script", "stage"}
  BY <1>1 DEF IsNew
<1>3. KindIn(stack', Len(stack) + 1) = "local" /\ BoundIn(stack', Len(stack) + 1) = {}
  BY <1>1, <1>2, KeepsNothing DEF KindIn, BoundIn
<1>4. ScopeIn(frames', stack', Len(stack) + 1) = [kind |-> "local", of |-> [n \in {} |-> Unset]]
  <2>1. [n \in BoundIn(stack', Len(stack) + 1) |-> SeenIn(frames', stack', Len(stack) + 1, n)]
            = [n \in {} |-> Unset]
    BY <1>3
  <2> QED BY <1>3, <2>1 DEF ScopeIn
<1> QED BY <1>1, <1>4 DEF Promise!EnterLocal, Promise!Enter, Promise!Scope

\* ... or with every name bound, to what its new frame holds.
LEMMA FrameBegins ==
    ASSUME Inv, NEW kind \in {"script", "stage"}, NEW a,
           IsNew(a, kind, Len(frames) + 1), a.phase # "restore",
           stack = << >> \/ (Top.left > 0 /\ (Top.kind = "segment" => Top.phase = "run")),
           stack' = Append(Spent, a), NEW e \in Env, frames' = Append(frames, e)
    PROVE  /\ OpenIn(stack) = Len(stack)
           /\ ScopesNow' = Append(ScopesNow,
                  [kind |-> IF kind = "script" THEN "process" ELSE "subshell", of |-> e])
<1>1. /\ Len(frames) \in Nat \ {0} /\ frames \in Seq(Env)
      /\ \A l \in 1 .. Len(frames) : frames'[l] = frames[l]
      /\ frames'[Len(frames) + 1] = e
  <2>1. frames \in Seq(Env) /\ Len(frames) \in Nat \ {0}
    BY StateIs
  <2> QED BY <2>1, Pushed
<1>2. /\ stack'[Len(stack) + 1] = a /\ Len(stack') = Len(stack) + 1 /\ Len(stack) \in Nat
      /\ ScopesNow' = Append(ScopesNow, ScopeIn(frames', stack', Len(stack) + 1))
      /\ OpenIn(stack) = Len(stack)
  BY <1>1, BeginScopes
<1> DEFINE i == Len(stack) + 1
<1>3. i # 0 /\ i + 1 > Len(stack') /\ i \in Nat /\ Len(stack') \in Nat
  BY <1>2
<1>4. /\ LevelIn(stack', i) = Len(frames) + 1 /\ BoundIn(stack', i) = Name
      /\ KindIn(stack', i) = IF kind = "script" THEN "process" ELSE "subshell"
  BY <1>2, <1>3 DEF LevelIn, BoundIn, KindIn, IsNew
<1>5. ASSUME NEW n \in Name PROVE SeenIn(frames', stack', i, n) = e[n]
  <2>1. KeepersIn(stack', i, n) = {}
    <3>1. i + 1 .. Len(stack') = {}
      BY <1>3
    <3> QED BY <3>1 DEF KeepersIn
  <2> QED BY <1>1, <1>4, <2>1 DEF SeenIn
<1>6. [n \in Name |-> SeenIn(frames', stack', i, n)] = e
  BY <1>5 DEF Env
<1>7. ScopeIn(frames', stack', i)
         = [kind |-> IF kind = "script" THEN "process" ELSE "subshell", of |-> e]
  BY <1>4, <1>6 DEF ScopeIn
<1> QED BY <1>2, <1>7

\* Activations below the last one are in the middle of their command.
LEMMA OpenBelow ==
    ASSUME Inv, stack # << >>, NEW s \in Seq(Activation), Len(s) = Len(stack) - 1,
           \A j \in 1 .. Len(stack) - 1 : s[j] = stack[j]
    PROVE  OpenIn(s) = Len(stack) - 1
<1>1. Len(stack) \in Nat \ {0} /\ \A i \in 1 .. Len(stack) : i < Len(stack) => stack[i].phase = "run"
  BY StateIs
<1>2. CASE s = << >>
  BY <1>2, OpenAt
<1>3. CASE s # << >>
  <2>1. Len(s) \in 1 .. Len(stack) - 1 /\ Len(s) \in 1 .. Len(stack) /\ Len(s) < Len(stack)
    BY <1>1, <1>3
  <2>2. s[Len(s)].phase = "run"
    BY <1>1, <2>1
  <2> QED BY <1>3, <2>2, OpenAt
<1> QED BY <1>2, <1>3

\* The last activation ends and had nothing to put back: its scope goes, unless it had
\* gone when the segment was done with its command.
LEMMA EndScopes ==
    ASSUME Inv, stack # << >>, Top.saved = << >>, stack' = Front(stack),
           \A i \in 0 .. Len(stack) - 1 : frames'[LevelIn(stack, i)] = frames[LevelIn(stack, i)]
    PROVE  /\ OpenIn(stack) = Len(stack) => Promise!Leave
           /\ OpenIn(stack) = Len(stack) - 1 => ScopesNow' = ScopesNow
<1>1. Len(stack) \in Nat \ {0} /\ Top = stack[Len(stack)] /\ stack \in Seq(Activation)
  BY StateIs
<1>2. /\ stack' \in Seq(Activation) /\ Len(stack') = Len(stack) - 1
      /\ \A i \in 1 .. Len(stack) - 1 : stack'[i] = stack[i]
  BY <1>1, Popped
<1> DEFINE o == Len(stack) - 1
<1>3. o \in Nat /\ o + 1 = Len(stack) /\ Len(stack') = o
  BY <1>1, <1>2
<1>4. OpenIn(stack') = o
  BY <1>2, OpenBelow
<1>5. AlikeTo(o, stack, stack')
  <2>1. \A j \in 1 .. Len(stack) : j > o => stack[j].saved = << >>
    <3> SUFFICES ASSUME NEW j \in 1 .. Len(stack), j > o PROVE stack[j].saved = << >>
      OBVIOUS
    <3>1. j = Len(stack)
      BY <1>1, Topmost
    <3> QED BY <1>1, <3>1
  <2>2. \A j \in 1 .. Len(stack') : j > o => stack'[j].saved = << >>
    BY <1>1, <1>2
  <2> QED BY <1>1, <1>2, <1>3, <2>1, <2>2 DEF AlikeTo, Alike
<1>6. \A i \in 0 .. o : ScopeIn(frames', stack', i) = ScopeIn(frames, stack, i)
  BY <1>5, ScopeSame
<1> HIDE DEF o
<1>7. /\ Scopes(frames', stack', o) = Front(Scopes(frames, stack, o + 1))
      /\ Len(Scopes(frames, stack, o + 1)) > 1
  BY <1>3, <1>6, ScopesLeft
<1>a. Scopes(frames', stack', o) = Scopes(frames, stack, o)
  BY <1>3, <1>6, ScopesStay
<1>8. OpenIn(stack) = Len(stack) => Promise!Leave
  BY <1>3, <1>4, <1>7, ScopesNowAre DEF Promise!Leave, Promise!Front, Front
<1>9. OpenIn(stack) = Len(stack) - 1 => ScopesNow' = ScopesNow
  BY <1>4, <1>a, ScopesNowAre DEF o
<1> QED BY <1>8, <1>9

\* The segment's count or phase changes.
LEMMA PhaseScopes ==
    ASSUME Inv, In({"segment"}), Top.phase # "restore", NEW phase, NEW left,
           TopBecomes([Top EXCEPT !.phase = phase, !.left = left]), frames' = frames
    PROVE  /\ OpenIn(stack) = Len(stack)
           /\ phase = "restore" => Promise!Leave
           /\ phase # "restore" => ScopesNow' = ScopesNow
<1>1. /\ Len(stack) \in Nat \ {0} /\ Top = stack[Len(stack)] /\ stack \in Seq(Activation)
      /\ Top \in Activation /\ Top.kind = "segment" /\ stack # << >>
  BY StateIs DEF In
<1> DEFINE a == [Top EXCEPT !.phase = phase, !.left = left]
           o == Len(stack) - 1
<1>2. a.kind = "segment" /\ a.level = Top.level /\ a.saved = Top.saved /\ a.phase = phase
  BY <1>1 DEF Activation
<1> HIDE DEF a
<1>3. /\ stack' \in Seq(Activation) /\ Len(stack') = Len(stack)
      /\ \A i \in 1 .. Len(stack) - 1 : stack'[i] = stack[i]
      /\ stack'[Len(stack)] = a /\ stack' # << >>
  BY <1>1 DEF TopBecomes, a
<1>4. OpenIn(stack) = Len(stack)
  BY <1>1, OpenAt
<1>5. AlikeTo(Len(stack), stack, stack')
  <2>1. ASSUME NEW j \in 1 .. Len(stack) PROVE Alike(stack, stack', j)
    <3>0. j \in 1 .. Len(stack) - 1 \/ j = Len(stack)
      BY <1>1, UpTo
    <3> QED BY <1>1, <1>2, <1>3, <3>0 DEF Alike
  <2> QED BY <1>1, <1>3, <2>1 DEF AlikeTo
<1>6. \A i \in 0 .. Len(stack) : ScopeIn(frames', stack', i) = ScopeIn(frames, stack, i)
  BY <1>5, ScopeSame
<1>7. o \in Nat /\ o + 1 = Len(stack) /\ \A i \in 0 .. o : i \in 0 .. Len(stack)
  BY <1>1
<1> HIDE DEF o
<1>8. /\ Scopes(frames', stack', o) = Front(Scopes(frames, stack, o + 1))
      /\ Len(Scopes(frames, stack, o + 1)) > 1
  BY <1>6, <1>7, ScopesLeft
<1>9. Scopes(frames', stack', Len(stack)) = Scopes(frames, stack, Len(stack))
  BY <1>1, <1>6, ScopesStay
<1>10. ASSUME phase = "restore" PROVE Promise!Leave
  <2>1. OpenIn(stack') = o
    BY <1>2, <1>3, <1>10, OpenAt DEF o
  <2> QED BY <1>4, <1>7, <1>8, <2>1, ScopesNowAre DEF Promise!Leave, Promise!Front, Front
<1>11. ASSUME phase # "restore" PROVE ScopesNow' = ScopesNow
  <2>1. OpenIn(stack') = Len(stack)
    BY <1>2, <1>3, <1>11, OpenAt
  <2> QED BY <1>4, <1>9, <2>1, ScopesNowAre
<1> QED BY <1>4, <1>10, <1>11

\* The frames after a variable of the top one has changed.
LEMMA SetHereIs ==
    ASSUME Inv, NEW n \in Name, NEW w \in Var \cup {Unset}, SetHere(n, w)
    PROVE  /\ frames'[Len(frames)][n] = w
           /\ \A l \in 1 .. Len(frames) : \A k \in Name :
                  l # Len(frames) \/ k # n => frames'[l][k] = frames[l][k]
<1>1. /\ Len(frames) \in Nat \ {0} /\ Here = frames[Len(frames)] /\ Here \in Env /\ TypeOK
  BY StateIs DEF Inv
<1>2. /\ Len(frames') = Len(frames) /\ frames' \in Seq(Env) /\ frames' # << >>
      /\ \A i \in 1 .. Len(frames) - 1 : frames'[i] = frames[i]
      /\ Here' = [Here EXCEPT ![n] = w]
  BY <1>1, SetHereKeeps
<1>3. Here' = frames'[Len(frames)]
  BY <1>2, Popped DEF Here
<1>4. /\ frames'[Len(frames)][n] = w
      /\ \A k \in Name : k # n => frames'[Len(frames)][k] = frames[Len(frames)][k]
  BY <1>1, <1>2, <1>3 DEF Env
<1>5. \A l \in 1 .. Len(frames) : l # Len(frames) => l \in 1 .. Len(frames) - 1
  BY <1>1
<1> QED BY <1>2, <1>4, <1>5

LEMMA LevelIsFrame ==
    ASSUME Inv, NEW i \in 0 .. Len(stack)
    PROVE  LevelIn(stack, i) \in 1 .. Len(frames)
<1>1. Len(stack) \in 0 .. Len(stack) /\ i <= Len(stack) /\ Len(frames) \in Nat
  BY LevelStep
<1>2. LevelIn(stack, i) <= LevelIn(stack, Len(stack))
  BY <1>1, LevelsRise
<1> QED BY <1>1, <1>2, LevelStep

\* A variable changes: so does the innermost binding, and no other.
LEMMA ChangeScopes ==
    ASSUME Inv, OpenIn(stack) = Len(stack), OpenIn(stack') = Len(stack),
           AlikeTo(Len(stack), stack, stack'), NEW n \in Name, NEW w \in Var \cup {Unset},
           SetHere(n, w)
    PROVE  Promise!Change(n, w)
<1>1. PICK m : IsInnermost(m, n)
  BY InnermostExists
<1>2. /\ Len(stack) \in Nat /\ m \in 0 .. Len(stack) /\ m \in Nat /\ n \in BoundIn(stack, m)
      /\ LevelIn(stack, m) = Len(frames) /\ KeepersIn(stack, m, n) = {}
  BY <1>1, AboveInnermost, LevelStep DEF IsInnermost
<1>3. /\ frames'[Len(frames)][n] = w
      /\ \A l \in 1 .. Len(frames) : \A k \in Name :
             l # Len(frames) \/ k # n => frames'[l][k] = frames[l][k]
  BY SetHereIs
<1>4. ASSUME NEW i \in 0 .. Len(stack), NEW k \in BoundIn(stack, i), i # m \/ k # n
      PROVE  SeenIn(frames', stack', i, k) = SeenIn(frames, stack, i, k)
  <2>1. k \in Name /\ i \in Nat
    BY DEF BoundIn
  <2>2. ASSUME KeepersIn(stack, i, k) = {}
        PROVE  frames'[LevelIn(stack, i)][k] = frames[LevelIn(stack, i)][k]
    <3>1. LevelIn(stack, i) # Len(frames) \/ k # n
      <4> SUFFICES ASSUME LevelIn(stack, i) = Len(frames), k = n PROVE FALSE
        OBVIOUS
      <4>1. CASE i \in 0 .. m - 1
        BY <1>1, <2>2, <4>1, BelowInnermost
      <4>2. CASE i \in m + 1 .. Len(stack)
        BY <1>1, <4>2 DEF IsInnermost
      <4> QED BY <1>2, <1>4, <4>1, <4>2
    <3>2. LevelIn(stack, i) \in 1 .. Len(frames)
      BY LevelIsFrame
    <3> QED BY <1>3, <2>1, <3>1, <3>2
  <2>3. KeptAlike(frames, stack, frames', stack', i, k)
    BY <2>1, <2>2, SkeletonSame DEF KeptAlike, AlikeTo
  <2> QED BY <2>3, SeenSame
<1>5. \A i \in 0 .. Len(stack) :
         KindIn(stack', i) = KindIn(stack, i) /\ BoundIn(stack', i) = BoundIn(stack, i)
         /\ LevelIn(stack', i) = LevelIn(stack, i)
         /\ \A k : KeepersIn(stack', i, k) = KeepersIn(stack, i, k)
  BY SkeletonSame
<1>6. ASSUME NEW i \in 0 .. Len(stack), i # m
      PROVE  ScopeIn(frames', stack', i) = ScopeIn(frames, stack, i)
  BY <1>4, <1>5, <1>6 DEF ScopeIn
<1>7. SeenIn(frames', stack', m, n) = w
  BY <1>2, <1>3, <1>5 DEF SeenIn
<1> DEFINE e == [ScopeIn(frames, stack, m) EXCEPT !.of[n] = w]
           A == ScopesNow
<1>8. ScopeIn(frames', stack', m) = e
  <2>1. [k \in BoundIn(stack', m) |-> SeenIn(frames', stack', m, k)]
            = [[k \in BoundIn(stack, m) |-> SeenIn(frames, stack, m, k)] EXCEPT ![n] = w]
    BY <1>2, <1>4, <1>5, <1>7
  <2> DEFINE F == [k \in BoundIn(stack, m) |-> SeenIn(frames, stack, m, k)]
             K == KindIn(stack, m)
  <2>2. ScopeIn(frames, stack, m) = [kind |-> K, of |-> F]
    BY DEF ScopeIn
  <2>3. ScopeIn(frames', stack', m) = [kind |-> K, of |-> [F EXCEPT ![n] = w]]
    BY <1>2, <1>5, <2>1 DEF ScopeIn
  <2> HIDE DEF F, K
  <2> QED BY <2>2, <2>3
<1>9. A' = [A EXCEPT ![m + 1] = e]
  <2> HIDE DEF e
  <2>1. Scopes(frames', stack', Len(stack)) = [Scopes(frames, stack, Len(stack)) EXCEPT ![m + 1] = e]
    BY <1>2, <1>6, <1>8, ScopesChanged
  <2> QED BY <2>1, ScopesNowAre
<1>10. A[m + 1] = ScopeIn(frames, stack, m) /\ Promise!Innermost(n) = m + 1
  <2>1. A = Scopes(frames, stack, Len(stack)) /\ m + 1 \in 1 .. Len(stack) + 1 /\ (m + 1) - 1 = m
    BY <1>2, ScopesNowAre
  <2>2. A[m + 1] = ScopeIn(frames, stack, (m + 1) - 1)
    BY <2>1 DEF Scopes
  <2> QED BY <1>1, <2>1, <2>2, PromiseSees
<1>11. A' = [A EXCEPT ![m + 1].of[n] = w]
  BY <1>9, <1>10
<1> QED BY <1>10, <1>11 DEF Promise!Change

\* The last activation's scope holds what it saved, as the top frame has it now.
LEMMA OwnScope ==
    ASSUME NEW f, NEW s, NEW L \in Nat \ {0}, Len(s) = L, s[L].kind = "segment"
    PROVE  ScopeIn(f, s, L) = [kind |-> "local",
                               of |-> [k \in {k \in Name : Keeps(s[L].saved, k)} |-> f[s[L].level][k]]]
<1>1. L # 0 /\ L + 1 .. Len(s) = {}
  OBVIOUS
<1>2. /\ KindIn(s, L) = "local" /\ BoundIn(s, L) = {k \in Name : Keeps(s[L].saved, k)}
      /\ LevelIn(s, L) = s[L].level
  BY <1>1 DEF KindIn, BoundIn, LevelIn
<1>3. \A k : KeepersIn(s, L, k) = {}
  BY <1>1 DEF KeepersIn
<1>4. \A k : SeenIn(f, s, L, k) = f[s[L].level][k]
  BY <1>2, <1>3 DEF SeenIn
<1> QED BY <1>2, <1>4 DEF ScopeIn

\* An assignment for the command is a binding of its scope.
LEMMA BindScopes ==
    ASSUME Inv, In({"segment"}), Top.phase = "assign", NEW n \in Name, NEW x \in Value,
           ExportVar(n, x), NEW a, a.kind = "segment", a.level = Top.level, a.phase = "assign",
           a.saved = Append(Top.saved, [name |-> n, was |-> Here[n]]), TopBecomes(a)
    PROVE  Promise!Bind(n, x)
<1> DEFINE L == Len(stack)
           e == [name |-> n, was |-> Here[n]]
           w == [value |-> x, exported |-> TRUE]
<1>1. /\ L \in Nat \ {0} /\ Top = stack[L] /\ stack \in Seq(Activation)
      /\ Top \in Activation /\ Top.kind = "segment" /\ stack # << >>
      /\ Here = frames[Len(frames)] /\ Here \in Env /\ Len(frames) \in Nat \ {0}
  BY StateIs DEF In
<1>2. w \in Var \cup {Unset} /\ e \in Saved /\ SetHere(n, w) /\ Top.saved \in Seq(Saved)
  BY <1>1 DEF Var, Saved, Env, ExportVar, Activation
<1>3. /\ stack' \in Seq(Activation) /\ Len(stack') = L /\ stack' # << >>
      /\ \A i \in 1 .. L - 1 : stack'[i] = stack[i]
      /\ stack'[L] = a
  BY <1>1 DEF TopBecomes
<1>4. OpenIn(stack) = L /\ OpenIn(stack') = L
  BY <1>1, <1>3, OpenAt
<1>5. /\ frames'[Len(frames)][n] = w
      /\ \A l \in 1 .. Len(frames) : \A k \in Name :
             l # Len(frames) \/ k # n => frames'[l][k] = frames[l][k]
  BY <1>2, SetHereIs
<1>6. Top.level = Len(frames)
  BY <1>1, LevelStep DEF LevelIn
<1>7. OneSaved(frames, stack, frames', stack', e)
  <2>1. \A i \in 0 .. L - 1 : LevelIn(stack, i) \in 1 .. Len(frames)
    <3>1. \A i \in 0 .. L - 1 : i \in 0 .. L
      BY <1>1
    <3> QED BY <3>1, LevelIsFrame
  <2>2. \A i \in 0 .. L - 1 : \A k \in Name :
            LevelIn(stack, i) # Top.level \/ k # e.name
                => frames'[LevelIn(stack, i)][k] = frames[LevelIn(stack, i)][k]
    BY <1>5, <1>6, <2>1
  <2> QED BY <1>1, <1>3, <1>6, <2>2 DEF OneSaved, Alike
<1> HIDE DEF e
<1>8. \A i \in 0 .. L - 1 : ScopeIn(frames', stack', i) = ScopeIn(frames, stack, i)
  BY <1>1, <1>2, <1>7, OneSavedUnseen
<1> DEFINE F == [k \in {k \in Name : Keeps(Top.saved, k)} |-> frames[Len(frames)][k]]
           G == [k \in {k \in Name : Keeps(a.saved, k)} |-> frames'[Len(frames)][k]]
           A == ScopesNow
<1>9. /\ ScopeIn(frames, stack, L) = [kind |-> "local", of |-> F]
      /\ ScopeIn(frames', stack', L) = [kind |-> "local", of |-> G]
  <2>1. ScopeIn(frames, stack, L)
            = [kind |-> "local",
               of |-> [k \in {k \in Name : Keeps(stack[L].saved, k)} |-> frames[stack[L].level][k]]]
    BY <1>1, OwnScope
  <2>2. ScopeIn(frames', stack', L)
            = [kind |-> "local",
               of |-> [k \in {k \in Name : Keeps(stack'[L].saved, k)} |-> frames'[stack'[L].level][k]]]
    <3>1. Len(stack') = L /\ stack'[L].kind = "segment" /\ L \in Nat \ {0}
      BY <1>1, <1>3
    <3> HIDE DEF L, F, G, A
    <3> QED BY <3>1, OwnScope
  <2>3. /\ stack[L] = Top /\ Top.level = Len(frames)
        /\ stack'[L] = a /\ a.level = Len(frames)
    BY <1>1, <1>3, <1>6
  <2> QED BY <2>1, <2>2, <2>3, Zenon
<1>10. G = [k \in DOMAIN F \cup {n} |-> IF k = n THEN w ELSE F[k]]
  <2>1. \A k \in Name : Keeps(a.saved, k) <=> Keeps(Top.saved, k) \/ k = n
    BY <1>2, KeptMore DEF e
  <2>2. {k \in Name : Keeps(a.saved, k)} = DOMAIN F \cup {n}
    BY <2>1
  <2>3. \A k \in DOMAIN F \cup {n} :
            frames'[Len(frames)][k] = IF k = n THEN w ELSE F[k]
    BY <1>1, <1>5
  <2> QED BY <2>2, <2>3
<1> HIDE DEF F, G
<1>11. \A i \in 0 .. L : i # L => ScopeIn(frames', stack', i) = ScopeIn(frames, stack, i)
  <2>1. \A i \in 0 .. L : i # L => i \in 0 .. L - 1
    BY <1>1
  <2> QED BY <1>8, <2>1
<1>12. A' = [A EXCEPT ![L + 1] = [kind |-> "local", of |-> G]]
  <2>1. L \in Nat /\ L \in 0 .. L
    BY <1>1
  <2>2. Scopes(frames', stack', L)
            = [Scopes(frames, stack, L) EXCEPT ![L + 1] = [kind |-> "local", of |-> G]]
    BY <1>9, <1>11, <2>1, ScopesChanged
  <2> QED BY <1>4, <2>2, ScopesNowAre
<1>13. A[L + 1] = [kind |-> "local", of |-> F] /\ Len(A) = L + 1
       /\ Promise!Last(A) = A[L + 1]
  <2>1. A = Scopes(frames, stack, L) /\ L + 1 \in 1 .. L + 1 /\ (L + 1) - 1 = L /\ L \in Nat
    BY <1>1, <1>4, ScopesNowAre
  <2>2. A[L + 1] = ScopeIn(frames, stack, (L + 1) - 1)
    BY <2>1 DEF Scopes
  <2> DEFINE S == {ScopeIn(frames, stack, i) : i \in 0 .. L}
  <2>3. \A i \in 0 .. L : ScopeIn(frames, stack, i) \in S
    OBVIOUS
  <2> HIDE DEF S
  <2>4. Len(A) = L + 1
    BY <2>1, <2>3, ScopesAre
  <2> QED BY <1>9, <2>1, <2>2, <2>4 DEF Promise!Last
<1> HIDE DEF A
<1>14. [A EXCEPT ![L + 1].of = G] = [A EXCEPT ![L + 1] = [kind |-> "local", of |-> G]]
  <2>1. A[L + 1] = [kind |-> "local", of |-> F]
    BY <1>13
  <2>2. [[kind |-> "local", of |-> F] EXCEPT !.of = G] = [kind |-> "local", of |-> G]
    OBVIOUS
  <2>3. [A[L + 1] EXCEPT !.of = G] = [kind |-> "local", of |-> G]
    BY <2>1, <2>2, Zenon
  <2> QED BY <2>3, Zenon
<1>15. Promise!Last(A).kind = "local" /\ Promise!Last(A).of = F
  BY <1>13
<1>16. [m \in DOMAIN Promise!Last(A).of \cup {n} |->
            IF m = n THEN w ELSE Promise!Last(A).of[m]] = G
  BY <1>10, <1>15
<1>17. A' = [A EXCEPT ![Len(A)].of =
                [m \in DOMAIN Promise!Last(A).of \cup {n} |->
                     IF m = n THEN w ELSE Promise!Last(A).of[m]]]
  BY <1>12, <1>13, <1>14, <1>16, Zenon
<1> QED BY <1>15, <1>17 DEF Promise!Bind, A

\* Putting a variable back is not seen.
LEMMA RestoreScopes ==
    ASSUME Inv, RestoreAssignment
    PROVE  ScopesNow' = ScopesNow
<1> DEFINE L == Len(stack)
           e == Last(Top.saved)
           a == [Top EXCEPT !.saved = Front(Top.saved)]
<1>1. /\ L \in Nat \ {0} /\ Top = stack[L] /\ stack \in Seq(Activation) /\ L \in DOMAIN stack
      /\ Top \in Activation /\ Top.kind = "segment" /\ Top.phase = "restore" /\ stack # << >>
      /\ Top.saved # << >> /\ Len(frames) \in Nat \ {0} /\ TypeOK
  BY StateIs, TopTypes DEF RestoreAssignment, Running, In, Inv
<1>2. /\ Top.saved \in Seq(Saved) /\ e \in Saved /\ Front(Top.saved) \in Seq(Saved)
      /\ Top.saved = Append(Front(Top.saved), e)
  <2>1. Top.saved \in Seq(Saved)
    BY <1>1 DEF Activation
  <2> QED BY <1>1, <2>1, Popped DEF Front, Last
<1>3. e.name \in Name /\ e.was \in Var \cup {Unset} /\ SetHere(e.name, e.was)
  BY <1>2 DEF Saved, RestoreAssignment
<1>4. /\ a \in Activation /\ a.kind = "segment" /\ a.level = Top.level /\ a.phase = "restore"
      /\ a.saved = Front(Top.saved)
  BY <1>1, <1>2 DEF Activation
<1>5. stack' = [stack EXCEPT ![L] = a]
  BY <1>1 DEF RestoreAssignment
<1> HIDE DEF a, e
<1>6. /\ stack' \in Seq(Activation) /\ Len(stack') = L /\ stack' # << >>
      /\ \A i \in 1 .. L - 1 : stack'[i] = stack[i]
      /\ stack'[L] = a
  <2>1. TopBecomes(a)
    BY <1>1, <1>4, <1>5, TopReplaced
  <2> QED BY <1>1, <2>1 DEF TopBecomes
<1>7. OpenIn(stack) = L - 1 /\ OpenIn(stack') = L - 1
  BY <1>1, <1>4, <1>6, OpenAt
<1>8. /\ frames'[Len(frames)][e.name] = e.was
      /\ \A l \in 1 .. Len(frames) : \A k \in Name :
             l # Len(frames) \/ k # e.name => frames'[l][k] = frames[l][k]
  BY <1>3, SetHereIs
<1>9. Top.level = Len(frames)
  BY <1>1, LevelStep DEF LevelIn
<1>10. OneSaved(frames', stack', frames, stack, e)
  <2>1. \A i \in 0 .. L - 1 : LevelIn(stack', i) = LevelIn(stack, i)
                              /\ LevelIn(stack, i) \in 1 .. Len(frames)
    <3> SUFFICES ASSUME NEW i \in 0 .. L - 1
                 PROVE  LevelIn(stack', i) = LevelIn(stack, i)
                        /\ LevelIn(stack, i) \in 1 .. Len(frames)
      OBVIOUS
    <3>1. i \in 0 .. L /\ (i = 0 \/ i \in 1 .. L - 1)
      BY <1>1
    <3> QED BY <1>6, <3>1, LevelIsFrame DEF LevelIn
  <2>2. \A i \in 0 .. L - 1 : \A k \in Name :
            LevelIn(stack', i) # a.level \/ k # e.name
                => frames[LevelIn(stack', i)][k] = frames'[LevelIn(stack', i)][k]
    BY <1>4, <1>8, <1>9, <2>1
  <2>3. e.was = frames'[a.level][e.name]
    BY <1>4, <1>8, <1>9
  <2> QED BY <1>1, <1>2, <1>4, <1>6, <2>2, <2>3 DEF OneSaved, Alike
<1>11. \A i \in 0 .. L - 1 : ScopeIn(frames', stack', i) = ScopeIn(frames, stack, i)
  BY <1>1, <1>2, <1>4, <1>6, <1>10, OneSavedUnseen
<1>12. L - 1 \in Nat
  BY <1>1
<1>13. Scopes(frames', stack', L - 1) = Scopes(frames, stack, L - 1)
  BY <1>11, <1>12, ScopesStay
<1> QED BY <1>7, <1>13, ScopesNowAre

-----------------------------------------------------------------------------
(* Every step is one of the promise's, or is not seen.                     *)

LEMMA SeesAll ==
    ASSUME Inv, OpenIn(stack) = Len(stack)
    PROVE  \A n \in Name : Promise!Seen(n) = Here[n] /\ Promise!IsExported(n) = IsExported(n)
  BY InnermostExists, PromiseSees

\* What begins on the frame there is binds nothing yet.
LEMMA RunSegmentEnters == Inv /\ RunSegment => Promise!EnterLocal
<1> SUFFICES ASSUME Inv, RunSegment PROVE Promise!EnterLocal
  OBVIOUS
<1>1. TypeOK /\ Len(frames) \in Nat \ {0} /\ Depth \in Nat /\ MaxAssign \in Nat
  BY TopTypes, ShellVarsAssumption DEF Inv, Depth, Activation
<1>2. PICK command \in BOOLEAN :
         stack' = Append(Spent, [Begun("segment", Len(frames), Depth, MaxAssign)
                                 EXCEPT !.command = command, !.phase = "assign"])
  BY DEF RunSegment
<1> DEFINE a == [Begun("segment", Len(frames), Depth, MaxAssign)
                 EXCEPT !.command = command, !.phase = "assign"]
<1>3. IsNew(a, "segment", Len(frames)) /\ stack' = Append(Spent, a)
  BY <1>1, <1>2, LineIsNew
<1>4. a.phase # "restore"
  BY DEF Begun
<1> HIDE DEF a
<1>5. stack = << >> \/ (Top.left > 0 /\ (Top.kind = "segment" => Top.phase = "run"))
  BY DEF RunSegment, MayRun, In
<1>6. frames' = frames
  BY DEF RunSegment
<1> QED BY <1>3, <1>4, <1>5, <1>6, LocalBegins

LEMMA RunPipelineEnters == Inv /\ RunPipeline => Promise!EnterLocal
<1> SUFFICES ASSUME Inv, RunPipeline PROVE Promise!EnterLocal
  OBVIOUS
<1>1. TypeOK /\ Len(frames) \in Nat \ {0} /\ Depth \in Nat /\ MaxStages \in Nat
  BY TopTypes, ShellVarsAssumption DEF Inv, Depth, Activation
<1> DEFINE a == Begun("pipe", Len(frames), Depth, MaxStages)
<1>2. IsNew(a, "pipe", Len(frames)) /\ stack' = Append(Spent, a)
  BY <1>1, BegunIsNew DEF RunPipeline
<1> HIDE DEF a
<1>3. stack = << >> \/ (Top.left > 0 /\ (Top.kind = "segment" => Top.phase = "run"))
  BY DEF RunPipeline, MayRun, In
<1>4. a.phase # "restore" /\ frames' = frames
  BY <1>2 DEF RunPipeline, IsNew
<1> QED BY <1>2, <1>3, <1>4, LocalBegins

LEMMA SourceEnters == Inv /\ Source => Promise!EnterLocal
<1> SUFFICES ASSUME Inv, Source PROVE Promise!EnterLocal
  OBVIOUS
<1>1. TypeOK /\ Len(frames) \in Nat \ {0} /\ Top.depth + 1 \in Nat /\ MaxLines \in Nat
  BY TopTypes, ShellVarsAssumption DEF Inv, Activation, Source, Running, In
<1> DEFINE a == Begun("source", Len(frames), Top.depth + 1, MaxLines)
<1>2. IsNew(a, "source", Len(frames)) /\ stack' = Append(Spent, a)
  BY <1>1, BegunIsNew DEF Source
<1> HIDE DEF a
<1>3. Top.left > 0 /\ (Top.kind = "segment" => Top.phase = "run")
  BY DEF Source, Running
<1>4. a.phase # "restore" /\ frames' = frames
  BY <1>2 DEF Source, IsNew
<1> QED BY <1>2, <1>3, <1>4, LocalBegins

\* What begins on a frame of its own binds every name.
LEMMA RunStageEnters == Inv /\ RunStage => Promise!EnterSubshell
<1> SUFFICES ASSUME Inv, RunStage PROVE Promise!EnterSubshell
  OBVIOUS
<1>1. /\ TypeOK /\ Len(frames) \in Nat \ {0} /\ Len(frames) + 1 \in Nat \ {0}
      /\ Depth \in Nat /\ Here \in Env
  BY TopTypes DEF Inv, Depth, Activation
<1> DEFINE a == Begun("stage", Len(frames) + 1, Depth, 1)
<1>2. IsNew(a, "stage", Len(frames) + 1) /\ stack' = Append(Spent, a)
  BY <1>1, BegunIsNew DEF RunStage
<1> HIDE DEF a
<1>3. Top.left > 0 /\ (Top.kind = "segment" => Top.phase = "run")
  BY DEF RunStage, In
<1>4. a.phase # "restore" /\ frames' = Append(frames, Here)
  BY <1>2 DEF RunStage, PushSubshell, IsNew
<1>5. /\ OpenIn(stack) = Len(stack)
      /\ ScopesNow' = Append(ScopesNow, [kind |-> "subshell", of |-> Here])
  BY <1>1, <1>2, <1>3, <1>4, FrameBegins
<1>6. [n \in Name |-> Promise!Seen(n)] = Here
  BY <1>1, <1>5, SeesAll DEF Env
<1> QED BY <1>5, <1>6 DEF Promise!EnterSubshell, Promise!Enter, Promise!Scope

LEMMA RunScriptEnters == Inv /\ RunScript => Promise!EnterProcess
<1> SUFFICES ASSUME Inv, RunScript PROVE Promise!EnterProcess
  OBVIOUS
<1>1. /\ TypeOK /\ Len(frames) \in Nat \ {0} /\ Len(frames) + 1 \in Nat \ {0}
      /\ Top.depth + 1 \in Nat /\ MaxLines \in Nat /\ Here \in Env
  BY TopTypes, ShellVarsAssumption DEF Inv, Activation, RunScript, Running, In
<1> DEFINE a == Begun("script", Len(frames) + 1, Top.depth + 1, MaxLines)
           e == [n \in Name |-> IF IsExported(n) THEN Here[n] ELSE Unset]
<1>2. IsNew(a, "script", Len(frames) + 1) /\ stack' = Append(Spent, a)
  BY <1>1, BegunIsNew DEF RunScript
<1> HIDE DEF a
<1>3. Top.left > 0 /\ (Top.kind = "segment" => Top.phase = "run")
  BY DEF RunScript, Running
<1>4. e \in Env
  BY <1>1 DEF Env
<1>5. a.phase # "restore" /\ frames' = Append(frames, e)
  BY <1>2 DEF RunScript, PushChild, IsNew
<1>6. /\ OpenIn(stack) = Len(stack)
      /\ ScopesNow' = Append(ScopesNow, [kind |-> "process", of |-> e])
  <2> HIDE DEF e
  <2> QED BY <1>2, <1>3, <1>4, <1>5, FrameBegins
<1>7. [n \in Name |-> IF Promise!IsExported(n) THEN Promise!Seen(n) ELSE Unset] = e
  BY <1>6, SeesAll
<1> QED BY <1>6, <1>7 DEF Promise!EnterProcess, Promise!Enter, Promise!Scope

\* What ends takes its scope along; a segment's has gone with its command.
LEMMA EndsLeave ==
    Inv /\ (EndPipeline \/ EndSource \/ EndStage \/ EndScript) => Promise!Leave
<1> SUFFICES ASSUME Inv, EndPipeline \/ EndSource \/ EndStage \/ EndScript PROVE Promise!Leave
  OBVIOUS
<1>1. /\ stack # << >> /\ stack' = Front(stack) /\ Top.kind \in {"pipe", "source", "stage", "script"}
      /\ Len(stack) \in Nat \ {0} /\ Top = stack[Len(stack)] /\ stack \in Seq(Activation)
  BY StateIs DEF EndPipeline, EndSource, EndStage, EndScript, In, Return
<1>2. Top.phase = "run" /\ Top.saved = << >>
  <2>1. Len(stack) \in 1 .. Len(stack) /\ Top.kind # "segment"
    BY <1>1
  <2> QED BY <1>1, <2>1, StateIs
<1>3. OpenIn(stack) = Len(stack)
  BY <1>1, <1>2, OpenAt
<1>4. \A i \in 0 .. Len(stack) - 1 : frames'[LevelIn(stack, i)] = frames[LevelIn(stack, i)]
  <2>1. CASE EndPipeline \/ EndSource
    BY <2>1 DEF EndPipeline, EndSource
  <2>2. CASE EndStage \/ EndScript
    <3>1. Top.kind \in {"stage", "script"} /\ frames' = Front(frames)
      BY <2>2 DEF EndStage, EndScript, In, Pop
    <3>2. /\ Len(stack) \in 1 .. Len(stack) /\ Len(stack) \in 0 .. Len(stack)
          /\ Len(stack) - 1 \in 0 .. Len(stack)
      BY <1>1
    <3>3. Len(frames) = LevelIn(stack, Len(stack) - 1) + 1
      BY <1>1, <3>1, <3>2, LevelStep
    <3>4. ASSUME NEW i \in 0 .. Len(stack) - 1
          PROVE  LevelIn(stack, i) \in 1 .. Len(frames) - 1
      <4>1. i \in 0 .. Len(stack) /\ i <= Len(stack) - 1
        BY <1>1
      <4>2. /\ LevelIn(stack, i) \in Nat \ {0} /\ LevelIn(stack, Len(stack) - 1) \in Nat
            /\ LevelIn(stack, i) <= LevelIn(stack, Len(stack) - 1)
        BY <3>2, <4>1, LevelStep, LevelsRise
      <4> QED BY <3>3, <4>2
    <3>5. \A l \in 1 .. Len(frames) - 1 : frames'[l] = frames[l]
      <4>1. frames \in Seq(Env) /\ frames # << >>
        BY DEF Inv, TypeOK
      <4> QED BY <3>1, <4>1, Popped
    <3> QED BY <3>4, <3>5
  <2> QED BY <2>1, <2>2
<1> QED BY <1>1, <1>2, <1>3, <1>4, EndScopes

LEMMA EndSegmentUnseen == Inv /\ EndSegment => ScopesNow' = ScopesNow
<1> SUFFICES ASSUME Inv, EndSegment PROVE ScopesNow' = ScopesNow
  OBVIOUS
<1>1. /\ stack # << >> /\ stack' = Front(stack) /\ frames' = frames
      /\ Top.kind = "segment" /\ Top.phase = "restore" /\ Top.saved = << >>
      /\ Top = stack[Len(stack)] /\ stack \in Seq(Activation)
  BY StateIs DEF EndSegment, Running, In, Return
<1>2. OpenIn(stack) = Len(stack) - 1
  BY <1>1, OpenAt
<1> QED BY <1>1, <1>2, EndScopes

\* When its command is done, or there is none, the segment gives its bindings up.
LEMMA RunCommandLeaves == Inv /\ RunCommand => Promise!Leave \/ ScopesNow' = ScopesNow
<1> SUFFICES ASSUME Inv, RunCommand PROVE Promise!Leave \/ ScopesNow' = ScopesNow
  OBVIOUS
<1>1. In({"segment"}) /\ Top.phase # "restore" /\ stack # << >> /\ TypeOK /\ frames' = frames
  BY DEF RunCommand, Running, Inv, In
<1>2. PICK phase \in {"run", "export", "unset", "restore"} :
         stack' = [stack EXCEPT ![Len(stack)] = [@ EXCEPT !.phase = phase, !.left = 1]]
  BY DEF RunCommand
<1> DEFINE a == [Top EXCEPT !.phase = phase, !.left = 1]
<1>3. Top = stack[Len(stack)] /\ Top \in Activation /\ Len(stack) \in DOMAIN stack
  BY <1>1, TopTypes
<1>4. a \in Activation /\ stack' = [stack EXCEPT ![Len(stack)] = a]
  BY <1>2, <1>3 DEF Activation
<1>5. TopBecomes(a)
  <2> HIDE DEF a
  <2> QED BY <1>1, <1>4, TopReplaced
<1> QED BY <1>1, <1>5, PhaseScopes

LEMMA CommandEndsLeaves == Inv /\ CommandEnds => Promise!Leave
<1> SUFFICES ASSUME Inv, CommandEnds PROVE Promise!Leave
  OBVIOUS
<1>1. In({"segment"}) /\ Top.phase # "restore" /\ stack # << >> /\ TypeOK /\ frames' = frames
  BY DEF CommandEnds, Running, Inv, In
<1>2. Top = stack[Len(stack)] /\ Top \in Activation /\ Len(stack) \in DOMAIN stack
  BY <1>1, TopTypes
<1> DEFINE a == [Top EXCEPT !.phase = "restore", !.left = Top.left]
<1>3. a \in Activation
  BY <1>2 DEF Activation
<1>4. a = [Top EXCEPT !.phase = "restore"]
  BY <1>2 DEF Activation
<1>5. stack' = [stack EXCEPT ![Len(stack)] = a]
  BY <1>2, <1>4 DEF CommandEnds
<1>6. TopBecomes(a)
  <2> HIDE DEF a
  <2> QED BY <1>1, <1>3, <1>5, TopReplaced
<1> QED BY <1>1, <1>6, PhaseScopes

\* A variable once it is exported.
LEMMA ExportedIs ==
    ASSUME NEW v \in Var
    PROVE  /\ [v EXCEPT !.exported = TRUE] = [value |-> v.value, exported |-> TRUE]
           /\ v.value \in Value
<1>1. v = [value |-> v.value, exported |-> v.exported] /\ v.value \in Value
  BY DEF Var
<1> DEFINE p == v.value
           q == v.exported
           t == TRUE
<1>2. [[value |-> p, exported |-> q] EXCEPT !.exported = t] = [value |-> p, exported |-> t]
  <2> HIDE DEF p, q, t
  <2> QED OBVIOUS
<1>3. [v EXCEPT !.exported = TRUE] = [[value |-> p, exported |-> q] EXCEPT !.exported = TRUE]
  BY <1>1, Zenon
<1> QED BY <1>1, <1>2, <1>3, Zenon

\* export and unset change what is bound innermost.
LEMMA BuiltinsChange ==
    ASSUME Inv, Export \/ UnsetVar
    PROVE  \E n \in Name : \/ Promise!Export(n) \/ Promise!Discard(n)
                           \/ \E x \in Value : Promise!ExportAs(n, x)
<1>1. /\ In({"segment"}) /\ Top.phase # "restore" /\ stack # << >> /\ TypeOK /\ stack' = stack
      /\ stack \in Seq(Activation) /\ Len(stack) \in Nat \ {0} /\ Top = stack[Len(stack)]
      /\ Here \in Env
  BY StateIs DEF Export, UnsetVar, Running, Inv, In
<1>2. OpenIn(stack) = Len(stack) /\ OpenIn(stack') = Len(stack)
  BY <1>1, OpenAt
<1>3. AlikeTo(Len(stack), stack, stack')
  BY <1>1 DEF AlikeTo, Alike
<1>4. \A n \in Name, w \in Var \cup {Unset} : SetHere(n, w) => Promise!Change(n, w)
  BY <1>2, <1>3, ChangeScopes
<1>5. CASE Export
  <2>1. PICK n \in Name :
           \/ Here[n] # Unset /\ ExportVar(n, Here[n].value)
           \/ \E word \in Words : ExportVar(n, Expanded(word))
    BY <1>5 DEF Export
  <2>2. CASE Here[n] # Unset /\ ExportVar(n, Here[n].value)
    <3>1. Here[n] \in Var
      BY <1>1, <2>2 DEF Env
    <3>2. /\ [Here[n] EXCEPT !.exported = TRUE] = [value |-> Here[n].value, exported |-> TRUE]
          /\ Here[n].value \in Value
      BY <3>1, ExportedIs
    <3>3. Promise!Change(n, [Here[n] EXCEPT !.exported = TRUE])
      BY <1>1, <1>4, <2>2, <3>2, VarBecomes DEF ExportVar
    <3>4. Promise!Seen(n) = Here[n]
      BY <1>2, SeesAll
    <3>5. Promise!Export(n)
      BY <2>2, <3>3, <3>4, Zenon DEF Promise!Export
    <3> QED BY <3>5
  <2>3. CASE \E word \in Words : ExportVar(n, Expanded(word))
    <3>1. PICK word \in Words : ExportVar(n, Expanded(word))
      BY <2>3
    <3>2. Expanded(word) \in Value
      BY <1>1, Expands
    <3>3. Promise!Change(n, [value |-> Expanded(word), exported |-> TRUE])
      BY <1>1, <1>4, <3>1, <3>2, VarBecomes DEF ExportVar
    <3> QED BY <3>2, <3>3 DEF Promise!ExportAs
  <2> QED BY <2>1, <2>2, <2>3
<1>6. CASE UnsetVar
  BY <1>4, <1>6 DEF UnsetVar, Promise!Discard
<1> QED BY <1>5, <1>6

\* An assignment with a command binds, one without changes what is bound.
LEMMA AssignmentBinds ==
    ASSUME Inv, Assignment
    PROVE  \E n \in Name, x \in Value : Promise!Bind(n, x) \/ Promise!Assign(n, x)
<1>1. /\ In({"segment"}) /\ Top.phase = "assign" /\ Top.left > 0 /\ stack # << >> /\ TypeOK
      /\ Top \in Activation /\ Top = stack[Len(stack)] /\ Len(stack) \in DOMAIN stack
      /\ Top.kind = "segment" /\ stack \in Seq(Activation) /\ Len(stack) \in Nat \ {0}
  BY TopTypes DEF Assignment, Running, Inv, In, TypeOK
<1>2. CASE Top.command
  <2>1. PICK n \in Name, word \in Words :
           /\ ExportVar(n, Expanded(word))
           /\ stack' = [stack EXCEPT ![Len(stack)] = Saving(@, n)]
    BY <1>2 DEF Assignment
  <2> DEFINE a == Saving(Top, n)
  <2>2. a \in Activation /\ a.kind = "segment" /\ a.level = Top.level
    BY <1>1, SavesFirst
  <2>3. a.phase = "assign" /\ a.saved = Append(Top.saved, [name |-> n, was |-> Here[n]])
    BY <1>1 DEF Saving, Activation
  <2>4. stack' = [stack EXCEPT ![Len(stack)] = a]
    BY <1>1, <2>1
  <2> HIDE DEF a
  <2>5. TopBecomes(a)
    BY <1>1, <2>2, <2>4, TopReplaced
  <2>6. Expanded(word) \in Value
    BY <1>1, Expands
  <2>7. Promise!Bind(n, Expanded(word))
    BY <1>1, <2>1, <2>2, <2>3, <2>5, <2>6, BindScopes
  <2> QED BY <2>6, <2>7
<1>3. CASE ~Top.command
  <2>1. PICK n \in Name, word \in Words : SetVar(n, Expanded(word)) /\ stack' = Spent
    BY <1>3 DEF Assignment
  <2> DEFINE w == [value |-> Expanded(word), exported |-> IsExported(n)]
  <2>2. Expanded(word) \in Value /\ w \in Var \cup {Unset} /\ SetHere(n, w)
    BY <1>1, <2>1, Expands, VarBecomes DEF SetVar
  <2>3. /\ stack' \in Seq(Activation) /\ Len(stack') = Len(stack)
        /\ \A i \in 1 .. Len(stack) - 1 : stack'[i] = stack[i]
        /\ stack'[Len(stack)] = [Top EXCEPT !.left = @ - 1]
    BY <1>1, <2>1, SpentType
  <2>4. /\ stack'[Len(stack)].kind = "segment" /\ stack'[Len(stack)].level = Top.level
        /\ stack'[Len(stack)].saved = Top.saved /\ stack'[Len(stack)].phase = "assign"
    BY <1>1, <2>3 DEF Activation
  <2>5. AlikeTo(Len(stack), stack, stack')
    <3>1. ASSUME NEW j \in 1 .. Len(stack) PROVE Alike(stack, stack', j)
      <4>1. j \in 1 .. Len(stack) - 1 \/ j = Len(stack)
        BY <1>1, UpTo
      <4> QED BY <1>1, <2>3, <2>4, <4>1 DEF Alike
    <3> QED BY <1>1, <2>3, <3>1 DEF AlikeTo
  <2>6. OpenIn(stack) = Len(stack) /\ OpenIn(stack') = Len(stack)
    <3>1. stack' # << >>
      BY <1>1, <2>3
    <3> QED BY <1>1, <2>3, <2>4, <3>1, OpenAt
  <2> HIDE DEF w
  <2>7. Promise!Change(n, w)
    BY <2>2, <2>5, <2>6, ChangeScopes
  <2>8. Promise!IsExported(n) = IsExported(n)
    BY <2>6, SeesAll
  <2>9. Promise!Assign(n, Expanded(word))
    BY <2>7, <2>8 DEF Promise!Assign, w
  <2> QED BY <2>2, <2>9
<1> QED BY <1>2, <1>3

\* The step simulation, and the initial state.
LEMMA StepIsPromised == Inv /\ [Next]_vars => [Promise!Next]_ScopesNow
<1> SUFFICES ASSUME Inv, [Next]_vars PROVE Promise!Next \/ ScopesNow' = ScopesNow
  OBVIOUS
<1> USE DEF Promise!Next
<1>1. CASE RunSegment \/ RunPipeline \/ Source
  BY <1>1, RunSegmentEnters, RunPipelineEnters, SourceEnters
<1>2. CASE RunStage \/ RunScript
  BY <1>2, RunStageEnters, RunScriptEnters
<1>3. CASE EndPipeline \/ EndSource \/ EndStage \/ EndScript
  BY <1>3, EndsLeave
<1>4. CASE EndSegment
  BY <1>4, EndSegmentUnseen
<1>5. CASE RunCommand \/ CommandEnds
  BY <1>5, RunCommandLeaves, CommandEndsLeaves
<1>6. CASE Export \/ UnsetVar
  BY <1>6, BuiltinsChange
<1>7. CASE Assignment
  BY <1>7, AssignmentBinds
<1>8. CASE RestoreAssignment
  BY <1>8, RestoreScopes
<1>9. CASE UNCHANGED vars
  BY <1>9, ScopesNowAre DEF vars
<1> QED BY <1>1, <1>2, <1>3, <1>4, <1>5, <1>6, <1>7, <1>8, <1>9 DEF Next

LEMMA BeginsPromised == Init => Promise!Init
<1> SUFFICES ASSUME Init PROVE Promise!Init
  OBVIOUS
<1>1. stack = << >> /\ frames = << [n \in Name |-> Unset] >> /\ Len(stack) = 0
  BY DEF Init
<1>2. OpenIn(stack) = 0
  BY <1>1 DEF OpenIn
<1>3. ScopeIn(frames, stack, 0) = [kind |-> "process", of |-> [n \in Name |-> Unset]]
  <2>1. \A n : KeepersIn(stack, 0, n) = {}
    BY <1>1 DEF KeepersIn
  <2>2. \A n \in Name : SeenIn(frames, stack, 0, n) = Unset
    BY <1>1, <2>1 DEF SeenIn, LevelIn
  <2>3. [n \in BoundIn(stack, 0) |-> SeenIn(frames, stack, 0, n)] = [n \in Name |-> Unset]
    BY <2>2 DEF BoundIn
  <2> QED BY <2>3 DEF ScopeIn, KindIn
<1> DEFINE e == ScopeIn(frames, stack, 0)
<1>4. Scopes(frames, stack, 0) = << e >>
  <2>1. \A i \in 1 .. 0 + 1 : i - 1 = 0
    OBVIOUS
  <2>2. Scopes(frames, stack, 0) = [i \in 1 .. 0 + 1 |-> e]
    BY <2>1 DEF Scopes
  <2> HIDE DEF e
  <2> QED BY <2>2
<1> QED BY <1>2, <1>3, <1>4, ScopesNowAre DEF Promise!Init, Promise!Scope

(***************************************************************************)
(* The shell's variables implement dynamic scopes, for every depth of      *)
(* scripts, sourced scripts and pipelines: the abstraction function        *)
(* ScopesNow takes every run of the code's save and restore on flat frames *)
(* to a run of DynamicScope, in which nothing is saved or put back.        *)
(***************************************************************************)
THEOREM DynamicallyScoped == Spec => ImplementsDynamicScope
<1>1. Init => Promise!Init
  BY BeginsPromised
<1>2. Inv /\ [Next]_vars => [Promise!Next]_ScopesNow
  BY StepIsPromised
<1>3. Spec => []Inv
  BY Always
<1> QED BY <1>1, <1>2, <1>3, PTL DEF Spec, ImplementsDynamicScope, Promise!Spec
=============================================================================
