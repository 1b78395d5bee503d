------------------------ MODULE LineDisciplineProofs ------------------------
(***************************************************************************)
(* Proofs about the line discipline and read(0), for any characters, any   *)
(* console, any prompts, any size of history and of buffers, and lines of  *)
(* any length: first the text, where what is drawn plays no part in who    *)
(* gets a line, then the history, then the screen.                         *)
(***************************************************************************)
EXTENDS LineDiscipline, SequenceTheorems, FiniteSetTheorems, WellFoundedInduction,
        TLAPS


(***************************************************************************)
(* The keys: whatever a key does, the cursor is inside the text after it,  *)
(* and in Canonical mode at its end if it was there.                       *)
(***************************************************************************)
\* A set of natural numbers has a least one.
LEMMA MinIsLeast ==
    ASSUME NEW T, T \subseteq Nat, T # {}
    PROVE  Min(T) \in T /\ \A y \in T : Min(T) <= y
<1>1. PICK x \in T : \A y \in T : ~(<<y, x>> \in OpToRel(<, Nat))
  BY WFMin, NatLessThanWellFounded
<1>2. \A y \in T : x \in Nat /\ y \in Nat /\ ~(y < x)
  BY <1>1 DEF OpToRel
<1>3. \A y \in T : x <= y
  BY <1>2
<1> QED BY <1>1, <1>3 DEF Min

\* A bounded one has a greatest: what is missing to the bound has a least.
LEMMA MaxIsGreatest ==
    ASSUME NEW n \in Nat, NEW T, T \subseteq 0 .. n, T # {}
    PROVE  Max(T) \in T /\ \A y \in T : Max(T) >= y
<1> DEFINE rests == {n - i : i \in T}
<1>1. rests \subseteq Nat /\ rests # {}
  <2>1. \A i \in T : n - i \in Nat
    OBVIOUS
  <2> QED BY <2>1
<1>2. Min(rests) \in rests /\ \A r \in rests : Min(rests) <= r
  BY <1>1, MinIsLeast
<1>3. PICK x \in T : Min(rests) = n - x
  BY <1>2
<1>4. \A y \in T : n - x <= n - y
  BY <1>2, <1>3
<1>5. \A y \in T : x >= y
  BY <1>4
<1> HIDE DEF rests
<1> QED BY <1>3, <1>5 DEF Max

LEMMA SkipBackBounds ==
    ASSUME NEW text, NEW class, NEW from \in Nat
    PROVE  SkipBack(text, from, class) \in 0 .. from
<1> DEFINE places == {i \in 0 .. from :
                          \A j \in (i + 1) .. from : text[j] \in class}
<1>1. from \in places
  OBVIOUS
<1>2. places \subseteq Nat
  OBVIOUS
<1>3. Min(places) \in places
  BY <1>1, <1>2, MinIsLeast
<1> QED BY <1>3 DEF SkipBack

LEMMA SkipForwardBounds ==
    ASSUME NEW text \in Seq(Chars), NEW class, NEW from \in 0 .. Len(text)
    PROVE  SkipForward(text, from, class) \in from .. Len(text)
<1> DEFINE places == {i \in from .. Len(text) :
                          \A j \in (from + 1) .. i : text[j] \in class}
<1>1. from \in places
  OBVIOUS
<1>2. places \subseteq 0 .. Len(text)
  OBVIOUS
<1>3. Max(places) \in places
  <2> HIDE DEF places
  <2>1. Len(text) \in Nat
    OBVIOUS
  <2> QED BY <1>1, <1>2, <2>1, MaxIsGreatest
<1> QED BY <1>3 DEF SkipForward

LEMMA GoalBounds ==
    ASSUME NEW b \in Buffers, NEW key \in CursorKeys
    PROVE  Goal(key, b) \in 0 .. Len(b.text)
<1>1. b.text \in Seq(Chars) /\ b.cursor \in 0 .. Len(b.text)
  BY DEF Buffers
<1>2. CASE key = "WordLeft"
  <2> DEFINE to == SkipBack(b.text, b.cursor, Chars \ Word)
  <2>1. to \in 0 .. b.cursor
    BY <1>1, SkipBackBounds
  <2>2. to \in Nat /\ to <= Len(b.text)
    BY <1>1, <2>1
  <2>3. SkipBack(b.text, to, Word) \in 0 .. to
    BY <2>2, SkipBackBounds
  <2> QED BY <1>1, <1>2, <2>2, <2>3 DEF Goal
<1>3. CASE key = "WordRight"
  <2> DEFINE to == SkipForward(b.text, b.cursor, Chars \ Word)
  <2>1. to \in b.cursor .. Len(b.text)
    BY <1>1, SkipForwardBounds
  <2>2. to \in 0 .. Len(b.text)
    BY <1>1, <2>1
  <2>3. SkipForward(b.text, to, Word) \in to .. Len(b.text)
    BY <1>1, <2>2, SkipForwardBounds
  <2> QED BY <1>1, <1>3, <2>2, <2>3 DEF Goal
<1>4. CASE key \in {"Left", "Right", "Home", "End"}
  BY <1>1, <1>4 DEF Goal
<1> QED BY <1>2, <1>3, <1>4 DEF CursorKeys

LEMMA CutBounds ==
    ASSUME NEW b \in Buffers, NEW key \in CutKeys
    PROVE  /\ CutFrom(key, b) \in 0 .. b.cursor
           /\ CutTo(key, b) \in b.cursor .. Len(b.text)
<1>1. b.text \in Seq(Chars) /\ b.cursor \in 0 .. Len(b.text)
  BY DEF Buffers
<1>2. CutTo(key, b) \in b.cursor .. Len(b.text)
  BY <1>1 DEF CutTo, CutKeys
<1>3. CASE key = "KillWordBack"
  <2> DEFINE to == SkipBack(b.text, b.cursor, Blank)
  <2>1. to \in 0 .. b.cursor
    BY <1>1, SkipBackBounds
  <2>2. SkipBack(b.text, to, Chars \ Blank) \in 0 .. to
    BY <1>1, <2>1, SkipBackBounds
  <2> QED BY <1>1, <1>2, <1>3, <2>1, <2>2 DEF CutFrom
<1>4. CASE key # "KillWordBack"
  BY <1>1, <1>2, <1>4 DEF CutFrom, CutKeys
<1> QED BY <1>3, <1>4

\* Cutting away what lies between two places leaves a line.
LEMMA CutLine ==
    ASSUME NEW b \in Buffers,
           NEW from \in 0 .. Len(b.text), NEW to \in from .. Len(b.text)
    PROVE  /\ Cut(b, from, to) \in Buffers
           /\ Len(Cut(b, from, to).text) = from + (Len(b.text) - to)
           /\ Cut(b, from, to).cursor = from
<1>1. b.text \in Seq(Chars)
  BY DEF Buffers
<1>2. /\ SubSeq(b.text, 1, from) \in Seq(Chars)
      /\ Len(SubSeq(b.text, 1, from)) = from
  BY <1>1
<1>3. /\ SubSeq(b.text, to + 1, Len(b.text)) \in Seq(Chars)
      /\ Len(SubSeq(b.text, to + 1, Len(b.text))) = Len(b.text) - to
  BY <1>1
<1>4. /\ Cut(b, from, to).text \in Seq(Chars)
      /\ Len(Cut(b, from, to).text) = from + (Len(b.text) - to)
  <2> DEFINE s == SubSeq(b.text, 1, from)
             t == SubSeq(b.text, to + 1, Len(b.text))
  <2>1. s \in Seq(Chars) /\ t \in Seq(Chars)
    BY <1>2, <1>3
  <2>2. s \o t \in Seq(Chars) /\ Len(s \o t) = Len(s) + Len(t)
    <3> HIDE DEF s, t
    <3> QED BY <2>1, ConcatProperties
  <2> QED BY <1>2, <1>3, <2>2 DEF Cut
<1>5. Cut(b, from, to) = [text |-> Cut(b, from, to).text, cursor |-> from]
  BY DEF Cut
<1> QED BY <1>1, <1>4, <1>5 DEF Buffers

LEMMA InsertLine ==
    ASSUME NEW b \in Buffers, NEW c \in Chars
    PROVE  /\ Insert(b, c) \in Buffers
           /\ Len(Insert(b, c).text) = Len(b.text) + 1
           /\ Insert(b, c).cursor = b.cursor + 1
<1>1. b.text \in Seq(Chars) /\ b.cursor \in 0 .. Len(b.text)
  BY DEF Buffers
<1>2. /\ SubSeq(b.text, 1, b.cursor) \in Seq(Chars)
      /\ Len(SubSeq(b.text, 1, b.cursor)) = b.cursor
  BY <1>1
<1>3. /\ SubSeq(b.text, b.cursor + 1, Len(b.text)) \in Seq(Chars)
      /\ Len(SubSeq(b.text, b.cursor + 1, Len(b.text))) = Len(b.text) - b.cursor
  BY <1>1
<1>4. /\ Insert(b, c).text \in Seq(Chars)
      /\ Len(Insert(b, c).text) = Len(b.text) + 1
  <2> DEFINE s == SubSeq(b.text, 1, b.cursor)
             t == SubSeq(b.text, b.cursor + 1, Len(b.text))
  <2>1. s \in Seq(Chars) /\ <<c>> \in Seq(Chars) /\ t \in Seq(Chars)
    BY <1>2, <1>3
  <2>2. /\ s \o <<c>> \o t \in Seq(Chars)
        /\ Len(s \o <<c>> \o t) = Len(s) + 1 + Len(t)
    <3> HIDE DEF s, t
    <3>1. s \o <<c>> \in Seq(Chars) /\ Len(s \o <<c>>) = Len(s) + 1
      BY <2>1, ConcatProperties
    <3> QED BY <2>1, <3>1, ConcatProperties
  <2> QED BY <1>1, <1>2, <1>3, <2>2 DEF Insert
<1>5. Insert(b, c) = [text |-> Insert(b, c).text, cursor |-> b.cursor + 1]
  BY DEF Insert
<1> QED BY <1>1, <1>4, <1>5 DEF Buffers

\* The keys that Edit and Move take.
HandledKeys == Chars \cup CutKeys \cup CursorKeys

LEMMA FeedLine ==
    ASSUME NEW b \in Buffers, NEW key \in HandledKeys, NEW m
    PROVE  /\ Feed(key, b, m) \in Buffers
           /\ (m = "Canonical" /\ b.cursor = Len(b.text))
                => Feed(key, b, m).cursor = Len(Feed(key, b, m).text)
<1>1. b.text \in Seq(Chars) /\ b.cursor \in 0 .. Len(b.text)
  BY DEF Buffers
<1>2. CASE m = "Canonical" /\ key \in PromptKeys
  BY <1>2 DEF Feed
<1>3. CASE ~(m = "Canonical" /\ key \in PromptKeys) /\ key \in CursorKeys
  <2>1. m # "Canonical"
    BY <1>3 DEF PromptKeys
  <2>2. Goal(key, b) \in 0 .. Len(b.text)
    BY <1>3, GoalBounds
  <2> QED BY <1>1, <1>3, <2>1, <2>2 DEF Feed, Buffers
<1>4. CASE /\ ~(m = "Canonical" /\ key \in PromptKeys)
           /\ key \notin CursorKeys /\ key \in CutKeys
  <2> DEFINE from == CutFrom(key, b)
             to == CutTo(key, b)
  <2>1. from \in 0 .. b.cursor /\ to \in b.cursor .. Len(b.text)
    BY <1>4, CutBounds
  <2>2. from \in 0 .. Len(b.text) /\ to \in from .. Len(b.text)
    BY <1>1, <2>1
  <2>3. Feed(key, b, m) = Cut(b, from, to)
    BY <1>4 DEF Feed
  <2>4. /\ Cut(b, from, to) \in Buffers
        /\ Len(Cut(b, from, to).text) = from + (Len(b.text) - to)
        /\ Cut(b, from, to).cursor = from
    BY <2>2, CutLine
  <2> HIDE DEF from, to
  <2> QED BY <1>1, <2>1, <2>3, <2>4
<1>5. CASE /\ ~(m = "Canonical" /\ key \in PromptKeys)
           /\ key \notin CursorKeys /\ key \notin CutKeys
  BY <1>1, <1>5, InsertLine DEF Feed, HandledKeys
<1> QED BY <1>2, <1>3, <1>4, <1>5

\* What is shown of the history, and it after a line was recorded.
LEMMA RecalledLine ==
    ASSUME NEW h \in Histories, h.at <= Len(h.lines)
    PROVE  /\ Recalled(h) \in Seq(Chars)
           /\ Whole(Recalled(h)) \in Buffers
<1>1. h.lines \in Seq(Seq(Chars)) /\ h.at \in Nat /\ h.pending \in Seq(Chars)
  BY DEF Histories
<1>2. Recalled(h) \in Seq(Chars)
  BY <1>1 DEF Recalled
<1> QED BY <1>2 DEF Whole, Buffers

LEMMA RecordedHistory ==
    ASSUME NEW h \in Histories, NEW line \in Seq(Chars)
    PROVE  /\ ResetRecall(Record(h, line)) \in Histories
           /\ ResetRecall(Record(h, line)).at = 0
<1>1. h.lines \in Seq(Seq(Chars)) /\ h.at \in Nat /\ h.pending \in Seq(Chars)
  BY DEF Histories
<1>2. WithRoom(h.lines) \in Seq(Seq(Chars))
  <2>1. Len(h.lines) < HistoryCapacity \/ h.lines # <<>>
    BY EditorAssumption DEF EditorAssumption
  <2>2. h.lines # <<>> => Tail(h.lines) \in Seq(Seq(Chars))
    BY <1>1, HeadTailProperties
  <2> QED BY <1>1, <2>1, <2>2 DEF WithRoom
<1>3. Append(WithRoom(h.lines), line) \in Seq(Seq(Chars))
  BY <1>2
<1> QED BY <1>1, <1>3 DEF Record, ResetRecall, Histories

(***************************************************************************)
(* The invariant.  Whoever waits for keys has set the mode, a blocking     *)
(* read has used up the line before, and browsing goes on at the prompt    *)
(* only, with the line it began with kept as the pending one.              *)
(***************************************************************************)
Bytes == Chars \cup {Newline}

Rest(p) == SubSeq(p.line, p.pos + 1, Len(p.line))

TextTypes ==
    /\ stage \in {"prompt", "busy", "program", "read"}
    /\ buffer \in Buffers
    /\ history \in Histories /\ history.at <= Len(history.lines)
    /\ pending \in [line: Seq(Bytes), pos: Nat]

TextInv ==
    /\ TextTypes
    /\ stage = "read" => mode = "Canonical" /\ owed = <<>> /\ history.at = 0
    /\ stage = "prompt" => mode = "Prompt"
    /\ CanonicalCursorAtEnd
    /\ NothingLeftTyped
    /\ StdinInOrder
    /\ history.at # 0 => draft = history.pending

LEMMA TextInvInit == Init => TextInv
  BY DEF Init, TextInv, TextTypes, CanonicalCursorAtEnd, NothingLeftTyped,
         StdinInOrder, Buffers, Histories, EmptyLine, NoHistory

\* What a read takes is the beginning of what is left.
LEMMA HandedPart ==
    ASSUME NEW p \in [line: Seq(Bytes), pos: Nat], p.pos <= Len(p.line),
           NEW size \in 1 .. MaxBuffer
    PROVE  /\ AfterRead(p, size) \in [line: Seq(Bytes), pos: Nat]
           /\ LET n == Min({size, Len(p.line) - p.pos})
              IN  SubSeq(Rest(p), n + 1, Len(Rest(p))) = Rest(AfterRead(p, size))
<1> DEFINE left == Len(p.line) - p.pos
           n == Min({size, left})
<1>1. p.line \in Seq(Bytes) /\ p.pos \in Nat /\ left \in Nat /\ size \in Nat
  OBVIOUS
<1>2. n \in {size, left} /\ n <= left
  <2> HIDE DEF left
  <2> QED BY <1>1, MinIsLeast
<1>3. n \in 0 .. left
  BY <1>1, <1>2
<1>4. AfterRead(p, size) = [line |-> p.line, pos |-> p.pos + n]
  BY DEF AfterRead
<1> HIDE DEF n
<1>5. Rest(p) \in Seq(Bytes) /\ Len(Rest(p)) = left
  BY <1>1 DEF Rest
<1>6. SubSeq(Rest(p), n + 1, Len(Rest(p)))
        = SubSeq(p.line, p.pos + n + 1, Len(p.line))
  <2> DEFINE s == SubSeq(Rest(p), n + 1, left)
             t == SubSeq(p.line, p.pos + n + 1, Len(p.line))
  <2>1. /\ s \in Seq(Bytes) /\ Len(s) = left - n
        /\ \A i \in 1 .. left - n : s[i] = Rest(p)[n + i]
    BY <1>1, <1>3, <1>5
  <2>2. /\ t \in Seq(Bytes) /\ Len(t) = left - n
        /\ \A i \in 1 .. left - n : t[i] = p.line[p.pos + n + i]
    BY <1>1, <1>3
  <2>3. \A i \in 1 .. left : Rest(p)[i] = p.line[p.pos + i]
    BY <1>1 DEF Rest
  <2>4. \A i \in 1 .. left - n : s[i] = t[i]
    <3> HIDE DEF s, t
    <3> TAKE i \in 1 .. left - n
    <3>1. n + i \in 1 .. left /\ p.pos + (n + i) = p.pos + n + i
      BY <1>1, <1>3
    <3>2. Rest(p)[n + i] = p.line[p.pos + (n + i)]
      BY <2>3, <3>1
    <3> QED BY <2>1, <2>2, <3>1, <3>2
  <2> HIDE DEF s, t
  <2>5. s = t
    BY <1>1, <1>3, <2>1, <2>2, <2>4, SeqEqual
  <2> QED BY <1>5, <2>5 DEF s, t
<1>7. AfterRead(p, size) \in [line: Seq(Bytes), pos: Nat]
  BY <1>1, <1>3, <1>4
<1>8. Rest(AfterRead(p, size)) = SubSeq(p.line, p.pos + n + 1, Len(p.line))
  <2>1. /\ AfterRead(p, size).line = p.line
        /\ AfterRead(p, size).pos = p.pos + n
    BY <1>4
  <2> QED BY <2>1 DEF Rest
<1>9. SubSeq(Rest(p), n + 1, Len(Rest(p))) = Rest(AfterRead(p, size))
  BY <1>6, <1>8
<1> QED BY <1>7, <1>9 DEF n

\* What StartLine leaves alone and what it sets, the drawing apart.
LEMMA StartedLine ==
    ASSUME TextInv, NEW p, NEW m, StartLine(p, m)
    PROVE  /\ mode' = m
           /\ history' \in Histories /\ history'.at = 0
           /\ history'.at <= Len(history'.lines)
<1>1. history' = [history EXCEPT !.at = 0] /\ mode' = m
  BY DEF StartLine, ResetRecall
<1>2. /\ history.lines \in Seq(Seq(Chars)) /\ history.pending \in Seq(Chars)
      /\ history' = [lines |-> history.lines, at |-> 0,
                     pending |-> history.pending]
  BY <1>1 DEF TextInv, TextTypes, Histories
<1>3. Len(history.lines) \in Nat
  BY <1>2
<1>4. history' \in Histories /\ history'.at = 0 /\ history'.lines = history.lines
  BY <1>2 DEF Histories
<1> QED BY <1>1, <1>3, <1>4

LEMMA EditStep ==
    ASSUME TextInv, NEW key \in Chars \cup CutKeys, Edit(key)
    PROVE  TextInv'
<1> DEFINE next == Feed(key, buffer, mode)
<1>1. buffer \in Buffers /\ (mode = "Canonical" => buffer.cursor = Len(buffer.text))
  BY DEF TextInv, TextTypes, CanonicalCursorAtEnd
<1>2. /\ next \in Buffers
      /\ mode = "Canonical" => next.cursor = Len(next.text)
  BY <1>1, FeedLine DEF HandledKeys
<1>3. /\ Feed("Backspace", next, mode) \in Buffers
      /\ mode = "Canonical" => Feed("Backspace", next, mode).cursor
                                 = Len(Feed("Backspace", next, mode).text)
  <2> HIDE DEF next
  <2> QED BY <1>2, FeedLine DEF HandledKeys, CutKeys
<1>4. buffer' \in {next, Feed("Backspace", next, mode)}
  BY DEF Edit
<1>5. /\ Waiting
      /\ UNCHANGED <<stage, mode, history, pending, draft, owed>>
  BY DEF Edit, stdinVars
<1>6. buffer' \in Buffers /\ (mode = "Canonical" => buffer'.cursor = Len(buffer'.text))
  <2> HIDE DEF next
  <2> QED BY <1>2, <1>3, <1>4
<1> QED BY <1>5, <1>6 DEF TextInv, TextTypes, CanonicalCursorAtEnd,
                          NothingLeftTyped, StdinInOrder, Waiting

LEMMA MoveStep ==
    ASSUME TextInv, NEW key \in CursorKeys, Move(key)
    PROVE  TextInv'
<1>1. buffer \in Buffers /\ (mode = "Canonical" => buffer.cursor = Len(buffer.text))
  BY DEF TextInv, TextTypes, CanonicalCursorAtEnd
<1>2. buffer' = Feed(key, buffer, mode)
  BY DEF Move
<1>3. buffer' \in Buffers /\ (mode = "Canonical" => buffer'.cursor = Len(buffer'.text))
  BY <1>1, <1>2, FeedLine DEF HandledKeys
<1>4. /\ Waiting
      /\ UNCHANGED <<stage, mode, history, pending, draft, owed>>
  BY DEF Move, stdinVars
<1> QED BY <1>3, <1>4 DEF TextInv, TextTypes, CanonicalCursorAtEnd,
                          NothingLeftTyped, StdinInOrder, Waiting

LEMMA RecallStep ==
    ASSUME TextInv, NEW key \in {"Up", "Down"}, Recall(key)
    PROVE  /\ TextInv'
           /\ (history.at # 0 /\ history'.at = 0) => buffer'.text = draft
<1>1. /\ history \in Histories /\ history.at <= Len(history.lines)
      /\ history.at # 0 => draft = history.pending
      /\ buffer.text \in Seq(Chars)
  BY DEF TextInv, TextTypes, Buffers
<1>2. /\ Waiting /\ mode = "Prompt"
      /\ UNCHANGED <<stage, mode, pending, owed>>
      /\ buffer' = Whole(Recalled(history'))
      /\ draft' = IF history'.at = 0 THEN <<>>
                  ELSE IF history.at = 0 THEN buffer.text ELSE draft
  BY DEF Recall, stdinVars
<1>3. /\ history' \in Histories /\ history'.at <= Len(history'.lines)
      /\ history.at # 0 => history'.pending = history.pending
      /\ (history.at = 0 /\ history'.at # 0) => history'.pending = buffer.text
  <2>1. /\ history.lines \in Seq(Seq(Chars)) /\ Len(history.lines) \in Nat
        /\ history.at \in Nat /\ history.pending \in Seq(Chars)
    BY <1>1 DEF Histories
  <2>2. CASE key = "Up"
    <3> DEFINE at == IF history.at = 0 THEN Len(history.lines)
                     ELSE history.at - 1
               pend == IF history.at = 0 THEN buffer.text
                       ELSE history.pending
    <3>1. history' = RecallPrev(history, buffer.text)
      BY <2>2 DEF Recall
    <3>2. history' = [lines |-> history.lines, at |-> at, pending |-> pend]
      BY <1>1, <3>1 DEF RecallPrev, Histories
    <3>3. at \in 0 .. Len(history.lines) /\ pend \in Seq(Chars)
      BY <1>1, <2>1
    <3>4. history'.lines = history.lines /\ history'.at = at /\ history'.pending = pend
      BY <3>2
    <3>5. history' \in Histories
      <4> HIDE DEF at, pend
      <4> QED BY <2>1, <3>2, <3>3 DEF Histories
    <3> QED BY <2>1, <3>3, <3>4, <3>5
  <2>3. CASE key = "Down"
    <3> DEFINE at == IF history.at >= Len(history.lines) THEN 0
                     ELSE history.at + 1
    <3>1. history' = RecallNext(history) /\ history.at # 0
      BY <2>3 DEF Recall, CanRecall
    <3>2. history' = [lines |-> history.lines, at |-> at,
                      pending |-> history.pending]
      BY <1>1, <3>1 DEF RecallNext, Histories
    <3>3. at \in 0 .. Len(history.lines)
      BY <1>1, <2>1
    <3>4. /\ history'.lines = history.lines /\ history'.at = at
          /\ history'.pending = history.pending
      BY <3>2
    <3>5. history' \in Histories
      <4> HIDE DEF at
      <4> QED BY <2>1, <3>2, <3>3 DEF Histories
    <3> QED BY <2>1, <3>1, <3>3, <3>4, <3>5
  <2> QED BY <2>2, <2>3
<1>4. buffer' \in Buffers
  BY <1>2, <1>3, RecalledLine
<1>5. stage = "prompt"
  BY <1>2 DEF TextInv, Waiting
<1>6. history'.at # 0 => draft' = history'.pending
  BY <1>1, <1>2, <1>3
<1>7. TextInv'
  BY <1>2, <1>3, <1>4, <1>5, <1>6
     DEF TextInv, TextTypes, CanonicalCursorAtEnd, NothingLeftTyped,
         StdinInOrder, Waiting
<1>8. (history.at # 0 /\ history'.at = 0) => buffer'.text = draft
  BY <1>1, <1>2, <1>3 DEF Recalled, Whole
<1> QED BY <1>7, <1>8

LEMMA EnterCommandStep ==
    ASSUME TextInv, EnterCommand
    PROVE  TextInv'
<1>1. buffer.text \in Seq(Chars) /\ history \in Histories
  BY DEF TextInv, TextTypes, Buffers
<1>2. /\ history' = ResetRecall(Record(history, buffer.text))
      /\ stage = "prompt" /\ stage' = "busy" /\ buffer' = EmptyLine
      /\ UNCHANGED <<mode, pending, owed>>
  BY DEF EnterCommand, AfterTake, stdinVars
<1>3. history' \in Histories /\ history'.at = 0
  BY <1>1, <1>2, RecordedHistory
<1>4. history'.at <= Len(history'.lines)
  BY <1>3 DEF Histories
<1>5. buffer' \in Buffers /\ buffer'.cursor = Len(buffer'.text)
  BY <1>2 DEF Buffers, EmptyLine
<1> QED BY <1>2, <1>3, <1>4, <1>5
           DEF TextInv, TextTypes, CanonicalCursorAtEnd, NothingLeftTyped,
               StdinInOrder

\* Handing out part of p, of which all is owed, leaves its rest owed.
LEMMA HandOut ==
    ASSUME NEW p \in [line: Seq(Bytes), pos: Nat], p.pos <= Len(p.line),
           Hand(p, Rest(p))
    PROVE  pending' \in [line: Seq(Bytes), pos: Nat] /\ Rest(pending') = owed'
<1>1. PICK size \in 1 .. MaxBuffer :
          /\ pending' = AfterRead(p, size)
          /\ owed' = SubSeq(Rest(p), Min({size, Len(p.line) - p.pos}) + 1,
                            Len(Rest(p)))
  BY DEF Hand
<1> QED BY <1>1, HandedPart

LEMMA ReadRestStep ==
    ASSUME TextInv, ReadRest
    PROVE  TextInv'
<1>1. /\ pending \in [line: Seq(Bytes), pos: Nat]
      /\ pending.pos <= Len(pending.line)
      /\ Rest(pending) = owed
  BY DEF TextInv, TextTypes, StdinInOrder, Rest, ReadRest
<1>2. Hand(pending, Rest(pending))
  BY <1>1 DEF ReadRest
<1>3. pending' \in [line: Seq(Bytes), pos: Nat] /\ Rest(pending') = owed'
  BY <1>1, <1>2, HandOut
<1>4. /\ stage = "program"
      /\ UNCHANGED <<stage, mode, buffer, history, draft>>
  BY DEF ReadRest
<1> QED BY <1>3, <1>4
           DEF TextInv, TextTypes, CanonicalCursorAtEnd, NothingLeftTyped,
               StdinInOrder, Waiting, Rest

LEMMA FinishReadStep ==
    ASSUME TextInv, NEW line \in Seq(Bytes), FinishRead(line)
    PROVE  TextInv'
<1> DEFINE p == [line |-> line, pos |-> 0]
<1>1. /\ stage = "read" /\ stage' = "program" /\ buffer' = EmptyLine
      /\ Hand(p, owed \o line)
      /\ UNCHANGED <<mode, history, draft>>
  BY DEF FinishRead, AfterTake
<1>2. owed = <<>> /\ history.at = 0
  BY <1>1 DEF TextInv
<1>3. owed \o line = Rest(p)
  <2>1. <<>> \o line = line /\ SubSeq(line, 1, Len(line)) = line
    OBVIOUS
  <2> QED BY <1>2, <2>1 DEF Rest
<1>4. p \in [line: Seq(Bytes), pos: Nat] /\ p.pos <= Len(p.line)
  OBVIOUS
<1>5. pending' \in [line: Seq(Bytes), pos: Nat] /\ Rest(pending') = owed'
  <2>1. Hand(p, Rest(p))
    BY <1>1, <1>3
  <2> HIDE DEF p
  <2> QED BY <1>4, <2>1, HandOut
<1>6. buffer' \in Buffers /\ buffer'.cursor = Len(buffer'.text)
  BY <1>1 DEF Buffers, EmptyLine
<1> QED BY <1>1, <1>2, <1>5, <1>6
           DEF TextInv, TextTypes, CanonicalCursorAtEnd, NothingLeftTyped,
               StdinInOrder, Rest

\* A newline is put after what was typed.
LEMMA EnterLineStep ==
    ASSUME TextInv, EnterLine
    PROVE  TextInv'
<1>1. buffer.text \in Seq(Bytes)
  BY DEF TextInv, TextTypes, Buffers, Bytes
<1>2. Append(buffer.text, Newline) \in Seq(Bytes)
  BY <1>1 DEF Bytes
<1> QED BY <1>2, FinishReadStep DEF EnterLine

LEMMA PartialLineStep ==
    ASSUME TextInv, PartialLine
    PROVE  TextInv'
<1>1. buffer.text \in Seq(Bytes)
  BY DEF TextInv, TextTypes, Buffers, Bytes
<1> QED BY <1>1, FinishReadStep DEF PartialLine

LEMMA ReadLineStep ==
    ASSUME TextInv, ReadLine
    PROVE  TextInv'
<1>1. /\ stage = "program" /\ stage' = "read"
      /\ StartLine(0, "Canonical")
      /\ pending.pos >= Len(pending.line)
      /\ UNCHANGED <<buffer, pending, owed, draft>>
  BY DEF ReadLine, stdinVars
<1>2. buffer = EmptyLine
  BY <1>1 DEF TextInv, NothingLeftTyped, Waiting
<1>3. owed = <<>>
  BY <1>1 DEF TextInv, TextTypes, StdinInOrder
<1>4. /\ mode' = "Canonical"
      /\ history' \in Histories /\ history'.at = 0
      /\ history'.at <= Len(history'.lines)
  BY <1>1, StartedLine
<1> QED BY <1>1, <1>2, <1>3, <1>4
           DEF TextInv, TextTypes, CanonicalCursorAtEnd, NothingLeftTyped,
               StdinInOrder, Waiting, EmptyLine

LEMMA StartPromptStep ==
    ASSUME TextInv, StartPrompt
    PROVE  TextInv'
<1>1. /\ stage = "busy" /\ stage' = "prompt"
      /\ StartLine(prompt, "Prompt")
      /\ UNCHANGED <<buffer, pending, owed, draft>>
  BY DEF StartPrompt, stdinVars
<1>2. /\ mode' = "Prompt"
      /\ history' \in Histories /\ history'.at = 0
      /\ history'.at <= Len(history'.lines)
  BY <1>1, StartedLine
<1> QED BY <1>1, <1>2
           DEF TextInv, TextTypes, CanonicalCursorAtEnd, NothingLeftTyped,
               StdinInOrder, Waiting

LEMMA EndOfFileStep ==
    ASSUME TextInv, EndOfFile
    PROVE  TextInv'
<1>1. /\ stage = "read" /\ stage' = "program" /\ buffer.text = <<>>
      /\ UNCHANGED <<mode, buffer, history, pending, owed, draft>>
  BY DEF EndOfFile, stdinVars
<1>2. history.at = 0 /\ buffer \in Buffers
  BY <1>1 DEF TextInv, TextTypes
<1>3. buffer = EmptyLine
  BY <1>1, <1>2 DEF Buffers, EmptyLine
<1> QED BY <1>1, <1>2, <1>3
           DEF TextInv, TextTypes, CanonicalCursorAtEnd, NothingLeftTyped,
               StdinInOrder

LEMMA TextInvNext == TextInv /\ [Next]_vars => TextInv'
<1> SUFFICES ASSUME TextInv, [Next]_vars PROVE TextInv'
  OBVIOUS
<1>1. CASE Launch
  <2>1. SubSeq(<<>>, 1, Len(<<>>)) = <<>>
    OBVIOUS
  <2> QED BY <1>1, <2>1
             DEF Launch, Forgotten, drawnVars, TextInv, TextTypes,
                 CanonicalCursorAtEnd, NothingLeftTyped, StdinInOrder, Waiting
<1>2. CASE ProgramEnds
  BY <1>2 DEF ProgramEnds, stdinVars, TextInv, TextTypes, CanonicalCursorAtEnd,
              NothingLeftTyped, StdinInOrder, Waiting
<1>3. CASE ChangePrompt \/ Output \/ UNCHANGED vars
  BY <1>3 DEF ChangePrompt, Output, vars, stdinVars, TextInv, TextTypes,
              CanonicalCursorAtEnd, NothingLeftTyped, StdinInOrder, Waiting
<1> QED BY <1>1, <1>2, <1>3, EditStep, MoveStep, RecallStep, EnterCommandStep,
           ReadRestStep, ReadLineStep, EnterLineStep, PartialLineStep,
           EndOfFileStep, StartPromptStep DEF Next

LEMMA TextInvariant == Spec => []TextInv
<1> QED BY TextInvInit, TextInvNext, PTL DEF Spec

(***************************************************************************)
(* What follows from it.                                                   *)
(***************************************************************************)
\* However small the buffers a program reads its line into, what is left of
\* the line is what was typed for it and not read: stdin.rs neither loses nor
\* repeats a byte, nor gives a program what an earlier one left.
THEOREM StdinSound == Spec => []StdinInOrder
<1>1. TextInv => StdinInOrder
  BY DEF TextInv
<1> QED BY <1>1, TextInvariant, PTL

\* Ctrl+U and Ctrl+D act on the whole line a program reads, for no key moves
\* the cursor from its end.
THEOREM CanonicalCursor == Spec => []CanonicalCursorAtEnd
<1>1. TextInv => CanonicalCursorAtEnd
  BY DEF TextInv
<1> QED BY <1>1, TextInvariant, PTL

\* begin need not clear the line: all the ways a line can end have left it
\* empty and the browsing over.
THEOREM LinesEmptied == Spec => []NothingLeftTyped
<1>1. TextInv => NothingLeftTyped
  BY DEF TextInv
<1> QED BY <1>1, TextInvariant, PTL

\* Coming back down from the history gives back the line that was being typed,
\* through any number of recalls and edits of what was recalled.
THEOREM DraftReturns == Spec => DraftComesBack
<1> DEFINE Back == (history.at # 0 /\ history'.at = 0 /\ stage' = "prompt")
                       => buffer'.text = draft
<1>1. TextInv /\ [Next]_vars => [Back]_vars
  <2> SUFFICES ASSUME TextInv, Next, history.at # 0, history'.at = 0,
                      stage' = "prompt"
               PROVE  buffer'.text = draft
    BY DEF vars
  <2>1. stage = "prompt"
    BY DEF TextInv, TextTypes, NothingLeftTyped, Waiting
  <2>2. \A key : ~Edit(key) /\ ~Move(key)
    BY DEF Edit, Move
  <2>3. ~(ReadRest \/ ReadLine \/ EnterLine \/ PartialLine \/ EndOfFile)
    BY <2>1 DEF ReadRest, ReadLine, EnterLine, PartialLine, FinishRead, EndOfFile
  <2>4. ~(StartPrompt \/ ChangePrompt \/ Launch \/ ProgramEnds \/ Output)
    BY <2>1 DEF StartPrompt, ChangePrompt, Launch, ProgramEnds, Output
  <2>5. ~EnterCommand
    BY DEF EnterCommand
  <2>6. PICK key \in {"Up", "Down"} : Recall(key)
    BY <2>2, <2>3, <2>4, <2>5 DEF Next
  <2> QED BY <2>6, RecallStep
<1> QED BY <1>1, TextInvariant, PTL DEF Spec, DraftComesBack

(***************************************************************************)
(* The history.  Of the lines entered the kept ones are a set of places,   *)
(* and a place has a rank in it.                                           *)
(***************************************************************************)
Typed(lines, i) == {j \in 1 .. i - 1 : lines[j] # <<>>}
Kept(lines) ==
    {i \in 1 .. Len(lines) :
        /\ lines[i] # <<>>
        /\ Typed(lines, i) # {} => lines[Max(Typed(lines, i))] # lines[i]}
UpTo(kept, i) == {j \in kept : j <= i}
Rank(kept, i) == Cardinality(UpTo(kept, i))
Nth(kept, n) == CHOOSE i \in kept : Rank(kept, i) = n

\* Every rank is somebody's.
Ranked(kept) ==
    /\ IsFiniteSet(kept)
    /\ \A n \in 1 .. Cardinality(kept) : \E i \in kept : Rank(kept, i) = n

\* How many of them the history holds no more.
Dropped(lines) == Max({0, Cardinality(Kept(lines)) - HistoryCapacity})

\* The greater of two numbers.
LEMMA MaxOfTwo ==
    ASSUME NEW a \in Int, NEW b \in Int
    PROVE  Max({a, b}) = IF a >= b THEN a ELSE b
<1>1. CASE a >= b
  <2>1. \A y \in {a, b} : a >= y
    BY <1>1
  <2>2. \A x \in {a, b} : (\A y \in {a, b} : x >= y) => x = a
    BY <1>1
  <2> QED BY <1>1, <2>1, <2>2 DEF Max
<1>2. CASE ~(a >= b)
  <2>1. \A y \in {a, b} : b >= y
    BY <1>2
  <2>2. \A x \in {a, b} : (\A y \in {a, b} : x >= y) => x = b
    BY <1>2
  <2> QED BY <1>2, <2>1, <2>2 DEF Max
<1> QED BY <1>1, <1>2

\* RecentLines in these terms.
LEMMA RecentDef ==
    ASSUME NEW lines
    PROVE  RecentLines(lines) =
              [n \in 1 .. Cardinality(Kept(lines)) - Dropped(lines)
                  |-> lines[Nth(Kept(lines), Dropped(lines) + n)]]
  BY DEF RecentLines, Kept, Typed, Nth, Rank, UpTo, Dropped

\* Of two places the later has the higher rank, so a rank is of one place.
LEMMA NthIsUnique ==
    ASSUME NEW kept \in SUBSET Nat, IsFiniteSet(kept), NEW i \in kept
    PROVE  Nth(kept, Rank(kept, i)) = i
<1>1. ASSUME NEW a \in kept, NEW b \in kept, a < b
      PROVE  Rank(kept, a) # Rank(kept, b)
  <2>1. UpTo(kept, a) \subseteq UpTo(kept, b) /\ UpTo(kept, a) # UpTo(kept, b)
    <3>1. b \in UpTo(kept, b) /\ b \notin UpTo(kept, a)
      BY <1>1 DEF UpTo
    <3>2. UpTo(kept, a) \subseteq UpTo(kept, b)
      <4>1. \A j \in kept : j \in Nat /\ a \in Nat /\ b \in Nat
        OBVIOUS
      <4>2. \A j \in kept : j <= a => j <= b
        BY <1>1, <4>1
      <4> QED BY <4>2 DEF UpTo
    <3> QED BY <3>1, <3>2
  <2>2. IsFiniteSet(UpTo(kept, b))
    <3>1. UpTo(kept, b) \subseteq kept
      BY DEF UpTo
    <3> QED BY <3>1, FS_Subset
  <2> QED BY <2>1, <2>2, FS_Subset DEF Rank
<1>2. \A o \in kept : Rank(kept, o) = Rank(kept, i) => o = i
  <2> TAKE o \in kept
  <2>1. o < i \/ i < o \/ o = i
    OBVIOUS
  <2> QED BY <1>1, <2>1
<1> QED BY <1>2 DEF Nth

\* The place of a rank.
LEMMA NthExists ==
    ASSUME NEW kept, Ranked(kept), NEW n \in 1 .. Cardinality(kept)
    PROVE  Nth(kept, n) \in kept /\ Rank(kept, Nth(kept, n)) = n
  BY DEF Ranked, Nth

\* A place after all the others has the rank after theirs, and they keep
\* theirs.
LEMMA RankOfNext ==
    ASSUME NEW kept \in SUBSET Nat, Ranked(kept),
           NEW next \in Nat, \A i \in kept : i < next
    PROVE  /\ Ranked(kept \cup {next})
           /\ Cardinality(kept \cup {next}) = Cardinality(kept) + 1
           /\ Nth(kept \cup {next}, Cardinality(kept) + 1) = next
           /\ \A n \in 1 .. Cardinality(kept) :
                  Nth(kept \cup {next}, n) = Nth(kept, n)
<1> DEFINE more == kept \cup {next}
           all == Cardinality(kept)
<1>1. IsFiniteSet(kept) /\ next \notin kept /\ all \in Nat
  BY FS_CardinalityType DEF Ranked
<1>2. IsFiniteSet(more) /\ Cardinality(more) = all + 1
  BY <1>1, FS_AddElement
<1>3. \A i \in kept : Rank(more, i) = Rank(kept, i)
  <2> TAKE i \in kept
  <2>1. UpTo(more, i) = UpTo(kept, i)
    BY DEF UpTo
  <2> QED BY <2>1 DEF Rank
<1>4. Rank(more, next) = all + 1
  <2>1. \A j \in more : j <= next
    OBVIOUS
  <2>2. UpTo(more, next) = more
    BY <2>1 DEF UpTo
  <2> QED BY <1>2, <2>2 DEF Rank
<1>5. \A n \in 1 .. all : Nth(kept, n) \in kept /\ Rank(kept, Nth(kept, n)) = n
  BY NthExists
<1>6. more \subseteq Nat
  OBVIOUS
<1>7. Nth(more, all + 1) = next
  <2>1. next \in more
    OBVIOUS
  <2>2. Nth(more, Rank(more, next)) = next
    <3> HIDE DEF more
    <3> QED BY <1>2, <1>6, <2>1, NthIsUnique
  <2> QED BY <1>4, <2>2
<1>8. \A n \in 1 .. all : Nth(more, n) = Nth(kept, n)
  <2> TAKE n \in 1 .. all
  <2>1. Nth(kept, n) \in more /\ Rank(more, Nth(kept, n)) = n
    BY <1>3, <1>5
  <2> HIDE DEF more
  <2> QED BY <1>2, <1>6, <2>1, NthIsUnique
<1>9. Ranked(more)
  <2>1. ASSUME NEW n \in 1 .. all + 1 PROVE \E i \in more : Rank(more, i) = n
    <3>1. CASE n = all + 1
      BY <1>4, <3>1
    <3>2. CASE n \in 1 .. all
      BY <1>3, <1>5, <3>2
    <3> QED BY <1>1, <3>1, <3>2
  <2> HIDE DEF more
  <2> QED BY <1>2, <2>1 DEF Ranked
<1> QED BY <1>2, <1>7, <1>8, <1>9

(***************************************************************************)
(* One more line is entered.                                               *)
\* The newest line held is the last one entered that was not empty.
NewestHeld(lines, held) ==
    LET typed == Typed(lines, Len(lines) + 1)
    IN  IF typed = {} THEN held = <<>>
        ELSE held # <<>> /\ held[Len(held)] = lines[Max(typed)]

(***************************************************************************)
LEMMA KeptAppend ==
    ASSUME NEW lines \in Seq(Seq(Chars)), NEW text \in Seq(Chars)
    PROVE  LET next == Len(lines) + 1
               more == Append(lines, text)
               new == /\ text # <<>>
                      /\ Typed(lines, next) # {} =>
                            lines[Max(Typed(lines, next))] # text
           IN  /\ Kept(more) = Kept(lines) \cup (IF new THEN {next} ELSE {})
               /\ Kept(lines) \subseteq 1 .. Len(lines)
               /\ \A i \in 1 .. Len(lines) : more[i] = lines[i]
               /\ more[next] = text
               /\ Typed(more, next + 1) =
                    Typed(lines, next) \cup (IF text # <<>> THEN {next} ELSE {})
<1> DEFINE next == Len(lines) + 1
           more == Append(lines, text)
           new == /\ text # <<>>
                  /\ Typed(lines, next) # {} =>
                        lines[Max(Typed(lines, next))] # text
<1>1. /\ Len(lines) \in Nat /\ Len(more) = next
      /\ \A i \in 1 .. Len(lines) : more[i] = lines[i]
      /\ more[next] = text
  OBVIOUS
<1> HIDE DEF more
<1>2. \A i \in 1 .. next : Typed(more, i) = Typed(lines, i)
  <2> TAKE i \in 1 .. next
  <2>1. \A j \in 1 .. i - 1 : j \in 1 .. Len(lines)
    BY <1>1
  <2>2. \A j \in 1 .. i - 1 : more[j] = lines[j]
    BY <1>1, <2>1
  <2> QED BY <2>2 DEF Typed
<1>3. \A i \in 1 .. next : Typed(lines, i) # {} =>
          Max(Typed(lines, i)) \in 1 .. Len(lines)
  <2> SUFFICES ASSUME NEW i \in 1 .. next, Typed(lines, i) # {}
               PROVE  Max(Typed(lines, i)) \in 1 .. Len(lines)
    OBVIOUS
  <2>1. Typed(lines, i) \subseteq 0 .. Len(lines) /\ Typed(lines, i) \subseteq 1 .. Len(lines)
    BY <1>1 DEF Typed
  <2>2. Max(Typed(lines, i)) \in Typed(lines, i)
    BY <1>1, <2>1, MaxIsGreatest
  <2> QED BY <2>1, <2>2
<1>4. \A i \in 1 .. Len(lines) : i \in Kept(more) <=> i \in Kept(lines)
  <2> TAKE i \in 1 .. Len(lines)
  <2>1. i \in 1 .. next /\ more[i] = lines[i]
    BY <1>1
  <2>2. Typed(lines, i) # {} => more[Max(Typed(lines, i))] = lines[Max(Typed(lines, i))]
    BY <1>1, <1>3, <2>1
  <2>3. Typed(more, i) = Typed(lines, i)
    BY <1>2, <2>1
  <2> QED BY <1>1, <2>1, <2>2, <2>3 DEF Kept
<1>5. next \in Kept(more) <=> new
  <2>1. next \in 1 .. next
    BY <1>1
  <2>2. Typed(more, next) = Typed(lines, next)
    BY <1>2, <2>1
  <2>3. Typed(lines, next) # {} => more[Max(Typed(lines, next))] = lines[Max(Typed(lines, next))]
    BY <1>1, <1>3, <2>1
  <2> QED BY <1>1, <2>1, <2>2, <2>3 DEF Kept
<1>6. Kept(more) \subseteq 1 .. next /\ Kept(lines) \subseteq 1 .. Len(lines)
  BY <1>1 DEF Kept
<1>7. 1 .. next = (1 .. Len(lines)) \cup {next}
  BY <1>1
<1>8. Kept(more) = Kept(lines) \cup (IF new THEN {next} ELSE {})
  <2> HIDE DEF new, next
  <2> QED BY <1>4, <1>5, <1>6, <1>7
<1>9. Typed(more, next + 1) = Typed(lines, next) \cup (IF text # <<>> THEN {next} ELSE {})
  BY <1>1 DEF Typed
<1> QED BY <1>1, <1>6, <1>8, <1>9 DEF more

(***************************************************************************)
(* The invariant: what the history holds, and that its newest line is the  *)
(* last one entered that was not empty, which is what Record compares.     *)
(***************************************************************************)
HistoryInv ==
    /\ entered \in Seq(Seq(Chars))
    /\ Ranked(Kept(entered))
    /\ history.lines = RecentLines(entered)
    /\ NewestHeld(entered, history.lines)

\* Nothing is entered and nothing is held at first.
LEMMA HistoryInit == Init => HistoryInv
<1> SUFFICES ASSUME Init PROVE HistoryInv
  OBVIOUS
<1>1. entered = <<>> /\ history.lines = <<>> /\ Len(entered) = 0
  BY DEF Init, NoHistory
<1>2. Kept(entered) = {} /\ Typed(entered, Len(entered) + 1) = {}
  BY <1>1 DEF Kept, Typed
<1>3. Cardinality(Kept(entered)) = 0 /\ IsFiniteSet(Kept(entered))
  BY <1>2, FS_EmptySet
<1>4. Dropped(entered) = 0
  <2>1. 0 - HistoryCapacity \in Int /\ 0 >= 0 - HistoryCapacity
    BY EditorAssumption DEF EditorAssumption
  <2> QED BY <1>3, <2>1, MaxOfTwo DEF Dropped
<1>5. RecentLines(entered) = <<>>
  <2>1. 1 .. 0 - 0 = {}
    OBVIOUS
  <2>2. RecentLines(entered) = [n \in 1 .. 0 - 0 |->
                                   entered[Nth(Kept(entered), 0 + n)]]
    BY <1>3, <1>4, RecentDef
  <2>3. RecentLines(entered) = [n \in {} |-> entered[Nth(Kept(entered), 0 + n)]]
    BY <2>1, <2>2
  <2> QED BY <2>3
<1> QED BY <1>1, <1>2, <1>3, <1>5 DEF HistoryInv, NewestHeld, Ranked

\* What RecentLines says, place by place.
LEMMA RecentAt ==
    ASSUME NEW lines, IsFiniteSet(Kept(lines))
    PROVE  /\ Dropped(lines) = IF Cardinality(Kept(lines)) > HistoryCapacity
                             THEN Cardinality(Kept(lines)) - HistoryCapacity
                             ELSE 0
           /\ Dropped(lines) \in Nat
           /\ Cardinality(Kept(lines)) - Dropped(lines) \in 0 .. HistoryCapacity
           /\ DOMAIN RecentLines(lines) =
                  1 .. Cardinality(Kept(lines)) - Dropped(lines)
           /\ \A n \in 1 .. Cardinality(Kept(lines)) - Dropped(lines) :
                  RecentLines(lines)[n] =
                      lines[Nth(Kept(lines), Dropped(lines) + n)]
<1> DEFINE all == Cardinality(Kept(lines))
<1>1. all \in Nat /\ HistoryCapacity \in Nat
  BY FS_CardinalityType, EditorAssumption DEF EditorAssumption
<1>2. Dropped(lines) = IF all > HistoryCapacity THEN all - HistoryCapacity ELSE 0
  <2>1. all - HistoryCapacity \in Int
    BY <1>1
  <2>2. Dropped(lines) = IF 0 >= all - HistoryCapacity THEN 0 ELSE all - HistoryCapacity
    BY <2>1, MaxOfTwo DEF Dropped
  <2> QED BY <1>1, <2>2
<1> HIDE DEF all
<1>3. Dropped(lines) \in Nat /\ all - Dropped(lines) \in 0 .. HistoryCapacity
  BY <1>1, <1>2
<1> QED BY <1>2, <1>3, RecentDef DEF all

\* Lines that agree on the same kept places have the same recent lines.
LEMMA SameRecent ==
    ASSUME NEW lines, NEW more, Ranked(Kept(lines)), Kept(more) = Kept(lines),
           \A i \in Kept(lines) : more[i] = lines[i]
    PROVE  RecentLines(more) = RecentLines(lines)
<1> DEFINE all == Cardinality(Kept(lines))
           old == Dropped(lines)
<1>1. Dropped(more) = old
  BY DEF Dropped
<1>2. IsFiniteSet(Kept(lines)) /\ all \in Nat
  BY FS_CardinalityType DEF Ranked
<1>3. old \in Nat
  BY <1>2, RecentAt
<1>4. ASSUME NEW n \in 1 .. all - old
      PROVE  more[Nth(Kept(lines), old + n)] = lines[Nth(Kept(lines), old + n)]
  <2>1. old + n \in 1 .. all
    BY <1>2, <1>3
  <2>2. Nth(Kept(lines), old + n) \in Kept(lines)
    BY <2>1, NthExists
  <2> QED BY <2>2
<1>5. RecentLines(more) = [n \in 1 .. all - old |-> more[Nth(Kept(lines), old + n)]]
  BY <1>1, RecentDef
<1>6. RecentLines(lines) = [n \in 1 .. all - old |-> lines[Nth(Kept(lines), old + n)]]
  BY RecentDef
<1> HIDE DEF all, old
<1> QED BY <1>4, <1>5, <1>6

\* One more kept line is the newest of the recent ones, and if they were as
\* many as the history holds the oldest is not one any more.
LEMMA OneMoreRecent ==
    ASSUME NEW lines \in Seq(Seq(Chars)), NEW more, NEW recent \in Seq(Seq(Chars)),
           NEW next \in Nat,
           Ranked(Kept(lines)), recent = RecentLines(lines),
           Kept(lines) \in SUBSET Nat, \A i \in Kept(lines) : i < next,
           Kept(more) = Kept(lines) \cup {next}, more[next] \in Seq(Chars),
           \A i \in Kept(lines) : more[i] = lines[i]
    PROVE  Append(WithRoom(recent), more[next]) = RecentLines(more)
<1> DEFINE all == Cardinality(Kept(lines))
           old == Dropped(lines)
           new == Dropped(more)
           room == WithRoom(recent)
           now == RecentLines(more)
<1>1. IsFiniteSet(Kept(lines)) /\ all \in Nat
      /\ HistoryCapacity \in Nat \ {0}
  BY FS_CardinalityType, EditorAssumption DEF Ranked, EditorAssumption
<1>2. /\ Ranked(Kept(more)) /\ Cardinality(Kept(more)) = all + 1
      /\ Nth(Kept(more), all + 1) = next
      /\ \A n \in 1 .. all : Nth(Kept(more), n) = Nth(Kept(lines), n)
  <2> DEFINE kept == Kept(lines)
  <2>1. /\ Ranked(kept \cup {next})
        /\ Cardinality(kept \cup {next}) = Cardinality(kept) + 1
        /\ Nth(kept \cup {next}, Cardinality(kept) + 1) = next
        /\ \A n \in 1 .. Cardinality(kept) :
               Nth(kept \cup {next}, n) = Nth(kept, n)
    <3> HIDE DEF kept
    <3>1. kept \in SUBSET Nat /\ Ranked(kept) /\ \A i \in kept : i < next
      BY DEF kept
    <3> QED BY <3>1, RankOfNext
  <2> QED BY <2>1
<1>3. /\ old = IF all > HistoryCapacity THEN all - HistoryCapacity ELSE 0
      /\ DOMAIN recent = 1 .. all - old
      /\ \A n \in 1 .. all - old : recent[n] = lines[Nth(Kept(lines), old + n)]
  BY <1>1, RecentAt
<1>4. /\ new = IF all + 1 > HistoryCapacity THEN all + 1 - HistoryCapacity ELSE 0
      /\ now = [n \in 1 .. all + 1 - new |-> more[Nth(Kept(more), new + n)]]
  <2>1. IsFiniteSet(Kept(more))
    BY <1>2 DEF Ranked
  <2> DEFINE total == Cardinality(Kept(more))
             at(n) == more[Nth(Kept(more), new + n)]
  <2>2. new = IF total > HistoryCapacity THEN total - HistoryCapacity ELSE 0
    BY <2>1, RecentAt
  <2>3. now = [n \in 1 .. total - new |-> at(n)]
    BY RecentDef
  <2>4. total = all + 1
    BY <1>2
  <2> HIDE DEF all, new, now, total, at
  <2>5. new = IF all + 1 > HistoryCapacity THEN all + 1 - HistoryCapacity ELSE 0
    BY <1>1, <2>2, <2>4
  <2>6. 1 .. total - new = 1 .. all + 1 - new
    BY <1>1, <2>4, <2>5
  <2>7. now = [n \in 1 .. all + 1 - new |-> at(n)]
    BY <2>3, <2>6
  <2> QED BY <2>5, <2>7 DEF at
<1>5. \A n \in 1 .. all : Nth(Kept(lines), n) \in Kept(lines)
  BY NthExists
<1>6. \A n \in 1 .. all : more[Nth(Kept(more), n)] = lines[Nth(Kept(lines), n)]
  BY <1>2, <1>5
<1> HIDE DEF all, old, new, now
<1>7. Len(recent) = all - old
  <2>1. DOMAIN recent = 1 .. Len(recent) /\ Len(recent) \in Nat /\ all - old \in Nat
    BY <1>1, <1>3
  <2> QED BY <1>3, <2>1
<1>8. /\ room \in Seq(Seq(Chars)) /\ Len(room) = all - new
      /\ \A n \in 1 .. all - new : room[n] = lines[Nth(Kept(lines), new + n)]
  <2>1. CASE all < HistoryCapacity
    <3>1. old = 0 /\ new = 0 /\ Len(recent) = all
      BY <1>1, <1>3, <1>4, <1>7, <2>1
    <3>2. room = recent
      BY <2>1, <3>1 DEF WithRoom
    <3> QED BY <1>3, <3>1, <3>2
  <2>2. CASE all >= HistoryCapacity
    <3>1. /\ old \in Nat /\ new = old + 1 /\ Len(recent) = HistoryCapacity
          /\ all - old = HistoryCapacity /\ all - new = HistoryCapacity - 1
      BY <1>1, <1>3, <1>4, <1>7, <2>2
    <3>2. room = Tail(recent) /\ recent # <<>>
      BY <1>1, <3>1 DEF WithRoom
    <3>3. /\ Tail(recent) \in Seq(Seq(Chars))
          /\ Len(Tail(recent)) = Len(recent) - 1
          /\ \A n \in 1 .. Len(Tail(recent)) : Tail(recent)[n] = recent[n + 1]
      BY <3>2, HeadTailProperties
    <3>4. ASSUME NEW n \in 1 .. all - new
          PROVE  room[n] = lines[Nth(Kept(lines), new + n)]
      <4>1. n \in 1 .. Len(Tail(recent)) /\ n + 1 \in 1 .. all - old
            /\ old + (n + 1) = new + n
        <5> DEFINE m == Len(Tail(recent))
        <5>1. m = all - new
          BY <3>1, <3>3
        <5> HIDE DEF m
        <5> QED BY <1>1, <3>1, <5>1 DEF m
      <4> QED BY <1>3, <3>2, <3>3, <4>1
    <3> HIDE DEF room
    <3> QED BY <3>1, <3>2, <3>3, <3>4
  <2> QED BY <1>1, <2>1, <2>2
<1> HIDE DEF room
<1>9. new \in 0 .. all /\ all - new \in Nat
  BY <1>1, <1>4
<1>10. /\ Append(room, more[next]) \in Seq(Seq(Chars))
       /\ Len(Append(room, more[next])) = all + 1 - new
       /\ \A n \in 1 .. all - new : Append(room, more[next])[n] = room[n]
       /\ Append(room, more[next])[all + 1 - new] = more[next]
  <2>1. Len(room) + 1 = all + 1 - new
    BY <1>1, <1>8, <1>9
  <2> QED BY <1>8, <1>9, <2>1, AppendProperties
<1>11. ASSUME NEW n \in 1 .. all + 1 - new
       PROVE  Append(room, more[next])[n] = more[Nth(Kept(more), new + n)]
  <2>1. CASE n \in 1 .. all - new
    <3>1. new + n \in 1 .. all
      BY <1>1, <1>9, <2>1
    <3> QED BY <1>6, <1>8, <1>10, <2>1, <3>1
  <2>2. CASE n = all + 1 - new
    <3>1. new + n = all + 1
      BY <1>1, <1>9, <2>2
    <3>2. Nth(Kept(more), new + n) = next
      BY <1>2, <3>1
    <3>3. Append(room, more[next])[n] = more[next]
      BY <1>10, <2>2
    <3> QED BY <3>2, <3>3
  <2>3. n \in 1 .. all - new \/ n = all + 1 - new
    BY <1>1, <1>9
  <2> QED BY <2>1, <2>2, <2>3
<1>12. Append(room, more[next]) =
          [n \in 1 .. all + 1 - new |-> Append(room, more[next])[n]]
  BY <1>10
<1>13. Append(room, more[next]) = now
  BY <1>4, <1>11, <1>12
<1> QED BY <1>13 DEF room, now

\* Record does to the history what one more entered line does to the lines
\* to be kept.
LEMMA Recorded ==
    ASSUME HistoryInv, NEW text \in Seq(Chars), history \in Histories,
           NEW h, h.lines = Record(history, text).lines
    PROVE  /\ Ranked(Kept(Append(entered, text)))
           /\ h.lines = RecentLines(Append(entered, text))
           /\ NewestHeld(Append(entered, text), h.lines)
<1> DEFINE n == Len(entered)
           more == Append(entered, text)
           typed == Typed(entered, n + 1)
           last == history.lines[Len(history.lines)]
<1>1. /\ entered \in Seq(Seq(Chars)) /\ n \in Nat
      /\ history.lines \in Seq(Seq(Chars))
      /\ history = [lines |-> history.lines, at |-> history.at,
                    pending |-> history.pending]
  BY DEF HistoryInv, Histories
<1>2. /\ Len(more) = n + 1 /\ more[n + 1] = text
      /\ \A i \in 1 .. n : more[i] = entered[i]
      /\ Kept(entered) \subseteq 1 .. n
      /\ Kept(more) = Kept(entered) \cup
            (IF text # <<>> /\ (typed # {} => entered[Max(typed)] # text)
             THEN {n + 1} ELSE {})
      /\ Typed(more, n + 2) = typed \cup (IF text # <<>> THEN {n + 1} ELSE {})
  <2>1. Len(more) = n + 1 /\ n + 2 = (n + 1) + 1
    BY <1>1
  <2> QED BY <1>1, <2>1, KeptAppend
<1>3. /\ typed \subseteq 0 .. n
      /\ typed # {} => Max(typed) \in 1 .. n
  <2>1. typed \subseteq 0 .. n /\ typed \subseteq 1 .. n
    BY <1>1 DEF Typed
  <2> HIDE DEF typed, n
  <2> QED BY <1>1, <2>1, MaxIsGreatest
<1>4. /\ Ranked(Kept(entered)) /\ history.lines = RecentLines(entered)
      /\ typed = {} => history.lines = <<>>
      /\ typed # {} => history.lines # <<>> /\ last = entered[Max(typed)]
  BY DEF HistoryInv, NewestHeld
<1>5. Typed(more, Len(more) + 1) = Typed(more, n + 2)
  <2>1. Len(more) + 1 = n + 2
    BY <1>1, <1>2
  <2> QED BY <2>1
<1> HIDE DEF n, more, typed, last
<1>6. CASE text = <<>>
  <2>1. h.lines = history.lines
    BY <1>6 DEF Record
  <2>2. Kept(more) = Kept(entered) /\ Typed(more, n + 2) = typed
    BY <1>2, <1>6
  <2>3. RecentLines(more) = RecentLines(entered)
    BY <1>2, <1>4, <2>2, SameRecent
  <2>4. typed # {} => more[Max(typed)] = entered[Max(typed)]
    BY <1>2, <1>3
  <2> QED BY <1>2, <1>4, <1>5, <2>1, <2>2, <2>3, <2>4 DEF last, NewestHeld, more
<1>7. ASSUME text # <<>>
      PROVE  more[Max(typed \cup {n + 1})] = text
  <2>1. typed \cup {n + 1} \subseteq 0 .. n + 1 /\ n + 1 \in Nat
    BY <1>1, <1>3
  <2>2. Max(typed \cup {n + 1}) \in typed \cup {n + 1}
        /\ Max(typed \cup {n + 1}) >= n + 1
    BY <2>1, MaxIsGreatest
  <2>3. Max(typed \cup {n + 1}) = n + 1
    BY <1>1, <2>1, <2>2
  <2> QED BY <1>2, <2>3
<1>8. CASE text # <<>> /\ typed # {} /\ entered[Max(typed)] = text
  <2>1. h.lines = history.lines
    BY <1>4, <1>8 DEF Record, last
  <2>2. Kept(more) = Kept(entered) /\ Typed(more, n + 2) = typed \cup {n + 1}
    BY <1>2, <1>8
  <2>3. RecentLines(more) = RecentLines(entered)
    BY <1>2, <1>4, <2>2, SameRecent
  <2> QED BY <1>4, <1>5, <1>7, <1>8, <2>1, <2>2, <2>3 DEF last, NewestHeld, more
<1>9. CASE text # <<>> /\ (typed # {} => entered[Max(typed)] # text)
  <2>1. ~(text = <<>> \/ (history.lines # <<>> /\ last = text))
    BY <1>4, <1>9
  <2>2. Record(history, text) = [history EXCEPT !.lines = Append(WithRoom(@), text)]
    BY <2>1 DEF Record, last
  <2>3. h.lines = Append(WithRoom(history.lines), text)
    BY <1>1, <2>2
  <2>4. Kept(more) = Kept(entered) \cup {n + 1}
        /\ Typed(more, n + 2) = typed \cup {n + 1}
    BY <1>2, <1>9
  <2>5. \A i \in Kept(entered) : i \in Nat /\ i < n + 1
    BY <1>1, <1>2
  <2>6. h.lines = RecentLines(more)
    <3>1. n + 1 \in Nat /\ Kept(entered) \in SUBSET Nat /\ more[n + 1] \in Seq(Chars)
          /\ \A i \in Kept(entered) : more[i] = entered[i]
      BY <1>1, <1>2, <2>5
    <3>2. Append(WithRoom(history.lines), more[n + 1]) = RecentLines(more)
      <4> PICK next \in Nat : next = n + 1
        BY <3>1
      <4>1. /\ Kept(more) = Kept(entered) \cup {next}
            /\ more[next] \in Seq(Chars)
            /\ \A i \in Kept(entered) : i < next
            /\ \A i \in Kept(entered) : more[i] = entered[i]
        BY <2>4, <2>5, <3>1
      <4>2. /\ entered \in Seq(Seq(Chars)) /\ Ranked(Kept(entered))
            /\ Kept(entered) \in SUBSET Nat
            /\ history.lines \in Seq(Seq(Chars))
            /\ history.lines = RecentLines(entered)
        BY <1>1, <1>4, <3>1
      <4> HIDE DEF more
      <4>3. Append(WithRoom(history.lines), more[next]) = RecentLines(more)
        BY <4>1, <4>2, OneMoreRecent
      <4> QED BY <4>3
    <3> QED BY <1>2, <2>3, <3>2
  <2>7. Ranked(Kept(more))
    <3>1. n + 1 \in Nat /\ Kept(entered) \in SUBSET Nat
      BY <1>1, <2>5
    <3>2. \A i \in Kept(entered) : i < n + 1
      BY <2>5
    <3>3. Ranked(Kept(entered) \cup {n + 1})
      BY <1>4, <3>1, <3>2, RankOfNext
    <3> QED BY <2>4, <3>3
  <2>8. h.lines # <<>> /\ h.lines[Len(h.lines)] = text
    <3>1. WithRoom(history.lines) \in Seq(Seq(Chars))
      <4>1. \/ Len(history.lines) < HistoryCapacity
            \/ history.lines # <<>>
        BY EditorAssumption DEF EditorAssumption
      <4>2. history.lines # <<>> => Tail(history.lines) \in Seq(Seq(Chars))
        BY <1>1, HeadTailProperties
      <4> QED BY <1>1, <4>1, <4>2 DEF WithRoom
    <3> DEFINE s == WithRoom(history.lines)
    <3> HIDE DEF s
    <3>2. /\ Append(s, text) # <<>>
          /\ Append(s, text)[Len(Append(s, text))] = text
      BY <3>1, AppendProperties DEF s
    <3> QED BY <2>3, <3>2 DEF s
  <2> QED BY <1>5, <1>7, <1>9, <2>4, <2>6, <2>7, <2>8 DEF NewestHeld, more
<1>10. CASE text # <<>> /\ ~(typed # {} => entered[Max(typed)] # text)
  BY <1>8, <1>10
<1> QED BY <1>6, <1>9, <1>10 DEF more

\* Only a line entered at the prompt changes what the history holds.
LEMMA HistoryStep == TextInv /\ HistoryInv /\ [Next]_vars => HistoryInv'
<1> SUFFICES ASSUME TextInv, HistoryInv, [Next]_vars PROVE HistoryInv'
  OBVIOUS
<1>1. history \in Histories /\ buffer.text \in Seq(Chars)
  BY DEF TextInv, TextTypes, Buffers
<1>2. ASSUME entered' = entered, history'.lines = history.lines
      PROVE  HistoryInv'
  BY <1>2 DEF HistoryInv, NewestHeld, Ranked
<1>3. ASSUME history' = ResetRecall(history) PROVE history'.lines = history.lines
  BY <1>3 DEF ResetRecall
<1>4. CASE EnterCommand
  <2>1. /\ history' = ResetRecall(Record(history, buffer.text))
        /\ entered' = Append(entered, buffer.text)
    BY <1>4 DEF EnterCommand
  <2>2. history'.lines = Record(history, buffer.text).lines
    BY <2>1 DEF ResetRecall
  <2>3. entered' \in Seq(Seq(Chars))
    BY <1>1, <2>1 DEF HistoryInv
  <2>4. PICK h : h = history'
    OBVIOUS
  <2>5. /\ Ranked(Kept(Append(entered, buffer.text)))
        /\ h.lines = RecentLines(Append(entered, buffer.text))
        /\ NewestHeld(Append(entered, buffer.text), h.lines)
    BY <1>1, <2>2, <2>4, Recorded
  <2> QED BY <2>1, <2>3, <2>4, <2>5 DEF HistoryInv
<1>5. CASE \E key \in {"Up", "Down"} : Recall(key)
  <2>1. PICK key \in {"Up", "Down"} : Recall(key)
    BY <1>5
  <2>2. history'.lines = history.lines /\ entered' = entered
    BY <2>1 DEF Recall, RecallPrev, RecallNext
  <2> QED BY <1>2, <2>2
<1>6. CASE ReadLine \/ StartPrompt
  BY <1>2, <1>3, <1>6 DEF ReadLine, StartPrompt, StartLine
<1>7. CASE ReadRest \/ EnterLine \/ PartialLine \/ EndOfFile
  BY <1>2, <1>7 DEF ReadRest, EnterLine, PartialLine, EndOfFile, FinishRead
<1>8. CASE ChangePrompt \/ Launch \/ ProgramEnds \/ Output \/ UNCHANGED vars
  BY <1>2, <1>8 DEF ChangePrompt, Launch, ProgramEnds, Output, vars
<1>9. CASE \E key \in Chars \cup CutKeys : Edit(key)
  BY <1>2, <1>9 DEF Edit
<1>10. CASE \E key \in CursorKeys : Move(key)
  BY <1>2, <1>10 DEF Move
<1> QED BY <1>4, <1>5, <1>6, <1>7, <1>8, <1>9, <1>10 DEF Next

\* It holds with what is known of the text.
LEMMA HistoryInvariant == Spec => [](TextInv /\ HistoryInv)
<1> QED BY TextInvInit, TextInvNext, HistoryInit, HistoryStep, PTL DEF Spec

\* The history holds the last HistoryCapacity lines entered at the prompt,
\* without the empty ones and the repetitions of the line before, whatever
\* was recalled, edited or read in between: Record keeps it so by comparing a
\* line with the newest one only and dropping the oldest one only.
THEOREM HistorySound == Spec => []HistoryIsRecent
<1>1. HistoryInv => HistoryIsRecent
  BY DEF HistoryInv, HistoryIsRecent
<1> QED BY <1>1, HistoryInvariant, PTL

(***************************************************************************)
(* The screen.  The numbers first: rows and columns of a line as quotients *)
(* and rests of a place in it.                                             *)
(***************************************************************************)

\* The console has columns and rows to divide by.
LEMMA ColsIsNat == Cols \in Nat /\ Cols >= 2 /\ Rows \in Nat /\ Rows >= 2
  BY ConsoleAssumption DEF ConsoleAssumption

\* Division by the columns.
LEMMA DivMod ==
    ASSUME NEW a \in Nat
    PROVE  /\ a \div Cols \in Nat
           /\ a % Cols \in 0 .. Cols - 1
           /\ a = Cols * (a \div Cols) + (a % Cols)
  BY ColsIsNat

\* Multiplying by them keeps the order,
LEMMA TimesOrder ==
    ASSUME NEW a \in Nat, NEW b \in Nat, a <= b
    PROVE  Cols * a <= Cols * b
  BY ColsIsNat

\* and so does dividing.
LEMMA DivOrder ==
    ASSUME NEW a \in Nat, NEW b \in Nat, a <= b
    PROVE  a \div Cols <= b \div Cols
<1> DEFINE p == a \div Cols
           q == b \div Cols
<1>1. /\ p \in Nat /\ q \in Nat
      /\ a >= Cols * p /\ b < Cols * q + Cols
  BY DivMod, ColsIsNat
<1>2. CASE p > q
  <2>1. Cols * (q + 1) <= Cols * p
    BY <1>1, <1>2, TimesOrder
  <2>2. Cols * (q + 1) = Cols * q + Cols
    BY <1>1, ColsIsNat
  <2> HIDE DEF p, q
  <2> QED BY <1>1, <2>1, <2>2, ColsIsNat
<1> QED BY <1>1, <1>2

\* A quotient and a rest are those of their sum.
LEMMA DivIs ==
    ASSUME NEW q \in Nat, NEW r \in 0 .. Cols - 1
    PROVE  (Cols * q + r) \div Cols = q /\ (Cols * q + r) % Cols = r
  BY ColsIsNat

(***************************************************************************)
(* How many rows a line takes and where its cursor is.                     *)
(***************************************************************************)
\* A line takes a row, and one more for every row it fills and goes beyond.
LEMMA RowsNeededIs ==
    ASSUME NEW p \in Nat, NEW text \in Seq(Chars)
    PROVE  /\ p + Len(text) = 0 => RowsNeeded(p, text) = 1
           /\ p + Len(text) > 0 =>
                /\ RowsNeeded(p, text) = (p + Len(text) - 1) \div Cols + 1
                /\ (p + Len(text) - 1) \div Cols \in Nat
           /\ RowsNeeded(p, text) \in Nat \ {0}
<1> DEFINE total == p + Len(text)
<1>1. total \in Nat /\ (total > 0 => total - 1 \in Nat)
  OBVIOUS
<1>2. RowsNeeded(p, text) = IF total = 0 THEN 1 ELSE (total - 1) \div Cols + 1
  BY DEF RowsNeeded
<1> HIDE DEF total
<1>3. total > 0 => (total - 1) \div Cols \in Nat
  BY <1>1, DivMod
<1> QED BY <1>1, <1>2, <1>3 DEF total

\* A longer line takes no fewer rows.
LEMMA RowsOrder ==
    ASSUME NEW p \in Nat, NEW short \in Seq(Chars), NEW long \in Seq(Chars),
           Len(short) <= Len(long)
    PROVE  RowsNeeded(p, short) <= RowsNeeded(p, long)
<1> DEFINE m == p + Len(short) - 1
           n == p + Len(long) - 1
<1>1. m \in Int /\ n \in Int /\ m <= n
  OBVIOUS
<1>2. RowsNeeded(p, long) \in Nat \ {0}
  BY RowsNeededIs
<1>3. CASE p + Len(short) = 0
  <2>1. RowsNeeded(p, short) = 1
    BY <1>3, RowsNeededIs
  <2> QED BY <1>2, <2>1
<1>4. CASE p + Len(short) > 0
  <2>1. m \in Nat /\ n \in Nat /\ p + Len(long) > 0
    BY <1>4
  <2>2. RowsNeeded(p, short) = m \div Cols + 1
    BY <1>4, RowsNeededIs
  <2>3. RowsNeeded(p, long) = n \div Cols + 1
    BY <2>1, RowsNeededIs
  <2> HIDE DEF m, n
  <2>4. m \div Cols <= n \div Cols /\ m \div Cols \in Nat /\ n \div Cols \in Nat
    BY <1>1, <2>1, DivOrder, DivMod
  <2> QED BY <2>2, <2>3, <2>4
<1> QED BY <1>3, <1>4

\* Before a place that does not begin a row, the row is the same.
LEMMA DivBefore ==
    ASSUME NEW a \in Nat \ {0}
    PROVE  (a - 1) \div Cols = IF a % Cols = 0 THEN a \div Cols - 1
                              ELSE a \div Cols
<1> DEFINE q == a \div Cols
           r == a % Cols
<1>1. q \in Nat /\ r \in 0 .. Cols - 1 /\ a = Cols * q + r
  BY DivMod
<1> HIDE DEF q, r
<1>2. CASE r = 0
  <2>1. q >= 1
    <3>1. CASE q = 0
      BY <1>1, <1>2, <3>1, ColsIsNat
    <3> QED BY <1>1, <3>1
  <2>2. q - 1 \in Nat /\ Cols - 1 \in 0 .. Cols - 1
    BY <1>1, <2>1, ColsIsNat
  <2>3. a - 1 = Cols * (q - 1) + (Cols - 1)
    BY <1>1, <1>2, ColsIsNat
  <2>4. (a - 1) \div Cols = q - 1
    BY <2>2, <2>3, DivIs
  <2> QED BY <1>2, <2>4 DEF q, r
<1>3. CASE r # 0
  <2>1. r - 1 \in 0 .. Cols - 1 /\ a - 1 = Cols * q + (r - 1)
    <3>1. Cols * q \in Nat
      BY <1>1, ColsIsNat
    <3> QED BY <1>1, <1>3, <3>1, ColsIsNat
  <2>2. (a - 1) \div Cols = q
    BY <1>1, <2>1, DivIs
  <2> QED BY <1>3, <2>2 DEF q, r
<1> QED BY <1>2, <1>3

\* The cursor is on one of the rows of its line; at the end, on the last.
LEMMA CursorPlace ==
    ASSUME NEW p \in Nat, NEW b \in Buffers
    PROVE  /\ CursorPosition(p, b)[1] \in 0 .. RowsNeeded(p, b.text) - 1
           /\ CursorPosition(p, b)[2] \in 0 .. Cols - 1
           /\ b.cursor = Len(b.text) =>
                CursorPosition(p, b)[1] = RowsNeeded(p, b.text) - 1
<1> DEFINE before == p + b.cursor
           total == p + Len(b.text)
           rows == RowsNeeded(p, b.text)
<1>1. /\ b.text \in Seq(Chars) /\ b.cursor \in Nat /\ b.cursor <= Len(b.text)
      /\ before \in Nat /\ total \in Nat /\ before <= total
      /\ before < total <=> b.cursor # Len(b.text)
  BY DEF Buffers
<1>2. /\ total = 0 => rows = 1
      /\ total > 0 => rows = (total - 1) \div Cols + 1 /\ (total - 1) \div Cols \in Nat
      /\ rows \in Nat \ {0}
  <2>1. b.text \in Seq(Chars)
    BY <1>1
  <2> DEFINE text == b.text
  <2> HIDE DEF text
  <2>2. /\ p + Len(text) = 0 => RowsNeeded(p, text) = 1
        /\ p + Len(text) > 0 =>
             /\ RowsNeeded(p, text) = (p + Len(text) - 1) \div Cols + 1
             /\ (p + Len(text) - 1) \div Cols \in Nat
        /\ RowsNeeded(p, text) \in Nat \ {0}
    BY <2>1, RowsNeededIs DEF text
  <2>3. rows = RowsNeeded(p, text) /\ total = p + Len(text)
    BY DEF text
  <2> HIDE DEF rows, total
  <2> QED BY <1>1, <2>2, <2>3
<1>3. CursorPosition(p, b) =
          IF before > 0 /\ before % Cols = 0 /\ b.cursor = Len(b.text)
          THEN <<before \div Cols - 1, Cols - 1>>
          ELSE <<before \div Cols, before % Cols>>
  BY DEF CursorPosition
<1> HIDE DEF before, total, rows
<1>4. before \div Cols \in Nat /\ before % Cols \in 0 .. Cols - 1
  BY <1>1, DivMod
<1>5. CASE before = 0
  <2>1. before \div Cols = 0
    BY <1>1, <1>4, <1>5, DivMod, ColsIsNat
  <2>2. CursorPosition(p, b) = <<0, before % Cols>>
    BY <1>1, <1>3, <1>5, <2>1
  <2> QED BY <1>1, <1>2, <1>4, <1>5, <2>2 DEF rows
<1>6. CASE before > 0 /\ before = total
  <2>1. (total - 1) \div Cols = IF before % Cols = 0 THEN before \div Cols - 1
                               ELSE before \div Cols
    <3>1. total \in Nat \ {0}
      BY <1>1, <1>6
    <3>2. (total - 1) \div Cols = IF total % Cols = 0 THEN total \div Cols - 1
                                 ELSE total \div Cols
      BY <3>1, DivBefore
    <3> QED BY <1>6, <3>2
  <2>2. CASE before % Cols = 0
    <3>1. CursorPosition(p, b) = <<before \div Cols - 1, Cols - 1>>
      BY <1>1, <1>3, <1>6, <2>2
    <3> QED BY <1>1, <1>2, <1>4, <1>6, <2>1, <2>2, <3>1, ColsIsNat DEF rows
  <2>3. CASE before % Cols # 0
    <3>1. CursorPosition(p, b) = <<before \div Cols, before % Cols>>
      BY <1>3, <2>3
    <3> QED BY <1>1, <1>2, <1>4, <1>6, <2>1, <2>3, <3>1 DEF rows
  <2> QED BY <2>2, <2>3
<1>7. CASE before > 0 /\ before < total
  <2>1. CursorPosition(p, b) = <<before \div Cols, before % Cols>>
    BY <1>1, <1>3, <1>7
  <2>2. total - 1 \in Nat /\ before <= total - 1
    BY <1>1, <1>7
  <2>3. before \div Cols <= (total - 1) \div Cols
    BY <1>1, <2>2, DivOrder
  <2>4. before \div Cols <= rows - 1
    BY <1>1, <1>2, <1>4, <1>7, <2>3
  <2> QED BY <1>1, <1>2, <1>4, <1>7, <2>1, <2>4 DEF rows
<1> QED BY <1>1, <1>5, <1>6, <1>7

(***************************************************************************)
(* Drawing keeps to the screen.                                            *)
(***************************************************************************)
\* Scrolling moves what is drawn and not the cursor.
LEMMA ScrolledUp ==
    ASSUME NEW s \in Screens, NEW n \in Nat
    PROVE  /\ ScrollUp(s, n) \in Screens
           /\ ScrollUp(s, n).row = s.row /\ ScrollUp(s, n).col = s.col
           /\ ScrollUp(s, n).wrap = s.wrap
           /\ s.inverted = {} => ScrollUp(s, n).inverted = {}
           /\ s.ink = {} => ScrollUp(s, n).ink = {}
<1> DEFINE inv == {<<c[1] - n, c[2]>> : c \in {d \in s.inverted : d[1] >= n}}
           ink == {r - n : r \in {q \in s.ink : q >= n}}
<1>1. /\ s.inverted \subseteq Cells /\ s.ink \subseteq 0 .. Rows - 1
      /\ s = [row |-> s.row, col |-> s.col, wrap |-> s.wrap,
              inverted |-> s.inverted, ink |-> s.ink]
      /\ s.row \in 0 .. Rows - 1 /\ s.col \in 0 .. Cols - 1 /\ s.wrap \in BOOLEAN
  BY DEF Screens
<1>2. inv \subseteq Cells
  <2> SUFFICES ASSUME NEW c \in s.inverted, c[1] >= n
               PROVE  <<c[1] - n, c[2]>> \in Cells
    OBVIOUS
  <2>1. c \in Cells
    BY <1>1
  <2>2. c[1] \in 0 .. Rows - 1 /\ c[2] \in 0 .. Cols - 1
    BY <2>1 DEF Cells
  <2>3. c[1] - n \in 0 .. Rows - 1
    BY <2>2, ColsIsNat
  <2> QED BY <2>2, <2>3 DEF Cells
<1>3. ink \subseteq 0 .. Rows - 1
  <2> SUFFICES ASSUME NEW r \in s.ink, r >= n PROVE r - n \in 0 .. Rows - 1
    OBVIOUS
  <2>1. r \in 0 .. Rows - 1
    BY <1>1
  <2> QED BY <2>1, ColsIsNat
<1>4. ScrollUp(s, n) = [row |-> s.row, col |-> s.col, wrap |-> s.wrap,
                        inverted |-> inv, ink |-> ink]
  <2>1. ScrollUp(s, n) = [s EXCEPT !.inverted = inv, !.ink = ink]
    BY DEF ScrollUp
  <2> HIDE DEF inv, ink
  <2> QED BY <2>1 DEF Screens
<1>5. (s.inverted = {} => inv = {}) /\ (s.ink = {} => ink = {})
  OBVIOUS
<1> HIDE DEF inv, ink
<1> QED BY <1>1, <1>2, <1>3, <1>4, <1>5 DEF Screens

\* Moving the cursor draws nothing.
LEMMA MovedCursor ==
    ASSUME NEW s \in Screens, NEW r \in 0 .. Rows - 1, NEW c \in 0 .. Cols - 1
    PROVE  /\ MoveCursor(s, r, c) \in Screens
           /\ MoveCursor(s, r, c).row = r /\ MoveCursor(s, r, c).col = c
           /\ MoveCursor(s, r, c).inverted = s.inverted
           /\ MoveCursor(s, r, c).ink = s.ink
<1>1. /\ s.inverted \in SUBSET Cells /\ s.ink \in SUBSET (0 .. Rows - 1)
      /\ s = [row |-> s.row, col |-> s.col, wrap |-> s.wrap,
              inverted |-> s.inverted, ink |-> s.ink]
  BY DEF Screens
<1>2. MoveCursor(s, r, c) = [row |-> r, col |-> c, wrap |-> FALSE,
                             inverted |-> s.inverted, ink |-> s.ink]
  <2>1. PICK w \in BOOLEAN : w = FALSE
    OBVIOUS
  <2>2. PICK t : t = [s EXCEPT !.row = r, !.col = c, !.wrap = w]
    OBVIOUS
  <2>3. MoveCursor(s, r, c) = t
    BY <2>1, <2>2, Zenon DEF MoveCursor
  <2>4. t = [row |-> r, col |-> c, wrap |-> w, inverted |-> s.inverted, ink |-> s.ink]
    BY <2>2 DEF Screens
  <2> QED BY <2>1, <2>3, <2>4, Zenon
<1> QED BY <1>1, <1>2 DEF Screens

\* A line feed draws nothing either; what it scrolls away is gone.
LEMMA FedLine ==
    ASSUME NEW s \in Screens
    PROVE  /\ LineFeed(s) \in Screens
           /\ s.inverted = {} => LineFeed(s).inverted = {}
           /\ LineFeed(s).row \in 0 .. Rows - 1
<1>1. s.row \in 0 .. Rows - 1 /\ 0 \in 0 .. Cols - 1 /\ 1 \in Nat
  BY ColsIsNat DEF Screens
<1>2. CASE s.row >= Rows - 1
  <2>1. LineFeed(s) = MoveCursor(ScrollUp(s, 1), s.row, 0)
    BY <1>2 DEF LineFeed
  <2>2. ScrollUp(s, 1) \in Screens /\ (s.inverted = {} => ScrollUp(s, 1).inverted = {})
    BY <1>1, ScrolledUp
  <2>4. PICK up \in Screens : up = ScrollUp(s, 1)
    BY <2>2
  <2>3. /\ MoveCursor(up, s.row, 0) \in Screens
        /\ MoveCursor(up, s.row, 0).row = s.row
        /\ MoveCursor(up, s.row, 0).inverted = up.inverted
    BY <1>1, MovedCursor
  <2> QED BY <1>1, <2>1, <2>2, <2>3, <2>4
<1>3. CASE s.row < Rows - 1
  <2>1. LineFeed(s) = MoveCursor(s, s.row + 1, 0)
    BY <1>1, <1>3, ColsIsNat DEF LineFeed
  <2>2. s.row + 1 \in 0 .. Rows - 1
    BY <1>1, <1>3, ColsIsNat
  <2>3. /\ MoveCursor(s, s.row + 1, 0) \in Screens
        /\ MoveCursor(s, s.row + 1, 0).row = s.row + 1
        /\ MoveCursor(s, s.row + 1, 0).inverted = s.inverted
    <3>1. PICK r \in 0 .. Rows - 1 : r = s.row + 1
      BY <2>2
    <3>2. /\ MoveCursor(s, r, 0) \in Screens
          /\ MoveCursor(s, r, 0).row = r
          /\ MoveCursor(s, r, 0).inverted = s.inverted
      BY <1>1, MovedCursor
    <3> QED BY <3>1, <3>2
  <2> QED BY <2>1, <2>2, <2>3
<1> QED BY <1>1, <1>2, <1>3, ColsIsNat

\* Where n glyphs written from the cursor end, counting rows without end, and
\* how far that scrolls the screen.
LastCell(s, n) == s.row * Cols + s.col + (IF s.wrap THEN 1 ELSE 0) + n
Excess(q) == IF q > Rows - 1 THEN q - (Rows - 1) ELSE 0

\* From the start of a row, n glyphs end n cells further.
LEMMA CellMovedTo ==
    ASSUME NEW s \in Screens, NEW r \in 0 .. Rows - 1, NEW n \in Nat
    PROVE  LastCell(MoveCursor(s, r, 0), n) = r * Cols + n
<1>1. PICK t : t = [s EXCEPT !.row = r, !.col = 0, !.wrap = FALSE]
  OBVIOUS
<1>2. t.row = r /\ t.col = 0 /\ t.wrap = FALSE
  BY <1>1 DEF Screens
<1>3. LastCell(t, n) = r * Cols + n
  BY <1>2, ColsIsNat DEF LastCell
<1>4. MoveCursor(s, r, 0) = t
  BY <1>1, Zenon DEF MoveCursor
<1> QED BY <1>3, <1>4

\* What is written ends on the last row it reaches, less what it scrolled.
LEMMA Written ==
    ASSUME NEW s \in Screens, NEW n \in Nat \ {0}
    PROVE  LET last == (LastCell(s, n) - 1) \div Cols
           IN  /\ Write(s, n) \in Screens
               /\ last \in Nat
               /\ Write(s, n).row = last - Excess(last)
               /\ s.inverted = {} => Write(s, n).inverted = {}
               /\ s.ink = {} => Write(s, n).ink = {}
<1> DEFINE end == LastCell(s, n)
           last == (end - 1) \div Cols
           up == ScrollUp(s, Excess(last))
           full == end % Cols = 0
           gone == {<<p \div Cols - Excess(last), p % Cols>> :
                       p \in (end - n) .. end - 1}
           col == IF full THEN Cols - 1 ELSE end % Cols
<1>1. end \in Nat /\ end - 1 \in Nat
  <2>1. s.row \in Nat /\ s.col \in Nat
    BY ColsIsNat DEF Screens
  <2>2. s.row * Cols \in Nat
    BY <2>1, ColsIsNat
  <2> QED BY <2>1, <2>2 DEF LastCell
<1>2. last \in Nat /\ end % Cols \in 0 .. Cols - 1
  <2> HIDE DEF end
  <2> QED BY <1>1, DivMod
<1>3. Excess(last) = Max({0, last - (Rows - 1)}) /\ Excess(last) \in Nat
      /\ last - Excess(last) \in 0 .. Rows - 1
  <2> HIDE DEF last
  <2>1. last - (Rows - 1) \in Int /\ Rows - 1 \in Nat
    BY <1>2, ColsIsNat
  <2>2. Max({0, last - (Rows - 1)}) = IF 0 >= last - (Rows - 1) THEN 0
                                      ELSE last - (Rows - 1)
    BY <2>1, MaxOfTwo
  <2> QED BY <1>2, <2>1, <2>2, ColsIsNat DEF Excess
<1>4. /\ up \in Screens
      /\ s.inverted = {} => up.inverted = {}
      /\ s.ink = {} => up.ink = {}
  <2> HIDE DEF last
  <2> QED BY <1>3, ScrolledUp
<1>5. col \in 0 .. Cols - 1
  BY <1>2, ColsIsNat
<1>6. Write(s, n) = [up EXCEPT !.row = last - Excess(last), !.col = col,
                               !.wrap = full, !.inverted = @ \ gone]
  <2>1. s.row * Cols + s.col + (IF s.wrap THEN 1 ELSE 0) = end - n
    <3>1. s.row * Cols + s.col + (IF s.wrap THEN 1 ELSE 0) \in Nat
      <4>1. s.row \in Nat /\ s.col \in Nat
        BY ColsIsNat DEF Screens
      <4>2. s.row * Cols \in Nat
        BY <4>1, ColsIsNat
      <4> QED BY <4>1, <4>2
    <3> QED BY <3>1 DEF LastCell
  <2> QED BY <1>3, <2>1 DEF Write, LastCell
<1> HIDE DEF end, last, up, full, gone, col
<1>7. Write(s, n) = [row |-> last - Excess(last), col |-> col, wrap |-> full,
                     inverted |-> up.inverted \ gone, ink |-> up.ink]
  BY <1>4, <1>6 DEF Screens
<1>8. full \in BOOLEAN
  BY DEF full
<1>9. Write(s, n) \in Screens
  BY <1>3, <1>4, <1>5, <1>7, <1>8 DEF Screens
<1> QED BY <1>2, <1>4, <1>7, <1>9 DEF last, end

\* Clearing rows, and making a cell plain or inverted.
LEMMA ClearedScreen ==
    ASSUME NEW s \in Screens, NEW rows
    PROVE  /\ ClearRows(s, rows) \in Screens
           /\ ClearRows(s, rows).inverted = {c \in s.inverted : c[1] \notin rows}
           /\ ClearRows(s, rows).ink = s.ink \ rows
<1> DEFINE inv == {c \in s.inverted : c[1] \notin rows}
           ink == s.ink \ rows
<1>1. /\ s.inverted \in SUBSET Cells /\ s.ink \in SUBSET (0 .. Rows - 1)
      /\ inv \in SUBSET s.inverted /\ ink \in SUBSET s.ink
  BY DEF Screens
<1>2. PICK t : t = [s EXCEPT !.inverted = inv, !.ink = ink]
  OBVIOUS
<1>3. ClearRows(s, rows) = t
  BY <1>2 DEF ClearRows
<1> HIDE DEF inv, ink
<1>4. t = [row |-> s.row, col |-> s.col, wrap |-> s.wrap, inverted |-> inv, ink |-> ink]
  BY <1>2 DEF Screens
<1>5. t \in Screens /\ t.inverted = inv /\ t.ink = ink
  BY <1>1, <1>4 DEF Screens
<1> QED BY <1>3, <1>5 DEF inv, ink

\* Only what is inverted is changed,
LEMMA InvertedAs ==
    ASSUME NEW s \in Screens, NEW cells \in SUBSET Cells
    PROVE  /\ [s EXCEPT !.inverted = cells] \in Screens
           /\ [s EXCEPT !.inverted = cells].inverted = cells
           /\ [s EXCEPT !.inverted = cells].ink = s.ink
           /\ [s EXCEPT !.inverted = cells].row = s.row
  BY DEF Screens

\* or only which rows show the line.
LEMMA InkAs ==
    ASSUME NEW s \in Screens, NEW rows \in SUBSET (0 .. Rows - 1)
    PROVE  /\ [s EXCEPT !.ink = rows] \in Screens
           /\ [s EXCEPT !.ink = rows].inverted = s.inverted
           /\ [s EXCEPT !.ink = rows].ink = rows
           /\ [s EXCEPT !.ink = rows].row = s.row
           /\ [s EXCEPT !.ink = rows].col = s.col
  BY DEF Screens

\* Whole rows before a place move its row.
LEMMA DivAdd ==
    ASSUME NEW r \in Nat, NEW m \in Nat
    PROVE  (r * Cols + m) \div Cols = r + m \div Cols
<1> DEFINE q == m \div Cols
           t == m % Cols
<1>1. q \in Nat /\ t \in 0 .. Cols - 1 /\ m = Cols * q + t
  BY DivMod
<1> HIDE DEF q, t
<1>2. r + q \in Nat /\ r * Cols + m = Cols * (r + q) + t
  BY <1>1, ColsIsNat
<1>3. (Cols * (r + q) + t) \div Cols = r + q
  BY <1>1, <1>2, DivIs
<1> QED BY <1>2, <1>3 DEF q

\* The line written from the start of row first ends on the last of the rows
\* it needs, or on the screen's last if that is further up.
LEMMA WrittenAs ==
    ASSUME NEW s \in Screens, NEW first \in 0 .. Rows - 1,
           NEW p \in Nat, NEW text \in Seq(Chars), NEW w,
           w = Write(MoveCursor(s, first, 0), p + Len(text)),
           NEW last, last = first + RowsNeeded(p, text) - 1
    PROVE  /\ w \in Screens
           /\ w.row = last - Excess(last)
           /\ s.inverted = {} => w.inverted = {}
           /\ s.ink = {} => w.ink = {}
<1> DEFINE total == p + Len(text)
<1>6. 0 \in 0 .. Cols - 1
  BY ColsIsNat
<1>1. PICK m \in Screens : m = MoveCursor(s, first, 0)
  BY <1>6, MovedCursor
<1>2. m.row = first /\ m.inverted = s.inverted /\ m.ink = s.ink
  BY <1>1, <1>6, MovedCursor
<1>3. total \in Nat /\ first \in Nat /\ first <= Rows - 1
  BY ColsIsNat
<1>4. CASE total = 0
  <2>1. w = m
    BY <1>1, <1>4 DEF Write
  <2>2. last = first
    BY <1>3, <1>4, RowsNeededIs
  <2>3. Excess(first) = 0
    BY <1>3, ColsIsNat DEF Excess
  <2> QED BY <1>2, <1>3, <2>1, <2>2, <2>3
<1>5. CASE total > 0
  <2>1. total - 1 \in Nat /\ total \in Nat \ {0}
    BY <1>3, <1>5
  <2>2. LastCell(m, total) = first * Cols + total
    BY <1>1, <1>3, CellMovedTo
  <2>3. (first * Cols + (total - 1)) \div Cols = first + (total - 1) \div Cols
    BY <1>3, <2>1, DivAdd
  <2>4. first * Cols \in Nat
    BY <1>3, ColsIsNat
  <2>5. (LastCell(m, total) - 1) \div Cols = first + (total - 1) \div Cols
    <3>1. LastCell(m, total) - 1 = first * Cols + (total - 1)
      BY <1>3, <2>2, <2>4
    <3> QED BY <2>3, <3>1
  <2>6. RowsNeeded(p, text) = (total - 1) \div Cols + 1 /\ (total - 1) \div Cols \in Nat
    BY <1>5, RowsNeededIs
  <2>7. last = first + (total - 1) \div Cols
    <3> DEFINE n == (total - 1) \div Cols
    <3> HIDE DEF n
    <3>1. RowsNeeded(p, text) = n + 1 /\ n \in Nat
      BY <2>6 DEF n
    <3>2. last = first + n
      BY <1>3, <3>1
    <3> QED BY <3>2 DEF n
  <2>8. (LastCell(m, total) - 1) \div Cols = last
    BY <2>5, <2>7
  <2>9. w = Write(m, total)
    BY <1>1
  <2> HIDE DEF total
  <2>10. /\ Write(m, total) \in Screens
         /\ Write(m, total).row = last - Excess(last)
         /\ m.inverted = {} => Write(m, total).inverted = {}
         /\ m.ink = {} => Write(m, total).ink = {}
    BY <2>1, <2>8, Written
  <2> QED BY <1>2, <2>9, <2>10
<1> QED BY <1>3, <1>4, <1>5

\* The same said of the screen itself.
LEMMA WrittenLine ==
    ASSUME NEW s \in Screens, NEW first \in 0 .. Rows - 1,
           NEW p \in Nat, NEW text \in Seq(Chars)
    PROVE  /\ Write(MoveCursor(s, first, 0), p + Len(text)) \in Screens
           /\ Write(MoveCursor(s, first, 0), p + Len(text)).row =
                  (first + RowsNeeded(p, text) - 1)
                      - Excess(first + RowsNeeded(p, text) - 1)
           /\ s.inverted = {} =>
                  Write(MoveCursor(s, first, 0), p + Len(text)).inverted = {}
           /\ s.ink = {} =>
                  Write(MoveCursor(s, first, 0), p + Len(text)).ink = {}
  BY WrittenAs

(***************************************************************************)
(* redraw: whatever the line was before, it is on the rows it needs, with  *)
(* the one cursor cell, and if it leaves a row free it is all in view.     *)
(***************************************************************************)
LEMMA Redrawn ==
    ASSUME NEW s \in Screens, NEW first \in Int, first <= Rows - 1,
           NEW old \in Nat, NEW p \in Nat, NEW b \in Buffers,
           Redraw(s, first, old, p, b),
           FitsOnScreen(p, b.text) \/ b.cursor = Len(b.text),
           \A r \in s.ink : first <= r /\ r < first + old
    PROVE  /\ screen' \in Screens
           /\ height' = RowsNeeded(p, b.text) /\ height' \in Nat \ {0}
           /\ row' \in Int /\ row' = screen'.row + 1 - height'
           /\ outgrown' = (outgrown \/ height' >= Rows)
           /\ height' < Rows => row' >= 0 /\ screen'.ink = row' .. row' + height' - 1
           /\ \A r \in screen'.ink : row' <= r /\ r < row' + height'
           /\ (\A c \in s.inverted : first <= c[1] /\ c[1] < first + old) =>
                screen'.inverted = {CursorCell(row', p, b)}
<1> DEFINE needed == RowsNeeded(p, b.text)
           rows == ClearedRows(first, old, needed)
           cell(t) == CursorCell(t, p, b)
           lines(t) == {r \in 0 .. Rows - 1 : t <= r /\ r < t + needed}
<1>1. /\ b.text \in Seq(Chars) /\ needed \in Nat \ {0}
      /\ first \in 0 .. Rows - 1
  BY RowsNeededIs, ColsIsNat DEF Buffers, Redraw
<1>2. PICK cleared \in Screens : cleared = ClearRows(s, rows)
  BY ClearedScreen
<1>3. /\ cleared.inverted = {c \in s.inverted : c[1] \notin rows}
      /\ cleared.ink = s.ink \ rows
  BY <1>2, ClearedScreen
<1>4. \A r \in 0 .. Rows - 1 : (first <= r /\ r < first + old) => r \in rows
  <2>1. Max({old, needed}) = IF old >= needed THEN old ELSE needed
    <3>1. old \in Int /\ needed \in Int
      BY <1>1
    <3> HIDE DEF needed
    <3> QED BY <3>1, MaxOfTwo
  <2> HIDE DEF needed
  <2> QED BY <1>1, <2>1, ColsIsNat DEF ClearedRows
<1>5. cleared.ink = {}
  <2>1. s.ink \subseteq 0 .. Rows - 1
    BY DEF Screens
  <2> QED BY <1>3, <1>4, <2>1
<1>6. (\A c \in s.inverted : first <= c[1] /\ c[1] < first + old) => cleared.inverted = {}
  <2>1. \A c \in s.inverted : c[1] \in 0 .. Rows - 1
    BY DEF Screens, Cells
  <2> QED BY <1>3, <1>4, <2>1
<1>7. PICK w : w = Write(MoveCursor(cleared, first, 0), p + Len(b.text))
  OBVIOUS
<1> DEFINE last == first + needed - 1
           top == w.row + 1 - needed
<1>8. /\ w \in Screens /\ w.row = last - Excess(last)
      /\ cleared.inverted = {} => w.inverted = {}
      /\ w.ink = {}
  <2>1. PICK text \in Seq(Chars) : text = b.text
    BY <1>1
  <2>2. PICK l : l = first + RowsNeeded(p, text) - 1
    OBVIOUS
  <2>3. w = Write(MoveCursor(cleared, first, 0), p + Len(text))
    BY <1>7, <2>1
  <2>4. /\ w \in Screens
        /\ w.row = l - Excess(l)
        /\ cleared.inverted = {} => w.inverted = {}
        /\ cleared.ink = {} => w.ink = {}
    <3>1. /\ w \in Screens
          /\ w.row = (first + RowsNeeded(p, text) - 1)
                         - Excess(first + RowsNeeded(p, text) - 1)
          /\ cleared.inverted = {} => w.inverted = {}
          /\ cleared.ink = {} => w.ink = {}
      <4> DEFINE mm == Write(MoveCursor(cleared, first, 0), p + Len(text))
      <4>1. /\ mm \in Screens
            /\ mm.row = (first + RowsNeeded(p, text) - 1)
                         - Excess(first + RowsNeeded(p, text) - 1)
            /\ cleared.inverted = {} => mm.inverted = {}
            /\ cleared.ink = {} => mm.ink = {}
        <5>1. cleared \in Screens
          BY <1>2
        <5>2. first \in 0 .. Rows - 1
          BY <1>1
        <5>3. text \in Seq(Chars)
          BY <2>1
        <5>4. p \in Nat
          OBVIOUS
        <5>5. mm \in Screens
          BY <5>1, <5>2, <5>3, <5>4, WrittenLine
        <5>6. mm.row = (first + RowsNeeded(p, text) - 1)
                         - Excess(first + RowsNeeded(p, text) - 1)
          BY <5>1, <5>2, <5>3, <5>4, WrittenLine
        <5>7. cleared.inverted = {} => mm.inverted = {}
          BY <5>1, <5>2, <5>3, <5>4, WrittenLine
        <5>8. cleared.ink = {} => mm.ink = {}
          BY <5>1, <5>2, <5>3, <5>4, WrittenLine
        <5> QED BY <5>5, <5>6, <5>7, <5>8
      <4>2. w = mm
        BY <2>3
      <4> HIDE DEF mm
      <4> QED BY <4>1, <4>2
    <3> QED BY <2>2, <3>1, Zenon
  <2>5. l = last
    BY <2>1, <2>2
  <2> QED BY <1>5, <2>4, <2>5
<1>9. /\ screen' = [Inverted(w, cell(top)) EXCEPT !.ink = @ \cup lines(top)]
      /\ row' = top /\ height' = needed
      /\ outgrown' = (outgrown \/ needed >= Rows)
  BY <1>2, <1>7 DEF Redraw
<1> HIDE DEF rows, cell
<1>10. /\ w.row \in 0 .. Rows - 1 /\ top \in Int /\ w.row = top + needed - 1
       /\ needed < Rows => top >= 0
  <2>1. w.row \in 0 .. Rows - 1
    BY <1>8 DEF Screens
  <2> HIDE DEF needed
  <2>2. last \in Nat
    BY <1>1
  <2>3. PICK l \in Nat : l = last
    BY <2>2
  <2>4. w.row = l - Excess(l)
    BY <1>8, <2>3
  <2>5. CASE l > Rows - 1
    <3>1. Excess(l) = l - (Rows - 1)
      BY <2>5 DEF Excess
    <3>2. w.row = Rows - 1
      BY <2>3, <2>4, <3>1, ColsIsNat
    <3> QED BY <1>1, <2>1, <3>2, ColsIsNat
  <2>6. CASE l <= Rows - 1
    <3>1. Excess(l) = 0
      BY <2>3, <2>6, ColsIsNat DEF Excess
    <3>2. w.row = first + needed - 1
      BY <1>1, <2>3, <2>4, <3>1, ColsIsNat
    <3> QED BY <1>1, <2>1, <3>2, ColsIsNat
  <2> QED BY <2>3, <2>5, <2>6, ColsIsNat
<1>11. cell(top) \in Cells
  <2>1. /\ CursorPosition(p, b)[1] \in 0 .. needed - 1
        /\ CursorPosition(p, b)[2] \in 0 .. Cols - 1
        /\ b.cursor = Len(b.text) => CursorPosition(p, b)[1] = needed - 1
    BY CursorPlace
  <2>2. needed < Rows \/ b.cursor = Len(b.text)
    BY DEF FitsOnScreen
  <2> HIDE DEF needed, top
  <2>3. top + CursorPosition(p, b)[1] \in 0 .. Rows - 1
    BY <1>1, <1>10, <2>1, <2>2, ColsIsNat
  <2> QED BY <2>1, <2>3 DEF Cells, cell, CursorCell
<1>12. PICK v : v = [w EXCEPT !.inverted = w.inverted \cup {cell(top)}]
  OBVIOUS
<1>13. Inverted(w, cell(top)) = v
  BY <1>12 DEF Inverted
<1>14. /\ v \in Screens /\ v.inverted = w.inverted \cup {cell(top)}
       /\ v.ink = {} /\ v.row = w.row
  <2>1. w.inverted \cup {cell(top)} \in SUBSET Cells
    BY <1>8, <1>11 DEF Screens
  <2> QED BY <1>8, <1>12, <2>1, InvertedAs
<1>15. lines(top) \in SUBSET (0 .. Rows - 1)
  OBVIOUS
<1>16. screen' = [v EXCEPT !.ink = lines(top)]
  <2>1. screen' = [v EXCEPT !.ink = v.ink \cup lines(top)]
    BY <1>9, <1>13
  <2>2. v.ink \cup lines(top) = lines(top)
    BY <1>14
  <2> QED BY <2>1, <2>2
<1>17. /\ screen' \in Screens /\ screen'.inverted = v.inverted
       /\ screen'.ink = lines(top) /\ screen'.row = v.row
  <2> HIDE DEF lines, top
  <2> QED BY <1>14, <1>15, <1>16, InkAs
<1>18. needed < Rows => lines(top) = top .. top + needed - 1
  <2> HIDE DEF needed, top
  <2> QED BY <1>1, <1>10, ColsIsNat
<1>23. \A r \in lines(top) : top <= r /\ r < top + needed
  OBVIOUS
<1> HIDE DEF lines
<1>19. screen' \in Screens /\ height' = needed /\ needed \in Nat \ {0}
  BY <1>1, <1>9, <1>17
<1>20. row' \in Int /\ row' = screen'.row + 1 - height'
  BY <1>9, <1>10, <1>14, <1>17
<1>21. height' < Rows => row' >= 0 /\ screen'.ink = row' .. row' + height' - 1
  BY <1>9, <1>10, <1>17, <1>18
<1>22. (\A c \in s.inverted : first <= c[1] /\ c[1] < first + old) =>
          screen'.inverted = {CursorCell(row', p, b)}
  BY <1>6, <1>8, <1>9, <1>14, <1>17 DEF cell
<1>24. \A r \in screen'.ink : row' <= r /\ r < row' + height'
  BY <1>9, <1>17, <1>23
<1> QED BY <1>9, <1>19, <1>20, <1>21, <1>22, <1>24

(***************************************************************************)
(* The invariant of the screen.  Where the first row of the line is follows *)
(* from where its last one is; a line fits if it, the line of the history  *)
(* it can be replaced with and the pending one do.                         *)
(***************************************************************************)
\* What is drawn, as far as it takes part in an argument about the text.
ScreenTypes ==
    /\ prefix \in Prompts \cup {0} /\ prompt \in Prompts
    /\ row \in Int /\ height \in Nat \ {0} /\ screen \in Screens
    /\ draft \in Seq(Chars) /\ outgrown \in BOOLEAN
    /\ mode \in {"Prompt", "Canonical"}

\* Wherever the line is, even if its first row is above the screen, the
\* console's cursor is on its last row and no other row shows it.
Drawn ==
    Waiting => /\ row = screen.row + 1 - height
               /\ \A r \in screen.ink : row <= r /\ r < row + height

\* The line that comes back from below the history fits as well.
Fitting ==
    /\ LineFits /\ LineInPlace
    /\ Waiting /\ history.at # 0 => RowsNeeded(prefix, history.pending) <= Rows - 1

ScreenInv ==
    /\ ScreenTypes /\ Drawn
    /\ RecallsFit => Fitting
    /\ ~outgrown => Fitting /\ OneCursorCell

\* A prefix has a width.
LEMMA WidthIsNat ==
    ASSUME NEW p \in Prompts \cup {0}
    PROVE  p \in Nat
<1>1. Prompts \subseteq Nat
  BY Zenon, ConsoleAssumption DEF ConsoleAssumption
<1>2. 0 \in Nat
  OBVIOUS
<1> QED BY <1>1, <1>2

\* Nothing is drawn at first.
LEMMA ScreenInit == Init => ScreenInv
<1> SUFFICES ASSUME Init PROVE ScreenInv
  OBVIOUS
<1>1. /\ ~Waiting /\ mode = "Prompt" /\ prefix = 0 /\ row = 0 /\ height = 1 /\ draft = <<>>
      /\ prompt \in Prompts
  BY DEF Init, Waiting
<1>2. screen \in Screens /\ screen.inverted = {}
  <2>1. /\ 0 \in 0 .. Rows - 1 /\ 0 \in 0 .. Cols - 1
        /\ {} \in SUBSET Cells /\ {} \in SUBSET (0 .. Rows - 1)
    BY ColsIsNat
  <2>2. PICK w \in BOOLEAN : w = FALSE
    OBVIOUS
  <2>3. screen = [row |-> 0, col |-> 0, wrap |-> w, inverted |-> {}, ink |-> {}]
    BY <2>2, Zenon DEF Init
  <2> QED BY <2>1, <2>3 DEF Screens
<1>3. outgrown \in BOOLEAN
  BY Zenon DEF Init
<1>4. ScreenTypes
  <2>1. 0 \in Int /\ 1 \in Nat \ {0} /\ <<>> \in Seq(Chars)
    OBVIOUS
  <2> QED BY <1>1, <1>2, <1>3, <2>1, Zenon DEF ScreenTypes
<1> QED BY <1>1, <1>2, <1>4 DEF ScreenInv, Drawn, Fitting, LineFits,
                                LineInPlace, OneCursorCell

\* The line is redrawn: it is where the line discipline thinks it is, if it
\* fits and whatever else recalling could bring back fits.
LEMMA RedrawnInv ==
    ASSUME NEW s \in Screens, NEW first \in Int, first <= Rows - 1,
           NEW old \in Nat, NEW p \in Prompts \cup {0}, NEW b \in Buffers,
           Redraw(s, first, old, p, b),
           FitsOnScreen(p, b.text) \/ b.cursor = Len(b.text),
           \A r \in s.ink : first <= r /\ r < first + old,
           prefix' = p, buffer' = b, Waiting', prompt' \in Prompts,
           mode' \in {"Prompt", "Canonical"},
           draft' \in Seq(Chars), outgrown \in BOOLEAN,
           (RecallsFit' \/ ~outgrown') /\ history'.at # 0 =>
               RowsNeeded(p, history'.pending) <= Rows - 1,
           RecallsFit' => RowsNeeded(p, b.text) <= Rows - 1,
           ~outgrown =>
               \A c \in s.inverted : first <= c[1] /\ c[1] < first + old
    PROVE  ScreenInv'
<1>1. p \in Nat
  BY WidthIsNat
<1>2. /\ screen' \in Screens
      /\ height' = RowsNeeded(p, b.text) /\ height' \in Nat \ {0}
      /\ row' \in Int /\ row' = screen'.row + 1 - height'
      /\ outgrown' = (outgrown \/ height' >= Rows)
      /\ height' < Rows => row' >= 0 /\ screen'.ink = row' .. row' + height' - 1
      /\ (\A c \in s.inverted : first <= c[1] /\ c[1] < first + old) =>
           screen'.inverted = {CursorCell(row', p, b)}
      /\ \A r \in screen'.ink : row' <= r /\ r < row' + height'
  BY <1>1, Redrawn
<1>3. screen'.row \in Int /\ Rows \in Nat
  BY <1>2, ColsIsNat DEF Screens
<1>4. ScreenTypes'
  BY <1>2 DEF ScreenTypes
<1>5. Drawn'
  BY <1>2 DEF Drawn
<1>6. ASSUME RowsNeeded(p, b.text) <= Rows - 1, RecallsFit' \/ ~outgrown'
      PROVE  Fitting'
  <2>1. height' < Rows
    BY <1>2, <1>3, <1>6
  <2>2. screen'.row = row' + height' - 1
    BY <1>2, <1>3
  <2> QED BY <1>2, <1>6, <2>1, <2>2 DEF Fitting, LineFits, LineInPlace
<1>7. ~outgrown' => /\ RowsNeeded(p, b.text) <= Rows - 1 /\ ~outgrown
  <2>1. ~outgrown' => ~(height' >= Rows) /\ ~outgrown
    BY <1>2, Zenon
  <2>2. height' \in Nat /\ RowsNeeded(p, b.text) = height'
    BY <1>2
  <2>3. ~(height' >= Rows) => height' <= Rows - 1
    BY <2>2, <1>3
  <2> QED BY <2>1, <2>2, <2>3, Zenon
<1>8. ~outgrown' => OneCursorCell'
  BY <1>2, <1>7 DEF OneCursorCell
<1> QED BY <1>4, <1>5, <1>6, <1>7, <1>8 DEF ScreenInv

\* No line is being typed after the step: its cursor has been made plain.
LEMMA LeftInv ==
    ASSUME ScreenInv, ~Waiting', screen' \in Screens,
           ~outgrown => screen'.inverted = {},
           UNCHANGED <<mode, prefix, row, height, outgrown>>,
           prompt' \in Prompts, draft' \in Seq(Chars)
    PROVE  ScreenInv'
<1>1. ScreenTypes'
  BY DEF ScreenInv, ScreenTypes
<1> QED BY <1>1 DEF ScreenInv, Drawn, Fitting, LineFits, LineInPlace, OneCursorCell

\* Nothing that is about the screen changes.
LEMMA SameInv ==
    ASSUME ScreenInv, UNCHANGED <<stage, mode, prefix, drawnVars, history>>,
           buffer' = buffer, prompt' \in Prompts, draft' = draft
    PROVE  ScreenInv'
<1>1. UNCHANGED <<stage, mode, prefix, row, height, screen, outgrown, history,
                  buffer, draft>>
  BY DEF drawnVars
<1> QED BY <1>1 DEF ScreenInv, ScreenTypes, Drawn, Fitting, LineFits,
                    LineInPlace, OneCursorCell, RecallsFit, Waiting

\* What a key that changes the text does to it.
LEMMA FedText ==
    ASSUME NEW b \in Buffers, NEW key \in Chars \cup CutKeys, NEW m,
           Feed(key, b, m).text # b.text
    PROVE  \/ Len(Feed(key, b, m).text) <= Len(b.text)
           \/ key \in Chars /\ Feed(key, b, m) = Insert(b, key)
<1>1. b.text \in Seq(Chars) /\ b.cursor \in 0 .. Len(b.text)
  BY DEF Buffers
<1>2. CASE m = "Canonical" /\ key \in PromptKeys
  BY <1>2 DEF Feed
<1>3. CASE ~(m = "Canonical" /\ key \in PromptKeys) /\ key \in CursorKeys
  BY <1>1, <1>3 DEF Feed
<1>4. CASE /\ ~(m = "Canonical" /\ key \in PromptKeys)
           /\ key \notin CursorKeys /\ key \in CutKeys
  <2> DEFINE from == CutFrom(key, b)
             to == CutTo(key, b)
  <2>1. from \in 0 .. b.cursor /\ to \in b.cursor .. Len(b.text)
    BY <1>4, CutBounds
  <2>2. from \in 0 .. Len(b.text) /\ to \in from .. Len(b.text)
    BY <1>1, <2>1
  <2>3. Feed(key, b, m) = Cut(b, from, to)
    BY <1>4 DEF Feed
  <2>4. Len(Cut(b, from, to).text) = from + (Len(b.text) - to)
    BY <2>2, CutLine
  <2> HIDE DEF from, to
  <2> QED BY <1>1, <2>2, <2>3, <2>4
<1>5. CASE /\ ~(m = "Canonical" /\ key \in PromptKeys)
           /\ key \notin CursorKeys /\ key \notin CutKeys
  BY <1>5 DEF Feed
<1> QED BY <1>2, <1>3, <1>4, <1>5

\* Backspace takes back the character that was just typed.
LEMMA BackspaceUndoes ==
    ASSUME NEW b \in Buffers, NEW c \in Chars, NEW m
    PROVE  Feed("Backspace", Insert(b, c), m) = b
<1> DEFINE at == b.cursor
           s == SubSeq(b.text, 1, at)
           t == SubSeq(b.text, at + 1, Len(b.text))
           more == Insert(b, c)
<1>1. b.text \in Seq(Chars) /\ at \in 0 .. Len(b.text) /\ at \in Nat
      /\ b = [text |-> b.text, cursor |-> at]
  BY DEF Buffers
<1>2. /\ s \in Seq(Chars) /\ Len(s) = at
      /\ t \in Seq(Chars) /\ Len(t) = Len(b.text) - at
      /\ \A i \in 1 .. at : s[i] = b.text[i]
      /\ \A i \in 1 .. Len(b.text) - at : t[i] = b.text[at + i]
  BY <1>1
<1>3. more.text = s \o <<c>> \o t /\ more.cursor = at + 1
  BY DEF Insert
<1>4. /\ more.text \in Seq(Chars) /\ Len(more.text) = Len(b.text) + 1
      /\ \A i \in 1 .. at : more.text[i] = b.text[i]
      /\ \A i \in 1 .. Len(b.text) - at : more.text[at + 1 + i] = b.text[at + i]
  <2> HIDE DEF s, t
  <2> DEFINE u == s \o <<c>>
             v == u \o t
  <2>1. <<c>> \in Seq(Chars) /\ Len(<<c>>) = 1
    OBVIOUS
  <2>2. /\ u \in Seq(Chars) /\ Len(u) = at + 1
        /\ \A i \in 1 .. at : u[i] = s[i]
    BY <1>1, <1>2, <2>1, ConcatProperties
  <2> HIDE DEF u
  <2>3. /\ v \in Seq(Chars) /\ Len(v) = at + 1 + (Len(b.text) - at)
        /\ \A i \in 1 .. at : v[i] = u[i]
        /\ \A i \in 1 .. Len(b.text) - at : v[at + 1 + i] = t[i]
    <3> DEFINE n == at + 1
    <3>1. /\ v \in Seq(Chars) /\ Len(v) = n + (Len(b.text) - at)
          /\ \A i \in 1 .. n + (Len(b.text) - at) :
                v[i] = IF i <= n THEN u[i] ELSE t[i - n]
      <4>1. Len(u) = n /\ Len(t) = Len(b.text) - at
        BY <1>2, <2>2
      <4>2. /\ u \o t \in Seq(Chars) /\ Len(u \o t) = Len(u) + Len(t)
            /\ \A i \in 1 .. Len(u) + Len(t) :
                  (u \o t)[i] = IF i <= Len(u) THEN u[i] ELSE t[i - Len(u)]
        BY <1>2, <2>2, ConcatProperties
      <4> HIDE DEF n
      <4> QED BY <4>1, <4>2
    <3>2. n \in Nat /\ at \in Nat /\ at <= n /\ Len(b.text) - at \in Nat
      BY <1>1
    <3>3. \A i \in 1 .. at : v[i] = u[i]
      BY <3>1, <3>2
    <3>4. \A i \in 1 .. Len(b.text) - at : v[n + i] = t[i]
      <4> HIDE DEF v, n
      <4> TAKE i \in 1 .. Len(b.text) - at
      <4>1. /\ n + i \in 1 .. n + (Len(b.text) - at) /\ ~(n + i <= n)
            /\ (n + i) - n = i
        BY <3>2
      <4> QED BY <3>1, <4>1
    <3> QED BY <3>1, <3>3, <3>4
  <2>4. more.text = v
    BY <1>3 DEF u
  <2> HIDE DEF v
  <2>5. at + 1 + (Len(b.text) - at) = Len(b.text) + 1
    BY <1>1
  <2> QED BY <1>2, <2>2, <2>3, <2>4, <2>5
<1>5. Feed("Backspace", more, m) = Cut(more, at, at + 1)
  <2>1. CutFrom("Backspace", more) = at /\ CutTo("Backspace", more) = at + 1
    <3>1. at + 1 # 0 /\ at + 1 - 1 = at
      BY <1>1
    <3>2. CutFrom("Backspace", more) = IF more.cursor = 0 THEN 0 ELSE more.cursor - 1
      BY DEF CutFrom
    <3>3. CutTo("Backspace", more) = more.cursor
      BY DEF CutTo
    <3> HIDE DEF more, at
    <3> QED BY <1>1, <1>3, <3>1, <3>2, <3>3
  <2>2. "Backspace" \notin PromptKeys /\ "Backspace" \notin CursorKeys
        /\ "Backspace" \in CutKeys
    BY DEF PromptKeys, CursorKeys, CutKeys
  <2>3. Feed("Backspace", more, m)
           = Cut(more, CutFrom("Backspace", more), CutTo("Backspace", more))
    <3> HIDE DEF more
    <3> QED BY <2>2 DEF Feed
  <2> QED BY <2>1, <2>3
<1> DEFINE x == SubSeq(more.text, 1, at)
           y == SubSeq(more.text, at + 2, Len(b.text) + 1)
<1>6. Cut(more, at, at + 1) = [text |-> x \o y, cursor |-> at]
  <2>1. Len(more.text) = Len(b.text) + 1 /\ (at + 1) + 1 = at + 2
    BY <1>1, <1>4
  <2> QED BY <2>1 DEF Cut
<1>7. x \o y = b.text
  <2> HIDE DEF more, at
  <2>1. /\ x \in Seq(Chars) /\ Len(x) = at
        /\ \A i \in 1 .. at : x[i] = more.text[i]
    BY <1>1, <1>4
  <2>2. /\ y \in Seq(Chars) /\ Len(y) = Len(b.text) - at
        /\ \A i \in 1 .. Len(b.text) - at : y[i] = more.text[at + 1 + i]
    BY <1>1, <1>4
  <2> HIDE DEF x, y
  <2> DEFINE z == x \o y
  <2>3. /\ z \in Seq(Chars) /\ Len(z) = Len(b.text)
        /\ \A i \in 1 .. at : z[i] = x[i]
        /\ \A i \in 1 .. Len(b.text) - at : z[at + i] = y[i]
    BY <1>1, <2>1, <2>2, ConcatProperties
  <2>4. \A i \in 1 .. Len(b.text) : z[i] = b.text[i]
    <3> HIDE DEF z
    <3> TAKE i \in 1 .. Len(b.text)
    <3>1. CASE i <= at
      BY <1>1, <1>4, <2>1, <2>3, <3>1
    <3>2. CASE i > at
      <4>1. i - at \in 1 .. Len(b.text) - at /\ at + (i - at) = i
        BY <1>1, <3>2
      <4>2. z[at + (i - at)] = y[i - at]
        BY <2>3, <4>1
      <4>3. y[i - at] = more.text[at + 1 + (i - at)]
        BY <2>2, <4>1
      <4>4. more.text[at + 1 + (i - at)] = b.text[at + (i - at)]
        BY <1>4, <4>1
      <4> QED BY <4>1, <4>2, <4>3, <4>4
    <3> QED BY <1>1, <3>1, <3>2
  <2> HIDE DEF z
  <2> QED BY <1>1, <2>3, <2>4, SeqEqual DEF z
<1> HIDE DEF x, y, more
<1> QED BY <1>1, <1>5, <1>6, <1>7 DEF more

\* Where the line and its one cursor are while it is being typed.
LEMMA LineRows ==
    ASSUME TextInv, ScreenInv, Waiting
    PROVE  /\ row \in Int /\ row <= Rows - 1 /\ height \in Nat /\ screen \in Screens
           /\ \A r \in screen.ink : row <= r /\ r < row + height
           /\ ~outgrown =>
                \A c \in screen.inverted : row <= c[1] /\ c[1] < row + height
<1>1. /\ row \in Int /\ height \in Nat \ {0} /\ screen \in Screens
      /\ prefix \in Nat /\ buffer \in Buffers
      /\ row = screen.row + 1 - height
      /\ \A r \in screen.ink : row <= r /\ r < row + height
  BY WidthIsNat DEF ScreenInv, ScreenTypes, Drawn, TextInv, TextTypes
<1>2. screen.row \in 0 .. Rows - 1
  BY <1>1 DEF Screens
<1>3. row <= Rows - 1
  BY <1>1, <1>2, ColsIsNat
<1>4. ASSUME ~outgrown, NEW c \in screen.inverted
      PROVE  row <= c[1] /\ c[1] < row + height
  <2>1. c = CursorCell(row, prefix, buffer) /\ height = RowsNeeded(prefix, buffer.text)
    BY <1>4 DEF ScreenInv, Fitting, LineInPlace, OneCursorCell
  <2>2. CursorPosition(prefix, buffer)[1] \in 0 .. height - 1
    BY <1>1, <2>1, CursorPlace
  <2>3. c[1] = row + CursorPosition(prefix, buffer)[1]
    BY <2>1 DEF CursorCell
  <2> QED BY <1>1, <2>2, <2>3
<1> QED BY <1>1, <1>3, <1>4

\* A key that changes the text: the line is redrawn if it fits; if not, under
\* a prompt that fits, taking back what was typed leaves all as it was.
LEMMA EditScreen ==
    ASSUME TextInv, ScreenInv, NEW key \in Chars \cup CutKeys, Edit(key)
    PROVE  ScreenInv'
<1> DEFINE next == Feed(key, buffer, mode)
<1>1. /\ Waiting /\ next.text # buffer.text
      /\ UNCHANGED <<stage, mode, prefix, history, prompt, draft>>
  BY DEF Edit
<1>2. /\ buffer \in Buffers /\ buffer.text \in Seq(Chars)
      /\ prefix \in Prompts \cup {0} /\ prompt \in Prompts /\ draft \in Seq(Chars)
      /\ prefix \in Nat /\ outgrown \in BOOLEAN /\ mode \in {"Prompt", "Canonical"}
  BY WidthIsNat DEF TextInv, TextTypes, ScreenInv, ScreenTypes, Buffers
<1>3. next \in Buffers /\ next.text \in Seq(Chars)
  <2>1. next \in Buffers
    BY <1>2, FeedLine DEF HandledKeys
  <2> HIDE DEF next
  <2> QED BY <2>1 DEF Buffers
<1>4. RecallsFit' <=> RecallsFit
  BY <1>1 DEF RecallsFit, Waiting
<1>5. CASE FitsOnScreen(prefix, next.text)
  <2>1. /\ buffer' = next
        /\ Redraw(screen, row, height, prefix, next)
    BY <1>5 DEF Edit
  <2>2. Waiting'
    BY <1>1 DEF Waiting
  <2>3. ~outgrown' => ~outgrown
    BY <2>1, Zenon DEF Redraw
  <2>4. (RecallsFit' \/ ~outgrown') /\ history'.at # 0 =>
            RowsNeeded(prefix, history'.pending) <= Rows - 1
    BY <1>1, <1>4, <2>3 DEF ScreenInv, Fitting
  <2>5. RowsNeeded(prefix, next.text) <= Rows - 1
    <3> HIDE DEF next
    <3>1. RowsNeeded(prefix, next.text) \in Nat
      BY <1>2, <1>3, RowsNeededIs
    <3> QED BY <1>5, <3>1, ColsIsNat DEF FitsOnScreen
  <2> HIDE DEF next
  <2>6. PICK b \in Buffers : b = next
    BY <1>3
  <2>7. PICK p \in Prompts \cup {0} : p = prefix
    BY <1>2
  <2>8. PICK s \in Screens : s = screen
    BY <1>1, LineRows
  <2>9. PICK first \in Int, old \in Nat : first = row /\ old = height
    BY <1>1, LineRows
  <2>10. /\ first <= Rows - 1
         /\ \A r \in s.ink : first <= r /\ r < first + old
         /\ ~outgrown => \A c \in s.inverted : first <= c[1] /\ c[1] < first + old
    BY <1>1, <2>8, <2>9, LineRows
  <2>11. Redraw(s, first, old, p, b)
    BY <2>1, <2>6, <2>7, <2>8, <2>9
  <2>12. /\ FitsOnScreen(p, b.text)
         /\ prefix' = p /\ buffer' = b /\ prompt' \in Prompts /\ draft' \in Seq(Chars)
         /\ (RecallsFit' \/ ~outgrown') /\ history'.at # 0 =>
               RowsNeeded(p, history'.pending) <= Rows - 1
         /\ RowsNeeded(p, b.text) <= Rows - 1
         /\ mode' \in {"Prompt", "Canonical"}
    BY <1>1, <1>2, <1>5, <2>1, <2>4, <2>5, <2>6, <2>7
  <2> QED BY <1>2, <2>2, <2>6, <2>7, <2>8, <2>9, <2>10, <2>11, <2>12, RedrawnInv
<1>6. CASE ~FitsOnScreen(prefix, next.text)
  <2>1. /\ buffer' = Feed("Backspace", next, mode)
        /\ UNCHANGED drawnVars
    BY <1>6 DEF Edit
  <2>2. ASSUME RecallsFit \/ ~outgrown PROVE buffer' = buffer
    <3>1. RowsNeeded(prefix, buffer.text) <= Rows - 1
      BY <1>1, <2>2 DEF ScreenInv, Fitting, LineFits
    <3>2. ~(Len(next.text) <= Len(buffer.text))
      <4> HIDE DEF next
      <4> SUFFICES ASSUME Len(next.text) <= Len(buffer.text) PROVE FALSE
        OBVIOUS
      <4>1. PICK short \in Seq(Chars), long \in Seq(Chars) :
                short = next.text /\ long = buffer.text
        BY <1>2, <1>3
      <4>2. RowsNeeded(prefix, short) <= RowsNeeded(prefix, long)
        BY <1>2, <4>1, RowsOrder
      <4>3. RowsNeeded(prefix, short) \in Nat /\ RowsNeeded(prefix, long) \in Nat
        BY <1>2, <4>1, RowsNeededIs
      <4> QED BY <1>6, <3>1, <4>1, <4>2, <4>3, ColsIsNat DEF FitsOnScreen
    <3>3. key \in Chars /\ next = Insert(buffer, key)
      BY <1>1, <1>2, <3>2, FedText
    <3> HIDE DEF next
    <3> QED BY <1>2, <2>1, <3>3, BackspaceUndoes
  <2>3. CASE RecallsFit \/ ~outgrown
    BY <1>1, <1>2, <2>1, <2>2, <2>3, SameInv
  <2>4. CASE ~RecallsFit /\ outgrown
    <3>1. UNCHANGED <<row, height, screen, outgrown>>
      BY <2>1 DEF drawnVars
    <3>2. ScreenTypes' /\ Drawn'
      BY <1>1, <3>1 DEF ScreenInv, ScreenTypes, Drawn, Waiting
    <3>3. ~RecallsFit' /\ outgrown'
      BY <1>4, <2>4, <3>1, Zenon
    <3> QED BY <3>2, <3>3, Zenon DEF ScreenInv
  <2> QED BY <2>3, <2>4
<1> QED BY <1>5, <1>6

\* A key that moves the cursor draws two cells.
LEMMA MoveScreen ==
    ASSUME TextInv, ScreenInv, NEW key \in CursorKeys, Move(key)
    PROVE  ScreenInv'
<1> DEFINE from == CursorCell(row, prefix, buffer)
           to == CursorCell(row, prefix, buffer')
<1>1. /\ Waiting /\ buffer' = Feed(key, buffer, mode) /\ to \in Cells
      /\ screen' = Inverted(Plain(screen, from), to)
      /\ UNCHANGED <<stage, mode, prefix, row, height, outgrown, history, prompt, draft>>
  BY DEF Move
<1>2. buffer'.text = buffer.text
  <2>1. buffer = [text |-> buffer.text, cursor |-> buffer.cursor]
    BY DEF TextInv, TextTypes, Buffers
  <2> QED BY <1>1, <2>1 DEF Feed
<1> HIDE DEF from, to
<1>3. /\ screen' \in Screens /\ screen'.inverted = (screen.inverted \ {from}) \cup {to}
      /\ screen'.ink = screen.ink /\ screen'.row = screen.row
  <2>1. screen \in Screens /\ screen.inverted \in SUBSET Cells
    BY DEF ScreenInv, ScreenTypes, Screens
  <2>2. PICK cells \in SUBSET Cells : cells = screen.inverted \ {from}
    BY <2>1
  <2>3. PICK s \in Screens : s = [screen EXCEPT !.inverted = cells]
    BY <2>1, InvertedAs
  <2>4. Plain(screen, from) = s /\ s.inverted = cells /\ s.ink = screen.ink
        /\ s.row = screen.row
    BY <2>1, <2>2, <2>3, InvertedAs DEF Plain
  <2>5. PICK more \in SUBSET Cells : more = s.inverted \cup {to}
    BY <1>1, <2>4
  <2>6. PICK t : t = [s EXCEPT !.inverted = more]
    OBVIOUS
  <2>7. t \in Screens /\ t.inverted = more /\ t.ink = s.ink /\ t.row = s.row
    BY <2>3, <2>5, <2>6, InvertedAs
  <2>8. screen' = t
    BY <1>1, <2>4, <2>5, <2>6 DEF Inverted
  <2> QED BY <2>2, <2>4, <2>5, <2>7, <2>8
<1>4. ScreenTypes' /\ Drawn'
  BY <1>1, <1>3 DEF ScreenInv, ScreenTypes, Drawn, Waiting
<1>5. RecallsFit' <=> RecallsFit
  BY <1>1 DEF RecallsFit, Waiting
<1>6. Fitting => Fitting'
  BY <1>1, <1>2, <1>3 DEF Fitting, LineFits, LineInPlace, Waiting
<1>7. OneCursorCell => OneCursorCell'
  <2>1. Waiting' BY <1>1 DEF Waiting
  <2>2. to = CursorCell(row', prefix', buffer') BY <1>1 DEF to
  <2> QED BY <1>1, <1>3, <2>1, <2>2 DEF OneCursorCell, from
<1> QED BY <1>1, <1>4, <1>5, <1>6, <1>7 DEF ScreenInv

\* Up and Down redraw the line with one of the history or the pending one.
LEMMA RecallScreen ==
    ASSUME TextInv, ScreenInv, NEW key \in {"Up", "Down"}, Recall(key)
    PROVE  ScreenInv'
<1>1. /\ Waiting /\ mode = "Prompt"
      /\ history' = IF key = "Up" THEN RecallPrev(history, buffer.text)
                                  ELSE RecallNext(history)
      /\ buffer' = Whole(Recalled(history'))
      /\ Redraw(screen, row, height, prefix, buffer')
      /\ draft' = IF history'.at = 0 THEN <<>>
                  ELSE IF history.at = 0 THEN buffer.text ELSE draft
      /\ UNCHANGED <<stage, mode, prefix, prompt>>
      /\ CanRecall(key, history)
  BY DEF Recall
<1>2. /\ history \in Histories /\ history.at <= Len(history.lines)
      /\ history.lines \in Seq(Seq(Chars)) /\ history.at \in Nat
      /\ Len(history.lines) \in Nat
      /\ buffer.text \in Seq(Chars) /\ draft \in Seq(Chars)
      /\ prefix \in Prompts \cup {0} /\ prompt \in Prompts
      /\ prefix \in Nat /\ outgrown \in BOOLEAN
  BY WidthIsNat DEF TextInv, TextTypes, ScreenInv, ScreenTypes, Buffers, Histories
<1>3. TextInv'
  BY RecallStep
<1>4. /\ buffer' \in Buffers /\ buffer'.text = Recalled(history')
      /\ buffer'.cursor = Len(buffer'.text)
  BY <1>1, <1>3 DEF TextInv, TextTypes, Whole
<1>5. draft' \in Seq(Chars)
  <2>1. <<>> \in Seq(Chars)
    OBVIOUS
  <2> QED BY <1>1, <1>2, <2>1
<1>6. /\ history'.lines = history.lines
      /\ history'.pending = IF history.at = 0 THEN buffer.text ELSE history.pending
      /\ history'.at \in 0 .. Len(history.lines)
  <2>1. history = [lines |-> history.lines, at |-> history.at,
                   pending |-> history.pending]
    BY <1>2 DEF Histories
  <2>2. CASE key = "Up"
    <3>1. history' = [lines |-> history.lines,
                      at |-> IF history.at = 0 THEN Len(history.lines)
                             ELSE history.at - 1,
                      pending |-> IF history.at = 0 THEN buffer.text
                                  ELSE history.pending]
      BY <1>1, <2>1, <2>2 DEF RecallPrev
    <3> QED BY <1>2, <3>1
  <2>3. CASE key = "Down"
    <3>1. history.at # 0
      BY <1>1, <2>3 DEF CanRecall
    <3>2. history' = [lines |-> history.lines,
                      at |-> IF history.at >= Len(history.lines) THEN 0
                             ELSE history.at + 1,
                      pending |-> history.pending]
      BY <1>1, <2>1, <2>3 DEF RecallNext
    <3> QED BY <1>2, <3>1, <3>2
  <2> QED BY <2>2, <2>3
<1>7. RecallsFit' <=> RecallsFit
  BY <1>1, <1>6 DEF RecallsFit, Waiting
<1>8. RowsNeeded(prefix, buffer'.text) \in Nat /\ Waiting'
  <2>1. PICK text \in Seq(Chars) : text = buffer'.text
    BY <1>4 DEF Buffers
  <2>2. RowsNeeded(prefix, text) \in Nat
    BY <1>2, <2>1, RowsNeededIs
  <2> QED BY <1>1, <2>1, <2>2 DEF Waiting
<1>9. outgrown' = (outgrown \/ RowsNeeded(prefix, buffer'.text) >= Rows)
  BY <1>1 DEF Redraw
<1>10. (RecallsFit \/ ~outgrown) => RowsNeeded(prefix, history'.pending) <= Rows - 1
  BY <1>1, <1>6 DEF ScreenInv, Fitting, LineFits
<1>11. RecallsFit => RowsNeeded(prefix, buffer'.text) <= Rows - 1
  <2>1. CASE history'.at = 0
    BY <1>4, <1>10, <2>1 DEF Recalled
  <2>2. CASE history'.at # 0
    <3>1. history'.at \in DOMAIN history.lines
      BY <1>2, <1>6, <2>2
    <3>2. buffer'.text = history.lines[history'.at]
      BY <1>4, <1>6, <2>2 DEF Recalled
    <3> QED BY <1>1, <3>1, <3>2 DEF RecallsFit
  <2> QED BY <2>1, <2>2
<1>12. PICK b \in Buffers : b = buffer'
  BY <1>4
<1>13. PICK p \in Prompts \cup {0} : p = prefix
  BY <1>2
<1>14. PICK s \in Screens : s = screen
  BY <1>1, LineRows
<1>15. PICK first \in Int, old \in Nat : first = row /\ old = height
  BY <1>1, LineRows
<1>16. /\ first <= Rows - 1
       /\ \A r \in s.ink : first <= r /\ r < first + old
       /\ ~outgrown => \A c \in s.inverted : first <= c[1] /\ c[1] < first + old
  BY <1>1, <1>14, <1>15, LineRows
<1>17. Redraw(s, first, old, p, b)
  BY <1>1, <1>12, <1>13, <1>14, <1>15
<1>18. ~outgrown' => ~outgrown
  BY <1>9, Zenon
<1>19. /\ b.cursor = Len(b.text)
       /\ prefix' = p /\ buffer' = b /\ prompt' \in Prompts /\ draft' \in Seq(Chars)
       /\ (RecallsFit' \/ ~outgrown') /\ history'.at # 0 =>
             RowsNeeded(p, history'.pending) <= Rows - 1
       /\ RecallsFit' => RowsNeeded(p, b.text) <= Rows - 1
       /\ mode' \in {"Prompt", "Canonical"}
  BY <1>1, <1>2, <1>4, <1>5, <1>7, <1>10, <1>11, <1>12, <1>13, <1>18
<1> QED BY <1>2, <1>8, <1>12, <1>13, <1>14, <1>15, <1>16, <1>17, <1>19, RedrawnInv

\* begin: a new line, empty, on a row of its own.
LEMMA StartScreen ==
    ASSUME TextInv, ScreenInv, ~Waiting, NEW p \in Prompts \cup {0}, NEW m,
           StartLine(p, m), Waiting', m = "Prompt" \/ (m = "Canonical" /\ p = 0),
           UNCHANGED <<buffer, prompt, draft>>
    PROVE  ScreenInv'
<1>1. /\ buffer = EmptyLine /\ buffer \in Buffers
      /\ buffer.text = <<>> /\ buffer.cursor = Len(buffer.text)
  BY DEF TextInv, TextTypes, NothingLeftTyped, EmptyLine
<1>2. /\ screen \in Screens /\ prompt \in Prompts /\ draft \in Seq(Chars)
      /\ outgrown \in BOOLEAN /\ p \in Nat
      /\ ~outgrown => screen.inverted = {}
  BY WidthIsNat DEF ScreenInv, ScreenTypes, OneCursorCell
<1>3. PICK s \in Screens :
          /\ s = IF screen.col # 0 THEN LineFeed(screen) ELSE screen
          /\ ~outgrown => s.inverted = {}
  BY <1>2, FedLine
<1>4. PICK t \in Screens :
          t = [s EXCEPT !.ink = {}] /\ t.inverted = s.inverted /\ t.ink = {}
  <2>1. PICK none \in SUBSET (0 .. Rows - 1) : none = {}
    OBVIOUS
  <2> QED BY <1>3, <2>1, InkAs
<1>5. /\ prefix' = p /\ mode' = m /\ history'.at = 0
      /\ Redraw(t, s.row, 1, p, buffer)
  <2>1. history'.at = 0
    BY StartedLine
  <2>2. /\ prefix' = p /\ mode' = m
        /\ Redraw([s EXCEPT !.ink = {}], s.row, 1, p, buffer)
    BY <1>3, Zenon DEF StartLine
  <2> QED BY <1>4, <2>1, <2>2
<1>6. PICK first \in Int : first = s.row /\ first <= Rows - 1
  <2>1. s.row \in 0 .. Rows - 1
    BY <1>3 DEF Screens
  <2> QED BY <2>1, ColsIsNat
<1>7. RecallsFit' => RowsNeeded(p, buffer.text) <= Rows - 1
  <2>1. CASE m = "Prompt"
    BY <1>1, <1>5, <2>1 DEF RecallsFit
  <2>2. CASE p = 0
    <3>1. RowsNeeded(0, <<>>) = 1
      <4>1. 0 + Len(<<>>) = 0
        OBVIOUS
      <4> QED BY <4>1 DEF RowsNeeded
    <3> QED BY <1>1, <2>2, <3>1, ColsIsNat
  <2> QED BY <2>1, <2>2
<1>8. PICK old \in Nat : old = 1
  OBVIOUS
<1>9. PICK b \in Buffers : b = buffer
  BY <1>1
<1>10. /\ Redraw(t, first, old, p, b)
       /\ b.cursor = Len(b.text) /\ buffer' = b
       /\ RecallsFit' => RowsNeeded(p, b.text) <= Rows - 1
  BY <1>1, <1>5, <1>6, <1>7, <1>8, <1>9
<1>11. /\ \A r \in t.ink : first <= r /\ r < first + old
       /\ ~outgrown => \A c \in t.inverted : first <= c[1] /\ c[1] < first + old
  BY <1>3, <1>4
<1>12. (RecallsFit' \/ ~outgrown') /\ history'.at # 0 =>
           RowsNeeded(p, history'.pending) <= Rows - 1
  BY <1>5
<1>13. /\ prompt' \in Prompts /\ draft' \in Seq(Chars) /\ prefix' = p
       /\ mode' \in {"Prompt", "Canonical"}
  BY <1>2, <1>5
<1> QED BY <1>2, <1>4, <1>6, <1>8, <1>9, <1>10, <1>11, <1>12, <1>13, RedrawnInv

\* A finished line is left without its cursor.
LEMMA LeftLine ==
    ASSUME TextInv, ScreenInv, Waiting
    PROVE  /\ LeaveLine \in Screens /\ LineFeed(LeaveLine) \in Screens
           /\ ~outgrown => /\ LeaveLine.inverted = {}
                           /\ LineFeed(LeaveLine).inverted = {}
<1> DEFINE cell == CursorCell(row, prefix, buffer)
<1>1. screen \in Screens /\ screen.inverted \in SUBSET Cells
  BY DEF ScreenInv, ScreenTypes, Screens
<1>9. ASSUME ~outgrown PROVE screen.inverted = {cell}
  BY <1>9 DEF ScreenInv, OneCursorCell
<1> HIDE DEF cell
<1>2. PICK cells \in SUBSET Cells : cells = screen.inverted \ {cell}
  BY <1>1
<1>3. PICK s \in Screens : s = Plain(screen, cell) /\ s.inverted = cells
  BY <1>1, <1>2, InvertedAs DEF Plain
<1>4. PICK none \in SUBSET (0 .. Rows - 1) : none = {}
  OBVIOUS
<1>5. PICK t \in Screens : t = [s EXCEPT !.ink = none] /\ t.inverted = cells
  BY <1>3, <1>4, InkAs
<1>6. LeaveLine = t
  BY <1>3, <1>4, <1>5 DEF LeaveLine, cell
<1>7. LineFeed(t) \in Screens /\ (t.inverted = {} => LineFeed(t).inverted = {})
  BY <1>5, FedLine
<1>8. ASSUME ~outgrown PROVE cells = {}
  BY <1>2, <1>8, <1>9
<1> QED BY <1>5, <1>6, <1>7, <1>8

\* What is written between two lines keeps to the screen.
LEMMA OutputScreen ==
    ASSUME TextInv, ScreenInv, Output
    PROVE  ScreenInv'
<1>1. /\ ~Waiting /\ ~Waiting'
      /\ UNCHANGED <<mode, prefix, row, height, outgrown, prompt, draft>>
  BY DEF Output, Waiting
<1>2. /\ screen \in Screens /\ prompt \in Prompts /\ draft \in Seq(Chars)
      /\ screen.row \in 0 .. Rows - 1
  BY DEF ScreenInv, ScreenTypes, Screens
<1>3. ASSUME ~outgrown PROVE screen.inverted = {}
  BY <1>1, <1>3 DEF ScreenInv, OneCursorCell
<1>4. 0 \in 0 .. Rows - 1 /\ 0 \in 0 .. Cols - 1 /\ 1 \in Nat \ {0}
  BY ColsIsNat
<1>5. PICK clear \in Screens :
          /\ clear = ClearRows(screen, 0 .. Rows - 1)
          /\ clear.inverted = {c \in screen.inverted : c[1] \notin 0 .. Rows - 1}
  <2>1. PICK rows : rows = 0 .. Rows - 1
    OBVIOUS
  <2>2. /\ ClearRows(screen, rows) \in Screens
        /\ ClearRows(screen, rows).inverted = {c \in screen.inverted : c[1] \notin rows}
    BY <1>2, ClearedScreen
  <2> QED BY <2>1, <2>2
<1>6. /\ screen' \in Screens
      /\ screen.inverted = {} => screen'.inverted = {}
  <2>1. CASE screen' = Write(screen, 1)
    BY <1>2, <1>4, <2>1, Written
  <2>2. CASE screen' = LineFeed(screen)
    BY <1>2, <2>2, FedLine
  <2>3. CASE screen' = MoveCursor(screen, screen.row, 0)
    BY <1>2, <1>4, <2>3, MovedCursor
  <2>4. CASE screen' = MoveCursor(ClearRows(screen, 0 .. Rows - 1), 0, 0)
    <3>1. /\ MoveCursor(clear, 0, 0) \in Screens
          /\ MoveCursor(clear, 0, 0).inverted = clear.inverted
      BY <1>4, <1>5, MovedCursor
    <3> QED BY <1>5, <2>4, <3>1
  <2> QED BY <2>1, <2>2, <2>3, <2>4 DEF Output
<1>7. ~outgrown => screen'.inverted = {}
  BY <1>3, <1>6
<1> QED BY <1>1, <1>2, <1>6, <1>7, LeftInv

\* Every step keeps it.
LEMMA ScreenStep == TextInv /\ ScreenInv /\ [Next]_vars => ScreenInv'
<1> SUFFICES ASSUME TextInv, ScreenInv, [Next]_vars PROVE ScreenInv'
  OBVIOUS
<1>1. prompt \in Prompts /\ draft \in Seq(Chars) /\ 0 \in Prompts \cup {0}
      /\ prompt \in Prompts \cup {0} /\ buffer.text \in Seq(Chars)
      /\ <<>> \in Seq(Chars)
  BY DEF ScreenInv, ScreenTypes, TextInv, TextTypes, Buffers
<1>2. CASE EnterCommand
  <2>1. /\ Waiting /\ ~Waiting' /\ screen' = LineFeed(LeaveLine)
        /\ UNCHANGED <<mode, prefix, row, height, outgrown, prompt>> /\ draft' = <<>>
    BY <1>2 DEF EnterCommand, Waiting
  <2> QED BY <1>1, <2>1, LeftLine, LeftInv
<1>3. CASE EnterLine
  <2>1. /\ Waiting /\ ~Waiting' /\ screen' = LineFeed(LeaveLine)
        /\ UNCHANGED <<mode, prefix, row, height, outgrown, prompt, draft>>
    BY <1>3 DEF EnterLine, FinishRead, Waiting
  <2> QED BY <1>1, <2>1, LeftLine, LeftInv
<1>4. CASE PartialLine
  <2>1. /\ Waiting /\ ~Waiting' /\ screen' = LeaveLine
        /\ UNCHANGED <<mode, prefix, row, height, outgrown, prompt, draft>>
    BY <1>4 DEF PartialLine, FinishRead, Waiting
  <2> QED BY <1>1, <2>1, LeftLine, LeftInv
<1>5. CASE EndOfFile
  <2>1. /\ Waiting /\ ~Waiting' /\ screen' = LeaveLine
        /\ UNCHANGED <<mode, prefix, row, height, outgrown, prompt, draft>>
    BY <1>5 DEF EndOfFile, Waiting
  <2> QED BY <1>1, <2>1, LeftLine, LeftInv
<1>6. CASE ReadLine
  <2>1. /\ ~Waiting /\ Waiting' /\ StartLine(0, "Canonical")
        /\ UNCHANGED <<buffer, prompt, draft>>
    BY <1>6 DEF ReadLine, Waiting
  <2> QED BY <1>1, <2>1, StartScreen
<1>7. CASE StartPrompt
  <2>1. /\ ~Waiting /\ Waiting' /\ StartLine(prompt, "Prompt")
        /\ UNCHANGED <<buffer, prompt, draft>>
    BY <1>7 DEF StartPrompt, Waiting
  <2>2. PICK p \in Prompts \cup {0} : p = prompt
    BY <1>1
  <2> QED BY <2>1, <2>2, StartScreen
<1>8. CASE ReadRest
  BY <1>1, <1>8, SameInv DEF ReadRest
<1>9. CASE ChangePrompt
  BY <1>1, <1>9, SameInv DEF ChangePrompt
<1>10. CASE Launch \/ ProgramEnds
  <2>1. /\ ~Waiting /\ ~Waiting' /\ UNCHANGED <<prompt, draft, mode, prefix, drawnVars>>
    BY <1>10 DEF Launch, ProgramEnds, Waiting
  <2>2. UNCHANGED <<mode, prefix, row, height, screen, outgrown>>
    BY <2>1 DEF drawnVars
  <2>3. ASSUME ~outgrown PROVE screen'.inverted = {}
    BY <2>1, <2>2, <2>3 DEF ScreenInv, OneCursorCell
  <2>4. screen' \in Screens
    BY <2>2 DEF ScreenInv, ScreenTypes
  <2> QED BY <1>1, <2>1, <2>2, <2>3, <2>4, LeftInv
<1>11. CASE UNCHANGED vars
  BY <1>1, <1>11, SameInv DEF vars, drawnVars
<1> QED BY <1>2, <1>3, <1>4, <1>5, <1>6, <1>7, <1>8, <1>9, <1>10, <1>11,
           EditScreen, MoveScreen, RecallScreen, OutputScreen DEF Next

\* It holds with what is known of the text and of the history.
LEMMA ScreenInvariant == Spec => [](TextInv /\ HistoryInv /\ ScreenInv)
<1> QED BY TextInvInit, TextInvNext, HistoryInit, HistoryStep, ScreenInit,
           ScreenStep, PTL DEF Spec

\* While a line is typed it is on the rows that the line discipline thinks it
\* is on, in view, with one inverted cell, the cursor's, and no inverted cell
\* is left on the screen between two lines, for consoles and prompts of any
\* size and lines of any length, whatever is printed, scrolled, edited or
\* recalled: as long as the prompt and the lines recalled under it fit, which
\* the code does not see to when the prompt grows.
THEOREM LineDrawn == Spec => []LineOnScreen
<1>1. TextInv /\ HistoryInv /\ ScreenInv => LineOnScreen
  <2> SUFFICES ASSUME TextInv, HistoryInv, ScreenInv PROVE LineOnScreen
    OBVIOUS
  <2>1. mode \in {"Prompt", "Canonical"}
    BY DEF ScreenInv, ScreenTypes
  <2>2. owed \in Seq(Bytes)
    <3>1. pending.line \in Seq(Bytes) /\ pending.pos \in Nat
      BY DEF TextInv, TextTypes
    <3>2. SubSeq(pending.line, pending.pos + 1, Len(pending.line)) \in Seq(Bytes)
      BY <3>1
    <3> QED BY <3>2 DEF TextInv, StdinInOrder
  <2>3. TypeOK
    BY <2>1, <2>2 DEF TypeOK, TextInv, TextTypes, HistoryInv, ScreenInv,
                      ScreenTypes, Bytes
  <2> QED BY <2>3 DEF LineOnScreen, ScreenInv, Fitting
<1> QED BY <1>1, ScreenInvariant, PTL
=============================================================================
