---------------------------- MODULE LayoutProofs ----------------------------
(***************************************************************************)
(* What the operators of TextBuffer and Layout do, for texts, lines,       *)
(* regions and screens of any size: the cursor stays in the text, what is  *)
(* cut pastes back, no edit goes unrecorded; the rows of a line partition  *)
(* it and have room for what is on them, up and down are inverse, the view *)
(* lists its rows in order, scrolling shows the cursor's, and a row is     *)
(* rendered column by column.                                              *)
(***************************************************************************)
EXTENDS Layout, SequenceTheorems, FiniteSetTheorems, WellFoundedInduction, TLAPS

USE CharAssumption

\* A buffer with its cursor in its text.
Sound(b) == b \in Buffers /\ CursorIn(b)

-----------------------------------------------------------------------------
(* Lines and splices                                                       *)

LEMMA Piece ==
    ASSUME NEW S, NEW s \in Seq(S), NEW m \in 1..Len(s) + 1, NEW n \in 0..Len(s)
    PROVE  /\ SubSeq(s, m, n) \in Seq(S)
           /\ Len(SubSeq(s, m, n)) = IF m <= n THEN n - m + 1 ELSE 0
           /\ \A i \in 1..n - m + 1 : SubSeq(s, m, n)[i] = s[m + i - 1]
<1>1. \A i \in m..n : s[i] \in S
  OBVIOUS
<1> QED BY <1>1, SubSeqProperties

LEMMA BeforeAfter ==
    ASSUME NEW s \in Line, NEW c \in 0..Len(s)
    PROVE  /\ Before(s, c) \in Line /\ Len(Before(s, c)) = c
           /\ After(s, c) \in Line /\ Len(After(s, c)) = Len(s) - c
           /\ Before(s, c) \o After(s, c) = s
<1>1. s \in Seq(Char)
  BY DEF Line
<1>2. /\ SubSeq(s, 1, c) \in Seq(Char) /\ Len(SubSeq(s, 1, c)) = c
      /\ SubSeq(s, c + 1, Len(s)) \in Seq(Char)
      /\ Len(SubSeq(s, c + 1, Len(s))) = Len(s) - c
  BY <1>1, Piece
<1>3. SubSeq(s, 1, c) \o SubSeq(s, c + 1, Len(s)) = SubSeq(s, 1, Len(s))
  <2>1. 1 \in 1..Len(s) + 1 /\ c \in 1 - 1..Len(s) /\ Len(s) \in c..Len(s)
    BY <1>1
  <2> QED BY <1>1, <2>1, ConcatAdjacentSubSeq, Zenon
<1>4. SubSeq(s, 1, Len(s)) = s
  BY <1>1, SubSeqFull
<1> QED BY <1>2, <1>3, <1>4 DEF Before, After, Line

\* The sequence s is `lines` with the lines `from` to `to` replaced by those of `new`.
IsSplice(s, lines, from, to, new) ==
    /\ s \in Seq(Line)
    /\ Len(s) = from - 1 + Len(new) + (Len(lines) - to)
    /\ \A i \in 1..Len(s) :
          s[i] = IF i < from THEN lines[i]
                 ELSE IF i < from + Len(new) THEN new[i - from + 1]
                 ELSE lines[i - (from - 1) - Len(new) + to]

LEMMA SplicedLines ==
    ASSUME NEW lines \in Seq(Line), NEW from \in 1..Len(lines) + 1,
           NEW to \in from - 1..Len(lines), NEW new \in Seq(Line)
    PROVE  IsSplice(Spliced(lines, from, to, new), lines, from, to, new)
<1> DEFINE a == SubSeq(lines, 1, from - 1)
           z == SubSeq(lines, to + 1, Len(lines))
<1>1. a \in Seq(Line) /\ Len(a) = from - 1 /\ \A i \in 1..from - 1 : a[i] = lines[i]
  BY Piece
<1>2. /\ z \in Seq(Line) /\ Len(z) = Len(lines) - to
      /\ \A i \in 1..Len(lines) - to : z[i] = lines[to + i]
  BY Piece
<1>3. Spliced(lines, from, to, new) = (a \o new) \o z
  BY DEF Spliced
<1> HIDE DEF a, z
<1> DEFINE n == a \o new
           s == n \o z
<1>4. /\ n \in Seq(Line) /\ Len(n) = from - 1 + Len(new)
      /\ \A i \in 1..from - 1 : n[i] = lines[i]
      /\ \A i \in 1..Len(new) : n[from - 1 + i] = new[i]
  <2>1. /\ n \in Seq(Line) /\ Len(n) = Len(a) + Len(new)
        /\ \A i \in 1..Len(a) : n[i] = a[i]
        /\ \A i \in 1..Len(new) : n[Len(a) + i] = new[i]
    BY <1>1
  <2> QED BY <1>1, <2>1
<1> HIDE DEF n
<1>5. /\ s \in Seq(Line) /\ Len(s) = from - 1 + Len(new) + (Len(lines) - to)
      /\ \A i \in 1..from - 1 + Len(new) : s[i] = n[i]
      /\ \A i \in 1..Len(lines) - to : s[from - 1 + Len(new) + i] = lines[to + i]
  <2>1. /\ s \in Seq(Line) /\ Len(s) = Len(n) + Len(z)
        /\ \A i \in 1..Len(n) : s[i] = n[i]
        /\ \A i \in 1..Len(z) : s[Len(n) + i] = z[i]
    <3>1. n \in Seq(Line) /\ z \in Seq(Line)
      BY <1>2, <1>4
    <3> QED BY <3>1
  <2> QED BY <1>2, <1>4, <2>1
<1> HIDE DEF s
<1>6. Len(new) \in Nat /\ Len(lines) \in Nat
  OBVIOUS
<1>7. ASSUME NEW i \in 1..Len(s)
      PROVE  s[i] = IF i < from THEN lines[i]
                    ELSE IF i < from + Len(new) THEN new[i - from + 1]
                    ELSE lines[i - (from - 1) - Len(new) + to]
  <2>1. CASE i < from
    BY <1>4, <1>5, <1>6, <2>1
  <2>2. CASE i >= from /\ i < from + Len(new)
    <3>1. i - (from - 1) \in 1..Len(new) /\ i = from - 1 + (i - (from - 1))
      BY <1>6, <2>2
    <3>2. s[i] = n[i] /\ n[i] = new[i - (from - 1)]
      BY <1>4, <1>5, <1>6, <2>2, <3>1
    <3> QED BY <2>2, <3>2
  <2>3. CASE i >= from + Len(new)
    <3> DEFINE k == i - (from - 1) - Len(new)
    <3>1. k \in 1..Len(lines) - to /\ i = from - 1 + Len(new) + k
      BY <1>5, <1>6, <2>3
    <3>2. s[i] = lines[to + k]
      BY <1>5, <3>1
    <3> QED BY <1>6, <2>3, <3>2
  <2> QED BY <1>6, <2>1, <2>2, <2>3
<1>8. Spliced(lines, from, to, new) = s
  BY <1>3 DEF s, n
<1> QED BY <1>5, <1>7, <1>8 DEF IsSplice

\* What a splice of one line, or of two, gives.
LEMMA SpliceOne ==
    ASSUME NEW lines \in Seq(Line), NEW from \in 1..Len(lines) + 1,
           NEW to \in from - 1..Len(lines), NEW x \in Line
    PROVE  LET s == Spliced(lines, from, to, <<x>>)
           IN  s \in Seq(Line) /\ from \in 1..Len(s) /\ s[from] = x
<1> DEFINE new == <<x>>
           s == Spliced(lines, from, to, new)
<1>1. new \in Seq(Line) /\ Len(new) = 1 /\ new[1] = x
  OBVIOUS
<1> HIDE DEF new
<1>2. IsSplice(s, lines, from, to, new)
  BY <1>1, SplicedLines
<1> HIDE DEF s
<1>3. s \in Seq(Line) /\ from \in 1..Len(s) /\ s[from] = x
  <2>1. Len(lines) \in Nat
    OBVIOUS
  <2> QED BY <1>1, <1>2, <2>1 DEF IsSplice
<1> QED BY <1>3 DEF s, new

LEMMA SpliceTwo ==
    ASSUME NEW lines \in Seq(Line), NEW from \in 1..Len(lines) + 1,
           NEW to \in from - 1..Len(lines), NEW x \in Line, NEW y \in Line
    PROVE  LET s == Spliced(lines, from, to, <<x, y>>)
           IN  s \in Seq(Line) /\ from + 1 \in 1..Len(s) /\ s[from + 1] = y
<1> DEFINE new == <<x, y>>
           s == Spliced(lines, from, to, new)
<1>1. new \in Seq(Line) /\ Len(new) = 2 /\ new[2] = y
  OBVIOUS
<1> HIDE DEF new
<1>2. IsSplice(s, lines, from, to, new)
  BY <1>1, SplicedLines
<1> HIDE DEF s
<1>3. s \in Seq(Line) /\ from + 1 \in 1..Len(s) /\ s[from + 1] = y
  <2>1. Len(lines) \in Nat
    OBVIOUS
  <2> QED BY <1>1, <1>2, <2>1 DEF IsSplice
<1> QED BY <1>3 DEF s, new

LEMMA EditedSound ==
    ASSUME NEW lines \in Seq(Line), NEW line \in 1..Len(lines),
           NEW col \in 0..Len(lines[line])
    PROVE  Sound(Edited(lines, line, col))
<1>1. lines # << >>
  OBVIOUS
<1>2. lines[line] \in Seq(Char)
  BY DEF Line
<1> QED BY <1>1, <1>2 DEF Sound, Edited, Buffers, CursorIn, Cur, Text

\* The parts of a buffer that the lemmas below start from.
LEMMA Parts ==
    ASSUME NEW b, Sound(b)
    PROVE  /\ b.lines \in Seq(Line) /\ b.lines # << >> /\ Len(b.lines) \in Nat \ {0}
           /\ b.line \in 1..Len(b.lines) /\ b.modified \in BOOLEAN
           /\ Cur(b) \in Line /\ Len(Cur(b)) \in Nat /\ b.col \in 0..Len(Cur(b))
           /\ \A l \in 1..Len(b.lines) : b.lines[l] \in Line /\ Len(b.lines[l]) \in Nat
<1>1. /\ b.lines \in Seq(Line) /\ b.lines # << >> /\ b.modified \in BOOLEAN
      /\ b.line \in 1..Len(b.lines) /\ b.col \in 0..Len(Cur(b))
  BY DEF Sound, Buffers, CursorIn, Text
<1>2. \A l \in 1..Len(b.lines) : b.lines[l] \in Line
  BY <1>1
<1>3. \A s \in Line : Len(s) \in Nat
  BY DEF Line
<1>4. Len(b.lines) \in Nat \ {0}
  BY <1>1, EmptySeq
<1> QED BY <1>1, <1>2, <1>3, <1>4 DEF Cur

-----------------------------------------------------------------------------
(* Every operation keeps the cursor in the text.  A move keeps the text    *)
(* and its flag; an edit sets the flag, or there was nothing to edit.      *)

MovedFrom(b, c) == Sound(c) /\ c.lines = b.lines /\ c.modified = b.modified
EditedFrom(b, c) == Sound(c) /\ (c.modified \/ c = b)

LEMMA AtSound ==
    ASSUME NEW b, Sound(b), NEW l \in 1..Len(b.lines), NEW c \in 0..Len(b.lines[l])
    PROVE  MovedFrom(b, At(b, l, c))
<1>1. b \in Buffers /\ b.lines[l] \in Line /\ Len(b.lines[l]) \in Nat
  BY Parts DEF Sound
<1>2. l \in Nat /\ c \in Nat
  BY <1>1, Parts
<1> QED BY <1>1, <1>2 DEF At, MovedFrom, Sound, Buffers, CursorIn, Cur

LEMMA SetCursorSound ==
    ASSUME NEW b, Sound(b), NEW line \in Nat \ {0}, NEW col \in Nat
    PROVE  MovedFrom(b, SetCursor(b, line, col))
<1> DEFINE l == Lesser(line, Len(b.lines))
           c == Lesser(col, Len(b.lines[l]))
<1>1. l \in 1..Len(b.lines)
  BY Parts DEF Lesser
<1> HIDE DEF l
<1>2. Len(b.lines[l]) \in Nat
  BY <1>1, Parts
<1>3. c \in 0..Len(b.lines[l])
  BY <1>2 DEF Lesser
<1> HIDE DEF c
<1>4. SetCursor(b, line, col) = At(b, l, c)
  BY DEF SetCursor, At, l, c
<1> QED BY <1>1, <1>3, <1>4, AtSound

LEMMA ReplaceLineSound ==
    ASSUME NEW b, Sound(b), NEW s \in Line, NEW c \in 0..Len(s)
    PROVE  EditedFrom(b, ReplaceLine(b, s, c))
<1> DEFINE lines == [b.lines EXCEPT ![b.line] = s]
<1>1. b.lines \in Seq(Line) /\ b.line \in 1..Len(b.lines)
  BY Parts
<1>2. lines \in Seq(Line) /\ Len(lines) = Len(b.lines) /\ lines[b.line] = s
  BY <1>1
<1> HIDE DEF lines
<1>3. Sound(Edited(lines, b.line, c))
  BY <1>1, <1>2, EditedSound
<1>4. ReplaceLine(b, s, c) = Edited(lines, b.line, c)
  BY DEF ReplaceLine, lines
<1> QED BY <1>3, <1>4 DEF EditedFrom, Edited

\* Two pieces put together are a line.
LEMMA TwoPieces ==
    ASSUME NEW s \in Line, NEW t \in Line
    PROVE  s \o t \in Line /\ Len(s \o t) = Len(s) + Len(t)
           /\ Len(s) \in Nat /\ Len(t) \in Nat
BY DEF Line

LEMMA InsertCharSound ==
    ASSUME NEW b, Sound(b), NEW c \in Char
    PROVE  EditedFrom(b, InsertChar(b, c))
<1> DEFINE x == Before(Cur(b), b.col)
           y == After(Cur(b), b.col)
<1>1. Cur(b) \in Line /\ b.col \in 0..Len(Cur(b))
  BY Parts
<1>2. x \in Line /\ y \in Line /\ Len(x) = b.col
  BY <1>1, BeforeAfter
<1> HIDE DEF x, y
<1>3. <<c>> \in Line /\ Len(<<c>>) = 1
  BY DEF Line
<1>4. x \o <<c>> \in Line /\ Len(x \o <<c>>) = b.col + 1
  BY <1>2, <1>3, TwoPieces
<1>5. /\ (x \o <<c>>) \o y \in Line
      /\ b.col + 1 \in 0..Len((x \o <<c>>) \o y)
  <2> DEFINE xc == x \o <<c>>
  <2>1. xc \in Line /\ y \in Line /\ Len(xc) = b.col + 1
    BY <1>2, <1>4
  <2> HIDE DEF xc
  <2>2. xc \o y \in Line /\ Len(xc \o y) = b.col + 1 + Len(y) /\ Len(y) \in Nat
    BY <2>1, TwoPieces
  <2> QED BY <1>1, <2>2 DEF xc
<1>6. InsertChar(b, c) = ReplaceLine(b, (x \o <<c>>) \o y, b.col + 1)
  BY DEF InsertChar, x, y
<1> QED BY <1>5, <1>6, ReplaceLineSound

LEMMA JoinAtSound ==
    ASSUME NEW b, Sound(b), NEW l \in 1..Len(b.lines) - 1
    PROVE  EditedFrom(b, JoinAt(b, l))
<1> DEFINE s == b.lines[l] \o b.lines[l + 1]
           lines == Spliced(b.lines, l, l + 1, <<s>>)
           c == Len(b.lines[l])
<1>1. /\ b.lines \in Seq(Line) /\ Len(b.lines) \in Nat
      /\ b.lines[l] \in Line /\ b.lines[l + 1] \in Line
  BY Parts
<1>2. s \in Line /\ c \in 0..Len(s)
  <2>1. /\ s \in Line /\ Len(s) = c + Len(b.lines[l + 1])
        /\ c \in Nat /\ Len(b.lines[l + 1]) \in Nat
    BY <1>1, TwoPieces, Zenon
  <2> HIDE DEF s, c
  <2> QED BY <2>1
<1> HIDE DEF s
<1>4. l \in 1..Len(b.lines) + 1 /\ l + 1 \in l - 1..Len(b.lines)
  BY <1>1
<1>5. lines \in Seq(Line) /\ l \in 1..Len(lines) /\ lines[l] = s
  BY <1>1, <1>2, <1>4, SpliceOne
<1> HIDE DEF lines, c
<1>6. Sound(Edited(lines, l, c))
  BY <1>2, <1>5, EditedSound
<1>7. JoinAt(b, l) = Edited(lines, l, c)
  BY DEF JoinAt, lines, s, c
<1> QED BY <1>6, <1>7 DEF EditedFrom, Edited
LEMMA DeleteSound ==
    ASSUME NEW b, Sound(b)
    PROVE  EditedFrom(b, Backspace(b)) /\ EditedFrom(b, DeleteForward(b))
<1> DEFINE x(c) == Before(Cur(b), c)
           y(c) == After(Cur(b), c)
<1>1. /\ Cur(b) \in Line /\ Len(Cur(b)) \in Nat /\ b.col \in 0..Len(Cur(b))
      /\ b.line \in 1..Len(b.lines) /\ Len(b.lines) \in Nat
  BY Parts
<1>2. ASSUME NEW from \in 0..Len(Cur(b)), NEW to \in from..Len(Cur(b))
      PROVE  EditedFrom(b, ReplaceLine(b, x(from) \o y(to), from))
  <2>1. x(from) \in Line /\ Len(x(from)) = from /\ y(to) \in Line
    BY <1>1, BeforeAfter
  <2> HIDE DEF x, y
  <2>2. /\ x(from) \o y(to) \in Line /\ Len(y(to)) \in Nat
        /\ Len(x(from) \o y(to)) = Len(x(from)) + Len(y(to))
    BY <2>1, TwoPieces, Zenon
  <2>3. from \in 0..Len(x(from) \o y(to))
    BY <2>1, <2>2
  <2> QED BY <2>2, <2>3, ReplaceLineSound
<1>3. EditedFrom(b, b)
  BY DEF EditedFrom
<1>4. EditedFrom(b, Backspace(b))
  <2>1. CASE b.col > 0
    <3>1. b.col - 1 \in 0..Len(Cur(b)) /\ b.col \in b.col - 1..Len(Cur(b))
      BY <1>1, <2>1
    <3> QED BY <1>2, <2>1, <3>1 DEF Backspace
  <2>2. CASE ~(b.col > 0) /\ b.line > 1
    <3>1. b.line - 1 \in 1..Len(b.lines) - 1
      BY <1>1, <2>2
    <3> QED BY <2>2, <3>1, JoinAtSound DEF Backspace
  <2> QED BY <1>3, <2>1, <2>2 DEF Backspace
<1>5. EditedFrom(b, DeleteForward(b))
  <2>1. CASE b.col < Len(Cur(b))
    <3>1. b.col + 1 \in b.col..Len(Cur(b))
      BY <1>1, <2>1
    <3> QED BY <1>1, <1>2, <2>1, <3>1 DEF DeleteForward
  <2>2. CASE ~(b.col < Len(Cur(b))) /\ b.line < Len(b.lines)
    <3>1. b.line \in 1..Len(b.lines) - 1
      BY <1>1, <2>2
    <3> QED BY <2>2, <3>1, JoinAtSound DEF DeleteForward
  <2> QED BY <1>3, <2>1, <2>2 DEF DeleteForward
<1> QED BY <1>4, <1>5

\* A run of characters ends inside the line.
LEMMA RunBounds ==
    ASSUME NEW s \in Line, NEW from \in 0..Len(s), NEW C
    PROVE  /\ RunAfter(s, from, C) \in 0..Len(s) - from
           /\ RunBefore(s, from, C) \in 0..from
<1>1. Len(s) \in Nat
  BY DEF Line
<1>2. /\ IsFiniteSet(from + 1..Len(s)) /\ Cardinality(from + 1..Len(s)) = Len(s) - from
      /\ IsFiniteSet(1..from) /\ Cardinality(1..from) = from
  <2>1. from + 1 \in Int /\ Len(s) \in Int /\ from \in Int /\ 1 \in Int
    BY <1>1
  <2>2. /\ IsFiniteSet(from + 1..Len(s))
        /\ Cardinality(from + 1..Len(s))
           = IF from + 1 > Len(s) THEN 0 ELSE Len(s) - (from + 1) + 1
    BY <2>1, FS_Interval, Zenon
  <2>3. /\ IsFiniteSet(1..from)
        /\ Cardinality(1..from) = IF 1 > from THEN 0 ELSE from - 1 + 1
    BY <2>1, FS_Interval, Zenon
  <2> QED BY <1>1, <2>2, <2>3
<1>3. ASSUME NEW S, IsFiniteSet(S), NEW T \in SUBSET S
      PROVE  Cardinality(T) \in 0..Cardinality(S)
  <2>1. IsFiniteSet(T) /\ Cardinality(T) <= Cardinality(S)
    BY <1>3, FS_Subset
  <2>2. Cardinality(T) \in Nat /\ Cardinality(S) \in Nat
    BY <1>3, <2>1, FS_CardinalityType
  <2> QED BY <2>1, <2>2
<1>4. RunAfter(s, from, C) \in 0..Len(s) - from
  <2> DEFINE T == {k \in from + 1..Len(s) : \A i \in from + 1..k : s[i] \in C}
  <2>1. T \in SUBSET (from + 1..Len(s))
    OBVIOUS
  <2> HIDE DEF T
  <2>2. Cardinality(T) \in 0..Cardinality(from + 1..Len(s))
    BY <1>2, <1>3, <2>1
  <2> QED BY <1>2, <2>2 DEF RunAfter, T
<1>5. RunBefore(s, from, C) \in 0..from
  <2> DEFINE T == {k \in 1..from : \A i \in k..from : s[i] \in C}
  <2>1. T \in SUBSET (1..from)
    OBVIOUS
  <2> HIDE DEF T
  <2>2. Cardinality(T) \in 0..Cardinality(1..from)
    BY <1>2, <1>3, <2>1
  <2> QED BY <1>2, <2>2 DEF RunBefore, T
<1> QED BY <1>4, <1>5

LEMMA SplitLineSound ==
    ASSUME NEW b, Sound(b), NEW on \in BOOLEAN
    PROVE  EditedFrom(b, SplitLine(b, on))
<1> DEFINE indent == IF on THEN LeadingWhitespace(Cur(b)) ELSE Empty
           x == Before(Cur(b), b.col)
           rest == After(Cur(b), b.col)
           y == indent \o rest
           lines == Spliced(b.lines, b.line, b.line, <<x, y>>)
<1>1. /\ Cur(b) \in Line /\ Len(Cur(b)) \in Nat /\ b.col \in 0..Len(Cur(b))
      /\ b.line \in 1..Len(b.lines) /\ Len(b.lines) \in Nat /\ b.lines \in Seq(Line)
  BY Parts
<1>2. x \in Line /\ rest \in Line
  BY <1>1, BeforeAfter
<1>3. indent \in Line
  <2>1. RunAfter(Cur(b), 0, Blank) \in 0..Len(Cur(b))
    BY <1>1, RunBounds
  <2>2. Before(Cur(b), RunAfter(Cur(b), 0, Blank)) \in Line
    BY <1>1, <2>1, BeforeAfter
  <2>3. Empty \in Line
    BY DEF Empty, Line
  <2> QED BY <2>2, <2>3 DEF LeadingWhitespace
<1> HIDE DEF indent, x, rest
<1>4. /\ y \in Line /\ Len(y) = Len(indent) + Len(rest)
      /\ Len(indent) \in Nat /\ Len(rest) \in Nat
  BY <1>2, <1>3, TwoPieces
<1> HIDE DEF y
<1>5. lines \in Seq(Line) /\ b.line + 1 \in 1..Len(lines) /\ lines[b.line + 1] = y
  <2>1. b.line \in 1..Len(b.lines) + 1 /\ b.line \in b.line - 1..Len(b.lines)
    BY <1>1
  <2> QED BY <1>1, <1>2, <1>4, <2>1, SpliceTwo
<1> HIDE DEF lines
<1>6. Len(indent) \in 0..Len(lines[b.line + 1])
  BY <1>4, <1>5
<1>7. Sound(Edited(lines, b.line + 1, Len(indent)))
  BY <1>5, <1>6, EditedSound
<1>8. SplitLine(b, on) = Edited(lines, b.line + 1, Len(indent))
  BY DEF SplitLine, lines, y, x, rest, indent
<1> QED BY <1>7, <1>8 DEF EditedFrom, Edited

\* Every movement of the cursor within the text.
Moves(b) == {MoveLeft(b), MoveRight(b), MoveWordLeft(b), MoveWordRight(b), MoveHome(b),
             MoveEnd(b), MoveToFirstLine(b), MoveToLastLine(b)}

LEMMA MovesSound ==
    ASSUME NEW b, Sound(b)
    PROVE  \A c \in Moves(b) : MovedFrom(b, c)
<1>1. /\ b.line \in 1..Len(b.lines) /\ Len(b.lines) \in Nat \ {0}
      /\ Cur(b) \in Line /\ Len(Cur(b)) \in Nat /\ b.col \in 0..Len(Cur(b))
      /\ Cur(b) = b.lines[b.line]
      /\ \A l \in 1..Len(b.lines) : Len(b.lines[l]) \in Nat
  BY Parts DEF Cur
<1>2. \A l \in 1..Len(b.lines) : MovedFrom(b, At(b, l, 0)) /\ MovedFrom(b, EndOf(b, l))
  <2> TAKE l \in 1..Len(b.lines)
  <2>1. 0 \in 0..Len(b.lines[l]) /\ Len(b.lines[l]) \in 0..Len(b.lines[l])
    BY <1>1
  <2> QED BY <2>1, AtSound DEF EndOf
<1>3. \A c \in 0..Len(Cur(b)) : MovedFrom(b, At(b, b.line, c))
  BY <1>1, AtSound
<1>4. MovedFrom(b, b)
  BY DEF MovedFrom
<1>5. MovedFrom(b, MoveLeft(b)) /\ MovedFrom(b, MoveRight(b))
  BY <1>1, <1>2, <1>3, <1>4 DEF MoveLeft, MoveRight
<1>6. MovedFrom(b, MoveWordLeft(b))
  <2> DEFINE to == b.col - RunBefore(Cur(b), b.col, Char \ Alnum)
  <2>1. to \in 0..b.col
    BY <1>1, RunBounds
  <2> HIDE DEF to
  <2>2. to \in 0..Len(Cur(b))
    BY <1>1, <2>1
  <2>3. RunBefore(Cur(b), to, Alnum) \in 0..to
    BY <1>1, <2>2, RunBounds
  <2>4. to - RunBefore(Cur(b), to, Alnum) \in 0..Len(Cur(b))
    BY <2>2, <2>3
  <2> QED BY <1>3, <1>5, <2>4 DEF MoveWordLeft, to
<1>7. MovedFrom(b, MoveWordRight(b))
  <2> DEFINE to == b.col + RunAfter(Cur(b), b.col, Char \ Alnum)
  <2>1. to \in 0..Len(Cur(b))
    BY <1>1, RunBounds
  <2> HIDE DEF to
  <2>2. RunAfter(Cur(b), to, Alnum) \in 0..Len(Cur(b)) - to
    BY <1>1, <2>1, RunBounds
  <2>3. to + RunAfter(Cur(b), to, Alnum) \in 0..Len(Cur(b))
    BY <2>1, <2>2
  <2> QED BY <1>3, <1>5, <2>3 DEF MoveWordRight, to
<1>8. 1 \in 1..Len(b.lines) /\ Len(b.lines) \in 1..Len(b.lines)
  BY <1>1
<1> QED BY <1>1, <1>2, <1>5, <1>6, <1>7, <1>8
        DEF Moves, MoveHome, MoveEnd, MoveToFirstLine, MoveToLastLine
-----------------------------------------------------------------------------
(* Regions and lines cut and pasted                                        *)

\* Two positions of the text, in order.
Region(b, start, end) ==
    /\ start \in [line : 1..Len(b.lines), col : Nat] /\ start.col <= Len(b.lines[start.line])
    /\ end \in [line : 1..Len(b.lines), col : Nat] /\ end.col <= Len(b.lines[end.line])
    /\ Earlier(start, end)

LEMMA RegionParts ==
    ASSUME NEW b, Sound(b), NEW start, NEW end, Region(b, start, end)
    PROVE  /\ start.line \in 1..Len(b.lines) /\ end.line \in start.line..Len(b.lines)
           /\ start.col \in 0..Len(b.lines[start.line])
           /\ end.col \in 0..Len(b.lines[end.line])
           /\ start.line = end.line => start.col <= end.col
<1>1. /\ start.line \in 1..Len(b.lines) /\ end.line \in 1..Len(b.lines)
      /\ start.col \in Nat /\ end.col \in Nat
      /\ start.col <= Len(b.lines[start.line]) /\ end.col <= Len(b.lines[end.line])
      /\ Earlier(start, end)
  BY DEF Region
<1>2. Len(b.lines) \in Nat /\ \A l \in 1..Len(b.lines) : Len(b.lines[l]) \in Nat
  BY Parts
<1> QED BY <1>1, <1>2 DEF Earlier

LEMMA CutRegionSound ==
    ASSUME NEW b, Sound(b), NEW start, NEW end, Region(b, start, end)
    PROVE  EditedFrom(b, CutRegion(b, start, end))
<1> DEFINE x == Before(b.lines[start.line], start.col)
           y == After(b.lines[end.line], end.col)
           s == x \o y
           lines == Spliced(b.lines, start.line, end.line, <<s>>)
<1>1. /\ b.lines \in Seq(Line) /\ Len(b.lines) \in Nat
      /\ \A l \in 1..Len(b.lines) : b.lines[l] \in Line
  BY Parts
<1>2. /\ start.line \in 1..Len(b.lines) /\ end.line \in start.line..Len(b.lines)
      /\ end.line \in 1..Len(b.lines)
      /\ start.col \in 0..Len(b.lines[start.line])
      /\ end.col \in 0..Len(b.lines[end.line])
  BY <1>1, RegionParts
<1>3. x \in Line /\ Len(x) = start.col /\ y \in Line
  BY <1>1, <1>2, BeforeAfter
<1> HIDE DEF x, y
<1>4. s \in Line /\ start.col \in 0..Len(s)
  <2>1. s \in Line /\ Len(s) = Len(x) + Len(y) /\ Len(y) \in Nat
    BY <1>3, TwoPieces, Zenon
  <2> HIDE DEF s
  <2> QED BY <1>2, <1>3, <2>1
<1> HIDE DEF s
<1>5. start.line \in 1..Len(b.lines) + 1 /\ end.line \in start.line - 1..Len(b.lines)
  BY <1>1, <1>2
<1>6. lines \in Seq(Line) /\ start.line \in 1..Len(lines) /\ lines[start.line] = s
  BY <1>1, <1>4, <1>5, SpliceOne
<1> HIDE DEF lines
<1>7. Sound(Edited(lines, start.line, start.col))
  BY <1>4, <1>6, EditedSound
<1>8. CutRegion(b, start, end) = Edited(lines, start.line, start.col)
  BY DEF CutRegion, lines, s, x, y
<1> QED BY <1>7, <1>8 DEF EditedFrom, Edited

\* A piece before and one after a sequence of lines.
LEMMA Framed ==
    ASSUME NEW x \in Line, NEW mid \in Seq(Line), NEW y \in Line
    PROVE  LET t == <<x>> \o mid \o <<y>>
               n == Len(mid) + 2
           IN  /\ t \in Seq(Line) /\ Len(t) = n /\ t[1] = x /\ t[n] = y
               /\ \A i \in 2..n - 1 : t[i] = mid[i - 1]
<1> DEFINE u == <<x>> \o mid
           v == u \o <<y>>
           n == Len(mid) + 2
<1>1. Len(mid) \in Nat
  OBVIOUS
<1>2. /\ u \in Seq(Line) /\ Len(u) = n - 1 /\ u[1] = x
      /\ \A i \in 2..n - 1 : u[i] = mid[i - 1]
  BY <1>1
<1> HIDE DEF u
<1>3. /\ v \in Seq(Line) /\ Len(v) = n /\ v[n] = y
      /\ \A i \in 1..n - 1 : v[i] = u[i]
  BY <1>1, <1>2
<1> HIDE DEF v
<1>4. v[1] = x /\ \A i \in 2..n - 1 : v[i] = mid[i - 1]
  BY <1>1, <1>2, <1>3
<1>5. v = <<x>> \o mid \o <<y>>
  BY DEF u, v
<1> QED BY <1>3, <1>4, <1>5

\* A region of one line is one piece of it; one of more lines has a piece for each.
LEMMA RegionTextPieces ==
    ASSUME NEW b, Sound(b), NEW start, NEW end, Region(b, start, end)
    PROVE  LET t == RegionText(b, start, end)
               n == end.line - start.line + 1
           IN  /\ t \in Seq(Line) /\ Len(t) = n
               /\ n = 1 => t = <<SubSeq(b.lines[start.line], start.col + 1, end.col)>>
               /\ n > 1 => /\ t[1] = After(b.lines[start.line], start.col)
                           /\ t[n] = Before(b.lines[end.line], end.col)
                           /\ \A i \in 2..n - 1 : t[i] = b.lines[start.line + i - 1]
<1> DEFINE n == end.line - start.line + 1
<1>1. /\ b.lines \in Seq(Line) /\ Len(b.lines) \in Nat
      /\ \A l \in 1..Len(b.lines) : b.lines[l] \in Line /\ Len(b.lines[l]) \in Nat
  BY Parts
<1>2. /\ start.line \in 1..Len(b.lines) /\ end.line \in start.line..Len(b.lines)
      /\ end.line \in 1..Len(b.lines)
      /\ start.col \in 0..Len(b.lines[start.line])
      /\ end.col \in 0..Len(b.lines[end.line])
      /\ start.line = end.line => start.col <= end.col
  BY <1>1, RegionParts
<1>3. CASE start.line = end.line
  <2> DEFINE s == SubSeq(b.lines[start.line], start.col + 1, end.col)
  <2>1. b.lines[start.line] \in Seq(Char)
    BY <1>1, <1>2 DEF Line
  <2>2. start.col + 1 \in 1..Len(b.lines[start.line]) + 1 /\ end.col \in 0..Len(b.lines[start.line])
    BY <1>1, <1>2, <1>3
  <2>3. s \in Seq(Char)
    BY <2>1, <2>2, Piece
  <2>4. s \in Line
    BY <2>3 DEF Line
  <2> HIDE DEF s
  <2>5. <<s>> \in Seq(Line) /\ Len(<<s>>) = 1
    BY <2>4
  <2>6. RegionText(b, start, end) = <<s>> /\ n = 1
    BY <1>2, <1>3 DEF RegionText, s
  <2> QED BY <2>5, <2>6 DEF s
<1>4. CASE start.line # end.line
  <2> DEFINE x == After(b.lines[start.line], start.col)
             mid == SubSeq(b.lines, start.line + 1, end.line - 1)
             y == Before(b.lines[end.line], end.col)
             t == <<x>> \o mid \o <<y>>
  <2>1. n \in Nat /\ n > 1
    BY <1>2, <1>4
  <2>2. x \in Line /\ y \in Line
    BY <1>1, <1>2, BeforeAfter
  <2>3. /\ mid \in Seq(Line) /\ Len(mid) = n - 2
        /\ \A i \in 1..n - 2 : mid[i] = b.lines[start.line + i]
    <3>1. start.line + 1 \in 1..Len(b.lines) + 1 /\ end.line - 1 \in 0..Len(b.lines)
      BY <1>1, <1>2, <1>4
    <3>2. /\ mid \in Seq(Line)
          /\ Len(mid) = IF start.line + 1 <= end.line - 1
                        THEN end.line - 1 - (start.line + 1) + 1 ELSE 0
          /\ \A i \in 1..end.line - 1 - (start.line + 1) + 1 :
                mid[i] = b.lines[start.line + 1 + i - 1]
      BY <1>1, <3>1, Piece, Zenon
    <3>3. n - 2 = end.line - 1 - (start.line + 1) + 1 /\ n - 2 \in Nat
      <4>1. start.line \in Int /\ end.line \in Int /\ start.line < end.line
        BY <1>1, <1>2, <1>4
      <4> QED BY <4>1
    <3> HIDE DEF mid, n
    <3>4. Len(mid) = n - 2
      BY <1>2, <3>2, <3>3
    <3>5. ASSUME NEW i \in 1..n - 2 PROVE mid[i] = b.lines[start.line + i]
      <4>1. mid[i] = b.lines[start.line + 1 + i - 1]
        BY <3>2, <3>3
      <4>2. start.line + 1 + i - 1 = start.line + i
        BY <1>2, <3>3
      <4> QED BY <4>1, <4>2
    <3> QED BY <3>2, <3>4, <3>5
  <2>4. RegionText(b, start, end) = t
    BY <1>4 DEF RegionText
  <2> HIDE DEF x, y, mid, n
  <2>5. /\ t \in Seq(Line) /\ Len(t) = n /\ t[1] = x /\ t[n] = y
        /\ \A i \in 2..n - 1 : t[i] = mid[i - 1]
    <3>1. /\ t \in Seq(Line) /\ Len(t) = Len(mid) + 2 /\ t[1] = x /\ t[Len(mid) + 2] = y
          /\ \A i \in 2..Len(mid) + 2 - 1 : t[i] = mid[i - 1]
      BY <2>2, <2>3, Framed
    <3>2. Len(mid) + 2 = n
      BY <2>1, <2>3
    <3> HIDE DEF t
    <3> QED BY <3>1, <3>2
  <2> HIDE DEF t
  <2>6. \A i \in 2..n - 1 : t[i] = b.lines[start.line + i - 1]
    <3> TAKE i \in 2..n - 1
    <3>1. i - 1 \in 1..n - 2 /\ start.line + (i - 1) = start.line + i - 1
      BY <1>2, <2>1
    <3> QED BY <2>3, <2>5, <3>1
  <2> QED BY <2>1, <2>4, <2>5, <2>6 DEF n, x, y
<1> QED BY <1>3, <1>4

LEMMA RegionTextSound ==
    ASSUME NEW b, Sound(b), NEW start, NEW end, Region(b, start, end)
    PROVE  RegionText(b, start, end) \in Text
<1>1. /\ start.line \in 1..Len(b.lines) /\ end.line \in start.line..Len(b.lines)
      /\ Len(b.lines) \in Nat
  BY RegionParts, Parts
<1> DEFINE t == RegionText(b, start, end)
<1>2. t \in Seq(Line) /\ Len(t) = end.line - start.line + 1
  BY RegionTextPieces
<1> HIDE DEF t
<1>3. t # << >>
  BY <1>1, <1>2
<1> QED BY <1>2, <1>3 DEF Text, t

\* The lines a paste of several pieces puts in place of the cursor's.
Pasted(b, t) ==
    <<Before(Cur(b), b.col) \o t[1]>> \o SubSeq(t, 2, Len(t) - 1)
    \o <<t[Len(t)] \o After(Cur(b), b.col)>>

LEMMA PastedPieces ==
    ASSUME NEW b, Sound(b), NEW t \in Seq(Line), Len(t) > 1
    PROVE  /\ Pasted(b, t) \in Seq(Line) /\ Len(Pasted(b, t)) = Len(t)
           /\ Pasted(b, t)[1] = Before(Cur(b), b.col) \o t[1]
           /\ Pasted(b, t)[Len(t)] = t[Len(t)] \o After(Cur(b), b.col)
           /\ \A i \in 2..Len(t) - 1 : Pasted(b, t)[i] = t[i]
<1> DEFINE x == Before(Cur(b), b.col) \o t[1]
           mid == SubSeq(t, 2, Len(t) - 1)
           y == t[Len(t)] \o After(Cur(b), b.col)
           p == <<x>> \o mid \o <<y>>
           n == Len(t)
<1>1. n \in Nat /\ n > 1 /\ t[1] \in Line /\ t[n] \in Line
  OBVIOUS
<1>2. Cur(b) \in Line /\ b.col \in 0..Len(Cur(b))
  BY Parts
<1>3. Before(Cur(b), b.col) \in Line /\ After(Cur(b), b.col) \in Line
  BY <1>2, BeforeAfter
<1>4. x \in Line /\ y \in Line
  BY <1>1, <1>3, TwoPieces
<1>5. /\ mid \in Seq(Line) /\ Len(mid) = n - 2
      /\ \A i \in 1..n - 2 : mid[i] = t[i + 1]
  <2>1. 2 \in 1..Len(t) + 1 /\ n - 1 \in 0..Len(t)
    BY <1>1
  <2>2. /\ mid \in Seq(Line) /\ Len(mid) = IF 2 <= n - 1 THEN n - 1 - 2 + 1 ELSE 0
        /\ \A i \in 1..n - 1 - 2 + 1 : mid[i] = t[2 + i - 1]
    BY <2>1, Piece, Zenon
  <2> HIDE DEF mid, n
  <2>3. n - 2 \in Nat /\ n - 1 - 2 + 1 = n - 2
    BY <1>1
  <2>4. Len(mid) = n - 2
    BY <1>1, <2>2
  <2>5. ASSUME NEW i \in 1..n - 2 PROVE mid[i] = t[i + 1]
    <3>1. mid[i] = t[2 + i - 1] /\ 2 + i - 1 = i + 1
      BY <2>2, <2>3
    <3> QED BY <3>1
  <2> QED BY <2>2, <2>4, <2>5
<1> HIDE DEF x, y, mid
<1>6. /\ p \in Seq(Line) /\ Len(p) = Len(mid) + 2 /\ p[1] = x /\ p[Len(mid) + 2] = y
      /\ \A i \in 2..Len(mid) + 2 - 1 : p[i] = mid[i - 1]
  BY <1>4, <1>5, Framed
<1> HIDE DEF p
<1>7. Len(mid) + 2 = n
  BY <1>1, <1>5
<1>8. ASSUME NEW i \in 2..n - 1 PROVE p[i] = t[i]
  <2>1. i - 1 \in 1..n - 2 /\ i - 1 + 1 = i
    BY <1>1
  <2> QED BY <1>5, <1>6, <1>7, <2>1
<1>9. Pasted(b, t) = p
  BY DEF Pasted, p, x, mid, y
<1> QED BY <1>6, <1>7, <1>8, <1>9 DEF x, y

LEMMA PasteRegionSound ==
    ASSUME NEW b, Sound(b), NEW t \in Text
    PROVE  EditedFrom(b, PasteRegion(b, t))
<1> DEFINE n == Len(t)
           x == Before(Cur(b), b.col)
           y == After(Cur(b), b.col)
<1>1. /\ b.lines \in Seq(Line) /\ Len(b.lines) \in Nat /\ b.line \in 1..Len(b.lines)
      /\ Cur(b) \in Line /\ b.col \in 0..Len(Cur(b))
  BY Parts
<1>2. t \in Seq(Line) /\ n \in Nat \ {0} /\ t[1] \in Line /\ t[n] \in Line
  <2>1. t \in Seq(Line) /\ t # << >>
    BY DEF Text
  <2>2. n \in Nat \ {0}
    BY <2>1, EmptySeq
  <2> QED BY <2>1, <2>2
<1>3. x \in Line /\ y \in Line /\ Len(x) = b.col
  BY <1>1, BeforeAfter
<1> HIDE DEF x, y
<1>4. CASE t = <<Empty>>
  BY <1>4 DEF PasteRegion, EditedFrom
<1>5. CASE t # <<Empty>> /\ n = 1
  <2> DEFINE xt == x \o t[1]
             s == xt \o y
             c == b.col + Len(t[1])
  <2>1. xt \in Line /\ Len(xt) = Len(x) + Len(t[1]) /\ Len(t[1]) \in Nat
    BY <1>2, <1>3, TwoPieces, Zenon
  <2> HIDE DEF xt
  <2>2. s \in Line /\ Len(s) = Len(xt) + Len(y) /\ Len(y) \in Nat
    BY <1>3, <2>1, TwoPieces, Zenon
  <2> HIDE DEF s
  <2>3. c \in 0..Len(s)
    BY <1>1, <1>3, <2>1, <2>2
  <2>4. PasteRegion(b, t) = ReplaceLine(b, s, c)
    BY <1>5 DEF PasteRegion, s, xt, x, y
  <2> QED BY <2>2, <2>3, <2>4, ReplaceLineSound
<1>6. CASE t # <<Empty>> /\ n # 1
  <2> DEFINE new == Pasted(b, t)
             lines == Spliced(b.lines, b.line, b.line, new)
             l == b.line + n - 1
  <2>1. n > 1
    <3>1. n \in Nat \ {0} /\ n # 1
      BY <1>2, <1>6, Zenon
    <3> HIDE DEF n
    <3> QED BY <3>1
  <2>2. new \in Seq(Line) /\ Len(new) = n /\ new[n] = t[n] \o y
    BY <1>2, <2>1, PastedPieces DEF y
  <2> HIDE DEF new
  <2>3. b.line \in 1..Len(b.lines) + 1 /\ b.line \in b.line - 1..Len(b.lines)
    BY <1>1
  <2>4. IsSplice(lines, b.lines, b.line, b.line, new)
    BY <1>1, <2>2, <2>3, SplicedLines
  <2> HIDE DEF lines
  <2>5. lines \in Seq(Line) /\ l \in 1..Len(lines) /\ lines[l] = new[n]
    <3>1. b.line \in Int /\ Len(b.lines) \in Int /\ n \in Int
      <4>1. Len(b.lines) \in Int /\ n \in Int
        BY <1>1, <1>2
      <4> QED BY <1>1, <4>1
    <3> HIDE DEF n
    <3>2. l \in 1..Len(lines) /\ ~(l < b.line) /\ l < b.line + n /\ l - b.line + 1 = n
      <4>1. Len(lines) = b.line - 1 + n + (Len(b.lines) - b.line)
        BY <2>2, <2>4 DEF IsSplice
      <4>2. b.line >= 1 /\ b.line <= Len(b.lines)
        BY <1>1, <3>1
      <4> QED BY <2>1, <3>1, <4>1, <4>2
    <3> QED BY <2>2, <2>4, <3>2 DEF IsSplice
  <2>6. Len(t[n]) \in 0..Len(lines[l])
    <3>1. Len(t[n] \o y) = Len(t[n]) + Len(y) /\ Len(t[n]) \in Nat /\ Len(y) \in Nat
      BY <1>2, <1>3, TwoPieces, Zenon
    <3> QED BY <2>2, <2>5, <3>1
  <2>7. Sound(Edited(lines, l, Len(t[n])))
    BY <2>5, <2>6, EditedSound
  <2>8. PasteRegion(b, t) = Edited(lines, l, Len(t[n]))
    BY <1>6 DEF PasteRegion, lines, new, Pasted
  <2> QED BY <2>7, <2>8 DEF EditedFrom, Edited
<1> QED BY <1>4, <1>5, <1>6
LEMMA CutLineSound ==
    ASSUME NEW b, Sound(b)
    PROVE  EditedFrom(b, CutLine(b))
<1> DEFINE n == Len(b.lines)
           lines == Spliced(b.lines, b.line, b.line, << >>)
           l == Lesser(b.line, n - 1)
<1>1. b.lines \in Seq(Line) /\ n \in Nat \ {0} /\ b.line \in 1..n
  BY Parts
<1>2. CASE n = 1
  <2> DEFINE one == <<Empty>>
  <2>1. one \in Seq(Line) /\ Len(one) = 1 /\ 0 \in 0..Len(one[1])
    BY DEF Empty, Line
  <2> HIDE DEF one
  <2>2. Sound(Edited(one, 1, 0))
    BY <2>1, EditedSound
  <2>3. CutLine(b) = Edited(one, 1, 0)
    BY <1>2 DEF CutLine, one
  <2> QED BY <2>2, <2>3 DEF EditedFrom, Edited
<1>3. CASE n # 1
  <2>1. << >> \in Seq(Line) /\ Len(<< >>) = 0
    OBVIOUS
  <2>2. b.line \in 1..Len(b.lines) + 1 /\ b.line \in b.line - 1..Len(b.lines)
    BY <1>1
  <2>3. IsSplice(lines, b.lines, b.line, b.line, << >>)
    BY <1>1, <2>1, <2>2, SplicedLines
  <2>4. lines \in Seq(Line) /\ Len(lines) = b.line - 1 + 0 + (n - b.line)
    BY <2>1, <2>3 DEF IsSplice
  <2> HIDE DEF lines
  <2>5. l \in 1..Len(lines)
    <3> HIDE DEF n
    <3>1. n >= 2
      BY <1>1, <1>3
    <3>2. b.line \in Int /\ b.line >= 1 /\ b.line <= n /\ n \in Int
      BY <1>1
    <3> QED BY <2>4, <3>1, <3>2 DEF Lesser
  <2> HIDE DEF l
  <2>6. lines[l] \in Line
    BY <2>4, <2>5
  <2>7. 0 \in 0..Len(lines[l])
    BY <2>6, TwoPieces
  <2>8. Sound(Edited(lines, l, 0))
    BY <2>4, <2>5, <2>7, EditedSound
  <2>9. CutLine(b) = Edited(lines, l, 0)
    BY <1>3 DEF CutLine, lines, l
  <2> QED BY <2>8, <2>9 DEF EditedFrom, Edited
<1> QED BY <1>2, <1>3

LEMMA PasteLineSound ==
    ASSUME NEW b, Sound(b), NEW t \in Text
    PROVE  EditedFrom(b, PasteLine(b, t))
<1> DEFINE lines == Spliced(b.lines, b.line, b.line - 1, t)
<1>1. b.lines \in Seq(Line) /\ Len(b.lines) \in Nat /\ b.line \in 1..Len(b.lines)
  BY Parts
<1>2. t \in Seq(Line) /\ Len(t) \in Nat \ {0}
  <2>1. t \in Seq(Line) /\ t # << >>
    BY DEF Text
  <2> QED BY <2>1, EmptySeq
<1>3. b.line \in 1..Len(b.lines) + 1 /\ b.line - 1 \in b.line - 1..Len(b.lines)
  BY <1>1
<1>4. IsSplice(lines, b.lines, b.line, b.line - 1, t)
  BY <1>1, <1>2, <1>3, SplicedLines
<1> HIDE DEF lines
<1>5. lines \in Seq(Line) /\ b.line \in 1..Len(lines)
  <2>1. lines \in Seq(Line) /\ Len(lines) = b.line - 1 + Len(t) + (Len(b.lines) - (b.line - 1))
    BY <1>4 DEF IsSplice
  <2>2. b.line \in Int /\ b.line >= 1 /\ b.line <= Len(b.lines)
    BY <1>1
  <2> QED BY <1>1, <1>2, <2>1, <2>2
<1>6. lines[b.line] \in Line
  BY <1>5
<1>7. 0 \in 0..Len(lines[b.line])
  BY <1>6, TwoPieces
<1>8. Sound(Edited(lines, b.line, 0))
  BY <1>5, <1>7, EditedSound
<1>9. PasteLine(b, t) = Edited(lines, b.line, 0)
  BY DEF PasteLine, lines
<1> QED BY <1>8, <1>9 DEF EditedFrom, Edited

\* Where two pieces were joined, they are told apart again.
LEMMA SplitWhereJoined ==
    ASSUME NEW x \in Line, NEW y \in Line
    PROVE  Before(x \o y, Len(x)) = x /\ After(x \o y, Len(x)) = y
<1> DEFINE xy == x \o y
<1>1. /\ x \in Seq(Char) /\ y \in Seq(Char) /\ Len(x) \in Nat /\ Len(y) \in Nat
      /\ xy \in Seq(Char) /\ Len(xy) = Len(x) + Len(y)
      /\ \A i \in 1..Len(x) : xy[i] = x[i]
      /\ \A i \in 1..Len(y) : xy[Len(x) + i] = y[i]
  <2>1. x \in Seq(Char) /\ y \in Seq(Char)
    BY DEF Line
  <2> QED BY <2>1
<1> HIDE DEF xy
<1>2. Before(xy, Len(x)) = x
  <2> DEFINE p == SubSeq(xy, 1, Len(x))
  <2>1. 1 \in 1..Len(xy) + 1 /\ Len(x) \in 0..Len(xy)
    BY <1>1
  <2>2. /\ p \in Seq(Char) /\ Len(p) = IF 1 <= Len(x) THEN Len(x) - 1 + 1 ELSE 0
        /\ \A i \in 1..Len(x) - 1 + 1 : p[i] = xy[1 + i - 1]
    BY <1>1, <2>1, Piece, Zenon
  <2> HIDE DEF p
  <2>3. Len(p) = Len(x) /\ \A i \in 1..Len(p) : p[i] = x[i]
    BY <1>1, <2>2
  <2>4. p = x
    BY <1>1, <2>2, <2>3, SeqEqual
  <2> QED BY <2>4 DEF Before, p
<1>3. After(xy, Len(x)) = y
  <2> DEFINE p == SubSeq(xy, Len(x) + 1, Len(xy))
  <2>1. Len(x) + 1 \in 1..Len(xy) + 1 /\ Len(xy) \in 0..Len(xy)
    BY <1>1
  <2>2. /\ p \in Seq(Char)
        /\ Len(p) = IF Len(x) + 1 <= Len(xy) THEN Len(xy) - (Len(x) + 1) + 1 ELSE 0
        /\ \A i \in 1..Len(xy) - (Len(x) + 1) + 1 : p[i] = xy[Len(x) + 1 + i - 1]
    BY <1>1, <2>1, Piece, Zenon
  <2> HIDE DEF p
  <2>3. Len(p) = Len(y)
    BY <1>1, <2>2
  <2>4. ASSUME NEW i \in 1..Len(p) PROVE p[i] = y[i]
    <3>1. p[i] = xy[Len(x) + 1 + i - 1] /\ Len(x) + 1 + i - 1 = Len(x) + i
      BY <1>1, <2>2, <2>3
    <3> QED BY <1>1, <2>3, <3>1
  <2>5. p = y
    BY <1>1, <2>2, <2>3, <2>4, SeqEqual
  <2> QED BY <2>5 DEF After, p
<1> QED BY <1>2, <1>3 DEF xy

\* A line is what is before a piece of it, the piece, and what is after it.
LEMMA ThreePieces ==
    ASSUME NEW s \in Line, NEW c \in 0..Len(s), NEW d \in 0..Len(s), c <= d
    PROVE  LET x == Before(s, c)
               m == SubSeq(s, c + 1, d)
           IN  /\ m \in Line /\ Len(m) = d - c
               /\ x \o m \in Line /\ (x \o m) \o After(s, d) = s
<1>1. s \in Seq(Char) /\ Len(s) \in Nat
  BY DEF Line
<1>2. c + 1 \in 1..Len(s) + 1 /\ 1 \in 1..Len(s) + 1 /\ c \in 1 - 1..Len(s) /\ d \in c..Len(s)
  BY <1>1
<1>3. /\ SubSeq(s, c + 1, d) \in Seq(Char)
      /\ Len(SubSeq(s, c + 1, d)) = IF c + 1 <= d THEN d - (c + 1) + 1 ELSE 0
  BY <1>1, <1>2, Piece, Zenon
<1>4. SubSeq(s, 1, c) \o SubSeq(s, c + 1, d) = SubSeq(s, 1, d)
  BY <1>1, <1>2, ConcatAdjacentSubSeq, Zenon
<1>5. Before(s, d) \in Line /\ Before(s, d) \o After(s, d) = s
  BY BeforeAfter
<1>6. Len(SubSeq(s, c + 1, d)) = d - c
  BY <1>2, <1>3
<1> QED BY <1>3, <1>4, <1>5, <1>6 DEF Before, Line

\* A line replaced by itself; and lines replaced by one and then put back.
LEMMA SpliceSame ==
    ASSUME NEW lines \in Seq(Line), NEW l \in 1..Len(lines), NEW s, NEW new,
           Len(new) = 1, new[1] = lines[l], IsSplice(s, lines, l, l, new)
    PROVE  s = lines
<1>1. Len(lines) \in Nat /\ l \in Int
  OBVIOUS
<1>2. s \in Seq(Line) /\ Len(s) = Len(lines)
  BY <1>1 DEF IsSplice
<1>3. ASSUME NEW i \in 1..Len(s) PROVE s[i] = lines[i]
  <2>1. s[i] = IF i < l THEN lines[i] ELSE IF i < l + 1 THEN new[i - l + 1]
               ELSE lines[i - (l - 1) - 1 + l]
    BY DEF IsSplice
  <2>2. CASE i = l
    BY <1>1, <2>1, <2>2
  <2>3. CASE i > l
    <3>1. i - (l - 1) - 1 + l = i
      BY <1>1, <1>2
    <3> QED BY <1>1, <1>2, <2>1, <2>3, <3>1
  <2> QED BY <1>1, <1>2, <2>1, <2>2, <2>3
<1> QED BY <1>2, <1>3, SeqEqual

LEMMA SpliceUndone ==
    ASSUME NEW lines \in Seq(Line), NEW l \in 1..Len(lines), NEW s, NEW new,
           Len(new) = 1, IsSplice(s, lines, l, l, new)
    PROVE  [s EXCEPT ![l] = lines[l]] = lines
<1> DEFINE r == [s EXCEPT ![l] = lines[l]]
<1>1. Len(lines) \in Nat /\ l \in Int /\ lines[l] \in Line
  OBVIOUS
<1>2. s \in Seq(Line) /\ Len(s) = Len(lines)
  BY <1>1 DEF IsSplice
<1>3. r \in Seq(Line) /\ Len(r) = Len(lines) /\ \A i \in 1..Len(r) : i # l => r[i] = s[i]
  BY <1>1, <1>2
<1>4. r[l] = lines[l]
  BY <1>1, <1>2
<1> HIDE DEF r
<1>5. ASSUME NEW i \in 1..Len(r), i # l PROVE r[i] = lines[i]
  <2>1. s[i] = IF i < l THEN lines[i] ELSE IF i < l + 1 THEN new[i - l + 1]
               ELSE lines[i - (l - 1) - 1 + l]
    BY <1>2, <1>3 DEF IsSplice
  <2>2. i - (l - 1) - 1 + l = i
    BY <1>1, <1>3
  <2> QED BY <1>1, <1>3, <1>5, <2>1, <2>2
<1>6. r = lines
  BY <1>3, <1>4, <1>5, SeqEqual
<1> QED BY <1>6 DEF r

\* Several lines replaced by one, which is then replaced by what they were.
LEMMA SpliceRestored ==
    ASSUME NEW lines \in Seq(Line), NEW from \in 1..Len(lines), NEW to \in from..Len(lines),
           NEW s, NEW mid, Len(mid) = 1, IsSplice(s, lines, from, to, mid),
           NEW r, NEW new, Len(new) = to - from + 1, IsSplice(r, s, from, from, new),
           \A i \in 1..to - from + 1 : new[i] = lines[from + i - 1]
    PROVE  r = lines
<1> DEFINE N == Len(lines)
<1>1. N \in Nat /\ from \in Int /\ to \in Int /\ 1 <= from /\ from <= to /\ to <= N
  OBVIOUS
<1>2. s \in Seq(Line) /\ Len(s) = from - 1 + 1 + (N - to)
  BY DEF IsSplice
<1>3. r \in Seq(Line) /\ Len(r) = from - 1 + (to - from + 1) + (Len(s) - from)
  BY DEF IsSplice
<1> HIDE DEF N
<1>4. Len(r) = N
  BY <1>1, <1>2, <1>3
<1>5. ASSUME NEW i \in 1..Len(r) PROVE r[i] = lines[i]
  <2>1. r[i] = IF i < from THEN s[i] ELSE IF i < from + (to - from + 1) THEN new[i - from + 1]
               ELSE s[i - (from - 1) - (to - from + 1) + from]
    BY DEF IsSplice
  <2>2. i \in Int /\ 1 <= i /\ i <= N
    BY <1>1, <1>4
  <2>3. \A j \in 1..Len(s) :
          s[j] = IF j < from THEN lines[j] ELSE IF j < from + 1 THEN mid[j - from + 1]
                 ELSE lines[j - (from - 1) - 1 + to]
    BY DEF IsSplice
  <2>4. CASE i < from
    <3>1. i \in 1..Len(s)
      BY <1>1, <1>2, <2>2, <2>4
    <3> QED BY <2>1, <2>3, <2>4, <3>1
  <2>5. CASE from <= i /\ i <= to
    <3>1. /\ i - from + 1 \in 1..to - from + 1 /\ from + (i - from + 1) - 1 = i
          /\ ~(i < from) /\ i < from + (to - from + 1)
      BY <1>1, <2>2, <2>5
    <3>2. r[i] = new[i - from + 1]
      BY <2>1, <3>1
    <3> QED BY <3>1, <3>2
  <2>6. CASE to < i
    <3> DEFINE j == i - (from - 1) - (to - from + 1) + from
    <3>1. ~(i < from) /\ ~(i < from + (to - from + 1))
      BY <1>1, <2>2, <2>6
    <3>2. r[i] = s[j]
      BY <2>1, <3>1
    <3>3. /\ j \in 1..Len(s) /\ ~(j < from) /\ ~(j < from + 1)
          /\ j - (from - 1) - 1 + to = i
      BY <1>1, <1>2, <2>2, <2>6
    <3>4. s[j] = lines[j - (from - 1) - 1 + to]
      BY <2>3, <3>3
    <3> QED BY <3>2, <3>3, <3>4
  <2> QED BY <1>1, <2>2, <2>4, <2>5, <2>6
<1>6. Len(r) = Len(lines)
  BY <1>4 DEF N
<1> QED BY <1>3, <1>5, <1>6, SeqEqual

\* A region cut and pasted back at once: the lines are as they were, the cursor at its end.
LEMMA RegionRoundTrip ==
    ASSUME NEW b, Sound(b), NEW start, NEW end, Region(b, start, end)
    PROVE  LET back == PasteRegion(CutRegion(b, start, end), RegionText(b, start, end))
           IN  back.lines = b.lines /\ back.line = end.line /\ back.col = end.col
<1> DEFINE t == RegionText(b, start, end)
           n == end.line - start.line + 1
           s1 == b.lines[start.line]
           s2 == b.lines[end.line]
           x == Before(s1, start.col)
           y == After(s2, end.col)
           left == CutRegion(b, start, end)
<1>1. /\ b.lines \in Seq(Line) /\ Len(b.lines) \in Nat
      /\ \A l \in 1..Len(b.lines) : b.lines[l] \in Line /\ Len(b.lines[l]) \in Nat
  BY Parts
<1>2. /\ start.line \in 1..Len(b.lines) /\ end.line \in start.line..Len(b.lines)
      /\ end.line \in 1..Len(b.lines)
      /\ start.col \in 0..Len(s1) /\ end.col \in 0..Len(s2)
      /\ start.line = end.line => start.col <= end.col
  BY <1>1, RegionParts
<1>3. s1 \in Line /\ s2 \in Line
  BY <1>1, <1>2
<1>4. /\ x \in Line /\ Len(x) = start.col /\ y \in Line
      /\ x \o After(s1, start.col) = s1 /\ Before(s2, end.col) \o y = s2
  BY <1>2, <1>3, BeforeAfter
<1>5. x \o y \in Line
  BY <1>4, TwoPieces
<1>6. /\ left.lines = Spliced(b.lines, start.line, end.line, <<x \o y>>)
      /\ left.line = start.line /\ left.col = start.col
  BY DEF CutRegion, Edited
<1>7. Sound(left)
  BY CutRegionSound DEF EditedFrom
<1>8. start.line \in 1..Len(b.lines) + 1 /\ end.line \in start.line - 1..Len(b.lines)
  BY <1>1, <1>2
<1> DEFINE mid == <<x \o y>>
<1>9. mid \in Seq(Line) /\ Len(mid) = 1 /\ mid[1] = x \o y
  BY <1>5
<1> HIDE DEF mid, x, y, t, left, n
<1>10. IsSplice(left.lines, b.lines, start.line, end.line, mid)
  BY <1>1, <1>6, <1>8, <1>9, SplicedLines DEF mid
<1>11. Cur(left) = x \o y
  <2>1. start.line \in Int /\ end.line \in Int /\ Len(b.lines) \in Int
        /\ start.line >= 1 /\ end.line <= Len(b.lines)
    BY <1>1, <1>2
  <2>2. start.line \in 1..Len(left.lines)
    BY <1>9, <1>10, <2>1 DEF IsSplice
  <2>3. left.lines[start.line] = mid[start.line - start.line + 1]
    BY <1>9, <1>10, <2>1, <2>2 DEF IsSplice
  <2>4. start.line - start.line + 1 = 1
    BY <2>1
  <2>5. left.lines[left.line] = x \o y
    BY <1>6, <1>9, <2>3, <2>4
  <2> QED BY <2>5 DEF Cur
<1>12. Before(Cur(left), left.col) = x /\ After(Cur(left), left.col) = y
  BY <1>4, <1>6, <1>11, SplitWhereJoined
<1>13. CASE start.line = end.line
  <2> DEFINE m == SubSeq(s1, start.col + 1, end.col)
  <2>1. /\ m \in Line /\ Len(m) = end.col - start.col
        /\ x \o m \in Line /\ (x \o m) \o y = s1
    <3>1. /\ s1 \in Line /\ start.col \in 0..Len(s1) /\ end.col \in 0..Len(s1)
          /\ start.col <= end.col /\ x = Before(s1, start.col) /\ y = After(s1, end.col)
      BY <1>1, <1>2, <1>3, <1>13 DEF x, y
    <3> HIDE DEF m
    <3>2. m = SubSeq(s1, start.col + 1, end.col)
      BY DEF m
    <3> QED BY <3>1, <3>2, ThreePieces
  <2>2. t = <<m>>
    BY <1>13 DEF t, RegionText
  <2> HIDE DEF m
  <2>3. CASE t = <<Empty>>
    <3>1. m = Empty
      BY <2>2, <2>3
    <3>2. start.col = end.col
      <4>1. Len(m) = 0
        BY <3>1 DEF Empty
      <4> QED BY <1>2, <1>13, <2>1, <4>1
    <3>3. PasteRegion(left, t) = left
      BY <2>3 DEF PasteRegion
    <3>4. x \o y = s1
      BY <1>4, <1>13, <3>2 DEF y
    <3>5. left.lines = b.lines
      BY <1>1, <1>2, <1>9, <1>10, <1>13, <3>4, SpliceSame
    <3> QED BY <1>6, <1>13, <3>2, <3>3, <3>5 DEF t, left
  <2>4. CASE t # <<Empty>>
    <3>1. /\ PasteRegion(left, t).lines = [left.lines EXCEPT ![left.line] = s1]
          /\ PasteRegion(left, t).line = left.line
          /\ PasteRegion(left, t).col = left.col + Len(m)
      <4>1. Len(t) = 1 /\ t[1] = m
        BY <2>2
      <4> QED BY <1>12, <2>1, <2>4, <4>1 DEF PasteRegion, ReplaceLine, Edited
    <3>2. left.col + Len(m) = end.col
      BY <1>2, <1>6, <1>13, <2>1
    <3>3. [left.lines EXCEPT ![left.line] = s1] = b.lines
      <4>1. IsSplice(left.lines, b.lines, start.line, start.line, mid)
        BY <1>10, <1>13
      <4>2. [left.lines EXCEPT ![start.line] = b.lines[start.line]] = b.lines
        BY <1>1, <1>2, <1>9, <4>1, SpliceUndone
      <4> QED BY <1>6, <4>2
    <3> QED BY <1>6, <1>13, <3>1, <3>2, <3>3 DEF t, left
  <2> QED BY <2>3, <2>4
<1>14. CASE start.line # end.line
  <2> DEFINE new == Pasted(left, t)
             r == Spliced(left.lines, left.line, left.line, new)
  <2>1. n \in Nat /\ n > 1
    <3>1. start.line \in Int /\ end.line \in Int /\ start.line < end.line
      BY <1>1, <1>2, <1>14
    <3> QED BY <3>1 DEF n
  <2>2. /\ t \in Seq(Line) /\ Len(t) = n
        /\ t[1] = After(s1, start.col) /\ t[n] = Before(s2, end.col)
        /\ \A i \in 2..n - 1 : t[i] = b.lines[start.line + i - 1]
    BY <2>1, RegionTextPieces DEF t, n
  <2>3. /\ new \in Seq(Line) /\ Len(new) = n /\ new[1] = s1 /\ new[n] = s2
        /\ \A i \in 2..n - 1 : new[i] = t[i]
    <3>1. /\ new \in Seq(Line) /\ Len(new) = Len(t)
          /\ new[1] = Before(Cur(left), left.col) \o t[1]
          /\ new[Len(t)] = t[Len(t)] \o After(Cur(left), left.col)
          /\ \A i \in 2..Len(t) - 1 : new[i] = t[i]
      BY <1>7, <2>1, <2>2, PastedPieces
    <3> HIDE DEF new
    <3>2. new[1] = s1 /\ new[n] = s2
      BY <1>4, <1>12, <2>2, <3>1
    <3> QED BY <2>2, <3>1, <3>2
  <2> HIDE DEF new
  <2>4. ASSUME NEW i \in 1..n PROVE new[i] = b.lines[start.line + i - 1]
    <3>1. start.line + 1 - 1 = start.line /\ start.line + n - 1 = end.line
      BY <1>2 DEF n
    <3>2. CASE i \in 2..n - 1
      BY <2>2, <2>3, <3>2
    <3>3. i = 1 \/ i = n \/ i \in 2..n - 1
      BY <2>1
    <3> QED BY <2>3, <3>1, <3>2, <3>3
  <2>5. IsSplice(r, left.lines, start.line, start.line, new)
    <3>1. left.lines \in Seq(Line) /\ start.line \in 1..Len(left.lines)
      BY <1>6, <1>7, Parts
    <3>2. /\ start.line \in 1..Len(left.lines) + 1
          /\ start.line \in start.line - 1..Len(left.lines)
      BY <3>1
    <3> QED BY <1>6, <2>3, <3>1, <3>2, SplicedLines
  <2>6. r = b.lines
    <3>1. n = end.line - start.line + 1
      BY DEF n
    <3>2. Len(new) = end.line - start.line + 1
      BY <2>3, <3>1
    <3>3. \A i \in 1..end.line - start.line + 1 : new[i] = b.lines[start.line + i - 1]
      BY <2>4, <3>1
    <3> HIDE DEF r
    <3> QED BY <1>1, <1>2, <1>9, <1>10, <2>5, <3>2, <3>3, SpliceRestored
  <2>7. PasteRegion(left, t) = Edited(r, left.line + n - 1, Len(t[n]))
    <3>1. t # <<Empty>> /\ Len(t) # 1
      <4>1. Len(t) # 1 /\ Len(<<Empty>>) = 1
        BY <2>1, <2>2
      <4> QED BY <4>1
    <3> QED BY <2>2, <3>1 DEF PasteRegion, Pasted, r, new
  <2>8. Len(t[n]) = end.col
    BY <1>2, <1>3, <2>2, BeforeAfter
  <2>9. left.line + n - 1 = end.line
    BY <1>2, <1>6 DEF n
  <2> QED BY <2>6, <2>7, <2>8, <2>9 DEF t, left, Edited
<1> QED BY <1>13, <1>14
\* Nothing put in at a line changes nothing.
LEMMA NothingSpliced ==
    ASSUME NEW lines \in Seq(Line), NEW l \in 1..Len(lines)
    PROVE  Spliced(lines, l, l - 1, << >>) = lines
<1>1. Len(lines) \in Nat /\ l \in Int
  OBVIOUS
<1>2. l \in 1..Len(lines) + 1 /\ l - 1 \in 1 - 1..Len(lines) /\ Len(lines) \in l - 1..Len(lines)
  BY <1>1
<1>3. SubSeq(lines, 1, l - 1) \o SubSeq(lines, l - 1 + 1, Len(lines)) = SubSeq(lines, 1, Len(lines))
  <2>1. 1 \in 1..Len(lines) + 1 /\ l - 1 \in 1 - 1..Len(lines) /\ Len(lines) \in l - 1..Len(lines)
    BY <1>1
  <2> QED BY <2>1, ConcatAdjacentSubSeq, Zenon
<1>4. SubSeq(lines, 1, Len(lines)) = lines
  BY SubSeqFull
<1>5. SubSeq(lines, 1, l - 1) \o << >> = SubSeq(lines, 1, l - 1)
  <2>1. 1 \in 1..Len(lines) + 1 /\ l - 1 \in 0..Len(lines)
    BY <1>1
  <2>2. SubSeq(lines, 1, l - 1) \in Seq(Line)
    BY <2>1, Piece
  <2> QED BY <2>2, ConcatEmptySeq
<1> QED BY <1>3, <1>4, <1>5 DEF Spliced

\* Taking out a line above another, and pasting it at the end of t where it was, is
\* pasting t above it.
LEMMA TakenAndPasted ==
    ASSUME NEW lines \in Seq(Line), NEW l \in 1..Len(lines) - 1, NEW t \in Seq(Line)
    PROVE  Spliced(Spliced(lines, l, l, << >>), l, l - 1, Append(t, lines[l]))
           = Spliced(lines, l, l - 1, t)
<1> DEFINE n == Len(lines)
           k == Len(t)
           none == << >>
           more == Append(t, lines[l])
           s == Spliced(lines, l, l, none)
           A == Spliced(s, l, l - 1, more)
           B == Spliced(lines, l, l - 1, t)
<1>1. n \in Nat /\ k \in Nat /\ l \in Int /\ 1 <= l /\ l < n /\ lines[l] \in Line
  OBVIOUS
<1>2. /\ more \in Seq(Line) /\ Len(more) = k + 1 /\ more[k + 1] = lines[l]
      /\ \A i \in 1..k : more[i] = t[i]
  BY <1>1, AppendProperties
<1> HIDE DEF more
<1>3. none \in Seq(Line) /\ Len(none) = 0
  OBVIOUS
<1>4. IsSplice(s, lines, l, l, none)
  <2>1. l \in 1..Len(lines) + 1 /\ l \in l - 1..Len(lines)
    BY <1>1
  <2> QED BY <1>3, <2>1, SplicedLines
<1> HIDE DEF none, s
<1>5. s \in Seq(Line) /\ Len(s) = n - 1
  BY <1>1, <1>3, <1>4 DEF IsSplice
<1>6. IsSplice(A, s, l, l - 1, more)
  <2>1. l \in 1..Len(s) + 1 /\ l - 1 \in l - 1..Len(s)
    BY <1>1, <1>5
  <2> QED BY <1>2, <1>5, <2>1, SplicedLines
<1>7. IsSplice(B, lines, l, l - 1, t)
  <2>1. l \in 1..Len(lines) + 1 /\ l - 1 \in l - 1..Len(lines)
    BY <1>1
  <2> QED BY <2>1, SplicedLines
<1> HIDE DEF A, B
<1>8. A \in Seq(Line) /\ B \in Seq(Line) /\ Len(A) = n + k /\ Len(B) = n + k
  <2>1. Len(A) = l - 1 + Len(more) + (Len(s) - (l - 1))
    BY <1>6 DEF IsSplice
  <2>2. Len(B) = l - 1 + k + (n - (l - 1))
    BY <1>7 DEF IsSplice
  <2>3. A \in Seq(Line) /\ B \in Seq(Line)
    BY <1>6, <1>7 DEF IsSplice
  <2> HIDE DEF n, k
  <2> QED BY <1>1, <1>2, <1>5, <2>1, <2>2, <2>3
<1>9. ASSUME NEW i \in 1..Len(A) PROVE A[i] = B[i]
  <2>1. A[i] = IF i < l THEN s[i] ELSE IF i < l + Len(more) THEN more[i - l + 1]
               ELSE s[i - (l - 1) - Len(more) + (l - 1)]
    BY <1>6 DEF IsSplice
  <2>2. B[i] = IF i < l THEN lines[i] ELSE IF i < l + k THEN t[i - l + 1]
               ELSE lines[i - (l - 1) - k + (l - 1)]
    BY <1>7, <1>8 DEF IsSplice
  <2>3. \A j \in 1..Len(s) :
          s[j] = IF j < l THEN lines[j] ELSE IF j < l + Len(none) THEN none[j - l + 1]
                 ELSE lines[j - (l - 1) - Len(none) + l]
    BY <1>4 DEF IsSplice
  <2>4. i \in Int /\ 1 <= i /\ i <= n + k
    <3> HIDE DEF n, k
    <3> QED BY <1>1, <1>8
  <2> HIDE DEF n, k
  <2>5. CASE i < l
    <3>1. i \in 1..Len(s)
      BY <1>1, <1>5, <2>4, <2>5
    <3> QED BY <2>1, <2>2, <2>3, <2>5, <3>1
  <2>6. CASE l <= i /\ i < l + k
    <3>1. i - l + 1 \in 1..k /\ ~(i < l) /\ i < l + (k + 1)
      BY <1>1, <2>4, <2>6
    <3> QED BY <1>2, <2>1, <2>2, <2>6, <3>1
  <2>7. CASE i = l + k
    <3>1. i - l + 1 = k + 1 /\ ~(i < l) /\ i < l + (k + 1) /\ i - (l - 1) - k + (l - 1) = l
      BY <1>1, <2>7
    <3>2. A[i] = more[k + 1]
      BY <1>2, <2>1, <3>1
    <3>3. B[i] = lines[l]
      BY <1>1, <2>2, <2>7, <3>1
    <3> QED BY <1>2, <3>2, <3>3
  <2>8. CASE i > l + k
    <3> DEFINE j == i - k - 1
    <3>1. /\ i - (l - 1) - (k + 1) + (l - 1) = j /\ ~(i < l) /\ ~(i < l + (k + 1)) /\ ~(i < l + k)
          /\ j \in 1..n - 1 /\ ~(j < l) /\ ~(j < l + 0) /\ j - (l - 1) - 0 + l = i - k
          /\ i - (l - 1) - k + (l - 1) = i - k
      BY <1>1, <2>4, <2>8
    <3>2. A[i] = s[j]
      BY <1>2, <2>1, <3>1
    <3>3. s[j] = lines[i - k]
      BY <1>3, <1>5, <2>3, <3>1
    <3>4. B[i] = lines[i - k]
      BY <2>2, <3>1
    <3> QED BY <3>2, <3>3, <3>4
  <2> QED BY <1>1, <2>4, <2>5, <2>6, <2>7, <2>8
<1>10. A = B
  BY <1>8, <1>9, SeqEqual
<1> QED BY <1>10 DEF A, B, s, more, none

\* A line cut above another: pasting the cut line, or a run of cuts with it at the end,
\* gives what there was before it was cut.
LEMMA LineCutsRestored ==
    ASSUME NEW b, Sound(b), b.line < Len(b.lines), NEW t \in Seq(Line)
    PROVE  /\ PasteLine(CutLine(b), Append(t, Cur(b))).lines = PasteLine(b, t).lines
           /\ PasteLine(CutLine(b), <<Cur(b)>>).lines = b.lines
<1>1. b.lines \in Seq(Line) /\ Len(b.lines) \in Nat /\ b.line \in 1..Len(b.lines)
  BY Parts
<1>2. b.line \in 1..Len(b.lines) - 1 /\ Len(b.lines) # 1 /\ Lesser(b.line, Len(b.lines) - 1) = b.line
  <2> DEFINE n == Len(b.lines)
             l == b.line
  <2>1. n \in Int /\ l \in Int /\ 1 <= l /\ l < n
    BY <1>1
  <2> HIDE DEF n, l
  <2>2. l \in 1..n - 1 /\ n # 1 /\ Lesser(l, n - 1) = l
    BY <2>1 DEF Lesser
  <2> QED BY <2>2 DEF n, l
<1>3. /\ CutLine(b).lines = Spliced(b.lines, b.line, b.line, << >>)
      /\ CutLine(b).line = b.line
  BY <1>2 DEF CutLine, Edited
<1>4. ASSUME NEW u \in Seq(Line)
      PROVE  PasteLine(CutLine(b), Append(u, Cur(b))).lines = PasteLine(b, u).lines
  BY <1>1, <1>2, <1>3, TakenAndPasted DEF PasteLine, Edited, Cur
<1>5. PasteLine(b, << >>).lines = b.lines
  BY <1>1, NothingSpliced DEF PasteLine, Edited
<1>6. << >> \in Seq(Line) /\ Append(<< >>, Cur(b)) = <<Cur(b)>>
  OBVIOUS
<1> QED BY <1>4, <1>5, <1>6

-----------------------------------------------------------------------------
(* Files and searches                                                      *)

LEMMA FilesSound ==
    /\ Sound(NewBuffer) /\ NewBuffer.lines \in Text /\ ~NewBuffer.modified
    /\ \A t \in Text : Sound(FromText(t)) /\ ~FromText(t).modified
    /\ \A b : Sound(b) => ToText(b) \in Text /\ FromText(ToText(b)).lines = b.lines
<1>1. ASSUME NEW lines \in Text
      PROVE  Sound([lines |-> lines, line |-> 1, col |-> 0, modified |-> FALSE])
  <2>1. lines \in Seq(Line) /\ lines # << >>
    BY DEF Text
  <2>2. Len(lines) \in Nat \ {0}
    BY <2>1, EmptySeq
  <2>3. lines[1] \in Line
    BY <2>1, <2>2
  <2>4. Len(lines[1]) \in Nat
    BY <2>3, TwoPieces
  <2> DEFINE b == [lines |-> lines, line |-> 1, col |-> 0, modified |-> FALSE]
  <2>5. b.lines = lines /\ b.line = 1 /\ b.col = 0
    OBVIOUS
  <2>6. b \in Buffers
    BY DEF Buffers
  <2> HIDE DEF b
  <2>7. CursorIn(b)
    BY <2>2, <2>4, <2>5 DEF CursorIn, Cur
  <2> QED BY <2>6, <2>7 DEF Sound, b
<1>2. <<Empty>> \in Text
  <2>1. Empty \in Line
    BY DEF Empty, Line
  <2>2. <<Empty>> \in Seq(Line) /\ <<Empty>> # << >>
    BY <2>1
  <2> QED BY <2>2 DEF Text
<1>3. Sound(NewBuffer) /\ NewBuffer.lines \in Text /\ ~NewBuffer.modified
  <2> DEFINE one == <<Empty>>
  <2>1. one \in Text /\ NewBuffer = [lines |-> one, line |-> 1, col |-> 0, modified |-> FALSE]
    BY <1>2 DEF NewBuffer
  <2> HIDE DEF one
  <2> QED BY <1>1, <2>1
<1>4. ASSUME NEW t \in Text PROVE Sound(FromText(t)) /\ ~FromText(t).modified
  <2> DEFINE lines == IF Len(t) > 1 /\ t[Len(t)] = Empty THEN SubSeq(t, 1, Len(t) - 1) ELSE t
  <2>1. t \in Seq(Line) /\ Len(t) \in Nat
    BY DEF Text
  <2>2. lines \in Text
    <3>1. CASE Len(t) > 1
      <4>1. 1 \in 1..Len(t) + 1 /\ Len(t) - 1 \in 0..Len(t) /\ 1 <= Len(t) - 1
        BY <2>1, <3>1
      <4>2. SubSeq(t, 1, Len(t) - 1) \in Seq(Line)
            /\ Len(SubSeq(t, 1, Len(t) - 1))
               = IF 1 <= Len(t) - 1 THEN Len(t) - 1 - 1 + 1 ELSE 0
        BY <2>1, <4>1, Piece, Zenon
      <4>3. Len(SubSeq(t, 1, Len(t) - 1)) # 0
        <5> DEFINE p == SubSeq(t, 1, Len(t) - 1)
        <5>1. Len(p) = Len(t) - 1 - 1 + 1
          BY <4>1, <4>2
        <5> HIDE DEF p
        <5>2. Len(p) # 0
          BY <2>1, <3>1, <5>1
        <5> QED BY <5>2 DEF p
      <4>4. SubSeq(t, 1, Len(t) - 1) # << >>
        BY <4>3
      <4> QED BY <4>2, <4>4 DEF Text
    <3> QED BY <3>1
  <2> HIDE DEF lines
  <2>3. FromText(t) = [lines |-> lines, line |-> 1, col |-> 0, modified |-> FALSE]
    <3>1. FromText(t) = [NewBuffer EXCEPT !.lines = lines]
      BY DEF FromText, lines
    <3> QED BY <3>1 DEF NewBuffer
  <2> QED BY <1>1, <2>2, <2>3
<1>5. ASSUME NEW b, Sound(b)
      PROVE  ToText(b) \in Text /\ FromText(ToText(b)).lines = b.lines
  <2> DEFINE t == Append(b.lines, Empty)
             n == Len(b.lines)
  <2>1. b.lines \in Seq(Line) /\ n \in Nat \ {0} /\ Empty \in Line
    <3>1. Empty \in Line
      BY DEF Empty, Line
    <3> QED BY <1>5, <3>1, Parts
  <2>2. /\ t \in Seq(Line) /\ t # << >> /\ Len(t) = n + 1 /\ t[n + 1] = Empty
        /\ \A i \in 1..n : t[i] = b.lines[i]
    BY <2>1, AppendProperties
  <2> HIDE DEF t
  <2>3. Len(t) > 1 /\ t[Len(t)] = Empty /\ Len(t) - 1 = n
    BY <2>1, <2>2
  <2>4. SubSeq(t, 1, n) = b.lines
    <3> DEFINE p == SubSeq(t, 1, n)
    <3>1. 1 \in 1..Len(t) + 1 /\ n \in 0..Len(t)
      BY <2>1, <2>2
    <3>2. /\ p \in Seq(Line) /\ Len(p) = IF 1 <= n THEN n - 1 + 1 ELSE 0
          /\ \A i \in 1..n - 1 + 1 : p[i] = t[1 + i - 1]
      BY <2>2, <3>1, Piece, Zenon
    <3> HIDE DEF p, n
    <3>3. Len(p) = n /\ \A i \in 1..n : p[i] = b.lines[i]
      BY <2>1, <2>2, <3>2
    <3>4. p = b.lines
      BY <2>1, <3>2, <3>3, SeqEqual DEF n
    <3> QED BY <3>4 DEF p
  <2>5. FromText(t).lines = SubSeq(t, 1, Len(t) - 1)
    BY <2>3 DEF FromText, NewBuffer
  <2> QED BY <2>2, <2>3, <2>4, <2>5 DEF ToText, Text, t
<1> QED BY <1>3, <1>4, <1>5

\* A nonempty set of natural numbers has a least.
LEMMA Least ==
    ASSUME NEW T, T \subseteq Nat, T # {}
    PROVE  \E c \in T : \A d \in T : c <= d
<1>1. PICK x \in T : \A y \in T : ~(<<y, x>> \in OpToRel(<, Nat))
  BY WFMin, NatLessThanWellFounded
<1>2. \A y \in T : x \in Nat /\ y \in Nat /\ ~(y < x)
  BY <1>1 DEF OpToRel
<1>3. \A y \in T : x <= y
  BY <1>2
<1> QED BY <1>3

\* The bounds of a search within a line are columns.
Columns(f, lines) == f \in [DOMAIN lines -> Nat]

\* Where the term is, within the columns the search looks at on a line.
Hits(lines, term, lo, hi, l) == {c \in lo[l]..hi[l] - Len(term) : MatchAt(lines[l], c, term)}

LEMMA FindInIs ==
    ASSUME NEW lines, NEW term \in Line, NEW l \in DOMAIN lines, NEW lo, NEW hi,
           Columns(lo, lines), Columns(hi, lines)
    PROVE  LET hits == Hits(lines, term, lo, hi, l)
               c == FindIn(lines[l], lo[l], hi[l], term)
           IN  /\ hits = {} => c = -1
               /\ hits # {} => c \in hits /\ c \in Nat /\ \A d \in hits : c <= d
<1> DEFINE hits == Hits(lines, term, lo, hi, l)
<1>1. FindIn(lines[l], lo[l], hi[l], term)
      = IF hits = {} THEN -1 ELSE CHOOSE c \in hits : \A d \in hits : c <= d
  BY DEF FindIn, Hits
<1>2. hits \subseteq Nat
  <2>1. lo[l] \in Nat /\ hi[l] \in Nat /\ Len(term) \in Nat
    BY DEF Columns, Line
  <2> QED BY <2>1 DEF Hits
<1> HIDE DEF hits
<1>3. CASE hits # {}
  <2>1. \E c \in hits : \A d \in hits : c <= d
    BY <1>2, <1>3, Least
  <2> DEFINE c == CHOOSE c \in hits : \A d \in hits : c <= d
  <2>2. c \in hits /\ \A d \in hits : c <= d
    BY <2>1
  <2> QED BY <1>1, <1>2, <1>3, <2>2 DEF hits
<1>4. CASE hits = {}
  BY <1>1, <1>4 DEF hits
<1> QED BY <1>3, <1>4

\* A part of the search finds the first of the places it looks at, or there is none.
LEMMA FirstHitIs ==
    ASSUME NEW lines \in Seq(Line), NEW term \in Line, NEW from \in 1..Len(lines),
           NEW to \in 1..Len(lines), NEW lo, NEW hi, Columns(lo, lines), Columns(hi, lines)
    PROVE  LET hit == FirstHit(lines, term, from, to, lo, hi)
           IN  \/ /\ hit = Position(0, 0)
                  /\ \A l \in from..to : Hits(lines, term, lo, hi, l) = {}
               \/ /\ hit.line \in from..to /\ hit.col \in Nat
                  /\ hit.col \in Hits(lines, term, lo, hi, hit.line)
                  /\ \A l \in from..to : \A c \in Hits(lines, term, lo, hi, l) :
                        hit.line < l \/ (hit.line = l /\ hit.col <= c)
<1> DEFINE at(l) == FindIn(lines[l], lo[l], hi[l], term)
           on == {l \in from..to : at(l) >= 0}
           l1 == CHOOSE l \in on : \A k \in on : l <= k
           hits(l) == Hits(lines, term, lo, hi, l)
<1>1. Len(lines) \in Nat /\ DOMAIN lines = 1..Len(lines) /\ from..to \subseteq DOMAIN lines
  OBVIOUS
<1>2. ASSUME NEW l \in from..to
      PROVE  /\ hits(l) = {} => at(l) = -1
             /\ hits(l) # {} => at(l) \in hits(l) /\ at(l) \in Nat /\ \A d \in hits(l) : at(l) <= d
  <2>1. l \in DOMAIN lines
    BY <1>1
  <2> QED BY <2>1, FindInIs, Zenon
<1>3. FirstHit(lines, term, from, to, lo, hi)
      = IF on = {} THEN Position(0, 0) ELSE Position(l1, at(l1))
  BY DEF FirstHit
<1> HIDE DEF hits, at
<1>4. \A l \in from..to : l \in on <=> hits(l) # {}
  BY <1>2
<1>5. CASE on = {}
  <2>1. \A l \in from..to : hits(l) = {}
    BY <1>4, <1>5
  <2> HIDE DEF on
  <2> QED BY <1>3, <1>5, <2>1 DEF hits
<1>6. CASE on # {}
  <2>1. on \subseteq from..to /\ on \subseteq Nat
    BY <1>1
  <2> HIDE DEF on
  <2>2. l1 \in on /\ \A k \in on : l1 <= k
    <3>1. \E l \in on : \A k \in on : l <= k
      BY <1>6, <2>1, Least
    <3> QED BY <3>1
  <2> HIDE DEF l1
  <2>3. /\ l1 \in from..to /\ l1 \in Nat /\ at(l1) \in hits(l1) /\ at(l1) \in Nat
        /\ \A d \in hits(l1) : at(l1) <= d
    BY <1>2, <1>4, <2>1, <2>2
  <2>4. ASSUME NEW l \in from..to, NEW c \in hits(l)
        PROVE  l1 < l \/ (l1 = l /\ at(l1) <= c)
    <3>1. l \in on
      BY <1>4
    <3>2. l1 <= l /\ l \in Nat
      BY <2>1, <2>2, <3>1
    <3> QED BY <2>3, <3>2
  <2>5. FirstHit(lines, term, from, to, lo, hi) = [line |-> l1, col |-> at(l1)]
    BY <1>3, <1>6 DEF Position
  <2> QED BY <2>3, <2>4, <2>5 DEF hits
<1> QED BY <1>5, <1>6

\* Where a match is: on line l, at column c.
IsMatch(b, term, l, c) == l \in DOMAIN b.lines /\ c \in Nat /\ MatchAt(b.lines[l], c, term)

\* The first match at or behind the cursor; or else the first one that ends at or before
\* it; or else there is none but across it.
LEMMA FindIs ==
    ASSUME NEW b, Sound(b), NEW term \in Line
    PROVE  LET hit == Find(b, term)
           IN  \/ /\ Found(hit) /\ IsMatch(b, term, hit.line, hit.col)
                  /\ hit.line >= b.line /\ (hit.line = b.line => hit.col >= b.col)
               \/ /\ \A l, c : IsMatch(b, term, l, c) => l < b.line \/ (l = b.line /\ c < b.col)
                  /\ Found(hit) /\ IsMatch(b, term, hit.line, hit.col)
                  /\ hit.line <= b.line /\ (hit.line = b.line => hit.col + Len(term) <= b.col)
                  /\ \A l, c : IsMatch(b, term, l, c) /\ (l = b.line => c + Len(term) <= b.col)
                              => hit.line < l \/ (hit.line = l /\ hit.col <= c)
               \/ /\ ~Found(hit)
                  /\ \A l, c : IsMatch(b, term, l, c)
                                => l = b.line /\ c < b.col /\ c + Len(term) > b.col
<1> DEFINE start == [l \in DOMAIN b.lines |-> 0]
           startHere == [start EXCEPT ![b.line] = b.col]
           end == [l \in DOMAIN b.lines |-> Len(b.lines[l])]
           endHere == [end EXCEPT ![b.line] = b.col]
           onward == FirstHit(b.lines, term, b.line, Len(b.lines), startHere, end)
           around == FirstHit(b.lines, term, 1, b.line, start, endHere)
           N == Len(b.lines)
<1>1. /\ b.lines \in Seq(Line) /\ N \in Nat /\ DOMAIN b.lines = 1..N
      /\ b.line \in 1..N /\ b.col \in Nat /\ b.line \in Nat
      /\ \A l \in 1..N : Len(b.lines[l]) \in Nat
  BY Parts
<1>2. Len(term) \in Nat
  BY DEF Line
<1>3. /\ Columns(start, b.lines) /\ Columns(startHere, b.lines)
      /\ Columns(end, b.lines) /\ Columns(endHere, b.lines)
  BY <1>1 DEF Columns
<1>4. /\ \A l \in 1..N : startHere[l] = IF l = b.line THEN b.col ELSE 0
      /\ \A l \in 1..N : end[l] = Len(b.lines[l])
      /\ \A l \in 1..N : start[l] = 0
      /\ \A l \in 1..N : endHere[l] = IF l = b.line THEN b.col ELSE Len(b.lines[l])
  BY <1>1
<1>5. 1 \in 1..N /\ N \in 1..N
  BY <1>1
<1>6. Find(b, term) = IF onward.line > 0 THEN onward ELSE around
  BY DEF Find
<1> HIDE DEF start, startHere, end, endHere
\* What the two parts look at.
<1>7. \A l \in 1..N, c \in Nat :
         /\ c \in Hits(b.lines, term, startHere, end, l) <=>
               IsMatch(b, term, l, c) /\ (l = b.line => c >= b.col)
         /\ c \in Hits(b.lines, term, start, endHere, l) <=>
               IsMatch(b, term, l, c) /\ (l = b.line => c + Len(term) <= b.col)
  <2> TAKE l \in 1..N, c \in Nat
  <2>1. MatchAt(b.lines[l], c, term) => c + Len(term) <= Len(b.lines[l])
    BY DEF MatchAt
  <2> HIDE DEF N
  <2> QED BY <1>1, <1>2, <1>4, <2>1 DEF Hits, IsMatch
<1>8. \/ /\ onward = Position(0, 0)
         /\ \A l \in b.line..N : Hits(b.lines, term, startHere, end, l) = {}
      \/ /\ onward.line \in b.line..N /\ onward.col \in Nat
         /\ onward.col \in Hits(b.lines, term, startHere, end, onward.line)
  BY <1>1, <1>3, <1>5, FirstHitIs
<1>9. \/ /\ around = Position(0, 0)
         /\ \A l \in 1..b.line : Hits(b.lines, term, start, endHere, l) = {}
      \/ /\ around.line \in 1..b.line /\ around.col \in Nat
         /\ around.col \in Hits(b.lines, term, start, endHere, around.line)
         /\ \A l \in 1..b.line : \A c \in Hits(b.lines, term, start, endHere, l) :
               around.line < l \/ (around.line = l /\ around.col <= c)
  BY <1>1, <1>3, <1>5, FirstHitIs
<1> HIDE DEF onward, around, N
<1>10. Position(0, 0).line = 0
  BY DEF Position
<1>11. CASE onward # Position(0, 0)
  <2>1. /\ onward.line \in 1..N /\ onward.line >= b.line /\ onward.col \in Nat
        /\ onward.col \in Hits(b.lines, term, startHere, end, onward.line)
    BY <1>1, <1>8, <1>11
  <2>2. Find(b, term) = onward /\ Found(onward)
    BY <1>6, <2>1 DEF Found
  <2>3. IsMatch(b, term, onward.line, onward.col) /\ (onward.line = b.line => onward.col >= b.col)
    BY <1>7, <2>1
  <2> QED BY <2>1, <2>2, <2>3
<1>12. CASE onward = Position(0, 0)
  <2>1. ASSUME NEW l, NEW c, IsMatch(b, term, l, c)
        PROVE  l \in 1..N /\ c \in Nat /\ (l < b.line \/ (l = b.line /\ c < b.col))
    <3>1. l \in 1..N /\ c \in Nat
      BY <1>1, <2>1 DEF IsMatch
    <3>2. l \in b.line..N => c \notin Hits(b.lines, term, startHere, end, l)
      BY <1>1, <1>8, <1>10, <1>12
    <3>3. l \in b.line..N => l = b.line /\ ~(c >= b.col)
      BY <1>7, <2>1, <3>1, <3>2
    <3> QED BY <1>1, <3>1, <3>3
  <2>2. Find(b, term) = around
    BY <1>6, <1>10, <1>12
  <2>3. CASE around = Position(0, 0)
    <3>1. ~Found(around)
      BY <1>10, <2>3 DEF Found
    <3>2. ASSUME NEW l, NEW c, IsMatch(b, term, l, c)
          PROVE  l = b.line /\ c < b.col /\ c + Len(term) > b.col
      <4>1. l \in 1..b.line /\ l \in 1..N /\ c \in Nat
        BY <1>1, <2>1, <3>2
      <4>2. c \notin Hits(b.lines, term, start, endHere, l)
        BY <1>1, <1>9, <1>10, <2>3, <4>1
      <4>3. l = b.line /\ ~(c + Len(term) <= b.col)
        BY <1>7, <3>2, <4>1, <4>2
      <4> QED BY <1>1, <1>2, <2>1, <3>2, <4>1, <4>3
    <3> QED BY <2>2, <3>1, <3>2
  <2>4. CASE around # Position(0, 0)
    <3>1. /\ around.line \in 1..b.line /\ around.line \in 1..N /\ around.col \in Nat
          /\ around.col \in Hits(b.lines, term, start, endHere, around.line)
      BY <1>1, <1>9, <2>4
    <3>2. /\ IsMatch(b, term, around.line, around.col)
          /\ around.line = b.line => around.col + Len(term) <= b.col
      BY <1>7, <3>1
    <3>3. ASSUME NEW l, NEW c, IsMatch(b, term, l, c), l = b.line => c + Len(term) <= b.col
          PROVE  around.line < l \/ (around.line = l /\ around.col <= c)
      <4>1. l \in 1..b.line /\ l \in 1..N /\ c \in Nat
        BY <1>1, <2>1, <3>3
      <4>2. c \in Hits(b.lines, term, start, endHere, l)
        BY <1>7, <3>3, <4>1
      <4> QED BY <1>9, <2>4, <4>1, <4>2
    <3>4. Found(around) /\ around.line <= b.line
      BY <1>1, <3>1 DEF Found
    <3> QED BY <2>1, <2>2, <3>2, <3>3, <3>4
  <2> QED BY <2>3, <2>4
<1> QED BY <1>11, <1>12

\* What the search finds, as seen from some match of the text.
LEMMA FindFrom ==
    ASSUME NEW b, Sound(b), NEW term \in Line, NEW l \in Nat, NEW c \in Nat,
           IsMatch(b, term, l, c)
    PROVE  LET hit == Find(b, term)
           IN  \/ /\ Found(hit)
                  /\ hit.line = b.line => hit.col >= b.col
               \/ /\ Found(hit)
                  /\ l < b.line \/ (l = b.line /\ c < b.col)
                  /\ (l = b.line => c + Len(term) <= b.col)
                     => hit.line < l \/ (hit.line = l /\ hit.col <= c)
               \/ ~Found(hit) /\ l = b.line /\ c < b.col /\ c + Len(term) > b.col
<1> DEFINE hit == Find(b, term)
<1>1. CASE /\ Found(hit)
           /\ hit.line = b.line => hit.col >= b.col
  BY <1>1
<1>2. CASE /\ \A k, d : IsMatch(b, term, k, d) => k < b.line \/ (k = b.line /\ d < b.col)
           /\ Found(hit)
           /\ \A k, d : IsMatch(b, term, k, d) /\ (k = b.line => d + Len(term) <= b.col)
                        => hit.line < k \/ (hit.line = k /\ hit.col <= d)
  <2> HIDE DEF hit
  <2>1. l < b.line \/ (l = b.line /\ c < b.col)
    BY <1>2
  <2>2. ASSUME l = b.line => c + Len(term) <= b.col
        PROVE  hit.line < l \/ (hit.line = l /\ hit.col <= c)
    BY <1>2, <2>2, Zenon
  <2> QED BY <1>2, <2>1, <2>2 DEF hit
<1>3. CASE /\ ~Found(hit)
           /\ \A k, d : IsMatch(b, term, k, d)
                         => k = b.line /\ d < b.col /\ d + Len(term) > b.col
  <2> HIDE DEF hit
  <2>1. l = b.line /\ c < b.col /\ c + Len(term) > b.col
    BY <1>3
  <2> QED BY <1>3, <2>1 DEF hit
<1> QED BY <1>1, <1>2, <1>3, FindIs

\* What the search finds is a position it can put the cursor on.
LEMMA FindSound ==
    ASSUME NEW b, Sound(b), NEW term \in Line
    PROVE  Found(Find(b, term)) => /\ Find(b, term).line \in 1..Len(b.lines)
                                   /\ Find(b, term).line \in Nat \ {0}
                                   /\ Find(b, term).col \in Nat
                                   /\ Find(b, term).col + Len(term)
                                      <= Len(b.lines[Find(b, term).line])
<1> DEFINE hit == Find(b, term)
<1>1. Found(hit) => IsMatch(b, term, hit.line, hit.col)
  BY FindIs
<1> HIDE DEF hit
<1>2. DOMAIN b.lines = 1..Len(b.lines) /\ Len(b.lines) \in Nat
  BY Parts
<1>3. Found(hit) => /\ hit.line \in 1..Len(b.lines) /\ hit.col \in Nat
                    /\ hit.col + Len(term) <= Len(b.lines[hit.line])
  BY <1>1, <1>2 DEF IsMatch, MatchAt
<1> QED BY <1>2, <1>3 DEF hit

HIDE CharAssumption

-----------------------------------------------------------------------------
(* Recursion over an interval                                              *)

(***************************************************************************)
(* Induction over an interval: a set that holds its first element, and     *)
(* with every element but the last the next one, holds all of it.          *)
(***************************************************************************)
LEMMA Upwards ==
    ASSUME NEW lo \in Int, NEW hi \in Int, NEW P,
           lo <= hi => lo \in P,
           \A i \in lo..hi - 1 : i \in P => i + 1 \in P
    PROVE  \A i \in lo..hi : i \in P
<1> DEFINE Out == {n \in Nat : lo + n <= hi /\ ~(lo + n \in P)}
<1>1. SUFFICES ASSUME Out # {} PROVE FALSE
  <2>1. SUFFICES ASSUME NEW i \in lo..hi, ~(i \in P) PROVE FALSE
    OBVIOUS
  <2>2. i - lo \in Nat /\ lo + (i - lo) = i
    OBVIOUS
  <2>3. i - lo \in Out
    BY <2>1, <2>2
  <2> QED BY <2>3, <1>1
<1>2. PICK n \in Out : \A m \in Out : n <= m
  BY <1>1, Least
<1>3. n # 0
  BY <1>2
<1>4. n - 1 \in Nat /\ lo + (n - 1) \in lo..hi - 1
  BY <1>2, <1>3
<1>5. ~(n - 1 \in Out)
  BY <1>2, <1>4
<1>6. lo + (n - 1) \in P
  BY <1>4, <1>5
<1>7. (lo + (n - 1)) + 1 = lo + n
  BY <1>2
<1>8. lo + n \in P
  BY <1>4, <1>6, <1>7
<1> QED BY <1>2, <1>8

\* The function f on lo..hi into S starts with b and goes on with g.
GoesOn(f, lo, hi, S, b, g) ==
    /\ f = [i \in lo..hi |-> IF i = lo THEN b ELSE g[<<f[i - 1], i>>]]
    /\ f \in [lo..hi -> S]

(***************************************************************************)
(* A function whose value at an index is computed from its value at the    *)
(* index before exists, and has its values where the steps stay.           *)
(***************************************************************************)
LEMMA Recursion ==
    ASSUME NEW lo \in Int, NEW hi \in Int, lo <= hi, NEW S, NEW b \in S, NEW g,
           \A x \in S : \A i \in lo + 1..hi : g[<<x, i>>] \in S
    PROVE  \E f : GoesOn(f, lo, hi, S, b, g)
<1> DEFINE Good(f, n) == /\ f \in [lo..n -> S]
                         /\ f[lo] = b
                         /\ \A i \in lo + 1..n : f[i] = g[<<f[i - 1], i>>]
           P == {n \in lo..hi : \E f : Good(f, n)}
<1>1. lo \in P
  <2>1. Good([i \in lo..lo |-> b], lo)
    OBVIOUS
  <2> QED BY <2>1
<1>2. ASSUME NEW n \in lo..hi - 1, n \in P PROVE n + 1 \in P
  <2>1. PICK f : Good(f, n)
    BY <1>2
  <2> DEFINE h == [i \in lo..n + 1 |-> IF i = n + 1 THEN g[<<f[n], n + 1>>] ELSE f[i]]
  <2>2. f[n] \in S /\ n + 1 \in lo + 1..hi
    BY <2>1
  <2>3. g[<<f[n], n + 1>>] \in S
    BY <2>2
  <2>4. h \in [lo..n + 1 -> S]
    BY <2>1, <2>3
  <2>5. h[lo] = b
    BY <2>1
  <2>6. \A i \in lo..n : h[i] = f[i]
    OBVIOUS
  <2>7. h[n + 1] = g[<<f[n], n + 1>>]
    OBVIOUS
  <2>8. ASSUME NEW i \in lo + 1..n + 1 PROVE h[i] = g[<<h[i - 1], i>>]
    <3> HIDE DEF h
    <3>1. CASE i = n + 1
      <4>1. i - 1 = n /\ n \in lo..n
        BY <3>1
      <4>2. h[i - 1] = f[n]
        BY <4>1, <2>6
      <4> QED BY <3>1, <4>2, <2>7
    <3>2. CASE i # n + 1
      <4>1. i \in lo + 1..n /\ i \in lo..n /\ i - 1 \in lo..n
        BY <3>2
      <4>2. h[i] = f[i] /\ h[i - 1] = f[i - 1]
        BY <4>1, <2>6
      <4>3. f[i] = g[<<f[i - 1], i>>]
        BY <4>1, <2>1
      <4> QED BY <4>2, <4>3
    <3> QED BY <3>1, <3>2
  <2> HIDE DEF h
  <2>9. Good(h, n + 1)
    BY <2>4, <2>5, <2>8
  <2>10. n + 1 \in lo..hi
    OBVIOUS
  <2> QED BY <2>9, <2>10
<1>3. hi \in P
  <2> HIDE DEF P
  <2>1. \A i \in lo..hi : i \in P
    BY <1>1, <1>2, Upwards
  <2> QED BY <2>1
<1>4. PICK f : Good(f, hi)
  BY <1>3
<1>5. f = [i \in lo..hi |-> f[i]]
  BY <1>4
<1>6. \A i \in lo..hi : f[i] = IF i = lo THEN b ELSE g[<<f[i - 1], i>>]
  BY <1>4
<1>7. f = [i \in lo..hi |-> IF i = lo THEN b ELSE g[<<f[i - 1], i>>]]
  BY <1>5, <1>6, Zenon
<1> QED BY <1>4, <1>7 DEF GoesOn

-----------------------------------------------------------------------------
(* Widths and columns                                                      *)

\* How wide a character is, by its kind.
LEMMA Widths ==
    ASSUME NEW c \in Char, NEW col \in Nat
    PROVE  /\ WidthAt(c, col) \in Nat /\ CellWidth(c) \in 0..2
           /\ c \in Zero => WidthAt(c, col) = 0
           /\ c \notin Zero => WidthAt(c, col) >= 1
           /\ c \in Wide => WidthAt(c, col) = 2
           /\ c \notin Wide \cup Zero \cup {Tab} => WidthAt(c, col) = 1
<1>1. CASE c = Tab
  <2>1. c \notin Zero /\ c \notin Wide /\ TabSize \in Nat /\ TabSize > 0
    BY <1>1, LayoutAssumption
  <2>2. col % TabSize \in 0..TabSize - 1
    BY <2>1
  <2>3. WidthAt(c, col) = TabSize - (col % TabSize)
    BY <1>1 DEF WidthAt
  <2>4. WidthAt(c, col) \in Nat /\ WidthAt(c, col) >= 1
    BY <2>1, <2>2, <2>3
  <2> QED BY <1>1, <2>1, <2>4 DEF CellWidth
<1>2. CASE c # Tab
  BY <1>2, LayoutAssumption DEF WidthAt, CellWidth
<1> QED BY <1>1, <1>2

(***************************************************************************)
(* The columns of a row that starts at `from`: each character begins where *)
(* the one before it ends.                                                 *)
(***************************************************************************)
LEMMA ColumnSteps ==
    ASSUME NEW s \in Line, NEW from \in 0..Len(s)
    PROVE  /\ ColumnAt(s, from, from) = 0
           /\ \A o \in from..Len(s) : ColumnAt(s, from, o) \in Nat
           /\ \A o \in from + 1..Len(s) :
                 ColumnAt(s, from, o)
                 = ColumnAt(s, from, o - 1) + WidthAt(s[o], ColumnAt(s, from, o - 1))
<1> DEFINE g == [p \in Nat \X (from + 1..Len(s)) |-> ColumnAfter(s[p[2]], p[1])]
           col == CHOOSE f : f = [o \in from..Len(s) |->
                                    IF o = from THEN 0 ELSE ColumnAfter(s[o], f[o - 1])]
<1>1. s \in Seq(Char) /\ Len(s) \in Nat /\ from \in Int /\ Len(s) \in Int /\ from <= Len(s)
  BY DEF Line
<1>2. \A x \in Nat : \A o \in from + 1..Len(s) :
         g[<<x, o>>] = ColumnAfter(s[o], x) /\ ColumnAfter(s[o], x) \in Nat
  <2>1. SUFFICES ASSUME NEW x \in Nat, NEW o \in from + 1..Len(s)
                 PROVE  g[<<x, o>>] = ColumnAfter(s[o], x) /\ ColumnAfter(s[o], x) \in Nat
    BY Zenon
  <2>2. o \in 1..Len(s) /\ s[o] \in Char
    BY <1>1
  <2>3. WidthAt(s[o], x) \in Nat
    BY <2>2, Widths
  <2> QED BY <2>3 DEF ColumnAfter
<1> HIDE DEF g
<1>3. PICK f : GoesOn(f, from, Len(s), Nat, 0, g)
  <2>1. \A x \in Nat : \A o \in from + 1..Len(s) : g[<<x, o>>] \in Nat
    BY <1>2
  <2>2. 0 \in Nat
    OBVIOUS
  <2> QED BY <1>1, <2>1, <2>2, Recursion
<1>4. \A o \in from..Len(s) : (IF o = from THEN 0 ELSE g[<<f[o - 1], o>>])
                              = (IF o = from THEN 0 ELSE ColumnAfter(s[o], f[o - 1]))
  <2>1. SUFFICES ASSUME NEW o \in from..Len(s), o # from
                 PROVE  g[<<f[o - 1], o>>] = ColumnAfter(s[o], f[o - 1])
    OBVIOUS
  <2>2. o \in from + 1..Len(s) /\ o - 1 \in from..Len(s)
    BY <2>1, <1>1
  <2>3. f[o - 1] \in Nat
    BY <1>3, <2>2 DEF GoesOn
  <2> QED BY <1>2, <2>2, <2>3
<1>5. f = [o \in from..Len(s) |-> IF o = from THEN 0 ELSE ColumnAfter(s[o], f[o - 1])]
  BY <1>3, <1>4, Zenon DEF GoesOn
<1>6. col = [o \in from..Len(s) |-> IF o = from THEN 0 ELSE ColumnAfter(s[o], col[o - 1])]
  <2>1. \E h : h = [o \in from..Len(s) |-> IF o = from THEN 0 ELSE ColumnAfter(s[o], h[o - 1])]
    BY <1>5
  <2> QED BY <2>1, Zenon
<1>7. \A o : ColumnAt(s, from, o) = col[o]
  BY DEF ColumnAt
<1> HIDE DEF col
<1>8. \A o \in from..Len(s) :
         col[o] = IF o = from THEN 0 ELSE ColumnAfter(s[o], col[o - 1])
  BY <1>6
<1>9. col[from] = 0
  BY <1>1, <1>8
<1>10. \A o \in from + 1..Len(s) : o - 1 \in from..Len(s) /\ o \in from..Len(s) /\ o # from
  BY <1>1
<1>11. \A o \in from + 1..Len(s) : col[o] = ColumnAfter(s[o], col[o - 1])
  BY <1>8, <1>10
<1>12. \A o \in from..Len(s) : col[o] \in Nat
  <2> DEFINE P == {o \in from..Len(s) : col[o] \in Nat}
  <2>1. from \in P
    BY <1>1, <1>9
  <2>2. ASSUME NEW o \in from..Len(s) - 1, o \in P PROVE o + 1 \in P
    <3>1. o + 1 \in from + 1..Len(s) /\ (o + 1) - 1 = o
      BY <1>1
    <3>2. col[o + 1] = ColumnAfter(s[o + 1], col[o])
      BY <3>1, <1>11
    <3>3. col[o] \in Nat
      BY <2>2
    <3>4. col[o + 1] \in Nat
      BY <1>2, <3>1, <3>2, <3>3
    <3> QED BY <3>1, <3>4, <1>10
  <2> HIDE DEF P
  <2>3. \A o \in from..Len(s) : o \in P
    BY <1>1, <2>1, <2>2, Upwards
  <2> QED BY <2>3 DEF P
<1> QED BY <1>7, <1>9, <1>11, <1>12, Zenon DEF ColumnAfter

\* Columns grow with the offset.
LEMMA ColumnsGrow ==
    ASSUME NEW s \in Line, NEW from \in 0..Len(s), NEW o \in from..Len(s), NEW p \in o..Len(s)
    PROVE  ColumnAt(s, from, o) <= ColumnAt(s, from, p)
<1> DEFINE P == {q \in o..Len(s) : ColumnAt(s, from, o) <= ColumnAt(s, from, q)}
<1>1. Len(s) \in Int /\ o \in Int /\ o <= Len(s)
  BY DEF Line
<1>2. o \in P
  BY ColumnSteps, <1>1
<1>3. ASSUME NEW q \in o..Len(s) - 1, q \in P PROVE q + 1 \in P
  <2>1. q + 1 \in from + 1..Len(s) /\ q \in from..Len(s) /\ (q + 1) - 1 = q /\ q + 1 \in o..Len(s)
    BY <1>1
  <2>2. ColumnAt(s, from, q + 1) = ColumnAt(s, from, q) + WidthAt(s[q + 1], ColumnAt(s, from, q))
    BY <2>1, ColumnSteps
  <2>3. ColumnAt(s, from, q) \in Nat /\ ColumnAt(s, from, o) \in Nat
    BY <2>1, ColumnSteps
  <2>4. s[q + 1] \in Char
    BY <2>1 DEF Line
  <2>5. WidthAt(s[q + 1], ColumnAt(s, from, q)) \in Nat
    BY <2>3, <2>4, Widths
  <2>6. ColumnAt(s, from, o) <= ColumnAt(s, from, q)
    BY <1>3
  <2> QED BY <2>1, <2>2, <2>3, <2>5, <2>6
<1> HIDE DEF P
<1>4. \A q \in o..Len(s) : q \in P
  BY <1>1, <1>2, <1>3, Upwards
<1> QED BY <1>4 DEF P

-----------------------------------------------------------------------------
(* Wrapping: the walk, its counterpart that counts, and the rows it leaves *)

RowsSet == Seq([start : Nat, end : Nat])
Walks == [rows : RowsSet, start : Nat, col : Nat]
Counts == [rows : Nat, col : Nat]

LEMMA LesserIs ==
    ASSUME NEW m \in Nat, NEW n \in Nat
    PROVE  /\ Lesser(m, n) \in Nat /\ Lesser(m, n) <= m /\ Lesser(m, n) <= n
           /\ m <= n => Lesser(m, n) = m
           /\ n <= m => Lesser(m, n) = n
  BY DEF Lesser

LEMMA PlacedInWalks ==
    ASSUME NEW s \in Line, NEW i \in 1..Len(s), NEW w \in Nat, NEW acc \in Walks
    PROVE  Placed(acc, s, i, w) \in Walks
<1>1. s[i] \in Char /\ i - 1 \in Nat
  BY DEF Line
<1>2. acc.rows \in RowsSet /\ acc.start \in Nat /\ acc.col \in Nat
  BY DEF Walks
<1>3. WidthAt(s[i], acc.col) \in Nat /\ WidthAt(s[i], 0) \in Nat
  BY <1>1, <1>2, Widths
<1>4. Lesser(WidthAt(s[i], acc.col), w) \in Nat /\ Lesser(WidthAt(s[i], 0), w) \in Nat
  BY <1>3, LesserIs
<1>5. Append(acc.rows, Row(acc.start, i - 1)) \in RowsSet
  BY <1>1, <1>2 DEF RowsSet, Row
<1> DEFINE x == Lesser(WidthAt(s[i], acc.col), w)
           fresh == [rows |-> Append(acc.rows, Row(acc.start, i - 1)), start |-> i - 1,
                     col |-> Lesser(WidthAt(s[i], 0), w)]
           same == [acc EXCEPT !.col = acc.col + x]
<1>6. fresh \in Walks
  BY <1>1, <1>4, <1>5 DEF Walks
<1>7. same \in Walks
  BY <1>2, <1>4 DEF Walks
<1>8. Placed(acc, s, i, w) = IF acc.col + x > w THEN fresh ELSE same
  BY DEF Placed
<1> HIDE DEF x, fresh, same
<1> QED BY <1>6, <1>7, <1>8

LEMMA WrapSteps ==
    ASSUME NEW s \in Line, NEW width \in Nat
    PROVE  \E at \in [0..Len(s) -> Walks] :
              /\ WrapLine(s, width) = Ended(at[Len(s)], Len(s), Greater(width, 1))
              /\ at[0] = [rows |-> << >>, start |-> 0, col |-> 0]
              /\ \A i \in 1..Len(s) : at[i] = Placed(at[i - 1], s, i, Greater(width, 1))
<1> PICK w : w = Greater(width, 1)
  OBVIOUS
<1>w. w \in Nat
  BY DEF Greater
<1> DEFINE zero == [rows |-> << >>, start |-> 0, col |-> 0]
           g == [p \in Walks \X (1..Len(s)) |-> Placed(p[1], s, p[2], w)]
           at == CHOOSE f : f = [i \in 0..Len(s) |-> IF i = 0 THEN zero ELSE Placed(f[i - 1], s, i, w)]
<1>1. Len(s) \in Int /\ 0 \in Int /\ 0 <= Len(s) /\ 0 + 1 = 1
  BY DEF Line
<1>2. \A x \in Walks : \A i \in 1..Len(s) :
         g[<<x, i>>] = Placed(x, s, i, w) /\ Placed(x, s, i, w) \in Walks
  BY PlacedInWalks, <1>w
<1>3. zero \in Walks
  BY DEF Walks, RowsSet
<1> HIDE DEF g, zero
<1>4. PICK f : GoesOn(f, 0, Len(s), Walks, zero, g)
  <2>1. \A x \in Walks : \A i \in 0 + 1..Len(s) : g[<<x, i>>] \in Walks
    BY <1>1, <1>2
  <2> QED BY <1>1, <1>3, <2>1, Recursion
<1>5. \A i \in 0..Len(s) : (IF i = 0 THEN zero ELSE g[<<f[i - 1], i>>])
                           = (IF i = 0 THEN zero ELSE Placed(f[i - 1], s, i, w))
  <2>1. SUFFICES ASSUME NEW i \in 0..Len(s), i # 0
                 PROVE  g[<<f[i - 1], i>>] = Placed(f[i - 1], s, i, w)
    OBVIOUS
  <2>2. i \in 1..Len(s) /\ i - 1 \in 0..Len(s)
    BY <2>1, <1>1
  <2>3. f[i - 1] \in Walks
    BY <1>4, <2>2 DEF GoesOn
  <2> QED BY <1>2, <2>2, <2>3
<1>6. f = [i \in 0..Len(s) |-> IF i = 0 THEN zero ELSE Placed(f[i - 1], s, i, w)]
  BY <1>4, <1>5, Zenon DEF GoesOn
<1>7. at = [i \in 0..Len(s) |-> IF i = 0 THEN zero ELSE Placed(at[i - 1], s, i, w)]
  <2>1. \E h : h = [i \in 0..Len(s) |-> IF i = 0 THEN zero ELSE Placed(h[i - 1], s, i, w)]
    BY <1>6
  <2> QED BY <2>1, Zenon
<1>8. WrapLine(s, width) = Ended(at[Len(s)], Len(s), w)
  BY DEF WrapLine, zero
<1> HIDE DEF at
<1>9. \A i \in 0..Len(s) : at[i] = IF i = 0 THEN zero ELSE Placed(at[i - 1], s, i, w)
  BY <1>7
<1>10. at[0] = zero
  BY <1>1, <1>9
<1>11. \A i \in 1..Len(s) : i \in 0..Len(s) /\ i # 0 /\ i - 1 \in 0..Len(s)
  BY <1>1
<1>12. \A i \in 1..Len(s) : at[i] = Placed(at[i - 1], s, i, w)
  BY <1>9, <1>11
<1>13. at \in [0..Len(s) -> Walks]
  <2> DEFINE P == {i \in 0..Len(s) : at[i] \in Walks}
  <2>1. 0 \in P
    BY <1>1, <1>3, <1>10
  <2>2. ASSUME NEW i \in 0..Len(s) - 1, i \in P PROVE i + 1 \in P
    <3>1. i + 1 \in 1..Len(s) /\ (i + 1) - 1 = i
      BY <1>1
    <3>2. at[i + 1] = Placed(at[i], s, i + 1, w)
      BY <3>1, <1>12
    <3>3. at[i + 1] \in Walks
      BY <1>2, <2>2, <3>1, <3>2
    <3> QED BY <3>1, <3>3, <1>11
  <2> HIDE DEF P
  <2>3. \A i \in 0..Len(s) : i \in P
    BY <1>1, <2>1, <2>2, Upwards
  <2>4. \A i \in 0..Len(s) : at[i] \in Walks
    BY <2>3 DEF P
  <2>5. at = [i \in 0..Len(s) |-> at[i]]
    BY <1>7
  <2> QED BY <2>4, <2>5
<1> QED BY <1>8, <1>10, <1>12, <1>13, Zenon DEF zero

LEMMA CountSteps ==
    ASSUME NEW s \in Line, NEW width \in Nat
    PROVE  \E at \in [0..Len(s) -> Counts] :
              /\ RowCount(s, width) = CountEnded(at[Len(s)], Greater(width, 1))
              /\ at[0] = [rows |-> 1, col |-> 0]
              /\ \A i \in 1..Len(s) : at[i] = Counted(at[i - 1], s[i], Greater(width, 1))
<1> PICK w : w = Greater(width, 1)
  OBVIOUS
<1>w. w \in Nat
  BY DEF Greater
<1> DEFINE zero == [rows |-> 1, col |-> 0]
           g == [p \in Counts \X (1..Len(s)) |-> Counted(p[1], s[p[2]], w)]
           at == CHOOSE f : f = [i \in 0..Len(s) |-> IF i = 0 THEN zero ELSE Counted(f[i - 1], s[i], w)]
<1>1. Len(s) \in Int /\ 0 \in Int /\ 0 <= Len(s) /\ 0 + 1 = 1
  BY DEF Line
<1>2. \A x \in Counts : \A i \in 1..Len(s) :
         g[<<x, i>>] = Counted(x, s[i], w) /\ Counted(x, s[i], w) \in Counts
  <2>1. SUFFICES ASSUME NEW x \in Counts, NEW i \in 1..Len(s)
                 PROVE  Counted(x, s[i], w) \in Counts
    OBVIOUS
  <2>2. s[i] \in Char /\ x.rows \in Nat /\ x.col \in Nat
    BY DEF Line, Counts
  <2>3. WidthAt(s[i], x.col) \in Nat /\ WidthAt(s[i], 0) \in Nat
    BY <2>2, Widths
  <2>4. Lesser(WidthAt(s[i], x.col), w) \in Nat /\ Lesser(WidthAt(s[i], 0), w) \in Nat
    BY <2>3, <1>w, LesserIs
  <2> HIDE DEF zero, g, at
  <2> QED BY <2>2, <2>4 DEF Counted, Counts
<1>3. zero \in Counts
  BY DEF Counts
<1> HIDE DEF g, zero
<1>4. PICK f : GoesOn(f, 0, Len(s), Counts, zero, g)
  <2>1. \A x \in Counts : \A i \in 0 + 1..Len(s) : g[<<x, i>>] \in Counts
    BY <1>1, <1>2
  <2> QED BY <1>1, <1>3, <2>1, Recursion
<1>5. \A i \in 0..Len(s) : (IF i = 0 THEN zero ELSE g[<<f[i - 1], i>>])
                           = (IF i = 0 THEN zero ELSE Counted(f[i - 1], s[i], w))
  <2>1. SUFFICES ASSUME NEW i \in 0..Len(s), i # 0
                 PROVE  g[<<f[i - 1], i>>] = Counted(f[i - 1], s[i], w)
    OBVIOUS
  <2>2. i \in 1..Len(s) /\ i - 1 \in 0..Len(s)
    BY <2>1, <1>1
  <2>3. f[i - 1] \in Counts
    BY <1>4, <2>2 DEF GoesOn
  <2> QED BY <1>2, <2>2, <2>3
<1>6. f = [i \in 0..Len(s) |-> IF i = 0 THEN zero ELSE Counted(f[i - 1], s[i], w)]
  BY <1>4, <1>5, Zenon DEF GoesOn
<1>7. at = [i \in 0..Len(s) |-> IF i = 0 THEN zero ELSE Counted(at[i - 1], s[i], w)]
  <2>1. \E h : h = [i \in 0..Len(s) |-> IF i = 0 THEN zero ELSE Counted(h[i - 1], s[i], w)]
    BY <1>6
  <2> QED BY <2>1, Zenon
<1>8. RowCount(s, width) = CountEnded(at[Len(s)], w)
  BY DEF RowCount, zero
<1> HIDE DEF at
<1>9. \A i \in 0..Len(s) : at[i] = IF i = 0 THEN zero ELSE Counted(at[i - 1], s[i], w)
  BY <1>7
<1>10. at[0] = zero
  BY <1>1, <1>9
<1>11. \A i \in 1..Len(s) : i \in 0..Len(s) /\ i # 0 /\ i - 1 \in 0..Len(s)
  BY <1>1
<1>12. \A i \in 1..Len(s) : at[i] = Counted(at[i - 1], s[i], w)
  BY <1>9, <1>11
<1>13. at \in [0..Len(s) -> Counts]
  <2> DEFINE P == {i \in 0..Len(s) : at[i] \in Counts}
  <2>1. 0 \in P
    BY <1>1, <1>3, <1>10
  <2>2. ASSUME NEW i \in 0..Len(s) - 1, i \in P PROVE i + 1 \in P
    <3>1. i + 1 \in 1..Len(s) /\ (i + 1) - 1 = i
      BY <1>1
    <3>2. at[i + 1] = Counted(at[i], s[i + 1], w)
      BY <3>1, <1>12
    <3>3. at[i + 1] \in Counts
      BY <1>2, <2>2, <3>1, <3>2
    <3> QED BY <3>1, <3>3, <1>11
  <2> HIDE DEF P
  <2>3. \A i \in 0..Len(s) : i \in P
    BY <1>1, <2>1, <2>2, Upwards
  <2>4. \A i \in 0..Len(s) : at[i] \in Counts
    BY <2>3 DEF P
  <2>5. at = [i \in 0..Len(s) |-> at[i]]
    BY <1>7
  <2> QED BY <2>4, <2>5
<1> QED BY <1>8, <1>10, <1>12, <1>13, Zenon DEF zero

\* The character at offset o - 1 takes no column, or has its columns on the row.
HasRoom(s, from, o, w) ==
    \/ s[o] \in Zero
    \/ ColumnAt(s, from, o - 1) + Lesser(WidthAt(s[o], ColumnAt(s, from, o - 1)), w) <= w

\* Each row starts where the one before it ends, and holds characters that have room.
Chained(rows, s, w) ==
    /\ \A r \in 1..Len(rows) : rows[r].start = IF r = 1 THEN 0 ELSE rows[r - 1].end
    /\ \A r \in 1..Len(rows) : \A o \in rows[r].start + 1..rows[r].end :
          HasRoom(s, rows[r].start, o, w)

\* What wrapping has done with the first i characters.
SoFar(acc, s, i, w) ==
    /\ acc \in Walks
    /\ Chained(acc.rows, s, w)
    /\ \A r \in 1..Len(acc.rows) : acc.rows[r].start < acc.rows[r].end /\ acc.rows[r].end <= i
    /\ acc.start = IF Len(acc.rows) = 0 THEN 0 ELSE acc.rows[Len(acc.rows)].end
    /\ acc.start <= i /\ (i > 0 => acc.start < i)
    /\ acc.col = Lesser(ColumnAt(s, acc.start, i), w)
    /\ \A o \in acc.start + 1..i : HasRoom(s, acc.start, o, w)

LEMMA RowTyped ==
    ASSUME NEW rows \in RowsSet
    PROVE  /\ Len(rows) \in Nat
           /\ \A r \in 1..Len(rows) : rows[r].start \in Nat /\ rows[r].end \in Nat
<1>1. rows \in Seq([start : Nat, end : Nat])
  BY DEF RowsSet
<1>2. \A r \in 1..Len(rows) : rows[r] \in [start : Nat, end : Nat]
  BY <1>1, ElementOfSeq
<1> QED BY <1>1, <1>2

\* A row more, from where the last one ended.
LEMMA RowAdded ==
    ASSUME NEW rows \in RowsSet, NEW s, NEW w, NEW a \in Nat, NEW z \in Nat,
           Chained(rows, s, w),
           a = IF Len(rows) = 0 THEN 0 ELSE rows[Len(rows)].end,
           \A o \in a + 1..z : HasRoom(s, a, o, w)
    PROVE  /\ Append(rows, Row(a, z)) \in RowsSet
           /\ Len(Append(rows, Row(a, z))) = Len(rows) + 1
           /\ \A r \in 1..Len(rows) : Append(rows, Row(a, z))[r] = rows[r]
           /\ Append(rows, Row(a, z))[Len(rows) + 1] = Row(a, z)
           /\ Chained(Append(rows, Row(a, z)), s, w)
<1> PICK more : more = Append(rows, Row(a, z))
  OBVIOUS
<1>1. Row(a, z) \in [start : Nat, end : Nat] /\ Row(a, z).start = a /\ Row(a, z).end = z
  BY DEF Row
<1>2. rows \in Seq([start : Nat, end : Nat]) /\ Len(rows) \in Nat
  BY DEF RowsSet
<1>3. /\ more \in Seq([start : Nat, end : Nat])
      /\ Len(more) = Len(rows) + 1
      /\ \A r \in 1..Len(rows) : more[r] = rows[r]
      /\ more[Len(rows) + 1] = Row(a, z)
  BY <1>1, <1>2
<1>4. ASSUME NEW r \in 1..Len(more)
      PROVE  /\ more[r].start = IF r = 1 THEN 0 ELSE more[r - 1].end
             /\ \A o \in more[r].start + 1..more[r].end : HasRoom(s, more[r].start, o, w)
  <2>1. CASE r = Len(rows) + 1
    <3>1. more[r].start = a /\ more[r].end = z
      BY <1>1, <1>3, <2>1
    <3>2. a = IF r = 1 THEN 0 ELSE more[r - 1].end
      <4>1. CASE Len(rows) = 0
        BY <4>1, <2>1
      <4>2. CASE Len(rows) # 0
        <5>1. r # 1 /\ r - 1 = Len(rows) /\ Len(rows) \in 1..Len(rows)
          BY <4>2, <2>1, <1>2
        <5> QED BY <5>1, <4>2, <1>3
      <4> QED BY <4>1, <4>2
    <3> QED BY <3>1, <3>2
  <2>2. CASE r # Len(rows) + 1
    <3>1. r \in 1..Len(rows) /\ (r # 1 => r - 1 \in 1..Len(rows))
      BY <2>2, <1>2, <1>3
    <3>2. more[r] = rows[r] /\ (r # 1 => more[r - 1] = rows[r - 1])
      BY <3>1, <1>3
    <3>3. /\ rows[r].start = IF r = 1 THEN 0 ELSE rows[r - 1].end
          /\ \A o \in rows[r].start + 1..rows[r].end : HasRoom(s, rows[r].start, o, w)
      BY <3>1 DEF Chained
    <3>4. more[r].start = IF r = 1 THEN 0 ELSE more[r - 1].end
      BY <3>2, <3>3
    <3>5. \A o \in more[r].start + 1..more[r].end : HasRoom(s, more[r].start, o, w)
      BY <3>2, <3>3
    <3> QED BY <3>4, <3>5
  <2> QED BY <2>1, <2>2
<1>5. Chained(more, s, w)
  BY <1>4 DEF Chained
<1> QED BY <1>3, <1>5 DEF RowsSet

LEMMA PlacedSoFar ==
    ASSUME NEW s \in Line, NEW w \in Nat \ {0}, NEW i \in 0..Len(s) - 1, NEW acc,
           SoFar(acc, s, i, w)
    PROVE  SoFar(Placed(acc, s, i + 1, w), s, i + 1, w)
<1> PICK c : c = s[i + 1]
  OBVIOUS
<1> PICK n : n = Placed(acc, s, i + 1, w)
  OBVIOUS
<1> PICK x : x = Lesser(WidthAt(c, acc.col), w)
  OBVIOUS
<1> PICK C : C = ColumnAt(s, acc.start, i)
  OBVIOUS
<1> PICK D : D = WidthAt(c, C)
  OBVIOUS
<1>1. /\ acc \in Walks /\ acc.rows \in RowsSet /\ acc.start \in Nat /\ acc.col \in Nat
      /\ Len(acc.rows) \in Nat /\ Len(s) \in Nat /\ i \in Nat
  BY DEF SoFar, Walks, RowsSet, Line
<1>2. i + 1 \in 1..Len(s) /\ (i + 1) - 1 = i /\ c \in Char
  BY DEF Line
<1>3. /\ acc.start \in 0..Len(s) /\ i \in acc.start..Len(s) /\ i + 1 \in acc.start + 1..Len(s)
      /\ acc.start <= i /\ (i > 0 => acc.start < i)
  BY <1>1 DEF SoFar
<1>4. C \in Nat /\ ColumnAt(s, acc.start, acc.start) = 0
      /\ ColumnAt(s, acc.start, i + 1) = C + D
  BY <1>2, <1>3, ColumnSteps
<1>5. /\ WidthAt(c, acc.col) \in Nat /\ D \in Nat /\ WidthAt(c, 0) \in Nat
      /\ c \in Zero => D = 0
      /\ c \notin Zero => WidthAt(c, acc.col) >= 1
  <2>1. WidthAt(c, acc.col) \in Nat /\ (c \notin Zero => WidthAt(c, acc.col) >= 1)
    BY <1>1, <1>2, Widths
  <2>2. WidthAt(c, C) \in Nat /\ (c \in Zero => WidthAt(c, C) = 0)
    BY <1>2, <1>4, Widths
  <2>3. WidthAt(c, 0) \in Nat
    BY <1>2, Widths
  <2> QED BY <2>1, <2>2, <2>3
<1>6. acc.col = Lesser(C, w)
  BY DEF SoFar
<1>7. x \in Nat /\ x <= w /\ acc.col <= w /\ acc.col <= C
  <2>1. w \in Nat /\ WidthAt(c, acc.col) \in Nat /\ C \in Nat
    BY <1>4, <1>5
  <2>2. x \in Nat /\ x <= w
    BY <2>1, LesserIs
  <2>3. acc.col <= w /\ acc.col <= C
    BY <2>1, <1>6, LesserIs
  <2> QED BY <2>2, <2>3
<1>8. n \in Walks
  BY <1>1, <1>2, PlacedInWalks
<1>9. CASE acc.col + x > w
  <2>1. n = [rows |-> Append(acc.rows, Row(acc.start, i)), start |-> i,
             col |-> Lesser(WidthAt(c, 0), w)]
    BY <1>9, <1>2 DEF Placed
  <2>2. acc.start < i
    <3>1. SUFFICES ASSUME i = 0 PROVE FALSE
      BY <1>1, <1>3
    <3>2. C = 0
      BY <3>1, <1>1, <1>3, <1>4
    <3> QED BY <3>2, <1>7, <1>9, <1>1
  <2> PICK more : more = Append(acc.rows, Row(acc.start, i))
    OBVIOUS
  <2>3. n.rows = more /\ n.start = i /\ n.col = Lesser(WidthAt(c, 0), w)
    BY <2>1
  <2>4. /\ more \in RowsSet /\ Len(more) = Len(acc.rows) + 1
        /\ \A r \in 1..Len(acc.rows) : more[r] = acc.rows[r]
        /\ more[Len(acc.rows) + 1] = Row(acc.start, i)
        /\ Chained(more, s, w)
    BY <1>1, RowAdded DEF SoFar
  <2>5. \A r \in 1..Len(more) : more[r].start < more[r].end /\ more[r].end <= i + 1
    <3>1. SUFFICES ASSUME NEW r \in 1..Len(more)
                   PROVE  more[r].start < more[r].end /\ more[r].end <= i + 1
      OBVIOUS
    <3>2. CASE r = Len(acc.rows) + 1
      <4>1. more[r].start = acc.start /\ more[r].end = i
        BY <3>2, <2>4 DEF Row
      <4> QED BY <4>1, <2>2, <1>1
    <3>3. CASE r # Len(acc.rows) + 1
      <4>1. r \in 1..Len(acc.rows)
        BY <3>3, <2>4, <1>1
      <4>2. acc.rows[r].start < acc.rows[r].end /\ acc.rows[r].end <= i
        BY <4>1 DEF SoFar
      <4>3. acc.rows[r].end \in Nat
        BY <4>1, <1>1, RowTyped
      <4>4. more[r] = acc.rows[r]
        BY <4>1, <2>4
      <4> QED BY <4>2, <4>3, <4>4, <1>1
    <3> QED BY <3>2, <3>3
  <2>6. n.start = IF Len(more) = 0 THEN 0 ELSE more[Len(more)].end
    BY <2>3, <2>4, <1>1 DEF Row
  <2>7. i \in 0..Len(s) /\ i + 1 \in i + 1..Len(s) /\ i \in i..Len(s)
    BY <1>1, <1>2
  <2>8. ColumnAt(s, i, i) = 0 /\ ColumnAt(s, i, i + 1) = ColumnAt(s, i, i) + WidthAt(c, ColumnAt(s, i, i))
    BY <2>7, <1>2, ColumnSteps
  <2>9. ColumnAt(s, i, i + 1) = WidthAt(c, 0)
    BY <2>8, <1>5
  <2>10. Lesser(WidthAt(c, 0), w) \in Nat /\ Lesser(WidthAt(c, 0), w) <= w
    BY <1>5, LesserIs
  <2>11. HasRoom(s, i, i + 1, w)
    BY <2>8, <2>10, <1>2 DEF HasRoom
  <2>12. \A o \in n.start + 1..i + 1 : HasRoom(s, n.start, o, w)
    <3>1. \A o \in i + 1..i + 1 : o = i + 1
      BY <1>1
    <3> QED BY <3>1, <2>3, <2>11
  <2>13. n.start <= i + 1 /\ n.start < i + 1
    BY <2>3, <1>1
  <2>14. n.col = Lesser(ColumnAt(s, n.start, i + 1), w)
    BY <2>3, <2>9
  <2> QED BY <1>8, <2>3, <2>4, <2>5, <2>6, <2>12, <2>13, <2>14 DEF SoFar
<1>10. CASE ~(acc.col + x > w)
  <2>1. PICK t : t = [acc EXCEPT !.col = acc.col + x]
    OBVIOUS
  <2>2. n = t
    BY <1>10, <1>2, <2>1 DEF Placed
  <2>3. n.rows = acc.rows /\ n.start = acc.start /\ n.col = acc.col + x
    BY <2>1, <2>2, <1>1 DEF Walks
  <2>4. acc.col + x <= w
    BY <1>10, <1>7, <1>1
  <2>5. ASSUME C <= w
        PROVE  n.col = Lesser(C + D, w) /\ HasRoom(s, acc.start, i + 1, w)
    <3>1. acc.col = C
      BY <2>5, <1>4, <1>6, LesserIs
    <3>2. x = Lesser(D, w)
      BY <3>1
    <3>3. n.col = Lesser(C + D, w)
      BY <3>1, <3>2, <2>3, <2>4, <1>4, <1>5 DEF Lesser
    <3>4. HasRoom(s, acc.start, i + 1, w)
      BY <3>1, <3>2, <2>4, <1>2 DEF HasRoom
    <3> QED BY <3>3, <3>4
  <2>6. ASSUME ~(C <= w)
        PROVE  n.col = Lesser(C + D, w) /\ HasRoom(s, acc.start, i + 1, w)
    <3>1. acc.col = w
      BY <2>6, <1>4, <1>6 DEF Lesser
    <3>2. x = 0
      BY <3>1, <2>4, <1>7
    <3>3. WidthAt(c, acc.col) = 0
      BY <3>2, <1>5 DEF Lesser
    <3>4. c \in Zero /\ D = 0
      BY <3>3, <1>5
    <3>5. n.col = Lesser(C + D, w)
      BY <3>1, <3>2, <3>4, <2>3, <2>6, <1>4 DEF Lesser
    <3>6. HasRoom(s, acc.start, i + 1, w)
      BY <3>4, <1>2 DEF HasRoom
    <3> QED BY <3>5, <3>6
  <2>7. n.col = Lesser(ColumnAt(s, n.start, i + 1), w)
    BY <2>3, <2>5, <2>6, <1>4
  <2>8. HasRoom(s, acc.start, i + 1, w)
    BY <2>5, <2>6
  <2>9. \A o \in n.start + 1..i + 1 : HasRoom(s, n.start, o, w)
    <3>1. \A o \in acc.start + 1..i + 1 : o = i + 1 \/ o \in acc.start + 1..i
      BY <1>1
    <3>2. \A o \in acc.start + 1..i : HasRoom(s, acc.start, o, w)
      BY DEF SoFar
    <3> QED BY <3>1, <3>2, <2>3, <2>8
  <2>10. \A r \in 1..Len(acc.rows) : acc.rows[r].start < acc.rows[r].end /\ acc.rows[r].end <= i + 1
    <3>1. \A r \in 1..Len(acc.rows) : acc.rows[r].end \in Nat
      BY <1>1, RowTyped
    <3>2. \A r \in 1..Len(acc.rows) : acc.rows[r].start < acc.rows[r].end /\ acc.rows[r].end <= i
      BY DEF SoFar
    <3> QED BY <3>1, <3>2, <1>1
  <2>11. n.start <= i + 1 /\ n.start < i + 1
    BY <2>3, <1>1, <1>3
  <2>12. Chained(n.rows, s, w) /\ n.start = IF Len(n.rows) = 0 THEN 0 ELSE n.rows[Len(n.rows)].end
    BY <2>3 DEF SoFar
  <2> QED BY <1>8, <2>3, <2>7, <2>9, <2>10, <2>11, <2>12 DEF SoFar
<1> QED BY <1>9, <1>10

\* The rows of a line: chained from its start to its end, none but the last one empty.
IsWrap(rows, s, w) ==
    /\ rows \in RowsSet /\ Len(rows) \in Nat \ {0}
    /\ Chained(rows, s, w)
    /\ \A r \in 1..Len(rows) : rows[r].start <= rows[r].end /\ rows[r].end <= Len(s)
    /\ \A r \in 1..Len(rows) : r # Len(rows) => rows[r].start < rows[r].end
    /\ rows[Len(rows)].end = Len(s)

LEMMA EmptyRowAdded ==
    ASSUME NEW rows \in RowsSet, NEW s, NEW w, NEW n \in Nat, Chained(rows, s, w),
           Len(rows) # 0, rows[Len(rows)].end = n
    PROVE  /\ Append(rows, Row(n, n)) \in RowsSet
           /\ Len(Append(rows, Row(n, n))) = Len(rows) + 1
           /\ \A r \in 1..Len(rows) : Append(rows, Row(n, n))[r] = rows[r]
           /\ Append(rows, Row(n, n))[Len(rows) + 1] = Row(n, n)
           /\ Chained(Append(rows, Row(n, n)), s, w)
<1>1. n = IF Len(rows) = 0 THEN 0 ELSE rows[Len(rows)].end
  OBVIOUS
<1>2. \A o \in n + 1..n : HasRoom(s, n, o, w)
  OBVIOUS
<1> QED BY <1>1, <1>2, RowAdded

LEMMA EndedIs ==
    ASSUME NEW s \in Line, NEW w \in Nat \ {0}, NEW acc, SoFar(acc, s, Len(s), w)
    PROVE  /\ IsWrap(Ended(acc, Len(s), w), s, w)
           /\ Len(Ended(acc, Len(s), w)) = IF acc.col = w THEN Len(acc.rows) + 2 ELSE Len(acc.rows) + 1
<1> PICK n : n = Len(s)
  OBVIOUS
<1> PICK one : one = Append(acc.rows, Row(acc.start, n))
  OBVIOUS
<1>1. n \in Nat /\ acc \in Walks /\ acc.rows \in RowsSet /\ acc.start \in Nat /\ acc.col \in Nat
  BY DEF SoFar, Walks, Line
<1>2. acc.start <= n /\ (n > 0 => acc.start < n)
  BY DEF SoFar
<1>3. /\ one \in RowsSet /\ Len(one) = Len(acc.rows) + 1
      /\ \A r \in 1..Len(acc.rows) : one[r] = acc.rows[r]
      /\ one[Len(acc.rows) + 1] = Row(acc.start, n)
      /\ Chained(one, s, w)
  BY <1>1, RowAdded DEF SoFar
<1>4. Len(acc.rows) \in Nat /\ \A r \in 1..Len(acc.rows) : acc.rows[r].start \in Nat /\ acc.rows[r].end \in Nat
  BY <1>1, RowTyped
<1>5. \A r \in 1..Len(acc.rows) : one[r].start < one[r].end /\ one[r].start <= one[r].end /\ one[r].end <= n
  <2>1. SUFFICES ASSUME NEW r \in 1..Len(acc.rows)
                 PROVE  one[r].start < one[r].end /\ one[r].start <= one[r].end /\ one[r].end <= n
    OBVIOUS
  <2>2. acc.rows[r].start < acc.rows[r].end /\ acc.rows[r].end <= n
    BY DEF SoFar
  <2>3. one[r] = acc.rows[r]
    BY <1>3
  <2>4. acc.rows[r].start \in Nat /\ acc.rows[r].end \in Nat
    BY <1>4
  <2> QED BY <2>2, <2>3, <2>4
<1>6. one[Len(one)].start = acc.start /\ one[Len(one)].end = n
  BY <1>3 DEF Row
<1>7. acc.rows \o <<Row(acc.start, n)>> = one
  <2>1. Row(acc.start, n) \in [start : Nat, end : Nat] /\ acc.rows \in Seq([start : Nat, end : Nat])
    BY <1>1 DEF Row, RowsSet
  <2> QED BY <2>1, AppendIsConcat
<1>8. CASE acc.col = w
  <2> PICK two : two = Append(one, Row(n, n))
    OBVIOUS
  <2>1. Ended(acc, n, w) = two
    <3>1. Row(n, n) \in [start : Nat, end : Nat] /\ one \in Seq([start : Nat, end : Nat])
      BY <1>1, <1>3 DEF Row, RowsSet
    <3>2. one \o <<Row(n, n)>> = two
      BY <3>1, AppendIsConcat
    <3> QED BY <3>2, <1>7, <1>8 DEF Ended
  <2>2. acc.start < n
    <3>1. SUFFICES ASSUME n = 0 PROVE FALSE
      BY <1>1, <1>2
    <3>2. acc.start = 0 /\ 0 \in 0..Len(s)
      BY <3>1, <1>1, <1>2
    <3>3. ColumnAt(s, acc.start, n) = 0
      BY <3>1, <3>2, ColumnSteps
    <3>4. acc.col = Lesser(0, w)
      BY <3>3 DEF SoFar
    <3> QED BY <3>4, <1>8 DEF Lesser
  <2>3. \A o \in n + 1..n : HasRoom(s, n, o, w)
    BY <1>1
  <2>4. n = IF Len(one) = 0 THEN 0 ELSE one[Len(one)].end
    BY <1>3, <1>4, <1>6
  <2>5. /\ two \in RowsSet /\ Len(two) = Len(one) + 1
        /\ \A r \in 1..Len(one) : two[r] = one[r]
        /\ two[Len(one) + 1] = Row(n, n)
        /\ Chained(two, s, w)
    <3>1. one \in RowsSet /\ n \in Nat /\ Chained(one, s, w) /\ Len(one) # 0 /\ one[Len(one)].end = n
      BY <1>1, <1>3, <1>4, <1>6
    <3>2. two \in RowsSet
      BY <3>1, EmptyRowAdded
    <3>3. Len(two) = Len(one) + 1
      BY <3>1, EmptyRowAdded
    <3>4. \A r \in 1..Len(one) : two[r] = one[r]
      BY <3>1, EmptyRowAdded
    <3>5. two[Len(one) + 1] = Row(n, n)
      BY <3>1, EmptyRowAdded
    <3>6. Chained(two, s, w)
      BY <3>1, EmptyRowAdded
    <3> QED BY <3>2, <3>3, <3>4, <3>5, <3>6
  <2>6. Len(two) = Len(acc.rows) + 2
    BY <1>3, <1>4, <2>5
  <2>7. ASSUME NEW r \in 1..Len(two)
        PROVE  /\ two[r].start <= two[r].end /\ two[r].end <= n
               /\ r # Len(two) => two[r].start < two[r].end
    <3>1. CASE r = Len(two)
      <4>1. two[r].start = n /\ two[r].end = n
        BY <3>1, <2>5 DEF Row
      <4> QED BY <3>1, <4>1, <1>1
    <3>2. CASE r # Len(two) /\ r = Len(one)
      <4>1. two[r] = one[Len(one)]
        BY <3>2, <1>3, <1>4, <2>5
      <4> QED BY <4>1, <1>6, <2>2, <1>1
    <3>3. CASE r # Len(two) /\ r # Len(one)
      <4>1. r \in 1..Len(acc.rows) /\ r \in 1..Len(one)
        BY <3>3, <1>3, <1>4, <2>5
      <4>2. two[r] = one[r]
        BY <4>1, <2>5
      <4> QED BY <4>1, <4>2, <1>5
    <3> QED BY <3>1, <3>2, <3>3
  <2>8. two[Len(two)].end = n
    BY <2>5 DEF Row
  <2>9. Len(two) \in Nat \ {0}
    BY <2>6, <1>4
  <2>10. IsWrap(two, s, w)
    BY <2>5, <2>7, <2>8, <2>9 DEF IsWrap
  <2> QED BY <2>1, <2>6, <2>10, <1>8
<1>9. CASE acc.col # w
  <2>1. Ended(acc, n, w) = one \o << >>
    BY <1>7, <1>9 DEF Ended
  <2>2. one \o << >> = one
    BY <1>3, ConcatEmptySeq DEF RowsSet
  <2>3. ASSUME NEW r \in 1..Len(one)
        PROVE  /\ one[r].start <= one[r].end /\ one[r].end <= n
               /\ r # Len(one) => one[r].start < one[r].end
    <3>1. CASE r = Len(one)
      BY <3>1, <1>6, <1>1, <1>2
    <3>2. CASE r # Len(one)
      <4>1. r \in 1..Len(acc.rows)
        BY <3>2, <1>3, <1>4
      <4> QED BY <4>1, <1>5
    <3> QED BY <3>1, <3>2
  <2>4. Len(one) \in Nat \ {0}
    BY <1>3, <1>4
  <2>5. IsWrap(one, s, w)
    BY <1>3, <1>6, <2>3, <2>4 DEF IsWrap
  <2> QED BY <2>1, <2>2, <2>5, <1>3, <1>9
<1> QED BY <1>8, <1>9

(***************************************************************************)
(* The two walks of layout.rs agree: wrapping yields as many rows as       *)
(* counting counts, and the rows are those of the line.                    *)
(***************************************************************************)
LEMMA WrapIs ==
    ASSUME NEW s \in Line, NEW width \in Nat
    PROVE  /\ IsWrap(WrapLine(s, width), s, Greater(width, 1))
           /\ RowCount(s, width) = Len(WrapLine(s, width))
<1> PICK w : w = Greater(width, 1)
  OBVIOUS
<1>1. w \in Nat \ {0} /\ Len(s) \in Int /\ 0 \in Int /\ 0 <= Len(s) /\ Len(s) \in 0..Len(s)
  BY DEF Greater, Line
<1>2. PICK at \in [0..Len(s) -> Walks] :
              /\ WrapLine(s, width) = Ended(at[Len(s)], Len(s), w)
              /\ at[0] = [rows |-> << >>, start |-> 0, col |-> 0]
              /\ \A i \in 1..Len(s) : at[i] = Placed(at[i - 1], s, i, w)
  BY WrapSteps
<1>3. PICK ct \in [0..Len(s) -> Counts] :
              /\ RowCount(s, width) = CountEnded(ct[Len(s)], w)
              /\ ct[0] = [rows |-> 1, col |-> 0]
              /\ \A i \in 1..Len(s) : ct[i] = Counted(ct[i - 1], s[i], w)
  BY CountSteps
<1> DEFINE P == {i \in 0..Len(s) : /\ SoFar(at[i], s, i, w)
                                   /\ ct[i].rows = Len(at[i].rows) + 1 /\ ct[i].col = at[i].col}
<1>4. 0 \in P
  <2>1. at[0].rows = << >> /\ at[0].start = 0 /\ at[0].col = 0 /\ at[0] \in Walks
    BY <1>1, <1>2
  <2>2. 0 \in 0..Len(s)
    BY <1>1
  <2>3. ColumnAt(s, 0, 0) = 0
    BY <2>2, ColumnSteps
  <2>4. Lesser(0, w) = 0
    BY <1>1 DEF Lesser
  <2>5. \A o \in 0 + 1..0 : HasRoom(s, 0, o, w)
    OBVIOUS
  <2>6. Len(<< >>) = 0
    OBVIOUS
  <2>7. Chained(<< >>, s, w)
    BY <2>6 DEF Chained
  <2>8. SoFar(at[0], s, 0, w)
    <3>1. \A r \in 1..Len(at[0].rows) : FALSE
      BY <2>1, <2>6
    <3> QED BY <2>1, <2>3, <2>4, <2>5, <2>6, <2>7, <3>1 DEF SoFar
  <2> QED BY <2>1, <2>2, <2>6, <2>8, <1>3
<1>5. ASSUME NEW i \in 0..Len(s) - 1, i \in P PROVE i + 1 \in P
  <2>1. i + 1 \in 1..Len(s) /\ (i + 1) - 1 = i /\ i + 1 \in 0..Len(s) /\ i \in 0..Len(s)
    BY <1>1
  <2>2. at[i + 1] = Placed(at[i], s, i + 1, w)
    BY <1>2, <2>1
  <2>3. ct[i + 1] = Counted(ct[i], s[i + 1], w)
    BY <1>3, <2>1
  <2>4. SoFar(at[i], s, i, w) /\ ct[i].rows = Len(at[i].rows) + 1 /\ ct[i].col = at[i].col
    BY <1>5
  <2>5. SoFar(at[i + 1], s, i + 1, w)
    BY <2>2, <2>4, <1>1, PlacedSoFar
  <2>6. /\ at[i] \in Walks /\ ct[i] \in Counts /\ at[i].rows \in RowsSet
        /\ Len(at[i].rows) \in Nat
    <3>1. at[i] \in Walks /\ ct[i] \in Counts
      BY <2>1
    <3>2. at[i].rows \in RowsSet
      BY <3>1 DEF Walks
    <3> QED BY <3>1, <3>2, RowTyped
  <2> PICK x : x = Lesser(WidthAt(s[i + 1], at[i].col), w)
    OBVIOUS
  <2> PICK y : y = Lesser(WidthAt(s[i + 1], 0), w)
    OBVIOUS
  <2> PICK a : a = at[i]
    OBVIOUS
  <2> PICK c : c = ct[i]
    OBVIOUS
  <2> PICK more : more = Append(a.rows, Row(a.start, i))
    OBVIOUS
  <2>7. at[i + 1] = IF a.col + x > w THEN [rows |-> more, start |-> i, col |-> y]
                    ELSE [a EXCEPT !.col = a.col + x]
    BY <2>1, <2>2 DEF Placed
  <2>8. ct[i + 1] = IF a.col + x > w THEN [rows |-> c.rows + 1, col |-> y]
                    ELSE [c EXCEPT !.col = a.col + x]
    BY <2>3, <2>4 DEF Counted
  <2>9. Len(more) = Len(a.rows) + 1
    BY <2>6 DEF RowsSet
  <2>10. CASE a.col + x > w
    <3>1. at[i + 1].rows = more /\ at[i + 1].col = y
      BY <2>7, <2>10
    <3>2. ct[i + 1].rows = c.rows + 1 /\ ct[i + 1].col = y
      BY <2>8, <2>10
    <3>3. ct[i + 1].rows = Len(at[i + 1].rows) + 1 /\ ct[i + 1].col = at[i + 1].col
      BY <3>1, <3>2, <2>4, <2>9
    <3> QED BY <3>3, <2>1, <2>5
  <2>11. CASE ~(a.col + x > w)
    <3>1. at[i + 1].rows = a.rows /\ at[i + 1].col = a.col + x
      BY <2>7, <2>11, <2>6 DEF Walks
    <3>2. ct[i + 1].rows = c.rows /\ ct[i + 1].col = a.col + x
      BY <2>8, <2>11, <2>6 DEF Counts
    <3>3. ct[i + 1].rows = Len(at[i + 1].rows) + 1 /\ ct[i + 1].col = at[i + 1].col
      BY <3>1, <3>2, <2>4
    <3> QED BY <3>3, <2>1, <2>5
  <2> QED BY <2>10, <2>11
<1>6. Len(s) \in P
  <2> HIDE DEF P
  <2>1. \A i \in 0..Len(s) : i \in P
    BY <1>1, <1>4, <1>5, Upwards
  <2> QED BY <2>1, <1>1
<1> PICK a : a = at[Len(s)]
  OBVIOUS
<1> PICK c : c = ct[Len(s)]
  OBVIOUS
<1>7. SoFar(a, s, Len(s), w) /\ c.rows = Len(a.rows) + 1 /\ c.col = a.col
  BY <1>6
<1> HIDE DEF P
<1>8. /\ IsWrap(WrapLine(s, width), s, w)
      /\ Len(WrapLine(s, width)) = IF a.col = w THEN Len(a.rows) + 2 ELSE Len(a.rows) + 1
  BY <1>1, <1>2, <1>7, EndedIs
<1>9. Len(a.rows) \in Nat
  BY <1>7, RowTyped DEF SoFar, Walks
<1>10. RowCount(s, width) = IF a.col = w THEN Len(a.rows) + 2 ELSE Len(a.rows) + 1
  BY <1>3, <1>7, <1>9 DEF CountEnded
<1> QED BY <1>8, <1>10

LEMMA WrapTyped ==
    ASSUME NEW rows, NEW s \in Line, NEW w, IsWrap(rows, s, w)
    PROVE  /\ Len(s) \in Nat /\ Len(rows) \in Nat \ {0} /\ DOMAIN rows = 1..Len(rows)
           /\ \A r \in 1..Len(rows) : /\ rows[r].start \in 0..Len(s)
                                      /\ rows[r].end \in rows[r].start..Len(s)
                                      /\ rows[r].start \in Nat /\ rows[r].end \in Nat
                                      /\ rows[r].start <= rows[r].end
<1>1. Len(s) \in Nat /\ rows \in RowsSet
  BY DEF IsWrap, Line
<1>2. rows \in Seq([start : Nat, end : Nat])
  BY <1>1 DEF RowsSet
<1>3. DOMAIN rows = 1..Len(rows)
  BY <1>2
<1>4. ASSUME NEW r \in 1..Len(rows)
      PROVE  /\ rows[r].start \in 0..Len(s) /\ rows[r].end \in rows[r].start..Len(s)
             /\ rows[r].start \in Nat /\ rows[r].end \in Nat /\ rows[r].start <= rows[r].end
  <2>1. rows[r].start \in Nat /\ rows[r].end \in Nat
    BY <1>1, RowTyped
  <2>2. rows[r].start <= rows[r].end /\ rows[r].end <= Len(s)
    BY DEF IsWrap
  <2> QED BY <1>1, <2>1, <2>2
<1>5. Len(rows) \in Nat \ {0}
  BY DEF IsWrap
<1> QED BY <1>1, <1>3, <1>4, <1>5

\* A later row starts no earlier than an earlier one ends.
LEMMA RowsAscend ==
    ASSUME NEW rows, NEW s \in Line, NEW w, IsWrap(rows, s, w),
           NEW q \in 1..Len(rows), NEW r \in q + 1..Len(rows)
    PROVE  rows[q].end <= rows[r].start /\ rows[q].start < rows[r].start
<1>1. /\ Len(rows) \in Int /\ q \in Int /\ q + 1 \in Int /\ q + 1 <= Len(rows) /\ q \in 1..Len(rows)
      /\ r \in 1..Len(rows) /\ q # Len(rows)
  BY WrapTyped
<1>2. \A p \in 1..Len(rows) : /\ rows[p].start \in 0..Len(s)
                              /\ rows[p].end \in rows[p].start..Len(s)
  BY WrapTyped
<1>3. \A p \in 2..Len(rows) : rows[p].start = rows[p - 1].end
  BY DEF IsWrap, Chained
<1> DEFINE P == {p \in q + 1..Len(rows) : rows[q].end <= rows[p].start}
<1>4. q + 1 \in P
  <2>1. rows[q + 1].start = rows[q].end
    <3>1. q + 1 \in 2..Len(rows) /\ (q + 1) - 1 = q
      BY <1>1
    <3> QED BY <3>1, <1>3
  <2>2. rows[q].end \in Int
    BY <1>1, <1>2, WrapTyped
  <2> QED BY <1>1, <2>1, <2>2
<1>5. ASSUME NEW p \in q + 1..Len(rows) - 1, p \in P PROVE p + 1 \in P
  <2>1. p \in 1..Len(rows) /\ p + 1 \in 1..Len(rows) /\ p + 1 \in 2..Len(rows) /\ (p + 1) - 1 = p
        /\ p + 1 \in q + 1..Len(rows)
    BY <1>1
  <2>2. rows[p + 1].start = rows[p].end
    BY <2>1, <1>3
  <2>3. rows[q].end <= rows[p].start
    BY <1>5
  <2>4. rows[q].end \in Nat /\ rows[p].start \in Nat /\ rows[p].end \in Nat /\ rows[p].start <= rows[p].end
    <3>1. Len(s) \in Nat
      BY WrapTyped
    <3>2. rows[p].start \in 0..Len(s) /\ rows[p].end \in rows[p].start..Len(s)
      BY <1>2, <2>1
    <3>3. rows[q].start \in 0..Len(s) /\ rows[q].end \in rows[q].start..Len(s)
      BY <1>1, <1>2
    <3> QED BY <3>1, <3>2, <3>3
  <2>5. rows[q].end <= rows[p + 1].start
    BY <2>2, <2>3, <2>4
  <2> QED BY <2>1, <2>5
<1>6. r \in P
  <2> HIDE DEF P
  <2>1. \A p \in q + 1..Len(rows) : p \in P
    BY <1>1, <1>4, <1>5, Upwards
  <2> QED BY <2>1
<1>7. rows[q].start < rows[q].end
  BY <1>1 DEF IsWrap
<1>8. rows[q].start \in Int /\ rows[q].end \in Int /\ rows[r].start \in Int
  BY <1>1, <1>2, WrapTyped
<1> QED BY <1>6, <1>7, <1>8

LEMMA RowsDistinct ==
    ASSUME NEW rows, NEW s \in Line, NEW w, IsWrap(rows, s, w),
           NEW q \in 1..Len(rows), NEW r \in 1..Len(rows), rows[q] = rows[r]
    PROVE  q = r
<1>1. Len(rows) \in Nat /\ rows[q].start \in Nat /\ rows[r].start \in Nat
  BY WrapTyped, Zenon
<1>2. ASSUME q < r PROVE FALSE
  <2>1. r \in q + 1..Len(rows)
    BY <1>2, <1>1
  <2>2. rows[q].start < rows[r].start
    BY <2>1, RowsAscend
  <2> QED BY <2>2, <1>1
<1>3. ASSUME r < q PROVE FALSE
  <2>1. q \in r + 1..Len(rows)
    BY <1>3, <1>1
  <2>2. rows[r].start < rows[q].start
    BY <2>1, RowsAscend
  <2> QED BY <2>2, <1>1
<1> QED BY <1>1, <1>2, <1>3

\* Every position of a line is on one of its rows, and on no other.
LEMMA RowAtIs ==
    ASSUME NEW rows, NEW s \in Line, NEW w, IsWrap(rows, s, w), NEW offset \in 0..Len(s)
    PROVE  /\ RowAt(rows, offset) \in 1..Len(rows)
           /\ rows[RowAt(rows, offset)].start <= offset
           /\ offset <= rows[RowAt(rows, offset)].end
           /\ offset < rows[RowAt(rows, offset)].end \/ RowAt(rows, offset) = Len(rows)
<1> DEFINE T == {r \in 1..Len(rows) : offset < rows[r].end \/ r = Len(rows)}
<1>1. /\ Len(s) \in Nat /\ Len(rows) \in Nat /\ Len(rows) \in 1..Len(rows)
      /\ offset \in Nat /\ offset <= Len(s)
  BY WrapTyped
<1>d. DOMAIN rows = 1..Len(rows)
  BY WrapTyped
<1>2. \A r \in 1..Len(rows) : rows[r].start \in Nat /\ rows[r].end \in Nat
  BY WrapTyped
<1>3. T \subseteq Nat /\ Len(rows) \in T
  BY <1>1
<1>4. PICK r \in T : \A q \in T : r <= q
  <2> HIDE DEF T
  <2> QED BY <1>3, Least
<1>r. r \in 1..Len(rows) /\ (offset < rows[r].end \/ r = Len(rows))
  <2>1. r \in T
    BY <1>4
  <2> QED BY <2>1, Zenon
<1>n. r \in Nat /\ r <= Len(rows) /\ r >= 1
  BY <1>r, <1>1
<1>5. rows[r].start <= offset
  <2>1. CASE r = 1
    <3>1. rows[1].start = 0
      BY <2>1, <1>r DEF IsWrap, Chained
    <3> QED BY <3>1, <2>1, <1>1
  <2>2. CASE r # 1
    <3>1. r - 1 \in 1..Len(rows) /\ ~(r <= r - 1)
      BY <2>2, <1>1, <1>n
    <3>2. ~(r - 1 \in T)
      BY <3>1, <1>4
    <3>3. ~(offset < rows[r - 1].end)
      BY <3>1, <3>2
    <3>4. rows[r].start = rows[r - 1].end
      BY <1>r, <2>2 DEF IsWrap, Chained
    <3>5. rows[r - 1].end \in Int
      BY <3>1, <1>2
    <3> QED BY <3>3, <3>4, <3>5, <1>1
  <2> QED BY <2>1, <2>2
<1> PICK a : a = RowAt(rows, offset)
  OBVIOUS
<1>6. /\ a \in 1..Len(rows) /\ rows[a].start <= offset
      /\ offset < rows[a].end \/ a = Len(rows)
  BY <1>d, <1>r, <1>5 DEF RowAt
<1>7. offset <= rows[a].end
  <2>1. rows[Len(rows)].end = Len(s)
    BY DEF IsWrap
  <2>2. rows[a].end \in Nat
    BY <1>2, <1>6, Zenon
  <2>3. CASE a = Len(rows)
    BY <2>1, <2>3, <1>1
  <2>4. CASE a # Len(rows)
    BY <2>2, <2>4, <1>1, <1>6
  <2> QED BY <2>3, <2>4
<1> QED BY <1>6, <1>7

LEMMA OnlyRow ==
    ASSUME NEW rows, NEW s \in Line, NEW w, IsWrap(rows, s, w), NEW offset \in 0..Len(s),
           NEW r \in 1..Len(rows), rows[r].start <= offset,
           offset < rows[r].end \/ r = Len(rows)
    PROVE  RowAt(rows, offset) = r
<1> PICK a : a = RowAt(rows, offset)
  OBVIOUS
<1>1. /\ a \in 1..Len(rows) /\ rows[a].start <= offset
      /\ offset < rows[a].end \/ a = Len(rows)
  BY RowAtIs
<1>2. Len(rows) \in Nat /\ offset \in Int
  BY WrapTyped
<1>3. /\ rows[a].start \in Int /\ rows[a].end \in Int /\ rows[r].start \in Int /\ rows[r].end \in Int
  BY <1>1, WrapTyped
<1>4. ASSUME a < r PROVE FALSE
  <2>1. r \in a + 1..Len(rows) /\ a # Len(rows)
    BY <1>1, <1>2, <1>4
  <2>2. rows[a].end <= rows[r].start
    BY <2>1, <1>1, RowsAscend
  <2> QED BY <2>1, <2>2, <1>1, <1>2, <1>3
<1>5. ASSUME r < a PROVE FALSE
  <2>1. a \in r + 1..Len(rows) /\ r # Len(rows)
    BY <1>1, <1>2, <1>5
  <2>2. rows[r].end <= rows[a].start
    BY <2>1, RowsAscend
  <2> QED BY <2>1, <2>2, <1>1, <1>2, <1>3
<1> QED BY <1>1, <1>2, <1>4, <1>5

-----------------------------------------------------------------------------
(* Cells and offsets                                                       *)

\* The cell of a position: the one row it is on, and its column there.
LEMMA CellIs ==
    ASSUME NEW s \in Line, NEW width \in Nat, NEW offset \in 0..Len(s), NEW rows,
           rows = WrapLine(s, width)
    PROVE  /\ PositionToCell(s, offset, width).row = RowAt(rows, offset)
           /\ RowAt(rows, offset) \in 1..Len(rows)
           /\ PositionToCell(s, offset, width).col = ColumnAt(s, rows[RowAt(rows, offset)].start, offset)
           /\ ColumnAt(s, rows[RowAt(rows, offset)].start, offset) \in Nat
<1> PICK a : a = RowAt(rows, offset)
  OBVIOUS
<1> PICK w : w = Greater(width, 1)
  OBVIOUS
<1>1. IsWrap(rows, s, w)
  BY WrapIs
<1>2. a \in 1..Len(rows) /\ rows[a].start <= offset
  BY <1>1, RowAtIs
<1>3. PositionToCell(s, offset, width) = [row |-> a, col |-> ColumnAt(s, rows[a].start, offset)]
  BY DEF PositionToCell, CellAmong, CellOnRow
<1>4. rows[a].start \in 0..Len(s) /\ Len(s) \in Nat
  BY <1>1, <1>2, WrapTyped
<1>5. offset \in rows[a].start..Len(s)
  BY <1>2, <1>4
<1>6. ColumnAt(s, rows[a].start, offset) \in Nat
  BY <1>4, <1>5, ColumnSteps
<1> QED BY <1>2, <1>3, <1>6

\* The last offset of a row that is not past the column, or the end of the row.
LEMMA OffsetIs ==
    ASSUME NEW s \in Line, NEW r, r.start \in 0..Len(s), r.end \in r.start..Len(s), NEW col \in Nat
    PROVE  /\ OffsetOnRow(r, s, col) \in r.start..r.end
           /\ \A p \in r.start..OffsetOnRow(r, s, col) - 1 : ColumnAt(s, r.start, p + 1) <= col
           /\ OffsetOnRow(r, s, col) < r.end => ColumnAt(s, r.start, OffsetOnRow(r, s, col) + 1) > col
<1> DEFINE T == {o \in r.start..r.end - 1 : ColumnAt(s, r.start, o + 1) > col}
<1> PICK o : o = OffsetOnRow(r, s, col)
  OBVIOUS
<1>1. o = IF T = {} THEN r.end ELSE CHOOSE x \in T : \A p \in T : x <= p
  BY DEF OffsetOnRow, FirstOf
<1>2. r.start \in Nat /\ r.end \in Nat /\ r.start <= r.end /\ Len(s) \in Nat /\ r.end <= Len(s)
  BY DEF Line
<1>3. \A p \in r.start..r.end - 1 : p + 1 \in r.start..Len(s)
  BY <1>2
<1>4. \A p \in r.start..r.end - 1 : ColumnAt(s, r.start, p + 1) \in Nat
  BY <1>3, ColumnSteps
<1>5. T \subseteq Nat
  BY <1>2
<1>6. CASE T = {}
  <2>1. o = r.end
    BY <1>1, <1>6
  <2>2. \A p \in r.start..r.end - 1 : ~(ColumnAt(s, r.start, p + 1) > col)
    BY <1>6
  <2>3. \A p \in r.start..r.end - 1 : ColumnAt(s, r.start, p + 1) <= col
    BY <2>2, <1>4
  <2>4. r.end \in r.start..r.end /\ ~(r.end < r.end)
    BY <1>2
  <2> QED BY <2>1, <2>3, <2>4
<1>7. CASE T # {}
  <2>1. \E x \in T : \A p \in T : x <= p
    <3> HIDE DEF T
    <3> QED BY <1>5, <1>7, Least
  <2>2. o \in T /\ \A p \in T : o <= p
    <3> HIDE DEF T
    <3> QED BY <2>1, <1>1, <1>7
  <2>3. o \in r.start..r.end - 1 /\ ColumnAt(s, r.start, o + 1) > col
    BY <2>2
  <2>4. \A p \in r.start..o - 1 : p \in r.start..r.end - 1 /\ ~(o <= p)
    BY <2>3, <1>2
  <2>5. \A p \in r.start..o - 1 : ~(p \in T)
    <3> HIDE DEF T
    <3> QED BY <2>2, <2>4
  <2>6. \A p \in r.start..o - 1 : ~(ColumnAt(s, r.start, p + 1) > col)
    BY <2>4, <2>5
  <2>7. \A p \in r.start..o - 1 : ColumnAt(s, r.start, p + 1) <= col
    BY <2>4, <2>6, <1>4
  <2>8. o \in r.start..r.end
    BY <2>3, <1>2
  <2> QED BY <2>3, <2>7, <2>8
<1> QED BY <1>6, <1>7

\* A row with a cell for the column, or that ends its line.
HasColumn(rows, r, s, col) == r = Len(rows) \/ col < ColumnAt(s, rows[r].start, rows[r].end)

\* A move to such a row does land on it.
LEMMA Landed ==
    ASSUME NEW s \in Line, NEW w, NEW rows, IsWrap(rows, s, w), NEW r \in 1..Len(rows),
           NEW col \in Nat, HasColumn(rows, r, s, col)
    PROVE  /\ OffsetOnRow(rows[r], s, col) \in 0..Len(s)
           /\ OffsetOnRow(rows[r], s, col) \in rows[r].start..rows[r].end
           /\ RowAt(rows, OffsetOnRow(rows[r], s, col)) = r
<1> PICK a : a = rows[r].start
  OBVIOUS
<1> PICK z : z = rows[r].end
  OBVIOUS
<1> PICK o : o = OffsetOnRow(rows[r], s, col)
  OBVIOUS
<1>1. a \in 0..Len(s) /\ z \in a..Len(s) /\ Len(s) \in Nat /\ a \in Nat /\ z \in Nat
  BY WrapTyped
<1>2. /\ o \in a..z
      /\ \A p \in a..o - 1 : ColumnAt(s, a, p + 1) <= col
  BY <1>1, OffsetIs
<1>3. o \in 0..Len(s)
  BY <1>1, <1>2
<1>4. o < z \/ r = Len(rows)
  <2>1. SUFFICES ASSUME ~(o < z), r # Len(rows) PROVE FALSE
    OBVIOUS
  <2>2. a < z
    BY <2>1 DEF IsWrap
  <2>3. o = z /\ z - 1 \in a..o - 1 /\ (z - 1) + 1 = z
    BY <2>1, <2>2, <1>1, <1>2
  <2>4. ColumnAt(s, a, z) <= col
    BY <2>3, <1>2
  <2>5. col < ColumnAt(s, a, z)
    BY <2>1 DEF HasColumn
  <2>6. ColumnAt(s, a, z) \in Nat
    BY <1>1, ColumnSteps
  <2> QED BY <2>4, <2>5, <2>6
<1>5. a <= o
  BY <1>1, <1>2
<1>6. RowAt(rows, o) = r
  BY <1>3, <1>4, <1>5, OnlyRow
<1> QED BY <1>2, <1>3, <1>6

\* And a move back to the row of a position lands on the position's cell.
LEMMA BackOnCell ==
    ASSUME NEW s \in Line, NEW w, NEW rows, IsWrap(rows, s, w), NEW offset \in 0..Len(s), NEW r,
           r = RowAt(rows, offset), NEW col, col = ColumnAt(s, rows[r].start, offset),
           HasColumn(rows, r, s, col)
    PROVE  ColumnAt(s, rows[r].start, OffsetOnRow(rows[r], s, col)) = col
<1> PICK a : a = rows[r].start
  OBVIOUS
<1> PICK z : z = rows[r].end
  OBVIOUS
<1> PICK o : o = OffsetOnRow(rows[r], s, col)
  OBVIOUS
<1>1. r \in 1..Len(rows) /\ a <= offset /\ offset <= z
  BY RowAtIs
<1>2. a \in 0..Len(s) /\ z \in a..Len(s) /\ Len(s) \in Nat /\ a \in Nat /\ z \in Nat
  BY <1>1, WrapTyped
<1>3. offset \in a..Len(s) /\ offset \in a..z
  BY <1>1, <1>2
<1>4. col \in Nat
  BY <1>2, <1>3, ColumnSteps
<1>5. /\ o \in a..z
      /\ \A p \in a..o - 1 : ColumnAt(s, a, p + 1) <= col
      /\ o < z => ColumnAt(s, a, o + 1) > col
  BY <1>2, <1>4, OffsetIs
<1>6. o \in a..Len(s) /\ ColumnAt(s, a, o) \in Nat
  <2>1. o \in a..Len(s)
    BY <1>2, <1>5
  <2> QED BY <2>1, <1>2, ColumnSteps
<1>7. ColumnAt(s, a, o) <= col
  <2>1. CASE o = a
    BY <2>1, <1>2, <1>4, ColumnSteps
  <2>2. CASE o # a
    <3>1. o - 1 \in a..o - 1 /\ (o - 1) + 1 = o
      BY <2>2, <1>2, <1>5
    <3> QED BY <3>1, <1>5
  <2> QED BY <2>1, <2>2
<1>8. offset <= o
  <2>1. SUFFICES ASSUME offset > o PROVE FALSE
    BY <1>2, <1>3, <1>5
  <2>2. o < z /\ o + 1 \in a..Len(s) /\ offset \in o + 1..Len(s)
    BY <2>1, <1>2, <1>3, <1>5
  <2>3. ColumnAt(s, a, o + 1) <= ColumnAt(s, a, offset)
    BY <2>2, <1>2, ColumnsGrow
  <2>4. ColumnAt(s, a, o + 1) \in Nat
    BY <2>2, <1>2, ColumnSteps
  <2> QED BY <2>2, <2>3, <2>4, <1>4, <1>5
<1>9. o \in offset..Len(s)
  BY <1>2, <1>3, <1>6, <1>8
<1>10. ColumnAt(s, a, offset) <= ColumnAt(s, a, o)
  BY <1>2, <1>3, <1>9, ColumnsGrow
<1> QED BY <1>4, <1>6, <1>7, <1>10

-----------------------------------------------------------------------------
(* Up and down                                                             *)

RowsAt(b, l, width) == WrapLine(b.lines[l], width)

LEMMA RowsAtWrap ==
    ASSUME NEW b, Sound(b), NEW width \in Nat, NEW l \in 1..Len(b.lines)
    PROVE  /\ IsWrap(RowsAt(b, l, width), b.lines[l], Greater(width, 1))
           /\ RowCount(b.lines[l], width) = Len(RowsAt(b, l, width))
           /\ Len(RowsAt(b, l, width)) \in Nat \ {0}
<1>1. b.lines[l] \in Line
  BY Parts
<1>2. /\ IsWrap(RowsAt(b, l, width), b.lines[l], Greater(width, 1))
      /\ RowCount(b.lines[l], width) = Len(RowsAt(b, l, width))
  BY <1>1, WrapIs DEF RowsAt
<1> QED BY <1>1, <1>2, WrapTyped

\* The cursor's row is one of its line's.
LEMMA CursorCellIs ==
    ASSUME NEW b, Sound(b), NEW width \in Nat, NEW rows, rows = RowsAt(b, b.line, width)
    PROVE  /\ CursorCell(b, width).row = RowAt(rows, b.col)
           /\ RowAt(rows, b.col) \in 1..Len(rows)
           /\ CursorCell(b, width).col = ColumnAt(Cur(b), rows[RowAt(rows, b.col)].start, b.col)
           /\ CursorCell(b, width).col \in Nat
           /\ CursorCell(b, width) = [row |-> CursorCell(b, width).row, col |-> CursorCell(b, width).col]
<1>1. Cur(b) \in Line /\ b.col \in 0..Len(Cur(b)) /\ rows = WrapLine(Cur(b), width)
  BY Parts DEF RowsAt, Cur
<1>2. CursorCell(b, width)
      = [row |-> RowAt(rows, b.col), col |-> ColumnAt(Cur(b), rows[RowAt(rows, b.col)].start, b.col)]
  BY <1>1 DEF CursorCell, PositionToCell, CellAmong, CellOnRow
<1>3. /\ RowAt(rows, b.col) \in 1..Len(rows)
      /\ ColumnAt(Cur(b), rows[RowAt(rows, b.col)].start, b.col) \in Nat
  BY <1>1, CellIs
<1> QED BY <1>2, <1>3

\* Up and down lead to a row of the text, or nowhere.
LEMMA TargetIs ==
    ASSUME NEW b, Sound(b), NEW width \in Nat, NEW up \in BOOLEAN, TargetRow(b, up, width) # NoRow
    PROVE  \E l \in 1..Len(b.lines) : \E r \in 1..Len(RowsAt(b, l, width)) :
              TargetRow(b, up, width) = [line |-> l, row |-> r]
<1> PICK row : row = CursorCell(b, width).row
  OBVIOUS
<1> PICK to : to = TargetRow(b, up, width)
  OBVIOUS
<1>1. b.line \in 1..Len(b.lines) /\ Len(b.lines) \in Nat /\ Cur(b) = b.lines[b.line]
  BY Parts DEF Cur
<1>2. row \in 1..Len(RowsAt(b, b.line, width))
  BY CursorCellIs
<1>3. \A l \in 1..Len(b.lines) : /\ RowCount(b.lines[l], width) = Len(RowsAt(b, l, width))
                                 /\ Len(RowsAt(b, l, width)) \in Nat \ {0}
  BY RowsAtWrap
<1>4. Len(RowsAt(b, b.line, width)) \in Nat /\ RowCount(Cur(b), width) = Len(RowsAt(b, b.line, width))
  BY <1>1, <1>3
<1>5. CASE up /\ row > 1
  <2>1. to = [line |-> b.line, row |-> row - 1] /\ row - 1 \in 1..Len(RowsAt(b, b.line, width))
    BY <1>2, <1>4, <1>5 DEF TargetRow
  <2> QED BY <1>1, <2>1
<1>6. CASE up /\ ~(row > 1)
  <2>1. b.line > 1 /\ to = [line |-> b.line - 1, row |-> RowCount(b.lines[b.line - 1], width)]
    BY <1>6 DEF TargetRow
  <2>2. b.line - 1 \in 1..Len(b.lines)
    BY <1>1, <2>1
  <2>3. /\ to = [line |-> b.line - 1, row |-> Len(RowsAt(b, b.line - 1, width))]
        /\ Len(RowsAt(b, b.line - 1, width)) \in 1..Len(RowsAt(b, b.line - 1, width))
    BY <1>3, <2>1, <2>2
  <2> QED BY <2>2, <2>3
<1>7. CASE ~up /\ row < RowCount(Cur(b), width)
  <2>1. to = [line |-> b.line, row |-> row + 1] /\ row + 1 \in 1..Len(RowsAt(b, b.line, width))
    BY <1>2, <1>4, <1>7 DEF TargetRow
  <2> QED BY <1>1, <2>1
<1>8. CASE ~up /\ ~(row < RowCount(Cur(b), width))
  <2>1. b.line < Len(b.lines) /\ to = [line |-> b.line + 1, row |-> 1]
    BY <1>8 DEF TargetRow
  <2>2. b.line + 1 \in 1..Len(b.lines)
    BY <1>1, <2>1
  <2>3. 1 \in 1..Len(RowsAt(b, b.line + 1, width))
    BY <1>3, <2>2
  <2> QED BY <2>1, <2>2, <2>3
<1> QED BY <1>5, <1>6, <1>7, <1>8

\* And the move puts the cursor on the offset of that row.
LEMMA VerticalIs ==
    ASSUME NEW b, Sound(b), NEW width \in Nat, NEW up \in BOOLEAN, NEW want \in Nat,
           NEW l \in 1..Len(b.lines), NEW r \in 1..Len(RowsAt(b, l, width)),
           TargetRow(b, up, width) = [line |-> l, row |-> r]
    PROVE  /\ MoveVertical(b, up, want, width)
              = At(b, l, OffsetOnRow(RowsAt(b, l, width)[r], b.lines[l], want))
           /\ OffsetOnRow(RowsAt(b, l, width)[r], b.lines[l], want) \in 0..Len(b.lines[l])
<1> PICK rows : rows = RowsAt(b, l, width)
  OBVIOUS
<1> PICK s : s = b.lines[l]
  OBVIOUS
<1> PICK o : o = OffsetOnRow(rows[r], s, want)
  OBVIOUS
<1>1. l \in Nat /\ Len(b.lines) \in Nat /\ s \in Line /\ Len(s) \in Nat /\ l <= Len(b.lines) /\ l # 0
  BY Parts
<1>2. IsWrap(rows, s, Greater(width, 1)) /\ Len(rows) \in Nat /\ r <= Len(rows) /\ r \in Nat
  BY RowsAtWrap
<1>3. rows[r].start \in 0..Len(s) /\ rows[r].end \in rows[r].start..Len(s)
  BY <1>1, <1>2, WrapTyped
<1>4. o \in rows[r].start..rows[r].end
  BY <1>1, <1>3, OffsetIs
<1>5. o \in 0..Len(s) /\ o <= Len(s) /\ o \in Nat
  BY <1>1, <1>3, <1>4
<1>6. RowOrLast(rows, r) = rows[r]
  BY <1>2, LesserIs DEF RowOrLast
<1>7. CellToPosition(s, r, want, width) = o
  BY <1>6 DEF CellToPosition, RowsAt
<1>8. TargetRow(b, up, width) # NoRow
  BY <1>1 DEF NoRow
<1>9. MoveVertical(b, up, want, width) = SetCursor(b, l, o)
  BY <1>7, <1>8 DEF MoveVertical
<1>10. Lesser(l, Len(b.lines)) = l /\ Lesser(o, Len(s)) = o
  BY <1>1, <1>5 DEF Lesser
<1>11. SetCursor(b, l, o) = At(b, l, o)
  BY <1>10 DEF SetCursor, At
<1> QED BY <1>5, <1>9, <1>11

LEMMA VerticalSound ==
    ASSUME NEW b, Sound(b), NEW width \in Nat, NEW up \in BOOLEAN, NEW want \in Nat
    PROVE  MovedFrom(b, MoveVertical(b, up, want, width))
<1>1. CASE TargetRow(b, up, width) = NoRow
  BY <1>1 DEF MoveVertical, MovedFrom
<1>2. CASE TargetRow(b, up, width) # NoRow
  <2>1. PICK l \in 1..Len(b.lines) : \E r \in 1..Len(RowsAt(b, l, width)) :
              TargetRow(b, up, width) = [line |-> l, row |-> r]
    BY <1>2, TargetIs
  <2>2. PICK r \in 1..Len(RowsAt(b, l, width)) : TargetRow(b, up, width) = [line |-> l, row |-> r]
    BY <2>1
  <2>3. /\ MoveVertical(b, up, want, width)
           = At(b, l, OffsetOnRow(RowsAt(b, l, width)[r], b.lines[l], want))
        /\ OffsetOnRow(RowsAt(b, l, width)[r], b.lines[l], want) \in 0..Len(b.lines[l])
    BY <2>2, VerticalIs
  <2> QED BY <2>3, AtSound
<1> QED BY <1>1, <1>2

\* From the row that up (or down) leads to, down (or up) leads back.
LEMMA TargetBack ==
    ASSUME NEW b, Sound(b), NEW c, Sound(c), c.lines = b.lines, NEW width \in Nat, NEW up \in BOOLEAN,
           NEW down \in BOOLEAN, down = ~up,
           TargetRow(b, up, width) = [line |-> c.line, row |-> CursorCell(c, width).row]
    PROVE  TargetRow(c, down, width) = [line |-> b.line, row |-> CursorCell(b, width).row]
<1> PICK p : p = CursorCell(b, width).row
  OBVIOUS
<1> PICK q : q = CursorCell(c, width).row
  OBVIOUS
<1> PICK n : n = Len(b.lines)
  OBVIOUS
<1>1. b.line \in 1..n /\ n \in Nat /\ c.line \in 1..n /\ Cur(b) = b.lines[b.line] /\ Cur(c) = b.lines[c.line]
  BY Parts DEF Cur
<1>2. \A l \in 1..n : RowCount(b.lines[l], width) \in Nat \ {0}
  BY RowsAtWrap
<1>3. p \in 1..RowCount(Cur(b), width)
  <2>1. p \in 1..Len(RowsAt(b, b.line, width))
    BY CursorCellIs
  <2>2. RowCount(Cur(b), width) = Len(RowsAt(b, b.line, width))
    BY <1>1, RowsAtWrap
  <2> QED BY <2>1, <2>2
<1>4. q \in 1..RowCount(Cur(c), width)
  <2>1. q \in 1..Len(RowsAt(c, c.line, width))
    BY CursorCellIs
  <2>2. RowCount(Cur(c), width) = Len(RowsAt(c, c.line, width)) /\ c.line \in 1..Len(c.lines)
    <3>1. c.line \in 1..Len(c.lines) /\ Cur(c) = c.lines[c.line]
      BY <1>1
    <3> QED BY <3>1, RowsAtWrap
  <2> QED BY <2>1, <2>2
<1>5. p \in Nat /\ q \in Nat /\ RowCount(Cur(b), width) \in Nat /\ RowCount(Cur(c), width) \in Nat
      /\ p >= 1 /\ q >= 1 /\ p <= RowCount(Cur(b), width) /\ q <= RowCount(Cur(c), width)
  BY <1>1, <1>2, <1>3, <1>4
<1>6. c.line # 0
  BY <1>1
<1>7. CASE up
  <2>1. CASE p > 1
    <3>1. [line |-> b.line, row |-> p - 1] = [line |-> c.line, row |-> q]
      BY <1>7, <2>1 DEF TargetRow
    <3>2. c.line = b.line /\ q = p - 1
      BY <3>1
    <3>3. q < RowCount(Cur(c), width) /\ q + 1 = p
      BY <3>2, <1>1, <1>5
    <3> QED BY <3>2, <3>3, <1>7 DEF TargetRow
  <2>2. CASE ~(p > 1) /\ b.line > 1
    <3>1. [line |-> b.line - 1, row |-> RowCount(b.lines[b.line - 1], width)]
          = [line |-> c.line, row |-> q]
      BY <1>7, <2>2 DEF TargetRow
    <3>2. c.line = b.line - 1 /\ q = RowCount(b.lines[b.line - 1], width)
      BY <3>1
    <3>3. q = RowCount(Cur(c), width) /\ ~(q < RowCount(Cur(c), width))
      BY <3>2, <1>1, <1>5
    <3>4. c.line < n /\ c.line + 1 = b.line /\ p = 1
      BY <3>2, <2>2, <1>1, <1>5
    <3> QED BY <3>3, <3>4, <1>7 DEF TargetRow
  <2>3. CASE ~(p > 1) /\ ~(b.line > 1)
    <3>1. NoRow = [line |-> c.line, row |-> q]
      BY <1>7, <2>3 DEF TargetRow
    <3> QED BY <3>1, <1>6 DEF NoRow
  <2> QED BY <2>1, <2>2, <2>3
<1>8. CASE ~up
  <2>1. CASE p < RowCount(Cur(b), width)
    <3>1. [line |-> b.line, row |-> p + 1] = [line |-> c.line, row |-> q]
      BY <1>8, <2>1 DEF TargetRow
    <3>2. c.line = b.line /\ q = p + 1
      BY <3>1
    <3>3. q > 1 /\ q - 1 = p
      BY <3>2, <1>5
    <3> QED BY <3>2, <3>3, <1>8 DEF TargetRow
  <2>2. CASE ~(p < RowCount(Cur(b), width)) /\ b.line < n
    <3>1. [line |-> b.line + 1, row |-> 1] = [line |-> c.line, row |-> q]
      BY <1>8, <2>2 DEF TargetRow
    <3>2. c.line = b.line + 1 /\ q = 1
      BY <3>1
    <3>3. ~(q > 1) /\ c.line > 1 /\ c.line - 1 = b.line /\ p = RowCount(b.lines[b.line], width)
      BY <3>2, <2>2, <1>1, <1>5
    <3> QED BY <3>3, <1>8 DEF TargetRow
  <2>3. CASE ~(p < RowCount(Cur(b), width)) /\ ~(b.line < n)
    <3>1. NoRow = [line |-> c.line, row |-> q]
      BY <1>8, <2>3 DEF TargetRow
    <3> QED BY <3>1, <1>6 DEF NoRow
  <2> QED BY <2>1, <2>2, <2>3
<1> QED BY <1>7, <1>8

\* One row up or down, onto a row with a cell for the column or the last of its line.
LEMMA There ==
    ASSUME NEW b, Sound(b), NEW width \in Nat, NEW up \in BOOLEAN,
           NEW l \in 1..Len(b.lines), NEW r \in 1..Len(RowsAt(b, l, width)),
           TargetRow(b, up, width) = [line |-> l, row |-> r],
           NEW want \in Nat, HasColumn(RowsAt(b, l, width), r, b.lines[l], want),
           NEW there, there = MoveVertical(b, up, want, width)
    PROVE  /\ MovedFrom(b, there) /\ there.line = l
           /\ there.col = OffsetOnRow(RowsAt(b, l, width)[r], b.lines[l], want)
           /\ CursorCell(there, width).row = r
<1> PICK rows : rows = RowsAt(b, l, width)
  OBVIOUS
<1> PICK s : s = b.lines[l]
  OBVIOUS
<1> PICK o : o = OffsetOnRow(rows[r], s, want)
  OBVIOUS
<1>1. there = At(b, l, o) /\ o \in 0..Len(s)
  BY VerticalIs
<1>2. MovedFrom(b, there)
  BY <1>1, AtSound
<1>3. Sound(there) /\ there.lines = b.lines
  BY <1>2 DEF MovedFrom
<1>4. there.line = l /\ there.col = o
  <2>1. b \in Buffers
    BY DEF Sound
  <2> QED BY <1>1, <2>1 DEF At, Buffers
<1>5. IsWrap(rows, s, Greater(width, 1)) /\ s \in Line
  BY RowsAtWrap, Parts
<1>6. RowAt(rows, o) = r
  BY <1>5, Landed
<1>7. RowsAt(there, there.line, width) = rows
  BY <1>3, <1>4 DEF RowsAt
<1>8. CursorCell(there, width).row = r
  BY <1>3, <1>4, <1>6, <1>7, CursorCellIs
<1> QED BY <1>2, <1>4, <1>8

\* And from another row of the same text onto the row the cursor of b is on.
LEMMA AndBack ==
    ASSUME NEW b, Sound(b), NEW width \in Nat,
           NEW want, want = CursorCell(b, width).col,
           HasColumn(RowsAt(b, b.line, width), CursorCell(b, width).row, Cur(b), want),
           NEW there, Sound(there), there.lines = b.lines, NEW down \in BOOLEAN,
           TargetRow(there, down, width) = [line |-> b.line, row |-> CursorCell(b, width).row],
           NEW back, back = MoveVertical(there, down, want, width)
    PROVE  back.line = b.line /\ CursorCell(back, width) = CursorCell(b, width)
<1> PICK home : home = RowsAt(b, b.line, width)
  OBVIOUS
<1> PICK p : p = CursorCell(b, width).row
  OBVIOUS
<1>1. b.line \in 1..Len(b.lines) /\ Cur(b) = b.lines[b.line] /\ Cur(b) \in Line /\ b.col \in 0..Len(Cur(b))
  BY Parts DEF Cur
<1>2. home = RowsAt(there, b.line, width) /\ b.line \in 1..Len(there.lines) /\ there.lines[b.line] = Cur(b)
  BY <1>1 DEF RowsAt
<1>3. p = RowAt(home, b.col)
  BY CursorCellIs
<1>4. p \in 1..Len(home)
  BY CursorCellIs
<1>5. want = ColumnAt(Cur(b), home[p].start, b.col)
  BY <1>3, CursorCellIs
<1>6. want \in Nat
  BY CursorCellIs
<1>7. HasColumn(RowsAt(there, b.line, width), p, there.lines[b.line], want)
  BY <1>2
<1>8. p \in 1..Len(RowsAt(there, b.line, width))
  BY <1>2, <1>4
<1> PICK x : x = OffsetOnRow(home[p], Cur(b), want)
  OBVIOUS
<1>9. MovedFrom(there, back) /\ back.line = b.line /\ back.col = x /\ CursorCell(back, width).row = p
  BY <1>2, <1>6, <1>7, <1>8, There
<1>10. Sound(back) /\ back.lines = b.lines
  BY <1>9 DEF MovedFrom
<1>11. IsWrap(home, Cur(b), Greater(width, 1))
  BY <1>1, RowsAtWrap
<1>12. RowAt(home, x) = p
  BY <1>1, <1>4, <1>6, <1>11, Landed
<1>13. ColumnAt(Cur(b), home[p].start, x) = want
  BY <1>1, <1>3, <1>5, <1>11, BackOnCell
<1>14. RowsAt(back, back.line, width) = home /\ Cur(back) = Cur(b)
  BY <1>9, <1>10 DEF RowsAt, Cur
<1>15. CursorCell(back, width).col = want
  BY <1>9, <1>10, <1>12, <1>13, <1>14, CursorCellIs
<1>16. CursorCell(back, width) = [row |-> p, col |-> want] /\ CursorCell(b, width) = [row |-> p, col |-> want]
  BY <1>9, <1>10, <1>15, CursorCellIs
<1> QED BY <1>9, <1>16

-----------------------------------------------------------------------------
(* The rows the view lists                                                 *)

\* The rows of the lines up to one are those up to the line before it, and its own.
LEMMA RowsOfSteps ==
    ASSUME NEW b, Sound(b), NEW width \in Nat, NEW from \in 1..Len(b.lines)
    PROVE  /\ RowsOf(b, from, from - 1, width) = 0
           /\ \A l \in from - 1..Len(b.lines) : RowsOf(b, from, l, width) \in Nat
           /\ \A l \in from..Len(b.lines) :
                 RowsOf(b, from, l, width) = RowsOf(b, from, l - 1, width) + Len(RowsAt(b, l, width))
<1> PICK lo : lo = from - 1
  OBVIOUS
<1> PICK n : n = Len(b.lines)
  OBVIOUS
<1> DEFINE g == [p \in Nat \X (from..n) |-> p[1] + RowCount(b.lines[p[2]], width)]
           rows == CHOOSE f : f = [l \in lo..n |-> IF l = lo THEN 0
                                                   ELSE f[l - 1] + RowCount(b.lines[l], width)]
<1>1. n \in Nat /\ lo \in Nat /\ n \in Int /\ lo \in Int /\ lo <= n /\ lo + 1 = from /\ from \in Nat
  BY Parts
<1>2. \A l \in from..n : /\ RowCount(b.lines[l], width) = Len(RowsAt(b, l, width))
                         /\ RowCount(b.lines[l], width) \in Nat
  <2>1. \A l \in from..n : l \in 1..n
    BY <1>1
  <2> QED BY <2>1, RowsAtWrap
<1>3. \A x \in Nat : \A l \in from..n :
         /\ g[<<x, l>>] = x + RowCount(b.lines[l], width)
         /\ x + RowCount(b.lines[l], width) \in Nat
  BY <1>2
<1> HIDE DEF g
<1>4. PICK f : GoesOn(f, lo, n, Nat, 0, g)
  <2>1. \A x \in Nat : \A l \in lo + 1..n : g[<<x, l>>] \in Nat
    <3>1. lo + 1 = from
      BY <1>1
    <3> QED BY <3>1, <1>3, Zenon
  <2>2. 0 \in Nat
    OBVIOUS
  <2> QED BY <1>1, <2>1, <2>2, Recursion
<1>5. \A l \in lo..n : (IF l = lo THEN 0 ELSE g[<<f[l - 1], l>>])
                       = (IF l = lo THEN 0 ELSE f[l - 1] + RowCount(b.lines[l], width))
  <2>1. SUFFICES ASSUME NEW l \in lo..n, l # lo
                 PROVE  g[<<f[l - 1], l>>] = f[l - 1] + RowCount(b.lines[l], width)
    OBVIOUS
  <2>2. l \in from..n /\ l - 1 \in lo..n
    BY <2>1, <1>1
  <2>3. f[l - 1] \in Nat
    BY <1>4, <2>2 DEF GoesOn
  <2> QED BY <1>3, <2>2, <2>3
<1>6. f = [l \in lo..n |-> IF l = lo THEN 0 ELSE f[l - 1] + RowCount(b.lines[l], width)]
  BY <1>4, <1>5, Zenon DEF GoesOn
<1>7. rows = [l \in lo..n |-> IF l = lo THEN 0 ELSE rows[l - 1] + RowCount(b.lines[l], width)]
  <2>1. \E h : h = [l \in lo..n |-> IF l = lo THEN 0 ELSE h[l - 1] + RowCount(b.lines[l], width)]
    BY <1>6
  <2> QED BY <2>1, Zenon
<1>8. \A l : RowsOf(b, from, l, width) = rows[l]
  BY DEF RowsOf
<1> HIDE DEF rows
<1>9. \A l \in lo..n : rows[l] = IF l = lo THEN 0 ELSE rows[l - 1] + RowCount(b.lines[l], width)
  BY <1>7
<1>10. rows[lo] = 0
  BY <1>1, <1>9
<1>11. \A l \in from..n : l - 1 \in lo..n /\ l \in lo..n /\ l # lo
  BY <1>1
<1>12. \A l \in from..n : rows[l] = rows[l - 1] + RowCount(b.lines[l], width)
  BY <1>9, <1>11
<1>13. \A l \in lo..n : rows[l] \in Nat
  <2> DEFINE P == {l \in lo..n : rows[l] \in Nat}
  <2>1. lo \in P
    BY <1>1, <1>10
  <2>2. ASSUME NEW l \in lo..n - 1, l \in P PROVE l + 1 \in P
    <3>1. l + 1 \in from..n /\ (l + 1) - 1 = l
      BY <1>1
    <3>2. rows[l + 1] = rows[l] + RowCount(b.lines[l + 1], width)
      BY <3>1, <1>12
    <3>3. rows[l] \in Nat
      BY <2>2
    <3>4. rows[l + 1] \in Nat
      BY <1>3, <3>1, <3>2, <3>3
    <3> QED BY <3>1, <3>4, <1>11
  <2> HIDE DEF P
  <2>3. \A l \in lo..n : l \in P
    BY <1>1, <2>1, <2>2, Upwards
  <2> QED BY <2>3 DEF P
<1>14. \A l \in from..n : rows[l] = rows[l - 1] + Len(RowsAt(b, l, width))
  BY <1>2, <1>12
<1> QED BY <1>8, <1>10, <1>13, <1>14, Zenon

\* f[i] is the first i members of ss put together.
Joins(f, S, ss, n) ==
    /\ f \in [1..n -> Seq(S)]
    /\ FlattenSeq(ss) = f[n]
    /\ f[1] = ss[1]
    /\ \A i \in 2..n : f[i] = f[i - 1] \o ss[i]

\* A sequence of sequences is put together from the left.
LEMMA FlattenSteps ==
    ASSUME NEW S, NEW ss \in Seq(Seq(S)), NEW n, n = Len(ss), n # 0
    PROVE  \E f : Joins(f, S, ss, n)
<1> DEFINE g == [p \in Seq(S) \X (2..n) |-> p[1] \o ss[p[2]]]
           all == CHOOSE f : f = [i \in 1..n |-> IF i = 1 THEN ss[i] ELSE f[i - 1] \o ss[i]]
<1>1. n \in Int /\ 1 \in Int /\ 1 <= n /\ 1 + 1 = 2 /\ n \in 1..n
  OBVIOUS
<1>2. \A i \in 1..n : ss[i] \in Seq(S)
  BY ElementOfSeq
<1>3. ss[1] \in Seq(S)
  BY <1>1, <1>2
<1>4. \A x \in Seq(S) : \A i \in 2..n : g[<<x, i>>] = x \o ss[i] /\ x \o ss[i] \in Seq(S)
  <2>1. \A i \in 2..n : i \in 1..n
    BY <1>1
  <2>2. \A i \in 2..n : ss[i] \in Seq(S)
    BY <2>1, <1>2
  <2> QED BY <2>2, ConcatProperties
<1> HIDE DEF g
<1>5. PICK f : GoesOn(f, 1, n, Seq(S), ss[1], g)
  <2>1. \A x \in Seq(S) : \A i \in 1 + 1..n : g[<<x, i>>] \in Seq(S)
    BY <1>1, <1>4
  <2> QED BY <1>1, <1>3, <2>1, Recursion
<1>6. \A i \in 1..n : (IF i = 1 THEN ss[1] ELSE g[<<f[i - 1], i>>])
                      = (IF i = 1 THEN ss[i] ELSE f[i - 1] \o ss[i])
  <2>1. SUFFICES ASSUME NEW i \in 1..n, i # 1
                 PROVE  g[<<f[i - 1], i>>] = f[i - 1] \o ss[i]
    OBVIOUS
  <2>2. i \in 2..n /\ i - 1 \in 1..n
    BY <2>1, <1>1
  <2>3. f[i - 1] \in Seq(S)
    BY <1>5, <2>2 DEF GoesOn
  <2> QED BY <1>4, <2>2, <2>3
<1>7. f = [i \in 1..n |-> IF i = 1 THEN ss[i] ELSE f[i - 1] \o ss[i]]
  BY <1>5, <1>6, Zenon DEF GoesOn
<1>8. all = [i \in 1..n |-> IF i = 1 THEN ss[i] ELSE all[i - 1] \o ss[i]]
  <2>1. \E h : h = [i \in 1..n |-> IF i = 1 THEN ss[i] ELSE h[i - 1] \o ss[i]]
    BY <1>7
  <2> QED BY <2>1, Zenon
<1>9. FlattenSeq(ss) = all[n]
  BY DEF FlattenSeq
<1> HIDE DEF all
<1>10. \A i \in 1..n : all[i] = IF i = 1 THEN ss[i] ELSE all[i - 1] \o ss[i]
  BY <1>8
<1>11. all[1] = ss[1]
  BY <1>1, <1>10
<1>12. \A i \in 2..n : i \in 1..n /\ i # 1 /\ i - 1 \in 1..n
  BY <1>1
<1>13. \A i \in 2..n : all[i] = all[i - 1] \o ss[i]
  BY <1>10, <1>12
<1>14. all \in [1..n -> Seq(S)]
  <2> DEFINE P == {i \in 1..n : all[i] \in Seq(S)}
  <2>1. 1 \in P
    BY <1>1, <1>3, <1>11
  <2>2. ASSUME NEW i \in 1..n - 1, i \in P PROVE i + 1 \in P
    <3>1. i + 1 \in 2..n /\ (i + 1) - 1 = i
      BY <1>1
    <3>2. all[i + 1] = all[i] \o ss[i + 1]
      BY <3>1, <1>13
    <3>3. all[i] \in Seq(S)
      BY <2>2
    <3>4. all[i + 1] \in Seq(S)
      BY <1>4, <3>1, <3>2, <3>3
    <3> QED BY <3>1, <3>4, <1>12
  <2> HIDE DEF P
  <2>3. \A i \in 1..n : i \in P
    BY <1>1, <2>1, <2>2, Upwards
  <2>4. \A i \in 1..n : all[i] \in Seq(S)
    BY <2>3 DEF P
  <2>5. all = [i \in 1..n |-> all[i]]
    BY <1>8
  <2> QED BY <2>4, <2>5
<1> QED BY <1>9, <1>11, <1>13, <1>14, Zenon DEF Joins

\* A row as VisibleRows lists it, and where it does.
RowTags == [line : Nat, row : [start : Nat, end : Nat]]
Tag(b, l, r, width) == [line |-> l, row |-> RowsAt(b, l, width)[r]]
Place(b, top, l, r, width) == RowsOf(b, top.line, l - 1, width) + r - top.sub

\* A top is in the text, and fewer rows of its line than it has are above it.
TopIn(b, top, width) ==
    top.line \in 1..Len(b.lines) /\ top.sub \in 0..Len(RowsAt(b, top.line, width))

Skipped(top, l) == IF l = top.line THEN top.sub ELSE 0
Tagged(b, top, l, width) ==
    LET rows == SubSeq(RowsAt(b, l, width), IF l = top.line THEN top.sub + 1 ELSE 1,
                       Len(RowsAt(b, l, width)))
    IN  [r \in 1..Len(rows) |-> [line |-> l, row |-> rows[r]]]

LEMMA Rest ==
    ASSUME NEW S, NEW s \in Seq(S), NEW skip \in 0..Len(s)
    PROVE  /\ SubSeq(s, skip + 1, Len(s)) \in Seq(S)
           /\ Len(SubSeq(s, skip + 1, Len(s))) = Len(s) - skip
           /\ \A r \in 1..Len(s) - skip : SubSeq(s, skip + 1, Len(s))[r] = s[r + skip]
<1>1. Len(s) \in Nat /\ skip + 1 \in 1..Len(s) + 1 /\ Len(s) \in 0..Len(s)
  OBVIOUS
<1>2. SubSeq(s, skip + 1, Len(s)) \in Seq(S)
  BY <1>1, Piece
<1>3. Len(SubSeq(s, skip + 1, Len(s))) = IF skip + 1 <= Len(s) THEN Len(s) - (skip + 1) + 1 ELSE 0
  BY <1>1, Piece
<1>4. \A r \in 1..Len(s) - (skip + 1) + 1 : SubSeq(s, skip + 1, Len(s))[r] = s[skip + 1 + r - 1]
  BY <1>1, Piece
<1>5. Len(s) - (skip + 1) + 1 = Len(s) - skip
  BY <1>1
<1>6. \A r \in 1..Len(s) - skip : skip + 1 + r - 1 = r + skip
  BY <1>1
<1>7. \A r \in 1..Len(s) - skip : SubSeq(s, skip + 1, Len(s))[r] = s[r + skip]
  BY <1>4, <1>5, <1>6
<1>8. Len(SubSeq(s, skip + 1, Len(s))) = Len(s) - skip
  BY <1>1, <1>3
<1> QED BY <1>2, <1>7, <1>8

LEMMA Labelled ==
    ASSUME NEW rows \in Seq([start : Nat, end : Nat]), NEW l \in Nat
    PROVE  /\ [r \in 1..Len(rows) |-> [line |-> l, row |-> rows[r]]] \in Seq(RowTags)
           /\ Len([r \in 1..Len(rows) |-> [line |-> l, row |-> rows[r]]]) = Len(rows)
<1> PICK k : k = Len(rows)
  OBVIOUS
<1>1. k \in Nat
  OBVIOUS
<1>2. \A r \in 1..k : rows[r] \in [start : Nat, end : Nat]
  BY ElementOfSeq
<1>3. \A r \in 1..k : [line |-> l, row |-> rows[r]] \in RowTags
  BY <1>2 DEF RowTags
<1> QED BY <1>1, <1>3

LEMMA TaggedIs ==
    ASSUME NEW b, Sound(b), NEW width \in Nat, NEW top, TopIn(b, top, width),
           NEW l \in top.line..Len(b.lines)
    PROVE  /\ Skipped(top, l) \in 0..Len(RowsAt(b, l, width))
           /\ Tagged(b, top, l, width) \in Seq(RowTags)
           /\ Len(Tagged(b, top, l, width)) = Len(RowsAt(b, l, width)) - Skipped(top, l)
           /\ \A r \in 1..Len(RowsAt(b, l, width)) - Skipped(top, l) :
                 Tagged(b, top, l, width)[r] = Tag(b, l, r + Skipped(top, l), width)
<1> PICK all : all = RowsAt(b, l, width)
  OBVIOUS
<1> PICK n : n = Len(all)
  OBVIOUS
<1> PICK skip : skip = Skipped(top, l)
  OBVIOUS
<1>1. l \in 1..Len(b.lines) /\ l \in Nat
  BY Parts DEF TopIn
<1>2. all \in RowsSet /\ n \in Nat
  BY <1>1, RowsAtWrap DEF IsWrap
<1>3. all \in Seq([start : Nat, end : Nat])
  BY <1>2 DEF RowsSet
<1>4. skip \in 0..n
  <2>1. CASE l = top.line
    BY <2>1 DEF Skipped, TopIn
  <2>2. CASE l # top.line
    BY <2>2, <1>2 DEF Skipped
  <2> QED BY <2>1, <2>2
<1> PICK rows : rows = SubSeq(all, skip + 1, n)
  OBVIOUS
<1>5. /\ rows \in Seq([start : Nat, end : Nat])
      /\ Len(rows) = n - skip
      /\ \A r \in 1..n - skip : rows[r] = all[r + skip]
  BY <1>3, <1>4, Rest
<1> PICK t : t = Tagged(b, top, l, width)
  OBVIOUS
<1>6. t = [r \in 1..Len(rows) |-> [line |-> l, row |-> rows[r]]]
  <2>1. (IF l = top.line THEN top.sub + 1 ELSE 1) = skip + 1
    <3>1. CASE l = top.line
      BY <3>1 DEF Skipped
    <3>2. CASE l # top.line
      BY <3>2 DEF Skipped
    <3> QED BY <3>1, <3>2
  <2> QED BY <2>1 DEF Tagged
<1>9. t \in Seq(RowTags) /\ Len(t) = Len(rows)
  <2>1. rows \in Seq([start : Nat, end : Nat]) /\ l \in Nat
    BY <1>1, <1>5
  <2>2. [r \in 1..Len(rows) |-> [line |-> l, row |-> rows[r]]] \in Seq(RowTags)
    BY <2>1, Labelled
  <2>3. Len([r \in 1..Len(rows) |-> [line |-> l, row |-> rows[r]]]) = Len(rows)
    BY <2>1, Labelled
  <2> QED BY <2>2, <2>3, <1>6, Zenon
<1>10. \A r \in 1..n - skip : t[r] = Tag(b, l, r + skip, width)
  BY <1>5, <1>6 DEF Tag
<1> QED BY <1>4, <1>5, <1>9, <1>10

\* q lists the rows from the top on, those of the line `last` included: each in its place.
Lists(q, b, top, last, width) ==
    /\ q \in Seq(RowTags)
    /\ Len(q) = RowsOf(b, top.line, last, width) - top.sub
    /\ \A l \in top.line..last : \A r \in Skipped(top, l) + 1..Len(RowsAt(b, l, width)) :
          /\ Place(b, top, l, r, width) \in 1..Len(q)
          /\ q[Place(b, top, l, r, width)] = Tag(b, l, r, width)
    /\ \A i \in 1..Len(q) :
          \E l \in top.line..last : \E r \in Skipped(top, l) + 1..Len(RowsAt(b, l, width)) :
             i = Place(b, top, l, r, width)

LEMMA ListsFirst ==
    ASSUME NEW b, Sound(b), NEW width \in Nat, NEW top, TopIn(b, top, width)
    PROVE  Lists(Tagged(b, top, top.line, width), b, top, top.line, width)
<1> PICK a : a = top.line
  OBVIOUS
<1> PICK sub : sub = top.sub
  OBVIOUS
<1> PICK q : q = Tagged(b, top, a, width)
  OBVIOUS
<1> PICK n : n = Len(RowsAt(b, a, width))
  OBVIOUS
<1>1. a \in 1..Len(b.lines) /\ a \in Nat /\ Len(b.lines) \in Nat /\ a \in a..Len(b.lines)
  BY Parts DEF TopIn
<1>2. n \in Nat /\ sub \in 0..n /\ Skipped(top, a) = sub
  BY <1>1, RowsAtWrap DEF TopIn, Skipped
<1>3. q \in Seq(RowTags)
  BY <1>1, TaggedIs
<1>4. Len(q) = n - sub
  BY <1>1, <1>2, TaggedIs
<1>5. \A r \in 1..n - sub : q[r] = Tag(b, a, r + sub, width)
  BY <1>1, <1>2, TaggedIs
<1>6. RowsOf(b, a, a - 1, width) = 0 /\ RowsOf(b, a, a, width) = n
  <2>1. RowsOf(b, a, a - 1, width) = 0
    BY <1>1, RowsOfSteps
  <2>2. RowsOf(b, a, a, width) = RowsOf(b, a, a - 1, width) + n
    BY <1>1, RowsOfSteps
  <2> QED BY <2>1, <2>2, <1>2
<1>7. \A r \in sub + 1..n : Place(b, top, a, r, width) = r - sub
  BY <1>2, <1>6 DEF Place
<1>8. \A r \in sub + 1..n : r - sub \in 1..Len(q) /\ q[r - sub] = Tag(b, a, r, width)
  <2>1. \A r \in sub + 1..n : r - sub \in 1..n - sub /\ (r - sub) + sub = r
    BY <1>2
  <2> QED BY <2>1, <1>4, <1>5
<1>9. \A l \in a..a : l = a
  BY <1>1
<1>10. \A l \in a..a : \A r \in Skipped(top, l) + 1..Len(RowsAt(b, l, width)) :
          Place(b, top, l, r, width) \in 1..Len(q) /\ q[Place(b, top, l, r, width)] = Tag(b, l, r, width)
  BY <1>2, <1>7, <1>8, <1>9
<1>11. ASSUME NEW i \in 1..Len(q)
       PROVE  \E l \in a..a : \E r \in Skipped(top, l) + 1..Len(RowsAt(b, l, width)) :
                 i = Place(b, top, l, r, width)
  <2>1. i + sub \in sub + 1..n /\ (i + sub) - sub = i /\ a \in a..a
    BY <1>1, <1>2, <1>4
  <2>2. i = Place(b, top, a, i + sub, width)
    BY <2>1, <1>7
  <2>3. i + sub \in Skipped(top, a) + 1..Len(RowsAt(b, a, width))
    BY <2>1, <1>2
  <2> QED BY <2>1, <2>2, <2>3
<1>12. Len(q) = RowsOf(b, a, a, width) - sub
  BY <1>4, <1>6
<1> QED BY <1>3, <1>10, <1>11, <1>12 DEF Lists

LEMMA ListsNext ==
    ASSUME NEW b, Sound(b), NEW width \in Nat, NEW top, TopIn(b, top, width),
           NEW last \in top.line..Len(b.lines) - 1, NEW q, Lists(q, b, top, last, width)
    PROVE  Lists(q \o Tagged(b, top, last + 1, width), b, top, last + 1, width)
<1> PICK a : a = top.line
  OBVIOUS
<1> PICK sub : sub = top.sub
  OBVIOUS
<1> PICK z : z = last + 1
  OBVIOUS
<1> PICK t : t = Tagged(b, top, z, width)
  OBVIOUS
<1> PICK p : p = q \o t
  OBVIOUS
<1> PICK n : n = Len(RowsAt(b, z, width))
  OBVIOUS
<1>1. /\ a \in Nat /\ a >= 1 /\ Len(b.lines) \in Nat /\ last \in Nat /\ a <= last /\ z \in Nat
      /\ z - 1 = last /\ z # a /\ z \in a..Len(b.lines) /\ z \in 1..Len(b.lines)
      /\ a \in 1..Len(b.lines) /\ last \in a - 1..Len(b.lines)
  BY Parts DEF TopIn
<1>2. n \in Nat /\ Skipped(top, z) = 0
  BY <1>1, RowsAtWrap DEF Skipped
<1>3. t \in Seq(RowTags)
  BY <1>1, TaggedIs
<1>4. Len(t) = n
  BY <1>1, <1>2, TaggedIs
<1>5. \A r \in 1..n : t[r] = Tag(b, z, r, width)
  <2>1. \A r \in 1..n - 0 : t[r] = Tag(b, z, r + 0, width)
    BY <1>1, <1>2, TaggedIs
  <2>2. n - 0 = n /\ \A r \in 1..n : r + 0 = r
    BY <1>2
  <2> QED BY <2>1, <2>2
<1>6. q \in Seq(RowTags) /\ Len(q) \in Nat /\ Len(q) = RowsOf(b, a, last, width) - sub
  BY DEF Lists
<1>7. /\ p \in Seq(RowTags) /\ Len(p) = Len(q) + n
      /\ \A i \in 1..Len(q) : p[i] = q[i]
      /\ \A i \in 1..n : p[Len(q) + i] = t[i]
  BY <1>3, <1>4, <1>6, <1>2
<1>8. RowsOf(b, a, z, width) = RowsOf(b, a, last, width) + n /\ RowsOf(b, a, last, width) \in Nat
  <2>1. RowsOf(b, a, z, width) = RowsOf(b, a, z - 1, width) + n
    BY <1>1, RowsOfSteps
  <2>2. RowsOf(b, a, last, width) \in Nat
    BY <1>1, RowsOfSteps
  <2> QED BY <2>1, <2>2, <1>1
<1>s. sub \in Nat
  BY <1>1, RowsAtWrap DEF TopIn
<1>9. Len(p) = RowsOf(b, a, z, width) - sub
  BY <1>2, <1>6, <1>7, <1>8, <1>s
<1>10. \A r \in 1..n : Place(b, top, z, r, width) = Len(q) + r
  BY <1>1, <1>2, <1>6, <1>8, <1>s DEF Place
<1>11. ASSUME NEW l \in a..z, NEW r \in Skipped(top, l) + 1..Len(RowsAt(b, l, width))
       PROVE  /\ Place(b, top, l, r, width) \in 1..Len(p)
              /\ p[Place(b, top, l, r, width)] = Tag(b, l, r, width)
  <2>1. CASE l = z
    <3>1. r \in 1..n
      BY <2>1, <1>2
    <3>2. Place(b, top, l, r, width) = Len(q) + r
      BY <2>1, <3>1, <1>10
    <3>3. Len(q) + r \in 1..Len(p)
      BY <3>1, <1>2, <1>6, <1>7
    <3>4. p[Len(q) + r] = Tag(b, z, r, width)
      BY <3>1, <1>5, <1>7
    <3> QED BY <3>2, <3>3, <3>4, <2>1
  <2>2. CASE l # z
    <3>1. l \in a..last
      BY <2>2, <1>1
    <3>2. Place(b, top, l, r, width) \in 1..Len(q) /\ q[Place(b, top, l, r, width)] = Tag(b, l, r, width)
      BY <3>1, <1>11 DEF Lists
    <3>3. Place(b, top, l, r, width) \in 1..Len(p)
      BY <3>2, <1>2, <1>6, <1>7
    <3> QED BY <3>2, <3>3, <1>7
  <2> QED BY <2>1, <2>2
<1>12. ASSUME NEW i \in 1..Len(p)
       PROVE  \E l \in a..z : \E r \in Skipped(top, l) + 1..Len(RowsAt(b, l, width)) :
                 i = Place(b, top, l, r, width)
  <2>1. CASE i \in 1..Len(q)
    <3>1. PICK l \in a..last : \E r \in Skipped(top, l) + 1..Len(RowsAt(b, l, width)) :
                 i = Place(b, top, l, r, width)
      BY <2>1 DEF Lists
    <3>2. l \in a..z
      BY <1>1
    <3> QED BY <3>1, <3>2
  <2>2. CASE ~(i \in 1..Len(q))
    <3>1. i - Len(q) \in 1..n /\ Len(q) + (i - Len(q)) = i
      BY <2>2, <1>2, <1>6, <1>7
    <3>2. i = Place(b, top, z, i - Len(q), width)
      BY <3>1, <1>10
    <3>3. i - Len(q) \in Skipped(top, z) + 1..Len(RowsAt(b, z, width)) /\ z \in a..z
      BY <3>1, <1>1, <1>2
    <3> QED BY <3>2, <3>3
  <2> QED BY <2>1, <2>2
<1> QED BY <1>7, <1>9, <1>11, <1>12 DEF Lists

LEMMA FunctionIsSeq ==
    ASSUME NEW T, NEW n \in Nat, NEW f \in [1..n -> T]
    PROVE  f \in Seq(T) /\ Len(f) = n
  OBVIOUS

LEMMA FirstPart ==
    ASSUME NEW S, NEW s \in Seq(S), NEW m \in 0..Len(s)
    PROVE  /\ SubSeq(s, 1, m) \in Seq(S) /\ Len(SubSeq(s, 1, m)) = m
           /\ \A i \in 1..m : SubSeq(s, 1, m)[i] = s[i]
<1>1. Len(s) \in Nat /\ 1 \in 1..Len(s) + 1
  OBVIOUS
<1>2. SubSeq(s, 1, m) \in Seq(S)
  BY <1>1, Piece
<1>3. Len(SubSeq(s, 1, m)) = m
  <2>1. Len(SubSeq(s, 1, m)) = IF 1 <= m THEN m - 1 + 1 ELSE 0
    BY <1>1, Piece
  <2> QED BY <2>1, <1>1
<1>4. \A i \in 1..m : SubSeq(s, 1, m)[i] = s[i]
  <2>1. \A i \in 1..m - 1 + 1 : SubSeq(s, 1, m)[i] = s[1 + i - 1]
    BY <1>1, Piece
  <2>2. m - 1 + 1 = m /\ \A i \in 1..m : 1 + i - 1 = i
    BY <1>1
  <2> QED BY <2>1, <2>2
<1> QED BY <1>2, <1>3, <1>4

LEMMA FlattenFunction ==
    ASSUME NEW S, NEW n \in Nat \ {0}, NEW ss \in [1..n -> Seq(S)]
    PROVE  \E f : Joins(f, S, ss, n)
<1> PICK T : T = Seq(S)
  OBVIOUS
<1>1. ss \in [1..n -> T] /\ n \in Nat /\ n # 0
  OBVIOUS
<1>2. ss \in Seq(T)
  BY <1>1, FunctionIsSeq, Zenon
<1>3. Len(ss) = n
  BY <1>1, FunctionIsSeq, Zenon
<1>4. ss \in Seq(Seq(S))
  BY <1>2
<1> QED BY <1>1, <1>3, <1>4, FlattenSteps, Zenon

\* The rows of every line from the top on, put together, list them all.
LEMMA JoinedLists ==
    ASSUME NEW b, Sound(b), NEW width \in Nat, NEW top, TopIn(b, top, width),
           NEW n, n = Len(b.lines) - top.line + 1,
           NEW ss, ss = [k \in 1..n |-> Tagged(b, top, top.line + k - 1, width)]
    PROVE  Lists(FlattenSeq(ss), b, top, Len(b.lines), width)
<1> PICK a : a = top.line
  OBVIOUS
<1>1. a \in 1..Len(b.lines) /\ a \in Nat /\ Len(b.lines) \in Nat /\ n \in Nat \ {0} /\ a + n - 1 = Len(b.lines)
  BY Parts DEF TopIn
<1>2. \A k \in 1..n : a + k - 1 \in a..Len(b.lines)
  BY <1>1
<1>3. \A k \in 1..n : Tagged(b, top, a + k - 1, width) \in Seq(RowTags)
  BY <1>2, TaggedIs
<1>4. ss \in [1..n -> Seq(RowTags)]
  BY <1>3
<1>6. PICK f : Joins(f, RowTags, ss, n)
  <2>1. n \in Nat \ {0}
    BY <1>1
  <2> QED BY <2>1, <1>4, FlattenFunction, Zenon
<1> DEFINE P == {k \in 1..n : Lists(f[k], b, top, a + k - 1, width)}
<1>7. n \in P
  <2>1. 1 \in P
    <3>1. 1 \in 1..n /\ a + 1 - 1 = a
      BY <1>1
    <3>2. f[1] = Tagged(b, top, a, width)
      BY <1>6, <3>1 DEF Joins
    <3>3. Lists(f[1], b, top, a, width)
      BY <3>2, ListsFirst
    <3> QED BY <3>1, <3>3
  <2>2. ASSUME NEW k \in 1..n - 1, k \in P PROVE k + 1 \in P
    <3>1. k + 1 \in 2..n /\ (k + 1) - 1 = k /\ k + 1 \in 1..n
      BY <1>1
    <3> PICK last : last = a + k - 1
      OBVIOUS
    <3>2. last \in a..Len(b.lines) - 1 /\ last + 1 = a + (k + 1) - 1
      <4>1. k \in Int /\ k >= 1 /\ k <= n - 1 /\ a \in Int /\ n \in Int /\ Len(b.lines) \in Int
        BY <1>1
      <4>2. a + n - 1 = Len(b.lines)
        BY <1>1
      <4> HIDE DEF P
      <4> QED BY <4>1, <4>2
    <3>3. Lists(f[k], b, top, last, width)
      BY <2>2
    <3>4. f[k + 1] = f[k] \o ss[k + 1]
      BY <1>6, <3>1 DEF Joins
    <3>5. ss[k + 1] = Tagged(b, top, last + 1, width)
      BY <3>1, <3>2
    <3>6. Lists(f[k + 1], b, top, last + 1, width)
      BY <3>2, <3>3, <3>4, <3>5, ListsNext
    <3> QED BY <3>1, <3>2, <3>6
  <2> HIDE DEF P
  <2>3. \A k \in 1..n : k \in P
    <3>1. 1 \in Int /\ n \in Int
      BY <1>1
    <3> QED BY <3>1, <2>1, <2>2, Upwards
  <2> QED BY <2>3, <1>1
<1>8. Lists(f[n], b, top, Len(b.lines), width)
  BY <1>1, <1>7
<1> QED BY <1>6, <1>8 DEF Joins

\* v shows every row from the top on for which there is room in its place, and nothing else.
InPlace(v, b, top, height, width) ==
    \A l \in top.line..Len(b.lines) : \A r \in Skipped(top, l) + 1..Len(RowsAt(b, l, width)) :
       Place(b, top, l, r, width) <= height
       => /\ Place(b, top, l, r, width) \in 1..Len(v)
          /\ v[Place(b, top, l, r, width)] = Tag(b, l, r, width)
OnlyRows(v, b, top, width) ==
    \A i \in 1..Len(v) :
       \E l \in top.line..Len(b.lines) : \E r \in Skipped(top, l) + 1..Len(RowsAt(b, l, width)) :
          i = Place(b, top, l, r, width) /\ v[i] = Tag(b, l, r, width)

\* What the view shows: the rows from the top on, each in its place, as many as there is room for.
LEMMA VisibleIs ==
    ASSUME NEW b, Sound(b), NEW width \in Nat, NEW height \in Nat, NEW top, TopIn(b, top, width),
           NEW v, v = VisibleRows(b, top, height, width)
    PROVE  /\ v \in Seq(RowTags) /\ Len(v) <= height
           /\ InPlace(v, b, top, height, width) /\ OnlyRows(v, b, top, width)
<1> PICK a : a = top.line
  OBVIOUS
<1> PICK n : n = Len(b.lines) - a + 1
  OBVIOUS
<1> PICK ss : ss = [k \in 1..n |-> Tagged(b, top, a + k - 1, width)]
  OBVIOUS
<1> PICK all : all = FlattenSeq(ss)
  OBVIOUS
<1>1. Lists(all, b, top, Len(b.lines), width)
  BY JoinedLists
<1>5. v = SubSeq(all, 1, Lesser(height, Len(all)))
  BY DEF VisibleRows, Tagged, RowsAt
<1>9. /\ all \in Seq(RowTags) /\ Len(all) \in Nat
      /\ \A l \in a..Len(b.lines) : \A r \in Skipped(top, l) + 1..Len(RowsAt(b, l, width)) :
            /\ Place(b, top, l, r, width) \in 1..Len(all)
            /\ all[Place(b, top, l, r, width)] = Tag(b, l, r, width)
      /\ \A i \in 1..Len(all) :
            \E l \in a..Len(b.lines) : \E r \in Skipped(top, l) + 1..Len(RowsAt(b, l, width)) :
               i = Place(b, top, l, r, width)
  <2>1. all \in Seq(RowTags)
    BY <1>1 DEF Lists
  <2>2. Len(all) \in Nat
    BY <2>1
  <2> QED BY <1>1, <2>1, <2>2, Zenon DEF Lists
<1> PICK m : m = Lesser(height, Len(all))
  OBVIOUS
<1>10. m \in 0..Len(all) /\ m <= height /\ \A i \in 1..Len(all) : i <= height => i \in 1..m
  BY <1>9 DEF Lesser
<1>11. v \in Seq(RowTags) /\ Len(v) = m /\ \A i \in 1..m : v[i] = all[i]
  <2>1. all \in Seq(RowTags) /\ m \in 0..Len(all) /\ v = SubSeq(all, 1, m)
    BY <1>5, <1>9, <1>10
  <2>2. SubSeq(all, 1, m) \in Seq(RowTags)
    BY <2>1, FirstPart
  <2>3. Len(SubSeq(all, 1, m)) = m
    BY <2>1, FirstPart
  <2>4. \A i \in 1..m : SubSeq(all, 1, m)[i] = all[i]
    BY <2>1, FirstPart
  <2> QED BY <2>1, <2>2, <2>3, <2>4, Zenon
<1>12. ASSUME NEW l \in a..Len(b.lines), NEW r \in Skipped(top, l) + 1..Len(RowsAt(b, l, width)),
              Place(b, top, l, r, width) <= height
       PROVE  /\ Place(b, top, l, r, width) \in 1..Len(v)
              /\ v[Place(b, top, l, r, width)] = Tag(b, l, r, width)
  <2>1. /\ Place(b, top, l, r, width) \in 1..Len(all)
        /\ all[Place(b, top, l, r, width)] = Tag(b, l, r, width)
    BY <1>9
  <2>2. Place(b, top, l, r, width) \in 1..m
    BY <2>1, <1>10, <1>12
  <2> QED BY <2>1, <2>2, <1>11
<1>13. ASSUME NEW i \in 1..Len(v)
       PROVE  \E l \in a..Len(b.lines) : \E r \in Skipped(top, l) + 1..Len(RowsAt(b, l, width)) :
                 i = Place(b, top, l, r, width) /\ v[i] = Tag(b, l, r, width)
  <2>1. i \in 1..m /\ i \in 1..Len(all) /\ v[i] = all[i]
    <3>1. i \in 1..m
      BY <1>11
    <3>2. i \in 1..Len(all)
      BY <3>1, <1>10
    <3> QED BY <3>1, <3>2, <1>11
  <2>2. PICK l \in a..Len(b.lines) : \E r \in Skipped(top, l) + 1..Len(RowsAt(b, l, width)) :
                 i = Place(b, top, l, r, width)
    BY <2>1, <1>9
  <2>3. PICK r \in Skipped(top, l) + 1..Len(RowsAt(b, l, width)) : i = Place(b, top, l, r, width)
    BY <2>2
  <2>4. v[i] = Tag(b, l, r, width)
    BY <2>1, <2>3, <1>9
  <2> QED BY <2>3, <2>4
<1>14. InPlace(v, b, top, height, width)
  BY <1>12 DEF InPlace
<1>15. OnlyRows(v, b, top, width)
  BY <1>13 DEF OnlyRows
<1> QED BY <1>10, <1>11, <1>14, <1>15

-----------------------------------------------------------------------------
(* Scrolling                                                               *)

\* The first line with room: the least of those that leave room, and the cursor's own does.
LEMMA EnoughIs ==
    ASSUME NEW b, Sound(b), NEW width \in Nat, NEW height \in Nat, NEW a \in 1..b.line,
           NEW row, row = CursorCell(b, width).row,
           NEW f, f = Enough(b, a..b.line, height, width)
    PROVE  /\ f \in a..b.line
           /\ f = b.line \/ RowsOf(b, f, b.line - 1, width) + row <= height
           /\ \A k \in a..b.line : k = b.line \/ RowsOf(b, k, b.line - 1, width) + row <= height
                                   => f <= k
<1> DEFINE enough == {l \in a..b.line : l = b.line \/ RowsOf(b, l, b.line - 1, width) + row <= height}
<1>1. b.line \in Nat \ {0} /\ a \in Nat
  BY Parts
<1>2. enough \subseteq Nat /\ enough # {}
  <2>1. b.line \in a..b.line
    BY <1>1
  <2>2. b.line \in enough
    BY <2>1
  <2>3. \A k \in a..b.line : k \in Nat
    BY <1>1
  <2> QED BY <2>2, <2>3
<1>3. f = CHOOSE l \in enough : \A k \in enough : l <= k
  BY DEF Enough
<1> HIDE DEF enough
<1>4. f \in enough /\ \A k \in enough : f <= k
  BY <1>2, <1>3, Least
<1> QED BY <1>4 DEF enough

\* Scrolling leaves the cursor's row among those that fit, and a line with rows above the
\* view only while the cursor is in it and it is taller than the view.
LEMMA ScrolledIs ==
    ASSUME NEW b, Sound(b), NEW width \in Nat, NEW height \in Nat \ {0},
           NEW top, top.line \in Nat \ {0}, top.sub \in Nat,
           NEW t, t = ScrollToCursor(b, top, height, width),
           NEW row, row = CursorCell(b, width).row
    PROVE  /\ t = Top(t.line, t.sub)
           /\ t.line \in 1..b.line /\ t.sub \in Nat /\ TopIn(b, t, width)
           /\ row \in Skipped(t, b.line) + 1..Len(RowsAt(b, b.line, width))
           /\ Place(b, t, b.line, row, width) <= height
           /\ t.sub > 0 => t.line = b.line /\ RowCount(Cur(b), width) > height
<1> PICK n : n = RowCount(Cur(b), width)
  OBVIOUS
<1>1. b.line \in 1..Len(b.lines) /\ b.line \in Nat \ {0} /\ Len(b.lines) \in Nat
  BY Parts
<1>2. n = Len(RowsAt(b, b.line, width)) /\ n \in Nat \ {0}
  BY <1>1, RowsAtWrap DEF Cur
<1>3. row \in 1..n /\ row \in Nat
  BY <1>2, CursorCellIs
<1>4. RowsOf(b, b.line, b.line - 1, width) = 0
  BY <1>1, RowsOfSteps
<1>5. CASE n > height
  <2> PICK sub : sub = TallSub(b, top, height, row)
    OBVIOUS
  <2>1. t = Top(b.line, sub)
    BY <1>5 DEF ScrollToCursor
  <2>2. t.line = b.line /\ t.sub = sub
    BY <2>1 DEF Top
  <2>3. sub \in Nat /\ sub < row /\ row <= sub + height
    BY <1>3 DEF TallSub, Greater
  <2>4. Skipped(t, b.line) = sub
    BY <2>2 DEF Skipped
  <2>5. Place(b, t, b.line, row, width) = 0 + row - sub
    BY <1>4, <2>2 DEF Place
  <2>6. TopIn(b, t, width)
    BY <1>1, <1>2, <1>3, <2>2, <2>3 DEF TopIn
  <2>7. row \in sub + 1..n /\ 0 + row - sub <= height
    BY <1>2, <1>3, <2>3
  <2>8. b.line \in 1..b.line
    BY <1>1
  <2> QED BY <1>2, <1>5, <2>1, <2>2, <2>3, <2>4, <2>5, <2>6, <2>7, <2>8
<1>6. ASSUME NEW l \in 1..b.line, t = Top(l, 0), n <= height,
             l = b.line \/ RowsOf(b, l, b.line - 1, width) + row <= height
      PROVE  /\ t = Top(t.line, t.sub)
             /\ t.line \in 1..b.line /\ t.sub \in Nat /\ TopIn(b, t, width)
             /\ row \in Skipped(t, b.line) + 1..Len(RowsAt(b, b.line, width))
             /\ Place(b, t, b.line, row, width) <= height
             /\ t.sub > 0 => t.line = b.line /\ n > height
  <2>1. t.line = l /\ t.sub = 0
    BY <1>6 DEF Top
  <2>2. l \in 1..Len(b.lines) /\ l \in Nat
    BY <1>1
  <2>3. 0 \in 0..Len(RowsAt(b, l, width))
    <3>1. Len(RowsAt(b, l, width)) \in Nat \ {0}
      BY <2>2, RowsAtWrap
    <3> QED BY <3>1
  <2>4. TopIn(b, t, width)
    BY <2>1, <2>2, <2>3 DEF TopIn
  <2>5. Skipped(t, b.line) = 0
    BY <2>1 DEF Skipped
  <2>6. RowsOf(b, l, b.line - 1, width) + row <= height
    BY <1>3, <1>4, <1>2, <1>6
  <2>7. RowsOf(b, l, b.line - 1, width) \in Nat
    <3>1. b.line - 1 \in l - 1..Len(b.lines)
      BY <1>1, <2>2
    <3> QED BY <2>2, <3>1, RowsOfSteps
  <2>8. Place(b, t, b.line, row, width) <= height
    BY <2>1, <2>6, <2>7, <1>3 DEF Place
  <2>9. row \in 0 + 1..n
    BY <1>3
  <2> QED BY <1>2, <1>6, <2>1, <2>4, <2>5, <2>8, <2>9
<1>7. CASE ~(n > height) /\ b.line < top.line
  <2>1. t = Top(b.line, 0)
    BY <1>7 DEF ScrollToCursor
  <2>2. n <= height /\ b.line \in 1..b.line
    BY <1>7, <1>1, <1>2
  <2> QED BY <2>1, <2>2, <1>6
<1>8. CASE ~(n > height) /\ ~(b.line < top.line)
  <2> PICK f : f = Enough(b, top.line..b.line, height, width)
    OBVIOUS
  <2>1. t = Top(f, 0)
    BY <1>8 DEF ScrollToCursor, FirstLine
  <2>2. top.line \in 1..b.line
    BY <1>8, <1>1
  <2>3. /\ f \in top.line..b.line
        /\ f = b.line \/ RowsOf(b, f, b.line - 1, width) + row <= height
    BY <2>2, EnoughIs
  <2>4. f \in 1..b.line
    BY <2>2, <2>3, <1>1
  <2>5. n <= height
    BY <1>8, <1>2
  <2> QED BY <2>1, <2>3, <2>4, <2>5, <1>6
<1> QED BY <1>5, <1>7, <1>8

LEMMA CenteredIs ==
    ASSUME NEW b, Sound(b), NEW width \in Nat, NEW height \in Nat, NEW line \in 1..Len(b.lines),
           NEW t, t = CenterOn(b, line, height, width)
    PROVE  t.line \in Nat \ {0} /\ t.sub = 0
<1> DEFINE near == {l \in 1..line : RowsOf(b, l, line - 1, width) <= height \div 2}
           least == CHOOSE l \in near : \A k \in near : l <= k
<1>1. line \in Nat \ {0}
  BY Parts
<1>2. near \subseteq Nat /\ near # {}
  <2>1. line \in 1..line /\ 0 <= height \div 2
    BY <1>1
  <2>2. RowsOf(b, line, line - 1, width) = 0
    BY RowsOfSteps
  <2>3. line \in near
    BY <2>1, <2>2
  <2> QED BY <2>3
<1>3. t.line = least /\ t.sub = 0
  BY DEF CenterOn, Top
<1>4. \A l \in near : l \in Nat \ {0}
  OBVIOUS
<1> HIDE DEF near
<1>5. least \in near
  BY <1>2, Least
<1> QED BY <1>3, <1>4, <1>5

\* The rows below a top that is past the end of the text: none.
LEMMA NothingVisible ==
    ASSUME NEW b, Sound(b), NEW width \in Nat, NEW height \in Nat,
           NEW top, top.line \in Nat, top.line > Len(b.lines)
    PROVE  DOMAIN VisibleRows(b, top, height, width) = {}
<1> PICK n : n = Len(b.lines) - top.line + 1
  OBVIOUS
<1> PICK ss : ss = [k \in 1..n |-> Tagged(b, top, top.line + k - 1, width)]
  OBVIOUS
<1>1. 1..n = {} /\ 1..0 = {}
  <2>1. Len(b.lines) \in Nat
    BY Parts
  <2> QED BY <2>1
<1>2. ss = << >>
  BY <1>1
<1>3. FlattenSeq(ss) = << >>
  BY <1>2 DEF FlattenSeq
<1>4. VisibleRows(b, top, height, width) = SubSeq(FlattenSeq(ss), 1, Lesser(height, Len(FlattenSeq(ss))))
  BY DEF VisibleRows, Tagged, RowsAt
<1>5. Lesser(height, Len(<< >>)) = 0
  BY DEF Lesser
<1> QED BY <1>1, <1>3, <1>4, <1>5

\* A row that is among those the view shows stays where it is: the view does not move.
LEMMA ViewStays ==
    ASSUME NEW b, Sound(b), NEW width \in Nat, NEW height \in Nat \ {0},
           NEW top, top = Top(top.line, top.sub), top.line \in Nat \ {0}, top.sub = 0,
           RowCount(Cur(b), width) <= height,
           NEW i \in DOMAIN VisibleRows(b, top, height, width),
           VisibleRows(b, top, height, width)[i]
           = [line |-> b.line, row |-> RowsAt(b, b.line, width)[CursorCell(b, width).row]]
    PROVE  ScrollToCursor(b, top, height, width) = top
<1> PICK v : v = VisibleRows(b, top, height, width)
  OBVIOUS
<1> PICK row : row = CursorCell(b, width).row
  OBVIOUS
<1> PICK rows : rows = RowsAt(b, b.line, width)
  OBVIOUS
<1>1. b.line \in 1..Len(b.lines) /\ b.line \in Nat \ {0} /\ Len(b.lines) \in Nat
  BY Parts
<1>2. top.line \in 1..Len(b.lines)
  <2>1. top.line \in Nat /\ ~(top.line > Len(b.lines))
    BY NothingVisible
  <2> QED BY <1>1, <2>1
<1>3. Len(RowsAt(b, top.line, width)) \in Nat
  BY <1>2, RowsAtWrap
<1>4. TopIn(b, top, width)
  BY <1>2, <1>3 DEF TopIn
<1>5. v \in Seq(RowTags) /\ Len(v) <= height
  BY <1>4, VisibleIs
<1>6. OnlyRows(v, b, top, width)
  BY <1>4, VisibleIs
<1>7. i \in 1..Len(v) /\ v[i] = [line |-> b.line, row |-> rows[row]]
  BY <1>5
<1>8. PICK l \in top.line..Len(b.lines) :
      \E r \in Skipped(top, l) + 1..Len(RowsAt(b, l, width)) :
         i = Place(b, top, l, r, width) /\ v[i] = Tag(b, l, r, width)
  BY <1>6, <1>7 DEF OnlyRows
<1>9. PICK r \in Skipped(top, l) + 1..Len(RowsAt(b, l, width)) :
         i = Place(b, top, l, r, width) /\ v[i] = Tag(b, l, r, width)
  BY <1>8
<1>10. l = b.line /\ rows[r] = rows[row]
  BY <1>7, <1>9 DEF Tag
<1>11. top.line \in 1..b.line
  BY <1>1, <1>2, <1>8, <1>10
<1>12. IsWrap(rows, Cur(b), Greater(width, 1)) /\ RowCount(Cur(b), width) = Len(rows) /\ Len(rows) \in Nat
  BY <1>1, RowsAtWrap DEF Cur
<1>13. row \in 1..Len(rows)
  BY CursorCellIs
<1>14. r \in 1..Len(rows)
  BY <1>9, <1>10, <1>12 DEF Skipped
<1>15. r = row
  <2>1. Cur(b) \in Line
    BY Parts
  <2> QED BY <2>1, <1>10, <1>12, <1>13, <1>14, RowsDistinct
<1>16. RowsOf(b, top.line, b.line - 1, width) + row <= height
  <2>1. i = RowsOf(b, top.line, b.line - 1, width) + row - 0
    BY <1>9, <1>10, <1>15 DEF Place
  <2>2. RowsOf(b, top.line, b.line - 1, width) \in Nat
    <3>1. b.line - 1 \in top.line - 1..Len(b.lines)
      BY <1>1, <1>11
    <3> QED BY <1>2, <3>1, RowsOfSteps
  <2>3. i <= height /\ i \in Int
    BY <1>5, <1>7
  <2> QED BY <2>1, <2>2, <2>3, <1>13
<1> PICK f : f = Enough(b, top.line..b.line, height, width)
  OBVIOUS
<1>17. f \in top.line..b.line /\ f <= top.line
  <2>1. top.line \in top.line..b.line
    BY <1>11, <1>1
  <2> QED BY <2>1, <1>11, <1>16, EnoughIs
<1>18. f = top.line
  BY <1>17, <1>2
<1>19. ~(RowCount(Cur(b), width) > height) /\ ~(b.line < top.line)
  BY <1>12, <1>11, <1>1
<1>20. ScrollToCursor(b, top, height, width) = Top(f, 0)
  BY <1>19 DEF ScrollToCursor, FirstLine
<1> QED BY <1>18, <1>20

-----------------------------------------------------------------------------
(* The cells of a region, and of a row                                     *)

\* The column of every offset of a row.
ColumnsOf(s, row) == [o \in row.start..row.end |-> ColumnAt(s, row.start, o)]
\* The columns of the characters behind these offsets.
Cells(at, offsets) == UNION {at[o]..at[o + 1] - 1 : o \in offsets}
\* The offsets of a row that are inside a region.
Inside(row, line, start, end) ==
    {o \in row.start..row.end - 1 :
       Earlier(start, Position(line, o)) /\ ~Earlier(end, Position(line, o))}

\* The columns of the characters from one offset of a row to another are the columns between.
LEMMA ColumnsJoin ==
    ASSUME NEW s \in Line, NEW row, row.start \in 0..Len(s), row.end \in row.start..Len(s),
           NEW from \in row.start..row.end, NEW to \in row.start..row.end, from <= to,
           NEW at, at = ColumnsOf(s, row)
    PROVE  Cells(at, from..to - 1) = at[from]..at[to] - 1
<1> PICK a : a = row.start
  OBVIOUS
<1> PICK z : z = row.end
  OBVIOUS
<1>1. Len(s) \in Nat /\ a \in Nat /\ z \in Nat /\ from \in Nat /\ to \in Nat /\ z <= Len(s)
      /\ a <= from /\ to <= z
  BY DEF Line
<1>2. \A o \in a..z : at[o] \in Nat
  <2>1. \A o \in a..z : o \in a..Len(s)
    BY <1>1
  <2>2. \A o \in a..z : ColumnAt(s, a, o) \in Nat
    BY <2>1, ColumnSteps
  <2> QED BY <2>2 DEF ColumnsOf
<1>3. \A o \in a..z : \A p \in o..z : at[o] <= at[p]
  <2>1. \A o \in a..z : \A p \in o..z : o \in a..Len(s) /\ p \in o..Len(s) /\ p \in a..z
    BY <1>1
  <2>2. \A o \in a..z : \A p \in o..z : ColumnAt(s, a, o) <= ColumnAt(s, a, p)
    BY <2>1, ColumnsGrow
  <2> QED BY <2>1, <2>2 DEF ColumnsOf
<1>4. ASSUME NEW x \in UNION {at[o]..at[o + 1] - 1 : o \in from..to - 1}
      PROVE  x \in at[from]..at[to] - 1
  <2>1. PICK o \in from..to - 1 : x \in at[o]..at[o + 1] - 1
    BY <1>4
  <2>2. /\ from \in a..z /\ o \in from..z /\ o \in a..z
        /\ o + 1 \in a..z /\ to \in o + 1..z /\ to \in a..z
    BY <1>1
  <2>3. at[from] <= at[o] /\ at[o + 1] <= at[to]
    BY <2>2, <1>3
  <2>4. at[from] \in Nat /\ at[o] \in Nat /\ at[o + 1] \in Nat /\ at[to] \in Nat
    BY <2>2, <1>2
  <2> QED BY <2>1, <2>3, <2>4
<1>5. ASSUME NEW x \in at[from]..at[to] - 1
      PROVE  x \in UNION {at[o]..at[o + 1] - 1 : o \in from..to - 1}
  <2> DEFINE T == {o \in from..to - 1 : x < at[o + 1]}
  <2>1. at[from] \in Nat /\ at[to] \in Nat
    BY <1>2
  <2>2. x \in Nat /\ at[from] <= x /\ x < at[to]
    BY <2>1
  <2>3. from < to
    <3>1. from # to
      BY <2>1, <2>2
    <3> QED BY <3>1, <1>1
  <2>4. T \subseteq Nat /\ T # {}
    <3>1. to - 1 \in from..to - 1 /\ (to - 1) + 1 = to
      BY <1>1, <2>3
    <3>2. to - 1 \in T
      BY <3>1, <2>2
    <3>3. \A o \in from..to - 1 : o \in Nat
      BY <1>1
    <3> QED BY <3>2, <3>3
  <2>5. PICK o \in T : \A p \in T : o <= p
    BY <2>4, Least
  <2>6. o \in from..to - 1 /\ x < at[o + 1]
    BY <2>5
  <2>7. at[o] <= x
    <3>1. CASE o = from
      BY <3>1, <2>2
    <3>2. CASE o # from
      <4>1. o - 1 \in from..to - 1 /\ (o - 1) + 1 = o /\ ~(o <= o - 1) /\ o \in a..z
        BY <2>6, <3>2, <1>1
      <4>2. o - 1 \notin T
        BY <2>5, <4>1
      <4>3. ~(x < at[o])
        BY <4>1, <4>2
      <4>4. at[o] \in Nat
        BY <4>1, <1>2
      <4> QED BY <4>3, <4>4, <2>2
    <3> QED BY <3>1, <3>2
  <2>8. o \in a..z /\ o + 1 \in a..z
    BY <2>6, <1>1
  <2>9. at[o] \in Nat /\ at[o + 1] \in Nat
    BY <2>8, <1>2
  <2>10. x \in at[o]..at[o + 1] - 1
    BY <2>2, <2>6, <2>7, <2>9
  <2> QED BY <2>6, <2>10
<1> QED BY <1>4, <1>5 DEF Cells

LEMMA RegionIs ==
    ASSUME NEW s \in Line, NEW row, row.start \in 0..Len(s), row.end \in row.start..Len(s),
           NEW line \in Nat, NEW start, start.line \in Nat, start.col \in Nat,
           NEW end, end.line \in Nat, end.col \in Nat,
           NEW at, at = ColumnsOf(s, row)
    PROVE  RegionColumns(s, row, line, start, end)
           = Cells(at, Inside(row, line, start, end))
<1> PICK a : a = row.start
  OBVIOUS
<1> PICK z : z = row.end
  OBVIOUS
<1> PICK inside : inside = Inside(row, line, start, end)
  OBVIOUS
<1> PICK from : from = IF line = start.line THEN Greater(start.col, a) ELSE a
  OBVIOUS
<1> PICK to : to = IF line = end.line THEN Lesser(end.col, z) ELSE z
  OBVIOUS
<1> PICK columns : columns = RegionColumns(s, row, line, start, end)
  OBVIOUS
<1>1. Len(s) \in Nat /\ a \in 0..Len(s) /\ z \in a..Len(s) /\ a \in Nat /\ z \in Nat
  BY DEF Line
<1>2. from \in Nat /\ to \in Nat /\ a <= from /\ to <= z
  BY <1>1 DEF Greater, Lesser
<1>3. columns = IF line < start.line \/ line > end.line \/ from >= to THEN {}
                ELSE ColumnAt(s, a, from)..ColumnAt(s, a, to) - 1
  BY DEF RegionColumns
<1>4. \A o \in a..z - 1 : o \in inside <=> /\ ~(line < start.line) /\ ~(line > end.line)
                                           /\ from <= o /\ o < to
  <2> SUFFICES ASSUME NEW o \in a..z - 1
               PROVE  o \in inside <=> /\ ~(line < start.line) /\ ~(line > end.line)
                                       /\ from <= o /\ o < to
    OBVIOUS
  <2>1. o \in Nat /\ a <= o /\ o < z
    BY <1>1
  <2>2. Earlier(start, Position(line, o)) <=> ~(line < start.line) /\ from <= o
    BY <2>1, <1>1 DEF Earlier, Position, Greater
  <2>3. ~Earlier(end, Position(line, o)) <=> ~(line > end.line) /\ o < to
    BY <2>1, <1>1 DEF Earlier, Position, Lesser
  <2> QED BY <2>2, <2>3 DEF Inside
<1>5. CASE line < start.line \/ line > end.line \/ from >= to
  <2>1. \A o \in a..z - 1 : o \notin inside
    BY <1>4, <1>5, <1>2, <1>1
  <2>2. inside = {}
    BY <2>1 DEF Inside
  <2>3. columns = {}
    BY <1>3, <1>5
  <2>4. Cells(at, inside) = {}
    BY <2>2 DEF Cells
  <2> QED BY <2>3, <2>4
<1>6. CASE ~(line < start.line \/ line > end.line \/ from >= to)
  <2>1. from \in a..z /\ to \in a..z /\ from <= to
    BY <1>6, <1>1, <1>2
  <2>2. \A o : o \in from..to - 1 => o \in a..z - 1
    BY <1>1, <2>1
  <2>3. \A o \in from..to - 1 : from <= o /\ o < to
    BY <2>1, <1>1
  <2>4. \A o : o \in inside => o \in from..to - 1
    BY <1>1, <1>2, <1>4, <2>1 DEF Inside
  <2>5. inside = from..to - 1
    BY <1>4, <1>6, <2>2, <2>3, <2>4
  <2>6. at[from] = ColumnAt(s, a, from) /\ at[to] = ColumnAt(s, a, to)
    BY <2>1 DEF ColumnsOf
  <2>7. columns = at[from]..at[to] - 1
    BY <1>3, <1>6, <2>6
  <2>8. Cells(at, from..to - 1) = at[from]..at[to] - 1
    BY <1>1, <2>1, ColumnsJoin
  <2> QED BY <2>5, <2>7, <2>8
<1> QED BY <1>5, <1>6

Cell == Char \cup {Space}
Glyph(c) == IF c = Tab THEN Space ELSE c

LEMMA BlanksAre ==
    ASSUME NEW k \in Nat
    PROVE  /\ Spaces(k) \in Seq(Cell) /\ Len(Spaces(k)) = k
           /\ \A n \in 1..k : Spaces(k)[n] = Space
<1>1. Space \in Cell
  BY DEF Cell
<1>2. Spaces(k) = [i \in 1..k |-> Space]
  BY DEF Spaces
<1>3. Spaces(k) \in [1..k -> Cell]
  BY <1>1, <1>2
<1>4. Spaces(k) \in Seq(Cell)
  BY <1>3, FunctionIsSeq
<1>5. Len(Spaces(k)) = k
  BY <1>3, FunctionIsSeq
<1> QED BY <1>2, <1>4, <1>5

\* v is q, then something else, then blanks: the cells before n, the one at n, and the rest.
Begins(v, q) == \A n \in 1..Len(q) : v[n] = q[n]
BlankAfter(v, k) == \A n \in k + 1..Len(v) : v[n] = Space

LEMMA Padded ==
    ASSUME NEW q \in Seq(Cell), NEW k \in Nat, NEW v, v = q \o Spaces(k)
    PROVE  /\ v \in Seq(Cell) /\ Len(v) = Len(q) + k
           /\ Begins(v, q) /\ BlankAfter(v, Len(q))
<1> PICK blanks : blanks = Spaces(k)
  OBVIOUS
<1>1. blanks \in Seq(Cell) /\ Len(blanks) = k /\ \A n \in 1..k : blanks[n] = Space
  BY BlanksAre
<1>2. v = q \o blanks
  OBVIOUS
<1>3. v \in Seq(Cell) /\ Len(v) = Len(q) + Len(blanks)
  BY <1>1, <1>2, ConcatProperties
<1>4. \A n \in 1..Len(q) : v[n] = q[n]
  BY <1>1, <1>2, ConcatProperties
<1>5. \A n \in Len(q) + 1..Len(q) + Len(blanks) : v[n] = blanks[n - Len(q)]
  BY <1>1, <1>2, ConcatProperties
<1>6. ASSUME NEW n \in Len(q) + 1..Len(q) + k PROVE v[n] = Space
  <2>1. n - Len(q) \in 1..k
    OBVIOUS
  <2> QED BY <2>1, <1>1, <1>5
<1> QED BY <1>1, <1>3, <1>4, <1>6 DEF Begins, BlankAfter

\* r is the first C cells, those of q, then a glyph, and blanks for the w - 1 columns it has left.
Lengthened(r, q, glyph, C, w) ==
    /\ r \in Seq(Cell) /\ Len(r) = C + w
    /\ Begins(r, q) /\ r[C + 1] = glyph /\ BlankAfter(r, C + 1)

LEMMA GlyphAdded ==
    ASSUME NEW q \in Seq(Cell), NEW g \in Cell, NEW w \in Nat, w - 1 \in Nat, NEW C, C = Len(q),
           NEW r, r = Append(q, g) \o Spaces(w - 1)
    PROVE  Lengthened(r, q, g, C, w)
<1> PICK k : k = w - 1
  OBVIOUS
<1> PICK more : more = Append(q, g)
  OBVIOUS
<1> PICK blanks : blanks = Spaces(k)
  OBVIOUS
<1>1. /\ more \in Seq(Cell) /\ C \in Nat /\ Len(more) = C + 1
      /\ \A n \in 1..C : more[n] = q[n]
      /\ more[C + 1] = g
  BY AppendProperties
<1>11. k \in Nat /\ k + 1 = w
  OBVIOUS
<1>2. blanks \in Seq(Cell) /\ Len(blanks) = k /\ (\A n \in 1..k : blanks[n] = Space)
  BY <1>11, BlanksAre
<1>3. r = more \o blanks
  OBVIOUS
<1>4. r \in Seq(Cell) /\ Len(r) = Len(more) + Len(blanks)
  BY <1>1, <1>2, <1>3, ConcatProperties
<1>5. \A n \in 1..Len(more) : r[n] = more[n]
  BY <1>1, <1>2, <1>3, ConcatProperties
<1>6. \A n \in Len(more) + 1..Len(more) + Len(blanks) : r[n] = blanks[n - Len(more)]
  BY <1>1, <1>2, <1>3, ConcatProperties
<1>10. Len(r) = C + w /\ C + 1 \in 1..Len(more)
  <2>1. Len(r) = (C + 1) + k /\ C \in Nat /\ Len(more) = C + 1
    BY <1>1, <1>2, <1>4
  <2>2. (C + 1) + k = C + w
    BY <1>1, <1>11
  <2>3. C + 1 \in 1..C + 1
    BY <1>1
  <2> QED BY <2>1, <2>2, <2>3
<1>7. \A n \in 1..Len(q) : r[n] = q[n]
  <2>1. \A n \in 1..C : n \in 1..Len(more)
    BY <1>1
  <2> QED BY <2>1, <1>1, <1>5
<1>8. r[C + 1] = g
  BY <1>1, <1>5, <1>10
<1>9. \A n \in C + 1 + 1..Len(r) : r[n] = Space
  <2> SUFFICES ASSUME NEW n \in C + 1 + 1..Len(r) PROVE r[n] = Space
    OBVIOUS
  <2>1. n \in Len(more) + 1..Len(more) + Len(blanks)
    BY <1>1, <1>4
  <2>2. n - Len(more) \in 1..k
    BY <2>1, <1>1, <1>2
  <2> QED BY <2>1, <2>2, <1>2, <1>6
<1> QED BY <1>4, <1>7, <1>8, <1>9, <1>10 DEF Begins, BlankAfter, Lengthened

\* The cells of the characters of s between the offsets a and o: each in its column, and a
\* wide one with a column more to go.
Drawn(q, s, a, o, cols) ==
    /\ q \in Seq(Cell)
    /\ Len(q) = Lesser(ColumnAt(s, a, o), cols)
    /\ \A n \in 1..Len(q) : q[n] = Space \/ \E p \in a + 1..o : q[n] = s[p]
    /\ \A n \in 1..Len(q) : q[n] \in Wide => n + 1 <= cols
    /\ \A p \in a + 1..o : s[p] \notin Zero =>
          /\ ColumnAt(s, a, p - 1) + 1 \in 1..Len(q)
          /\ q[ColumnAt(s, a, p - 1) + 1] = Glyph(s[p])

LEMMA RoomLeft ==
    ASSUME NEW C \in Nat, NEW W \in Nat, W >= 1, NEW cols \in Nat, C < cols,
           NEW w, w = Lesser(W, cols - C)
    PROVE  w \in Nat \ {0} /\ w - 1 \in Nat /\ C + w = Lesser(C + W, cols)
<1>1. CASE W <= cols - C
  <2>1. w = W /\ C + W <= cols
    BY <1>1 DEF Lesser
  <2> QED BY <2>1 DEF Lesser
<1>2. CASE ~(W <= cols - C)
  <2>1. w = cols - C /\ ~(C + W <= cols)
    BY <1>2 DEF Lesser
  <2>2. Lesser(C + W, cols) = cols
    BY <2>1 DEF Lesser
  <2>3. w \in Nat \ {0} /\ w - 1 \in Nat /\ C + w = cols
    BY <2>1
  <2> QED BY <2>2, <2>3
<1> QED BY <1>1, <1>2

LEMMA DrawnStep ==
    ASSUME NEW s \in Line, NEW a \in 0..Len(s), NEW o \in a..Len(s) - 1, NEW cols \in Nat, cols >= 2,
           NEW q, Drawn(q, s, a, o, cols), HasRoom(s, a, o + 1, cols)
    PROVE  Drawn(DrawnAfter(s[o + 1], q, cols), s, a, o + 1, cols)
<1> PICK c : c = s[o + 1]
  OBVIOUS
<1> PICK C : C = ColumnAt(s, a, o)
  OBVIOUS
<1> PICK W : W = WidthAt(c, C)
  OBVIOUS
<1> PICK r : r = DrawnAfter(c, q, cols)
  OBVIOUS
<1>1. Len(s) \in Nat /\ a \in Nat /\ o \in Nat /\ o + 1 \in 1..Len(s) /\ o \in a..Len(s)
      /\ o + 1 \in a + 1..Len(s) /\ (o + 1) - 1 = o
  BY DEF Line
<1>2. c \in Char
  BY <1>1, ElementOfSeq DEF Line
<1>3. C \in Nat /\ ColumnAt(s, a, o + 1) = C + W
  <2>1. C \in Nat
    BY <1>1, ColumnSteps
  <2>2. ColumnAt(s, a, o + 1) = ColumnAt(s, a, (o + 1) - 1) + WidthAt(s[o + 1], ColumnAt(s, a, (o + 1) - 1))
    BY <1>1, ColumnSteps
  <2> QED BY <2>1, <2>2, <1>1
<1>4. W \in Nat
  BY <1>2, <1>3, Widths
<1>5. q \in Seq(Cell) /\ Len(q) \in Nat /\ Len(q) = Lesser(C, cols)
  <2>1. q \in Seq(Cell)
    BY DEF Drawn
  <2> QED BY <2>1 DEF Drawn
<1>6. \A n \in 1..Len(q) : q[n] = Space \/ \E p \in a + 1..o : q[n] = s[p]
  BY DEF Drawn
<1>7. \A n \in 1..Len(q) : q[n] \in Wide => n + 1 <= cols
  BY DEF Drawn
<1>8. \A p \in a + 1..o : s[p] \notin Zero =>
          /\ ColumnAt(s, a, p - 1) + 1 \in 1..Len(q)
          /\ q[ColumnAt(s, a, p - 1) + 1] = Glyph(s[p])
  BY DEF Drawn
<1>9. \A p \in a + 1..o + 1 : p \in a + 1..o \/ p = o + 1
  BY <1>1
<1>10. \A p \in a + 1..o : p \in a + 1..o + 1
  BY <1>1
<1>11. CASE c \in Zero
  <2>1. W = 0 /\ WidthAt(c, Len(q)) = 0
    BY <1>2, <1>3, <1>5, <1>11, Widths
  <2>2. cols - Len(q) \in Nat
    BY <1>3, <1>5 DEF Lesser
  <2>3. r = q
    <3>1. Lesser(WidthAt(c, Len(q)), cols - Len(q)) = 0
      BY <2>1, <2>2 DEF Lesser
    <3> QED BY <3>1 DEF DrawnAfter
  <2>4. ColumnAt(s, a, o + 1) = C
    BY <1>3, <2>1
  <2>5. \A n \in 1..Len(q) : q[n] = Space \/ \E p \in a + 1..o + 1 : q[n] = s[p]
    BY <1>6, <1>10
  <2>6. \A p \in a + 1..o + 1 : s[p] \notin Zero =>
          /\ ColumnAt(s, a, p - 1) + 1 \in 1..Len(q)
          /\ q[ColumnAt(s, a, p - 1) + 1] = Glyph(s[p])
    BY <1>8, <1>9, <1>11
  <2> QED BY <1>5, <1>7, <2>3, <2>4, <2>5, <2>6 DEF Drawn
<1>12. CASE c \notin Zero
  <2>1. W >= 1 /\ (c \in Wide => W = 2)
    BY <1>2, <1>3, <1>12, Widths
  <2>2. C + Lesser(W, cols) <= cols
    BY <1>12, <1>1 DEF HasRoom
  <2>3. C < cols /\ (c \in Wide => C + 2 <= cols)
    BY <1>3, <1>4, <2>1, <2>2 DEF Lesser
  <2>4. Len(q) = C
    BY <1>3, <1>5, <2>3 DEF Lesser
  <2> PICK w : w = Lesser(W, cols - C)
    OBVIOUS
  <2>5. w \in Nat \ {0} /\ w - 1 \in Nat /\ C + w = Lesser(C + W, cols)
    <3>1. cols - C \in Nat /\ W >= 1 /\ C < cols
      BY <1>3, <2>1, <2>3
    <3> QED BY <1>3, <1>4, <3>1, RoomLeft
  <2>6. r = Append(q, Glyph(c)) \o Spaces(w - 1)
    BY <2>4, <2>5 DEF DrawnAfter, Glyph
  <2>7. Glyph(c) \in Cell
    BY <1>2 DEF Glyph, Cell
  <2> PICK glyph : glyph = Glyph(c)
    OBVIOUS
  <2>14. /\ glyph \in Cell /\ q \in Seq(Cell) /\ w \in Nat /\ w - 1 \in Nat /\ C = Len(q)
         /\ r = Append(q, glyph) \o Spaces(w - 1)
    BY <1>5, <2>4, <2>5, <2>6, <2>7
  <2>15. Lengthened(r, q, glyph, C, w)
    BY <2>14, GlyphAdded
  <2>8. /\ r \in Seq(Cell) /\ Len(r) = C + w
        /\ \A n \in 1..C : r[n] = q[n]
        /\ r[C + 1] = glyph
        /\ \A n \in C + 1 + 1..Len(r) : r[n] = Space
    BY <2>4, <2>15 DEF Lengthened, Begins, BlankAfter
  <2>9. Len(r) = Lesser(ColumnAt(s, a, o + 1), cols) /\ Len(r) = C + w /\ Len(r) \in Nat
    <3>1. Len(r) = C + w /\ Len(r) \in Nat
      BY <1>3, <2>5, <2>8
    <3> QED BY <3>1, <1>3, <2>5
  <2>10. \A n \in 1..Len(r) : n \in 1..C \/ n = C + 1 \/ n \in C + 1 + 1..Len(r)
    <3>1. C \in Int /\ Len(r) \in Int
      BY <1>3, <2>9
    <3> QED BY <3>1
  <2>11. \A n \in 1..Len(r) : r[n] = Space \/ \E p \in a + 1..o + 1 : r[n] = s[p]
    <3>1. o + 1 \in a + 1..o + 1
      BY <1>1
    <3>2. Glyph(c) = Space \/ Glyph(c) = s[o + 1]
      BY DEF Glyph
    <3>3. ASSUME NEW n \in 1..Len(r)
          PROVE  r[n] = Space \/ \E p \in a + 1..o + 1 : r[n] = s[p]
      <4>1. CASE n \in 1..C
        <5>1. r[n] = q[n] /\ n \in 1..Len(q)
          BY <4>1, <2>4, <2>8
        <5> QED BY <5>1, <1>6, <1>10
      <4>2. CASE n = C + 1
        <5>1. r[n] = glyph
          BY <4>2, <2>8
        <5> QED BY <5>1, <3>1, <3>2
      <4>3. CASE n \in C + 1 + 1..Len(r)
        BY <4>3, <2>8
      <4> QED BY <4>1, <4>2, <4>3, <2>10
    <3> QED BY <3>3
  <2>12. \A n \in 1..Len(r) : r[n] \in Wide => n + 1 <= cols
    <3>1. Space \notin Wide /\ (Glyph(c) \in Wide => c \in Wide)
      BY LayoutAssumption DEF Glyph
    <3>2. ASSUME NEW n \in 1..Len(r), r[n] \in Wide PROVE n + 1 <= cols
      <4>1. CASE n \in 1..C
        BY <4>1, <3>2, <1>7, <2>4, <2>8
      <4>2. CASE n = C + 1
        BY <4>2, <3>1, <3>2, <2>3, <2>8, <1>3
      <4>3. CASE n \in C + 1 + 1..Len(r)
        BY <4>3, <3>1, <3>2, <2>8
      <4> QED BY <4>1, <4>2, <4>3, <2>10
    <3> QED BY <3>2
  <2>13. \A p \in a + 1..o + 1 : s[p] \notin Zero =>
          /\ ColumnAt(s, a, p - 1) + 1 \in 1..Len(r)
          /\ r[ColumnAt(s, a, p - 1) + 1] = Glyph(s[p])
    <3>1. ASSUME NEW p \in a + 1..o, s[p] \notin Zero
          PROVE  /\ ColumnAt(s, a, p - 1) + 1 \in 1..Len(r)
                 /\ r[ColumnAt(s, a, p - 1) + 1] = Glyph(s[p])
      <4> PICK n : n = ColumnAt(s, a, p - 1) + 1
        OBVIOUS
      <4>1. n \in 1..C /\ q[n] = Glyph(s[p])
        BY <3>1, <1>8, <2>4
      <4>2. r[n] = q[n]
        BY <4>1, <2>8
      <4>3. n \in 1..Len(r)
        <5>1. C \in Int /\ w \in Nat /\ Len(r) = C + w
          BY <1>3, <2>5, <2>9
        <5> QED BY <4>1, <5>1
      <4> QED BY <4>1, <4>2, <4>3
    <3>2. C + 1 \in 1..Len(r) /\ ColumnAt(s, a, (o + 1) - 1) = C
      BY <1>1, <1>3, <2>5, <2>9
    <3> QED BY <1>9, <2>8, <3>1, <3>2
  <2> QED BY <2>8, <2>9, <2>11, <2>12, <2>13 DEF Drawn
<1> QED BY <1>11, <1>12

\* Every character of the row has room on it, and what the renderer makes of such a row.
AllHaveRoom(s, row, cols) == \A o \in row.start + 1..row.end : HasRoom(s, row.start, o, cols)
Rendered(v, s, row, cols) ==
    /\ v \in Seq(Cell) /\ Len(v) = cols
    /\ \A n \in 1..cols : v[n] = Space \/ \E p \in row.start + 1..row.end : v[n] = s[p]
    /\ \A n \in 1..cols : v[n] \in Wide => n + 1 <= cols
    /\ \A p \in row.start + 1..row.end : s[p] \notin Zero =>
          /\ ColumnAt(s, row.start, p - 1) + 1 \in 1..cols
          /\ v[ColumnAt(s, row.start, p - 1) + 1] = Glyph(s[p])

LEMMA RenderIs ==
    ASSUME NEW s \in Line, NEW row, row.start \in 0..Len(s), row.end \in row.start..Len(s),
           NEW cols \in Nat, cols >= 2, AllHaveRoom(s, row, cols),
           NEW v, v = RenderRow(s, row, cols)
    PROVE  Rendered(v, s, row, cols)
<1> PICK a : a = row.start
  OBVIOUS
<1> PICK z : z = row.end
  OBVIOUS
<1> DEFINE g == [x \in Seq(Cell) \X (a + 1..z) |-> DrawnAfter(s[x[2]], x[1], cols)]
           cells == CHOOSE f : f = [o \in a..z |-> IF o = a THEN << >>
                                                  ELSE DrawnAfter(s[o], f[o - 1], cols)]
<1>1. Len(s) \in Nat /\ a \in 0..Len(s) /\ z \in a..Len(s) /\ a \in Nat /\ z \in Nat /\ a \in Int
      /\ z \in Int /\ a <= z /\ z \in a..z
  BY DEF Line
<1>2. \A x \in Seq(Cell) : \A o \in a + 1..z : g[<<x, o>>] = DrawnAfter(s[o], x, cols)
  OBVIOUS
<1>3. \A x \in Seq(Cell) : \A o \in a + 1..z : DrawnAfter(s[o], x, cols) \in Seq(Cell)
  <2> SUFFICES ASSUME NEW x \in Seq(Cell), NEW o \in a + 1..z
               PROVE  DrawnAfter(s[o], x, cols) \in Seq(Cell)
    OBVIOUS
  <2> PICK c : c = s[o]
    OBVIOUS
  <2> PICK w : w = Lesser(WidthAt(c, Len(x)), cols - Len(x))
    OBVIOUS
  <2>1. c \in Char
    <3>1. o \in 1..Len(s)
      BY <1>1
    <3> QED BY <3>1, ElementOfSeq DEF Line
  <2>2. Glyph(c) \in Cell
    BY <2>1 DEF Glyph, Cell
  <2>6. w \in Int
    <3>1. Len(x) \in Nat
      OBVIOUS
    <3>2. WidthAt(c, Len(x)) \in Nat
      BY <2>1, <3>1, Widths
    <3> QED BY <3>1, <3>2 DEF Lesser
  <2>3. CASE w - 1 \in Nat
    <3>1. Append(x, Glyph(c)) \o Spaces(w - 1) \in Seq(Cell)
      <4>1. w \in Nat
        BY <2>3, <2>6
      <4>2. Lengthened(Append(x, Glyph(c)) \o Spaces(w - 1), x, Glyph(c), Len(x), w)
        BY <2>2, <2>3, <4>1, GlyphAdded
      <4> QED BY <4>2 DEF Lengthened
    <3> QED BY <3>1 DEF DrawnAfter, Glyph
  <2>4. CASE w = 0
    BY <2>4 DEF DrawnAfter
  <2>5. CASE w < 0
    <3>1. Len(x) \in Nat
      OBVIOUS
    <3>2. WidthAt(c, Len(x)) \in Nat
      BY <2>1, <3>1, Widths
    <3>3. w \in Int /\ w - 1 < 1
      BY <2>5, <3>1, <3>2 DEF Lesser
    <3>4. Spaces(w - 1) = << >>
      BY <3>3 DEF Spaces
    <3>5. Append(x, Glyph(c)) \in Seq(Cell)
      BY <2>2, AppendProperties
    <3>6. Append(x, Glyph(c)) \o << >> \in Seq(Cell)
      BY <3>5, ConcatEmptySeq
    <3> QED BY <2>5, <3>4, <3>6 DEF DrawnAfter, Glyph
  <2> QED BY <2>3, <2>4, <2>5, <2>6
<1> HIDE DEF g
<1>4. PICK f : GoesOn(f, a, z, Seq(Cell), << >>, g)
  <2>1. \A x \in Seq(Cell) : \A o \in a + 1..z : g[<<x, o>>] \in Seq(Cell)
    BY <1>2, <1>3
  <2>2. << >> \in Seq(Cell)
    OBVIOUS
  <2> QED BY <1>1, <2>1, <2>2, Recursion
<1>5. \A o \in a..z : (IF o = a THEN << >> ELSE g[<<f[o - 1], o>>])
                      = (IF o = a THEN << >> ELSE DrawnAfter(s[o], f[o - 1], cols))
  <2>1. SUFFICES ASSUME NEW o \in a..z, o # a
                 PROVE  g[<<f[o - 1], o>>] = DrawnAfter(s[o], f[o - 1], cols)
    OBVIOUS
  <2>2. o \in a + 1..z /\ o - 1 \in a..z
    BY <2>1, <1>1
  <2>3. f[o - 1] \in Seq(Cell)
    BY <1>4, <2>2 DEF GoesOn
  <2> QED BY <1>2, <2>2, <2>3
<1>6. f = [o \in a..z |-> IF o = a THEN << >> ELSE DrawnAfter(s[o], f[o - 1], cols)]
  BY <1>4, <1>5, Zenon DEF GoesOn
<1>7. cells = [o \in a..z |-> IF o = a THEN << >> ELSE DrawnAfter(s[o], cells[o - 1], cols)]
  <2>1. \E h : h = [o \in a..z |-> IF o = a THEN << >> ELSE DrawnAfter(s[o], h[o - 1], cols)]
    BY <1>6
  <2> QED BY <2>1, Zenon
<1>8. v = cells[z] \o Spaces(cols - Len(cells[z]))
  BY DEF RenderRow
<1> HIDE DEF cells
<1>9. Drawn(cells[a], s, a, a, cols)
  <2>1. cells[a] = << >>
    BY <1>1, <1>7
  <2>2. ColumnAt(s, a, a) = 0
    BY <1>1, ColumnSteps
  <2>3. << >> \in Seq(Cell) /\ Len(<< >>) = 0 /\ 1..0 = {} /\ Lesser(0, cols) = 0 /\ a + 1..a = {}
    BY <1>1 DEF Lesser
  <2> QED BY <2>1, <2>2, <2>3 DEF Drawn
<1>10. ASSUME NEW o \in a..z - 1, Drawn(cells[o], s, a, o, cols)
       PROVE  Drawn(cells[o + 1], s, a, o + 1, cols)
  <2>1. o \in a..Len(s) - 1 /\ o + 1 \in a..z /\ o + 1 # a /\ (o + 1) - 1 = o /\ o + 1 \in a + 1..z
    BY <1>1
  <2>2. cells[o + 1] = DrawnAfter(s[o + 1], cells[o], cols)
    BY <2>1, <1>7
  <2>3. HasRoom(s, a, o + 1, cols)
    BY <2>1 DEF AllHaveRoom
  <2> QED BY <1>1, <1>10, <2>1, <2>2, <2>3, DrawnStep
<1>11. Drawn(cells[z], s, a, z, cols)
  <2> DEFINE P == {o \in a..z : Drawn(cells[o], s, a, o, cols)}
  <2>1. a \in P
    BY <1>1, <1>9
  <2>2. ASSUME NEW o \in a..z - 1, o \in P PROVE o + 1 \in P
    <3>1. o + 1 \in a..z
      BY <1>1
    <3> QED BY <2>2, <3>1, <1>10
  <2> HIDE DEF P
  <2>3. \A o \in a..z : o \in P
    BY <1>1, <2>1, <2>2, Upwards
  <2>4. z \in P
    BY <1>1, <2>3
  <2> QED BY <2>4 DEF P
<1> PICK q : q = cells[z]
  OBVIOUS
<1>12. Drawn(q, s, a, z, cols) /\ v = q \o Spaces(cols - Len(q))
  BY <1>8, <1>11
<1>13. q \in Seq(Cell) /\ Len(q) \in Nat /\ cols - Len(q) \in Nat
  <2>1. q \in Seq(Cell) /\ Len(q) = Lesser(ColumnAt(s, a, z), cols)
    BY <1>12 DEF Drawn
  <2>2. ColumnAt(s, a, z) \in Nat
    BY <1>1, ColumnSteps
  <2> QED BY <2>1, <2>2 DEF Lesser
<1> PICK k : k = cols - Len(q)
  OBVIOUS
<1>14. k \in Nat /\ v = q \o Spaces(k) /\ Len(q) + k = cols
  BY <1>12, <1>13
<1>15. v \in Seq(Cell) /\ Len(v) = Len(q) + k
  BY <1>13, <1>14, Padded
<1>21. Begins(v, q)
  BY <1>13, <1>14, Padded
<1>22. BlankAfter(v, Len(q))
  BY <1>13, <1>14, Padded
<1>16. Len(v) = cols
  BY <1>14, <1>15
<1>17. \A n \in 1..cols : (n \in 1..Len(q) /\ v[n] = q[n]) \/ v[n] = Space
  <2> SUFFICES ASSUME NEW n \in 1..cols, n \notin 1..Len(q) PROVE v[n] = Space
    BY <1>21 DEF Begins
  <2>1. n \in Len(q) + 1..Len(q) + k
    <3>1. Len(q) \in Nat /\ Len(q) + k = cols
      BY <1>13, <1>14
    <3> QED BY <3>1
  <2> QED BY <2>1, <1>15, <1>22 DEF BlankAfter
<1>18. \A n \in 1..cols : v[n] = Space \/ \E p \in a + 1..z : v[n] = s[p]
  <2>1. \A n \in 1..Len(q) : q[n] = Space \/ \E p \in a + 1..z : q[n] = s[p]
    BY <1>12 DEF Drawn
  <2> QED BY <2>1, <1>17
<1>19. \A n \in 1..cols : v[n] \in Wide => n + 1 <= cols
  <2>1. \A n \in 1..Len(q) : q[n] \in Wide => n + 1 <= cols
    BY <1>12 DEF Drawn
  <2>2. Space \notin Wide
    BY LayoutAssumption
  <2> QED BY <2>1, <2>2, <1>17
<1>20. ASSUME NEW p \in a + 1..z, s[p] \notin Zero
       PROVE  /\ ColumnAt(s, a, p - 1) + 1 \in 1..cols
              /\ v[ColumnAt(s, a, p - 1) + 1] = Glyph(s[p])
  <2> PICK n : n = ColumnAt(s, a, p - 1) + 1
    OBVIOUS
  <2>1. n \in 1..Len(q) /\ q[n] = Glyph(s[p])
    BY <1>12, <1>20 DEF Drawn
  <2>2. n \in 1..cols /\ v[n] = q[n]
    <3>1. Len(q) \in Nat /\ k \in Nat /\ Len(q) + k = cols
      BY <1>13, <1>14
    <3>2. n \in 1..cols
      BY <2>1, <3>1
    <3> QED BY <2>1, <3>2, <1>21 DEF Begins
  <2> QED BY <2>1, <2>2
<1> QED BY <1>15, <1>16, <1>18, <1>19, <1>20 DEF Rendered
=============================================================================
