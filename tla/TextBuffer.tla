----------------------------- MODULE TextBuffer -----------------------------
(***************************************************************************)
(* The editor's text: buffer.rs (lines, cursor, the modified flag),        *)
(* region.rs (mark, cut and paste) and search.rs, as operators on a        *)
(* buffer record.  Lines are numbered from 1 and a column is the number    *)
(* of characters before it, so a column is a character boundary by         *)
(* definition; the code's byte offsets keep to boundaries for that reason. *)
(*                                                                         *)
(* A text with line breaks -- the cut buffer's, a file's -- is the         *)
(* nonempty sequence of its pieces, what split('\n') gives: joining and    *)
(* splitting at '\n' are inverse because no line contains one.             *)
(***************************************************************************)
EXTENDS Integers, Sequences, SequencesExt, FiniteSets

CONSTANTS
    Char,       \* the characters of a line, '\n' not among them
    Blank,      \* spaces and tabs
    Alnum,      \* letters and digits: what a word is made of
    MaxSize     \* bound: characters and line breaks of a buffer that is being edited

ASSUME CharAssumption == Blank \subseteq Char /\ Alnum \subseteq Char
ASSUME SizeAssumption == MaxSize \in Nat

Line == Seq(Char)
Text == Seq(Line) \ {<< >>}
Empty == << >>

Buffers == [lines : Text, line : Nat, col : Nat, modified : BOOLEAN]
Cur(b) == b.lines[b.line]

\* The cursor stands in the text.
CursorIn(b) == b.line \in 1..Len(b.lines) /\ b.col \in 0..Len(Cur(b))

Size(lines) == FoldLeft(LAMBDA n, s : n + 1 + Len(s), 0, lines)
Fits(b) == Size(b.lines) <= MaxSize + 1

Before(s, col) == SubSeq(s, 1, col)
After(s, col) == SubSeq(s, col + 1, Len(s))

-----------------------------------------------------------------------------
(* buffer.rs: files                                                        *)

NewBuffer == [lines |-> <<Empty>>, line |-> 1, col |-> 0, modified |-> FALSE]

\* A last empty piece is the newline that ends the last line, not a line.
FromText(t) ==
    [NewBuffer EXCEPT !.lines =
        IF Len(t) > 1 /\ t[Len(t)] = Empty THEN SubSeq(t, 1, Len(t) - 1) ELSE t]

ToText(b) == Append(b.lines, Empty)

-----------------------------------------------------------------------------
(* buffer.rs: editing                                                      *)

Lesser(m, n) == IF m <= n THEN m ELSE n

SetCursor(b, line, col) ==
    LET l == Lesser(line, Len(b.lines))
    IN  [b EXCEPT !.line = l, !.col = Lesser(col, Len(b.lines[l]))]

\* Lines `from` to `to` give way to `new`.
Spliced(lines, from, to, new) ==
    SubSeq(lines, 1, from - 1) \o new \o SubSeq(lines, to + 1, Len(lines))

\* Every edit: new lines, a new cursor, and the buffer has changes.
Edited(lines, line, col) ==
    [lines |-> lines, line |-> line, col |-> col, modified |-> TRUE]

ReplaceLine(b, s, col) ==
    Edited([b.lines EXCEPT ![b.line] = s], b.line, col)

InsertChar(b, c) ==
    ReplaceLine(b, Before(Cur(b), b.col) \o <<c>> \o After(Cur(b), b.col), b.col + 1)

\* Mutant of JoinAt: joining two lines does not count as a change.
JoinUnflagged(b, l) ==
    [Edited(Spliced(b.lines, l, l + 1, <<b.lines[l] \o b.lines[l + 1]>>),
            l, Len(b.lines[l])) EXCEPT !.modified = b.modified]

\* Line l and the one below it become one; the cursor goes where they met.
JoinAt(b, l) ==
    Edited(Spliced(b.lines, l, l + 1, <<b.lines[l] \o b.lines[l + 1]>>),
           l, Len(b.lines[l]))

Backspace(b) ==
    IF b.col > 0
    THEN ReplaceLine(b, Before(Cur(b), b.col - 1) \o After(Cur(b), b.col), b.col - 1)
    ELSE IF b.line > 1 THEN JoinAt(b, b.line - 1) ELSE b

DeleteForward(b) ==
    IF b.col < Len(Cur(b))
    THEN ReplaceLine(b, Before(Cur(b), b.col) \o After(Cur(b), b.col + 1), b.col)
    ELSE IF b.line < Len(b.lines) THEN JoinAt(b, b.line) ELSE b

\* How many characters of s after (before) `from` are in C, up to the first that is not.
RunAfter(s, from, C) ==
    Cardinality({k \in from + 1..Len(s) : \A i \in from + 1..k : s[i] \in C})
RunBefore(s, from, C) ==
    Cardinality({k \in 1..from : \A i \in k..from : s[i] \in C})

\* None for a line that is nothing but blanks.
LeadingWhitespace(s) ==
    LET n == RunAfter(s, 0, Blank) IN IF n = Len(s) THEN Empty ELSE Before(s, n)

SplitLine(b, autoIndent) ==
    LET indent == IF autoIndent THEN LeadingWhitespace(Cur(b)) ELSE Empty
    IN  Edited(Spliced(b.lines, b.line, b.line,
                       <<Before(Cur(b), b.col), indent \o After(Cur(b), b.col)>>),
               b.line + 1, Len(indent))

-----------------------------------------------------------------------------
(* buffer.rs: movement                                                     *)

At(b, line, col) == [b EXCEPT !.line = line, !.col = col]
EndOf(b, line) == At(b, line, Len(b.lines[line]))

MoveLeft(b) ==
    IF b.col > 0 THEN At(b, b.line, b.col - 1)
    ELSE IF b.line > 1 THEN EndOf(b, b.line - 1) ELSE b

MoveRight(b) ==
    IF b.col < Len(Cur(b)) THEN At(b, b.line, b.col + 1)
    ELSE IF b.line < Len(b.lines) THEN At(b, b.line + 1, 0) ELSE b

\* A word end in the current line, or else one line break.
MoveWordLeft(b) ==
    LET skipped == b.col - RunBefore(Cur(b), b.col, Char \ Alnum)
    IN  IF b.col = 0 THEN MoveLeft(b)
        ELSE At(b, b.line, skipped - RunBefore(Cur(b), skipped, Alnum))

MoveWordRight(b) ==
    LET skipped == b.col + RunAfter(Cur(b), b.col, Char \ Alnum)
    IN  IF b.col = Len(Cur(b)) THEN MoveRight(b)
        ELSE At(b, b.line, skipped + RunAfter(Cur(b), skipped, Alnum))

MoveHome(b) == At(b, b.line, 0)
MoveEnd(b) == EndOf(b, b.line)
MoveToFirstLine(b) == At(b, 1, 0)
MoveToLastLine(b) == EndOf(b, Len(b.lines))

-----------------------------------------------------------------------------
(* region.rs                                                               *)

Position(line, col) == [line |-> line, col |-> col]
Cursor(b) == Position(b.line, b.col)

Earlier(p, q) == p.line < q.line \/ (p.line = q.line /\ p.col <= q.col)
StartOf(p, q) == IF Earlier(p, q) THEN p ELSE q
StopOf(p, q) == IF Earlier(p, q) THEN q ELSE p

\* Mutant of RegionText: the lines between the ends are forgotten.
RegionEnds(b, start, end) ==
    IF start.line = end.line
    THEN <<SubSeq(b.lines[start.line], start.col + 1, end.col)>>
    ELSE <<After(b.lines[start.line], start.col), Before(b.lines[end.line], end.col)>>

RegionText(b, start, end) ==
    IF start.line = end.line
    THEN <<SubSeq(b.lines[start.line], start.col + 1, end.col)>>
    ELSE <<After(b.lines[start.line], start.col)>>
         \o SubSeq(b.lines, start.line + 1, end.line - 1)
         \o <<Before(b.lines[end.line], end.col)>>

CutRegion(b, start, end) ==
    Edited(Spliced(b.lines, start.line, end.line,
                   <<Before(b.lines[start.line], start.col)
                     \o After(b.lines[end.line], end.col)>>),
           start.line, start.col)

\* The text t spliced in at the cursor, the cursor behind it.
PasteRegion(b, t) ==
    LET before == Before(Cur(b), b.col)
        after == After(Cur(b), b.col)
        n == Len(t)
    IN  IF t = <<Empty>> THEN b
        ELSE IF n = 1
        THEN ReplaceLine(b, before \o t[1] \o after, b.col + Len(t[1]))
        ELSE Edited(Spliced(b.lines, b.line, b.line,
                            <<before \o t[1]>> \o SubSeq(t, 2, n - 1) \o <<t[n] \o after>>),
                    b.line + n - 1, Len(t[n]))

\* Mutant of CutLine: the cursor stays on the number of the line that went.
CutLineUnclamped(b) ==
    IF Len(b.lines) = 1 THEN Edited(<<Empty>>, 1, 0)
    ELSE Edited(Spliced(b.lines, b.line, b.line, << >>), b.line, 0)

\* The line at the cursor goes; the last line left is emptied instead.
CutLine(b) ==
    LET n == Len(b.lines)
    IN  IF n = 1 THEN Edited(<<Empty>>, 1, 0)
        ELSE Edited(Spliced(b.lines, b.line, b.line, << >>), Lesser(b.line, n - 1), 0)

\* Mutant of PasteLine: below the cursor's line.
PasteLineBelow(b, t) ==
    Edited(Spliced(b.lines, b.line + 1, b.line, t), b.line + 1, 0)

\* The lines of t go in above the cursor's line.
PasteLine(b, t) ==
    Edited(Spliced(b.lines, b.line, b.line - 1, t), b.line, 0)

-----------------------------------------------------------------------------
(* search.rs                                                               *)

MatchAt(s, col, term) ==
    col + Len(term) <= Len(s) /\ SubSeq(s, col + 1, col + Len(term)) = term

\* str::find: the first match within columns lo to hi of s, or -1.
FindIn(s, lo, hi, term) ==
    LET hits == {c \in lo..hi - Len(term) : MatchAt(s, c, term)}
    IN  IF hits = {} THEN -1 ELSE CHOOSE c \in hits : \A d \in hits : c <= d

\* Line 0 is no line: nothing was found.
Found(p) == p.line > 0

\* The first match on lines `from` to `to`, within columns lo[l] to hi[l] of line l.
FirstHit(lines, term, from, to, lo, hi) ==
    LET at(l) == FindIn(lines[l], lo[l], hi[l], term)
        on == {l \in from..to : at(l) >= 0}
        l1 == CHOOSE l \in on : \A k \in on : l <= k
    IN  IF on = {} THEN Position(0, 0) ELSE Position(l1, at(l1))

\* Mutant of Find: the second part leaves out the line the cursor is on.
FindToLineAbove(b, term) ==
    LET start == [l \in DOMAIN b.lines |-> 0]
        end == [l \in DOMAIN b.lines |-> Len(b.lines[l])]
        onward == FirstHit(b.lines, term, b.line, Len(b.lines),
                           [start EXCEPT ![b.line] = b.col], end)
    IN  IF onward.line > 0 THEN onward
        ELSE FirstHit(b.lines, term, 1, b.line - 1, start, end)

\* From the cursor to the end, then from the start to the cursor; term is not empty.
Find(b, term) ==
    LET start == [l \in DOMAIN b.lines |-> 0]
        end == [l \in DOMAIN b.lines |-> Len(b.lines[l])]
        onward == FirstHit(b.lines, term, b.line, Len(b.lines),
                           [start EXCEPT ![b.line] = b.col], end)
    IN  IF onward.line > 0 THEN onward
        ELSE FirstHit(b.lines, term, 1, b.line, start, [end EXCEPT ![b.line] = b.col])

=============================================================================
