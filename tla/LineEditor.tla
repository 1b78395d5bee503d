----------------------------- MODULE LineEditor -----------------------------
(***************************************************************************)
(* The text of the line being typed and the shell's history: the pure part *)
(* of the line discipline (keyboard/line.rs, keyboard/history.rs).         *)
(*                                                                         *)
(* A line is a sequence of characters with a cursor between two of them;   *)
(* the code's byte offsets are always on a character boundary and are      *)
(* counted in characters here.  Of a character only its class matters.     *)
(* Keys with the same effect are one key: Backspace is also Ctrl+H at the  *)
(* prompt, Left is Ctrl+B, Home is Ctrl+A, Up is Ctrl+P, and so on.        *)
(***************************************************************************)
EXTENDS Integers, Sequences, FiniteSetsExt

CONSTANTS
    Word,               \* letters and digits
    Punctuation,        \* neither these nor blanks
    Blank,              \* whitespace
    HistoryCapacity     \* CAPACITY of the history

ASSUME EditorAssumption ==
    /\ Word \cap Punctuation = {} /\ Word \cap Blank = {}
    /\ Punctuation \cap Blank = {}
    /\ HistoryCapacity \in Nat \ {0}

Chars == Word \cup Punctuation \cup Blank

(***************************************************************************)
(* LineBuffer.                                                             *)
(***************************************************************************)
Buffers == {b \in [text: Seq(Chars), cursor: Nat] : b.cursor <= Len(b.text)}
EmptyLine == [text |-> <<>>, cursor |-> 0]

\* LineBuffer::set: the whole line, the cursor at its end.
Whole(text) == [text |-> text, cursor |-> Len(text)]

Insert(b, c) ==
    [text |-> SubSeq(b.text, 1, b.cursor) \o <<c>>
                  \o SubSeq(b.text, b.cursor + 1, Len(b.text)),
     cursor |-> b.cursor + 1]

\* Mutant of Cut: the cursor stays where it was.
CutKeepingCursor(b, from, to) ==
    [text |-> SubSeq(b.text, 1, from) \o SubSeq(b.text, to + 1, Len(b.text)),
     cursor |-> b.cursor]
\* The characters after place from, up to place to, go; the cursor is there.
Cut(b, from, to) ==
    [text |-> SubSeq(b.text, 1, from) \o SubSeq(b.text, to + 1, Len(b.text)),
     cursor |-> from]

\* back_while and forward_while: past the characters of a class.
SkipBack(text, from, class) ==
    Min({i \in 0 .. from : \A j \in (i + 1) .. from : text[j] \in class})
SkipForward(text, from, class) ==
    Max({i \in from .. Len(text) :
            \A j \in (from + 1) .. i : text[j] \in class})

CursorKeys == {"Left", "Right", "Home", "End", "WordLeft", "WordRight"}
CutKeys == {"Backspace", "Delete", "KillToStart", "KillToEnd", "KillWordBack"}

\* Mutant of PromptKeys: only the plain arrows are kept out.
ArrowKeysOnly == {"Left", "Right"}
\* The keys that mean nothing in Mode::Canonical.
PromptKeys == CursorKeys \cup {"Delete", "KillToEnd"}

\* Where a cursor key goes.
Goal(key, b) ==
    LET t == b.text
        c == b.cursor
    IN  CASE key = "Left" -> IF c = 0 THEN 0 ELSE c - 1
          [] key = "Right" -> IF c = Len(t) THEN c ELSE c + 1
          [] key = "Home" -> 0
          [] key = "End" -> Len(t)
          [] key = "WordLeft" ->
                 SkipBack(t, SkipBack(t, c, Chars \ Word), Word)
          [] key = "WordRight" ->
                 SkipForward(t, SkipForward(t, c, Chars \ Word), Word)

\* Where what a deleting key removes begins and ends.
CutFrom(key, b) ==
    CASE key = "Backspace" -> IF b.cursor = 0 THEN 0 ELSE b.cursor - 1
      [] key = "KillToStart" -> 0
      [] key = "KillWordBack" ->
             SkipBack(b.text, SkipBack(b.text, b.cursor, Blank), Chars \ Blank)
      [] OTHER -> b.cursor
CutTo(key, b) ==
    CASE key = "Delete" ->
             IF b.cursor = Len(b.text) THEN b.cursor ELSE b.cursor + 1
      [] key = "KillToEnd" -> Len(b.text)
      [] OTHER -> b.cursor

\* LineBuffer::feed, for the keys that do not finish the line.  A key that
\* does nothing leaves the buffer as it is.
Feed(key, b, mode) ==
    IF mode = "Canonical" /\ key \in PromptKeys THEN b
    ELSE IF key \in CursorKeys THEN [b EXCEPT !.cursor = Goal(key, b)]
    ELSE IF key \in CutKeys THEN Cut(b, CutFrom(key, b), CutTo(key, b))
    ELSE Insert(b, key)

\* Mutant of AfterTake: the text is copied out and not taken.
TakenNothing(b) == b
\* LineBuffer::take: what is left of a line that was finished.
AfterTake(b) == EmptyLine

(***************************************************************************)
(* History: its lines, the place shown while browsing (0: none) and the    *)
(* line that was being typed when browsing began.                          *)
(***************************************************************************)
Histories == [lines: Seq(Seq(Chars)), at: Nat, pending: Seq(Chars)]
NoHistory == [lines |-> <<>>, at |-> 0, pending |-> <<>>]

\* Mutant of WithRoom: the newest line makes room.
DropsNewest(lines) ==
    IF Len(lines) < HistoryCapacity THEN lines
    ELSE SubSeq(lines, 1, Len(lines) - 1)
\* The lines without the oldest, if there is no room for one more.
WithRoom(lines) == IF Len(lines) < HistoryCapacity THEN lines ELSE Tail(lines)

Record(h, line) ==
    IF \/ line = <<>>
       \/ h.lines # <<>> /\ h.lines[Len(h.lines)] = line
    THEN h
    ELSE [h EXCEPT !.lines = Append(WithRoom(@), line)]

ResetRecall(h) == [h EXCEPT !.at = 0]

CanRecall(key, h) ==
    \/ key = "Up" /\ h.lines # <<>> /\ h.at # 1
    \/ key = "Down" /\ h.at # 0

\* Mutant of RecallPrev: every step back saves the line shown.
PrevSavesAlways(h, current) ==
    [h EXCEPT !.at = IF @ = 0 THEN Len(h.lines) ELSE @ - 1,
              !.pending = current]
\* Only the first step back saves the line.
RecallPrev(h, current) ==
    [h EXCEPT !.at = IF @ = 0 THEN Len(h.lines) ELSE @ - 1,
              !.pending = IF h.at = 0 THEN current ELSE @]

\* Past the newest line is the pending one.
RecallNext(h) ==
    [h EXCEPT !.at = IF @ >= Len(h.lines) THEN 0 ELSE @ + 1]

Recalled(h) == IF h.at = 0 THEN h.pending ELSE h.lines[h.at]
=============================================================================
