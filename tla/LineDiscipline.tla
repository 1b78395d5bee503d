--------------------------- MODULE LineDiscipline ---------------------------
(***************************************************************************)
(* The line discipline of the one console (keyboard/line_discipline.rs)    *)
(* and its two users: the shell's loop at its prompt (shell/mod.rs), and a *)
(* program's read(0) (keyboard/stdin.rs), which hands out a finished line  *)
(* in as many pieces as the program's buffers are small.                   *)
(*                                                                         *)
(* The screen is a grid of Rows by Cols cells.  What is kept of it is what *)
(* the line discipline relies on: the console's own cursor, which cells    *)
(* are drawn inverted, and which rows show the line being typed.  Typed    *)
(* characters take one cell (only ASCII can be typed); of a prompt its     *)
(* width in cells is kept.                                                 *)
(***************************************************************************)
EXTENDS LineEditor

CONSTANTS
    Rows, Cols,         \* the console, in cells
    Prompts,            \* widths of the prompts $PS1 and the directory give
    Newline,
    MaxBuffer,          \* bound: the largest buffer a program reads into
    MaxEntered          \* bound: lines entered at the prompt

ASSUME ConsoleAssumption ==
    /\ Rows \in Nat /\ Rows >= 2 /\ Cols \in Nat /\ Cols >= 2
    /\ Prompts \subseteq Nat \ {0} /\ Prompts # {}
    /\ Newline \notin Chars
    /\ MaxBuffer \in Nat \ {0} /\ MaxEntered \in Nat

VARIABLES
    stage,      \* who runs: "prompt" and "read" wait for keys
    mode,       \* LineDiscipline's mode,
    prefix,     \* the width of its prefix,
    buffer,     \* its line,
    row,        \* the row the line starts on,
    height,     \* how many rows it took when last drawn,
    history,    \* and its history
    screen,     \* the console
    prompt,     \* the width the next prompt will have
    pending,    \* PENDING and PENDING_POS
    entered,    \* the lines entered at the prompt, in order
    draft,      \* the line that was being typed when browsing began
    owed,       \* what was typed for this program and it has not read
    outgrown    \* whether a line was ever drawn that leaves no row free

drawnVars == <<row, height, screen, outgrown>>
stdinVars == <<pending, owed>>
vars == <<stage, mode, prefix, buffer, row, height, history, screen, prompt,
          pending, entered, draft, owed, outgrown>>

Waiting == stage \in {"prompt", "read"}
Cells == (0 .. Rows - 1) \X (0 .. Cols - 1)

(***************************************************************************)
(* The console: Cursor of console/cells.rs and what is drawn where.        *)
(***************************************************************************)
Screens == [row: 0 .. Rows - 1, col: 0 .. Cols - 1, wrap: BOOLEAN,
            inverted: SUBSET Cells, ink: SUBSET (0 .. Rows - 1)]

ScrollUp(s, n) ==
    [s EXCEPT !.inverted = {<<c[1] - n, c[2]>> : c \in {d \in @ : d[1] >= n}},
              !.ink = {r - n : r \in {q \in @ : q >= n}}]

MoveCursor(s, r, c) == [s EXCEPT !.row = r, !.col = c, !.wrap = FALSE]

LineFeed(s) ==
    IF s.row >= Rows - 1 THEN MoveCursor(ScrollUp(s, 1), s.row, 0)
    ELSE MoveCursor(s, s.row + 1, 0)

\* n one-cell glyphs written at the cursor.  A glyph in the last column
\* leaves the wrap pending: it happens when the next glyph arrives.
Write(s, n) ==
    LET first == s.row * Cols + s.col + IF s.wrap THEN 1 ELSE 0
        end == first + n
        scrolled == Max({0, (end - 1) \div Cols - (Rows - 1)})
        full == end % Cols = 0
    IN  IF n = 0 THEN s
        ELSE [ScrollUp(s, scrolled) EXCEPT
                  !.row = (end - 1) \div Cols - scrolled,
                  !.col = IF full THEN Cols - 1 ELSE end % Cols,
                  !.wrap = full,
                  !.inverted = @ \ {<<p \div Cols - scrolled, p % Cols>> :
                                        p \in first .. end - 1}]

ClearRows(s, rows) ==
    [s EXCEPT !.inverted = {c \in @ : c[1] \notin rows}, !.ink = @ \ rows]

(***************************************************************************)
(* The layout of a line: console/input_layout.rs.                          *)
(***************************************************************************)
RowsNeeded(p, text) ==
    IF p + Len(text) = 0 THEN 1 ELSE (p + Len(text) - 1) \div Cols + 1

\* Mutant of FitsOnScreen: the line may take every row.
FitsExactly(p, text) == RowsNeeded(p, text) <= Rows
\* One row of the screen stays free.
FitsOnScreen(p, text) == RowsNeeded(p, text) < Rows

\* Mutant of CursorPosition: after a full row always on the next.
CursorAfterWrap(p, b) ==
    <<(p + b.cursor) \div Cols, (p + b.cursor) % Cols>>
\* Where the cursor is drawn, from the line's first row.  After a full row
\* it is at the start of the next only if a character is there.
CursorPosition(p, b) ==
    LET before == p + b.cursor
    IN  IF before > 0 /\ before % Cols = 0 /\ b.cursor = Len(b.text)
        THEN <<before \div Cols - 1, Cols - 1>>
        ELSE <<before \div Cols, before % Cols>>

CursorCell(first, p, b) ==
    <<first + CursorPosition(p, b)[1], CursorPosition(p, b)[2]>>

Inverted(s, cell) == [s EXCEPT !.inverted = @ \cup {cell}]
Plain(s, cell) == [s EXCEPT !.inverted = @ \ {cell}]

(***************************************************************************)
(* LineDiscipline::begin and redraw.                                       *)
(***************************************************************************)
\* Mutant of ClearedRows: the rows of a longer line before are not cleared.
RowsItWillTake(first, old, new) ==
    {r \in 0 .. Rows - 1 : first <= r /\ r < first + new}
\* The rows a redraw clears: those the line took and those it will take.
ClearedRows(first, old, new) ==
    {r \in 0 .. Rows - 1 : first <= r /\ r < first + Max({old, new})}

\* redraw, from row first, where the line took old rows before.  move_cursor
\* asserts that the row is there: if not, the kernel stops.
Redraw(s, first, old, p, b) ==
    LET needed == RowsNeeded(p, b.text)
        cleared == ClearRows(s, ClearedRows(first, old, needed))
        written == Write(MoveCursor(cleared, first, 0), p + Len(b.text))
        top == written.row + 1 - needed
    IN  /\ first >= 0
        /\ screen' = [Inverted(written, CursorCell(top, p, b)) EXCEPT
                          !.ink = @ \cup {r \in 0 .. Rows - 1 :
                                            top <= r /\ r < top + needed}]
        /\ row' = top
        /\ height' = needed
        /\ outgrown' = (outgrown \/ needed >= Rows)

\* begin and the redraw both callers do at once.  The buffer is not cleared:
\* whoever finished the last line has done it.
StartLine(p, m) ==
    LET s == IF screen.col # 0 THEN LineFeed(screen) ELSE screen
    IN  /\ prefix' = p
        /\ mode' = m
        /\ history' = ResetRecall(history)
        /\ Redraw([s EXCEPT !.ink = {}], s.row, 1, p, buffer)

\* The line on the screen is finished with: its cursor is drawn plain.
\* ink is only about a line being typed.
LeaveLine == [Plain(screen, CursorCell(row, prefix, buffer)) EXCEPT !.ink = {}]

Init ==
    /\ stage = "busy" /\ mode = "Prompt" /\ prefix = 0
    /\ buffer = EmptyLine /\ row = 0 /\ height = 1 /\ history = NoHistory
    /\ screen = [row |-> 0, col |-> 0, wrap |-> FALSE,
                 inverted |-> {}, ink |-> {}]
    /\ prompt \in Prompts
    /\ pending = [line |-> <<>>, pos |-> 0]
    /\ entered = <<>> /\ draft = <<>> /\ owed = <<>>
    /\ outgrown = FALSE

(***************************************************************************)
(* handle, one key at a time.  Keys that do nothing are not steps.         *)
(***************************************************************************)
\* A key that changes the text.  A line that would outgrow the screen is
\* taken back by removing the character before the cursor.
Edit(key) ==
    LET next == Feed(key, buffer, mode)
        fits == FitsOnScreen(prefix, next.text)
    IN  /\ Waiting
        /\ next.text # buffer.text
        /\ buffer' = IF fits THEN next ELSE Feed("Backspace", next, mode)
        /\ IF fits THEN Redraw(screen, row, height, prefix, next)
                   ELSE UNCHANGED drawnVars
        /\ UNCHANGED <<stage, mode, prefix, history, prompt, stdinVars,
                       entered, draft>>

\* A key that only moves the cursor: two cells are redrawn, which put_char_at
\* asserts are there.
Move(key) ==
    /\ Waiting
    /\ buffer' = Feed(key, buffer, mode)
    /\ buffer' # buffer
    /\ CursorCell(row, prefix, buffer') \in Cells
    /\ screen' = Inverted(Plain(screen, CursorCell(row, prefix, buffer)),
                          CursorCell(row, prefix, buffer'))
    /\ UNCHANGED <<stage, mode, prefix, row, height, outgrown, history, prompt,
                   stdinVars, entered, draft>>

Recall(key) ==
    /\ Waiting /\ mode = "Prompt" /\ CanRecall(key, history)
    /\ history' = IF key = "Up" THEN RecallPrev(history, buffer.text)
                                ELSE RecallNext(history)
    /\ buffer' = Whole(Recalled(history'))
    /\ Redraw(screen, row, height, prefix, buffer')
    /\ draft' = IF history'.at = 0 THEN <<>>
                ELSE IF history.at = 0 THEN buffer.text ELSE draft
    /\ UNCHANGED <<stage, mode, prefix, prompt, stdinVars, entered>>

\* Enter at the prompt: the line is recorded and the shell runs it.
EnterCommand ==
    /\ stage = "prompt"
    /\ Len(entered) < MaxEntered
    /\ buffer' = AfterTake(buffer)
    /\ screen' = LineFeed(LeaveLine)
    /\ history' = ResetRecall(Record(history, buffer.text))
    /\ entered' = Append(entered, buffer.text)
    /\ draft' = <<>>
    /\ stage' = "busy"
    /\ UNCHANGED <<mode, prefix, row, height, outgrown, prompt, stdinVars>>

(***************************************************************************)
(* read(0).                                                                *)
(***************************************************************************)
\* Mutant of AfterRead: the place is not moved.
ReadWithoutMoving(p, size) == p
\* A line and its place after a read into a buffer of size bytes.
AfterRead(p, size) ==
    [p EXCEPT !.pos = @ + Min({size, Len(p.line) - @})]

\* The rest of the line goes to the program, as far as its buffer allows;
\* stream is what it is owed before that.
Hand(p, stream) ==
    \E size \in 1 .. MaxBuffer :
        /\ pending' = AfterRead(p, size)
        /\ owed' = SubSeq(stream, Min({size, Len(p.line) - p.pos}) + 1,
                          Len(stream))

ReadRest ==
    /\ stage = "program"
    /\ pending.pos < Len(pending.line)
    /\ Hand(pending, owed)
    /\ UNCHANGED <<stage, mode, prefix, buffer, drawnVars, history, prompt,
                   entered, draft>>

\* Nothing is left of the last line: read_line waits for another.
ReadLine ==
    /\ stage = "program"
    /\ pending.pos >= Len(pending.line)
    /\ stage' = "read"
    /\ StartLine(0, "Canonical")
    /\ UNCHANGED <<buffer, prompt, stdinVars, entered, draft>>

\* A line finishes a blocking read, which copies the first of it at once.
FinishRead(line) ==
    /\ stage = "read"
    /\ stage' = "program"
    /\ buffer' = AfterTake(buffer)
    /\ Hand([line |-> line, pos |-> 0], owed \o line)
    /\ UNCHANGED <<mode, prefix, row, height, outgrown, history, prompt, entered,
                   draft>>

EnterLine ==
    /\ FinishRead(Append(buffer.text, Newline))
    /\ screen' = LineFeed(LeaveLine)

\* Ctrl+D on a line with something on it: no newline, to the program or on
\* the console.
PartialLine ==
    /\ buffer.text # <<>>
    /\ FinishRead(buffer.text)
    /\ screen' = LeaveLine

\* Ctrl+D on an empty line: read returns 0.
EndOfFile ==
    /\ stage = "read" /\ buffer.text = <<>>
    /\ stage' = "program"
    /\ screen' = LeaveLine
    /\ UNCHANGED <<mode, prefix, buffer, row, height, outgrown, history, prompt,
                   stdinVars, entered, draft>>

(***************************************************************************)
(* The shell and its programs between two lines.                           *)
(***************************************************************************)
StartPrompt ==
    /\ stage = "busy"
    /\ stage' = "prompt"
    /\ StartLine(prompt, "Prompt")
    /\ UNCHANGED <<buffer, prompt, stdinVars, entered, draft>>

\* cd, PS1=...
ChangePrompt ==
    /\ stage = "busy"
    /\ prompt' \in Prompts \ {prompt}
    /\ UNCHANGED <<stage, mode, prefix, buffer, drawnVars, history, stdinVars,
                   entered, draft>>

\* Mutant of Forgotten: a launch keeps the rest of the last line.
KeepPending(p) == p
\* stdin::reset.
Forgotten(p) == [line |-> <<>>, pos |-> 0]

Launch ==
    /\ stage = "busy"
    /\ stage' = "program"
    /\ pending' = Forgotten(pending)
    /\ owed' = <<>>
    /\ UNCHANGED <<mode, prefix, buffer, drawnVars, history, prompt, entered,
                   draft>>

ProgramEnds ==
    /\ stage = "program"
    /\ stage' = "busy"
    /\ UNCHANGED <<mode, prefix, buffer, drawnVars, history, prompt, stdinVars,
                   entered, draft>>

\* The shell or a program writes: a glyph, a newline, a carriage return, or
\* it clears the screen.
Output ==
    /\ stage \in {"busy", "program"}
    /\ screen' \in {Write(screen, 1), LineFeed(screen),
                    MoveCursor(screen, screen.row, 0),
                    MoveCursor(ClearRows(screen, 0 .. Rows - 1), 0, 0)}
    /\ UNCHANGED <<stage, mode, prefix, buffer, row, height, outgrown, history,
                   prompt, stdinVars, entered, draft>>

Next ==
    \/ \E key \in Chars \cup CutKeys : Edit(key)
    \/ \E key \in CursorKeys : Move(key)
    \/ \E key \in {"Up", "Down"} : Recall(key)
    \/ EnterCommand
    \/ ReadRest \/ ReadLine \/ EnterLine \/ PartialLine \/ EndOfFile
    \/ StartPrompt \/ ChangePrompt \/ Launch \/ ProgramEnds \/ Output

Spec == Init /\ [][Next]_vars

(***************************************************************************)
(* Properties.                                                             *)
(***************************************************************************)
\* Every variable has its type; in particular the cursor is inside the text,
\* the place shown of the history exists, and nothing is drawn outside the
\* screen (put_char_at and clear_row assert it).
TypeOK ==
    /\ stage \in {"prompt", "busy", "program", "read"}
    /\ mode \in {"Prompt", "Canonical"}
    /\ prefix \in Prompts \cup {0}
    /\ prompt \in Prompts
    /\ buffer \in Buffers
    /\ row \in Int /\ height \in Nat \ {0}
    /\ screen \in Screens
    /\ history \in Histories /\ history.at <= Len(history.lines)
    /\ pending \in [line: Seq(Chars \cup {Newline}), pos: Nat]
    /\ entered \in Seq(Seq(Chars)) /\ draft \in Seq(Chars)
    /\ owed \in Seq(Chars \cup {Newline})
    /\ outgrown \in BOOLEAN

\* The line being typed never outgrows the screen, whatever is typed,
\* recalled or restored: line_discipline.rs promises at most rows - 1 rows.
LineFits == Waiting => RowsNeeded(prefix, buffer.text) <= Rows - 1

\* Exactly one cell of the screen is inverted while a line is typed, the one
\* the cursor is on, wherever scrolling and wrapping have put it; and none is
\* left behind when the line is finished.
OneCursorCell ==
    screen.inverted = IF Waiting THEN {CursorCell(row, prefix, buffer)} ELSE {}

\* The line is on the screen where the line discipline thinks it is: the rows
\* that show it are the height rows from row, no row of a longer line is left
\* behind, and the console's own cursor is on its last row.
LineInPlace ==
    Waiting =>
        /\ row >= 0
        /\ height = RowsNeeded(prefix, buffer.text)
        /\ screen.ink = row .. row + height - 1
        /\ screen.row = row + height - 1

\* The prompt and the lines that can be recalled under it fit on the screen;
\* after a change of prompt they may not (FirstRowInView).
RecallsFit ==
    Waiting /\ mode = "Prompt" =>
        /\ RowsNeeded(prefix, <<>>) <= Rows - 1
        /\ \A i \in DOMAIN history.lines :
               RowsNeeded(prefix, history.lines[i]) <= Rows - 1

\* The line and the screen agree, whatever was printed, scrolled or recalled
\* before: everything is drawn inside the screen; under a prompt that has not
\* outgrown the history the line fits and is where the code thinks it is; and
\* as long as no prompt ever had, there is one cursor and none is left behind.
\* (A deletion in a recalled line that stays too long takes a second character
\* and draws nothing, so Enter then makes the wrong cell plain.)
LineOnScreen ==
    /\ TypeOK
    /\ RecallsFit => LineFits /\ LineInPlace
    /\ ~outgrown => LineFits /\ LineInPlace /\ OneCursorCell

\* A program's line has its cursor at the end, which is what makes Ctrl+U
\* discard the whole line and Ctrl+D deliver all of it.
CanonicalCursorAtEnd ==
    mode = "Canonical" => buffer.cursor = Len(buffer.text)

\* Nothing of one line is there when the next begins, although begin clears
\* neither the buffer nor, but for the place shown, the history: a finished
\* line, a delivered part and an end of file all leave an empty buffer and
\* nobody browsing.
NothingLeftTyped == ~Waiting => buffer = EmptyLine /\ history.at = 0

\* The history is the last lines entered at the prompt, without the empty
\* ones and the repetitions of the line before; browsing, editing what was
\* recalled and what programs read never change it.
RecentLines(lines) ==
    LET Before(i) == {j \in 1 .. i - 1 : lines[j] # <<>>}
        kept == {i \in 1 .. Len(lines) :
                    /\ lines[i] # <<>>
                    /\ Before(i) # {} => lines[Max(Before(i))] # lines[i]}
        Nth(n) == CHOOSE i \in kept :
                      Cardinality({j \in kept : j <= i}) = n
        all == Cardinality(kept)
        first == Max({0, all - HistoryCapacity})
    IN  [n \in 1 .. all - first |-> lines[Nth(first + n)]]

HistoryIsRecent == history.lines = RecentLines(entered)

\* Coming back down from the history gives back the line that was being typed
\* when browsing began, whatever was edited on the way.
DraftComesBack ==
    [][(history.at # 0 /\ history'.at = 0 /\ stage' = "prompt")
           => buffer'.text = draft]_vars

\* What is left of the line handed out by read(0) is what was typed for this
\* program and not read yet: no byte is lost, repeated or reordered however
\* the reads are cut, and none comes from what an earlier program left.
StdinInOrder ==
    SubSeq(pending.line, pending.pos + 1, Len(pending.line)) = owed

\* The first row of the line is on the screen: input_layout.rs says that it
\* "can never scroll off the top or push its own first row out of view", and
\* move_cursor asserts it at the next redraw.
FirstRowInView == row >= 0
=============================================================================
