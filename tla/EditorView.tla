----------------------------- MODULE EditorView -----------------------------
(***************************************************************************)
(* The editor's screen: bin/edit.rs's loop as far as the view goes (edits  *)
(* and moves, the preferred column, the gutter, jumps), the frame that     *)
(* draw builds after every key, and what the kernel's CONSOLE_DRAW makes   *)
(* of it (syscall/fd.rs).  A step is one key with the scrolling that       *)
(* starts the next turn of the loop, so a state is what is on the screen.  *)
(***************************************************************************)
EXTENDS Layout

CONSTANTS
    Control,        \* control characters other than '\n', '\r' and the tab
    Typed,          \* the characters the keyboard can type
    Opened,         \* what the buffer can hold at first: nonempty sequences of lines
    Rows, Cols,     \* the console's size
    Radix,          \* 10 in the code: the line count at which the gutter widens
    Gutter,         \* whether Alt+N is pressed and .editrc may turn the gutter on
    NoColumn

ASSUME ViewAssumption ==
    /\ Control \subseteq Char \ (Wide \cup Zero \cup {Tab})
    /\ Typed \subseteq Char /\ Opened \subseteq Text
    /\ Rows \in Nat \ {0} /\ Cols \in Nat \ {0} /\ Radix \in Nat \ {0, 1}
    /\ Space \notin Control /\ Gutter \in BOOLEAN /\ NoColumn \notin Nat

VARIABLES
    buffer,
    top,            \* the view's top
    preferred,      \* preferred_col, or NoColumn
    lineNumbers     \* whether the gutter is on

viewVars == <<buffer, top, preferred, lineNumbers>>

Reserved == 2
TextHeight == Greater(Rows - Reserved, 1)

Digits(n) == Cardinality({k \in 0..n : Radix ^ k <= n})
GutterWidth(on, b) == IF on THEN Digits(Len(b.lines)) + 1 ELSE 0
TextWidth(on, b) == Greater(Cols - GutterWidth(on, b), 0)
Width == TextWidth(lineNumbers, buffer)

\* The start of every turn of the loop.
Scrolled(b, t, on) == ScrollToCursor(b, t, TextHeight, TextWidth(on, b))

ViewInit ==
    /\ \E lines \in Opened : buffer = [NewBuffer EXCEPT !.lines = lines]
    /\ lineNumbers \in IF Gutter THEN BOOLEAN ELSE {FALSE}
    /\ top = Scrolled(buffer, Top(1, 0), lineNumbers)
    /\ preferred = NoColumn

-----------------------------------------------------------------------------
(* Keys                                                                    *)

\* An edit or a move that is not up or down.
Key(b) ==
    /\ Fits(b)
    /\ buffer' = b
    /\ top' = Scrolled(b, top, lineNumbers)
    /\ preferred' = NoColumn
    /\ UNCHANGED lineNumbers

EditingKey ==
    \/ \E c \in Typed : Key(InsertChar(buffer, c))
    \/ Key(Backspace(buffer)) \/ Key(DeleteForward(buffer)) \/ Key(SplitLine(buffer, FALSE))
    \/ Key(CutLine(buffer))

MovingKey ==
    \/ Key(MoveLeft(buffer)) \/ Key(MoveRight(buffer)) \/ Key(MoveHome(buffer)) \/ Key(MoveEnd(buffer))
    \/ Key(MoveToFirstLine(buffer)) \/ Key(MoveToLastLine(buffer))

\* Up and down keep the column they started from; a key at the edge changes nothing.
Want == IF preferred = NoColumn THEN CursorCell(buffer, Width).col ELSE preferred
Vertical(b) ==
    /\ buffer' = b
    /\ top' = Scrolled(b, top, lineNumbers)
    /\ UNCHANGED lineNumbers

UpDown(up) ==
    /\ Vertical(MoveVertical(buffer, up, Want, Width))
    /\ preferred' = IF TargetRow(buffer, up, Width) = NoRow THEN preferred ELSE Want

\* A screenful, row by row: the key forgets the column first.
Paged(b, up, want, n) ==
    LET after[k \in 0..n] == IF k = 0 THEN b ELSE MoveVertical(after[k - 1], up, want, Width)
    IN  after[n]

Page(up) ==
    LET want == CursorCell(buffer, Width).col
    IN  /\ Vertical(Paged(buffer, up, want, TextHeight))
        /\ preferred' = IF TargetRow(buffer, up, Width) = NoRow THEN NoColumn ELSE want

\* Go to line, or to a match, from a prompt: the view is centred on the line first.
Places == {p \in [line : 1..Len(buffer.lines), col : 0..MaxSize] :
                p.col <= Len(buffer.lines[p.line])}
Jump ==
    \E p \in Places :
        LET b == SetCursor(buffer, p.line, p.col)
        IN  /\ buffer' = b
            /\ top' = Scrolled(b, CenterOn(b, p.line, TextHeight, Width), lineNumbers)
            /\ preferred' = NoColumn
            /\ UNCHANGED lineNumbers

\* Mutant of GutterKey: the view stays as it was.
GutterKeyUnscrolled ==
    /\ Gutter
    /\ lineNumbers' = ~lineNumbers
    /\ preferred' = NoColumn
    /\ UNCHANGED <<buffer, top>>

GutterKey ==
    /\ Gutter
    /\ lineNumbers' = ~lineNumbers
    /\ top' = Scrolled(buffer, top, lineNumbers')
    /\ preferred' = NoColumn
    /\ UNCHANGED buffer

ViewNext ==
    EditingKey \/ MovingKey \/ UpDown(TRUE) \/ UpDown(FALSE) \/ Page(TRUE) \/ Page(FALSE)
    \/ Jump \/ GutterKey

ViewSpec == ViewInit /\ [][ViewNext]_viewVars

-----------------------------------------------------------------------------
(* The frame                                                               *)

Shown == VisibleRows(buffer, top, TextHeight, Width)
CursorRow ==
    LET cell == CursorCell(buffer, Width)
        target == [line |-> buffer.line, row |-> WrapLine(Cur(buffer), Width)[cell.row]]
        on == {r \in DOMAIN Shown : Shown[r] = target}
    IN  IF on = {} THEN 0 ELSE CHOOSE r \in on : TRUE

\* The text area, the gutter's cells left out: blank below the last line.
Frame ==
    [r \in 1..TextHeight |->
        IF r <= Len(Shown) THEN RenderRow(buffer.lines[Shown[r].line], Shown[r].row, Width)
        ELSE Spaces(Width)]

\* draw_frame's first pass over one row: every cell that is drawn is a character that is
\* not a control character and has room; a wide one hides the cell after it.
CellAccepted(acc, c, n) ==
    IF acc.skip THEN [acc EXCEPT !.skip = FALSE]
    ELSE [ok |-> acc.ok /\ c \notin Control /\ n - 1 + Greater(CellWidth(c), 1) <= Width,
          skip |-> c \in Wide]
RowAccepted(cells) ==
    LET walk[n \in 0..Len(cells)] ==
            IF n = 0 THEN [ok |-> TRUE, skip |-> FALSE]
            ELSE CellAccepted(walk[n - 1], cells[n], n)
    IN  walk[Len(cells)].ok /\ Len(cells) = Width

-----------------------------------------------------------------------------
(* Properties                                                              *)

ViewTypeOK ==
    /\ buffer \in Buffers /\ CursorIn(buffer)
    /\ top \in [line : 1..Len(buffer.lines), sub : Nat]
    /\ preferred \in Nat \cup {NoColumn}
    /\ lineNumbers \in BOOLEAN

\* Whatever was edited, cut or toggled, the row the cursor is on is on the screen.
CursorVisible == CursorRow # 0

\* The view starts inside a line only while the cursor is in that line and the line is
\* taller than the screen.
TopIsALineStart ==
    top.sub > 0 => top.line = buffer.line /\ RowCount(Cur(buffer), Width) > TextHeight

\* The cell that the cursor is drawn on holds the character the next key acts on: the
\* layout that places the cursor and the renderer that fills the row agree.
CursorOnItsCharacter ==
    LET cell == Frame[CursorRow][CursorCell(buffer, Width).col + 1]
        next == Cur(buffer)[buffer.col + 1]
    IN  buffer.col < Len(Cur(buffer)) /\ next \notin Zero
            => cell = IF next = Tab THEN Space ELSE next

\* The kernel draws every frame: no row is wider or narrower than the console, no wide
\* character hangs over the edge.
FrameAccepted == \A r \in DOMAIN Frame : RowAccepted(Frame[r])

\* What every key leaves: a view with the cursor in it, no row of which is off the screen's
\* edge, and the cursor on the character that the next key acts on.
ScreenRight ==
    ViewTypeOK /\ CursorVisible /\ TopIsALineStart /\ FrameAccepted /\ CursorOnItsCharacter

\* With a mark anywhere, the cells shown inverted on a row are those of the region's
\* characters on it, each with the whole of its width.
HighlightExact ==
    LET shown == Shown
    IN  \A r \in DOMAIN shown :
        LET line == shown[r].line
            row == shown[r].row
            s == buffer.lines[line]
            at == [o \in row.start..row.end |-> ColumnAt(s, row.start, o)]
        IN  \A mark \in Places :
            LET start == StartOf(mark, Cursor(buffer))
                end == StopOf(mark, Cursor(buffer))
                inside(o) == Earlier(start, Position(line, o)) /\ ~Earlier(end, Position(line, o))
            IN  RegionColumns(s, row, line, start, end)
                = UNION {at[o]..at[o + 1] - 1 : o \in {o \in row.start..row.end - 1 : inside(o)}}

\* A row whose last column is drawn, or that ends its line.
Reaches(to, want, width) ==
    LET s == buffer.lines[to.line]
        rows == WrapLine(s, width)
    IN  to.row = Len(rows) \/ want < ColumnAt(s, rows[to.row].start, rows[to.row].end)

OwnRow(b) == [line |-> b.line, row |-> CursorCell(b, Width).row]

\* Down and then up, or up and then down, is back on the cell it started from, through
\* lines too short for the column and rows broken early by a wide character or a tab, when
\* both rows have a cell for the column or end their lines.
ThereAndBack ==
    \A up \in BOOLEAN :
        LET want == CursorCell(buffer, Width).col
            to == TargetRow(buffer, up, Width)
            there == MoveVertical(buffer, up, want, Width)
            back == MoveVertical(there, ~up, want, Width)
        IN  to # NoRow /\ Reaches(to, want, Width) /\ Reaches(OwnRow(buffer), want, Width)
            => there.line = to.line /\ CursorCell(there, Width).row = to.row
               /\ back.line = buffer.line /\ CursorCell(back, Width) = CursorCell(buffer, Width)

\* The view stays where it is as long as the row the cursor moves to was on the screen.
NoNeedlessScroll ==
    [][\/ top.sub > 0 \/ RowCount(Cur(buffer'), Width') > TextHeight
       \/ ~\E r \in DOMAIN VisibleRows(buffer', top, TextHeight, Width') :
             VisibleRows(buffer', top, TextHeight, Width')[r]
             = [line |-> buffer'.line,
                row |-> WrapLine(Cur(buffer'), Width')[CursorCell(buffer', Width').row]]
       \/ top' = top \/ Jump]_viewVars

-----------------------------------------------------------------------------
(* What the code's documentation says, and the code does not do            *)

\* scroll.rs, move_vertical: it "moves `buffer`'s cursor one screen row up (`up`) or down".
RowByRow ==
    \A up \in BOOLEAN :
        LET to == TargetRow(buffer, up, Width)
            there == MoveVertical(buffer, up, Want, Width)
        IN  to # NoRow => there.line = to.line /\ CursorCell(there, Width).row = to.row

\* layout.rs: a position never collides "with the last real row's own end column (one past
\* its last valid column)".
CursorHasAColumn == CursorCell(buffer, Width).col < Width
=============================================================================
