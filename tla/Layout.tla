------------------------------- MODULE Layout -------------------------------
(***************************************************************************)
(* The editor's soft wrap and scrolling as operators: layout.rs (a line as *)
(* screen rows, offsets and cells), scroll.rs (the view's top), render.rs  *)
(* (a row as cells) and the widths of width.rs.                            *)
(*                                                                         *)
(* An offset into a line is a number of characters; a row [start, end)     *)
(* holds the characters start+1 to end.  Rows of a line are numbered from  *)
(* 1, screen columns from 0.                                               *)
(***************************************************************************)
EXTENDS TextBuffer

CONSTANTS
    Wide,           \* characters two columns wide
    Zero,           \* characters that take no column
    Tab, Space,     \* the tab, and the blank a cell is filled with
    TabSize

ASSUME LayoutAssumption ==
    /\ Wide \subseteq Char /\ Zero \subseteq Char /\ Wide \cap Zero = {}
    /\ Tab \in Char \ (Wide \cup Zero)
    /\ TabSize \in Nat \ {0}
    /\ Space \notin Wide \cup Zero

Greater(m, n) == IF m >= n THEN m ELSE n
CellWidth(c) == IF c \in Zero THEN 0 ELSE IF c \in Wide THEN 2 ELSE 1

\* A tab reaches the next multiple of TabSize.
WidthAt(c, col) == IF c = Tab THEN TabSize - (col % TabSize) ELSE CellWidth(c)

-----------------------------------------------------------------------------
(* layout.rs                                                               *)

Row(start, end) == [start |-> start, end |-> end]

\* Mutant of Placed: a character goes on the row as long as any column of it is free.
PlacedHalf(acc, s, i, width) ==
    LET w == Lesser(WidthAt(s[i], acc.col), width)
    IN  IF acc.col >= width
        THEN [rows |-> Append(acc.rows, Row(acc.start, i - 1)), start |-> i - 1,
              col |-> Lesser(WidthAt(s[i], 0), width)]
        ELSE [acc EXCEPT !.col = Lesser(@ + w, width)]

\* One more character: on the row being filled, or it starts the next one.
Placed(acc, s, i, width) ==
    LET w == Lesser(WidthAt(s[i], acc.col), width)
    IN  IF acc.col + w > width
        THEN [rows |-> Append(acc.rows, Row(acc.start, i - 1)), start |-> i - 1,
              col |-> Lesser(WidthAt(s[i], 0), width)]
        ELSE [acc EXCEPT !.col = @ + w]

\* A full last row is followed by an empty one, for the position after the text.
Ended(acc, len, width) ==
    acc.rows \o <<Row(acc.start, len)>>
             \o IF acc.col = width THEN <<Row(len, len)>> ELSE << >>

WrapLine(s, width) ==
    LET w == Greater(width, 1)
        at[i \in 0..Len(s)] == IF i = 0 THEN [rows |-> << >>, start |-> 0, col |-> 0]
                               ELSE Placed(at[i - 1], s, i, w)
    IN  Ended(at[Len(s)], Len(s), w)

\* The same walk again, counting.
Counted(acc, c, width) ==
    LET w == Lesser(WidthAt(c, acc.col), width)
    IN  IF acc.col + w > width
        THEN [rows |-> acc.rows + 1, col |-> Lesser(WidthAt(c, 0), width)]
        ELSE [acc EXCEPT !.col = @ + w]
CountEnded(acc, width) == IF acc.col = width THEN acc.rows + 1 ELSE acc.rows

RowCount(s, width) ==
    LET w == Greater(width, 1)
        at[i \in 0..Len(s)] == IF i = 0 THEN [rows |-> 1, col |-> 0]
                               ELSE Counted(at[i - 1], s[i], w)
    IN  CountEnded(at[Len(s)], w)

\* Mutant of ColumnAfter: a tab counts as one column.
ColumnAfterPlain(c, col) == col + CellWidth(c)
ColumnAfter(c, col) == col + WidthAt(c, col)

\* The width of the characters from offset `from` to offset `to` of a row that starts at `from`.
ColumnAt(s, from, to) ==
    LET col[o \in from..Len(s)] == IF o = from THEN 0 ELSE ColumnAfter(s[o], col[o - 1])
    IN  col[to]

\* A row boundary belongs to the row that starts there.
RowAt(rows, offset) ==
    CHOOSE r \in DOMAIN rows :
        rows[r].start <= offset /\ (offset < rows[r].end \/ r = Len(rows))
CellOnRow(rows, r, s, offset) == [row |-> r, col |-> ColumnAt(s, rows[r].start, offset)]
CellAmong(rows, s, offset) == CellOnRow(rows, RowAt(rows, offset), s, offset)

PositionToCell(s, offset, width) == CellAmong(WrapLine(s, width), s, offset)

RowOrLast(rows, row) == rows[Lesser(row, Len(rows))]
FirstOf(offsets, otherwise) ==
    IF offsets = {} THEN otherwise ELSE CHOOSE o \in offsets : \A p \in offsets : o <= p

\* Mutant of CellToPosition: a column inside a glyph is the position after it.
PastGlyph(r, s, col) ==
    FirstOf({o \in r.start..r.end - 1 : ColumnAt(s, r.start, o) >= col}, r.end)
CellPastGlyph(s, row, col, width) ==
    PastGlyph(RowOrLast(WrapLine(s, width), row), s, col)

\* The last offset on the row that is not past the column, and never the middle of a glyph.
OffsetOnRow(r, s, col) ==
    FirstOf({o \in r.start..r.end - 1 : ColumnAt(s, r.start, o + 1) > col}, r.end)
CellToPosition(s, row, col, width) ==
    OffsetOnRow(RowOrLast(WrapLine(s, width), row), s, col)

-----------------------------------------------------------------------------
(* scroll.rs: a top is a line and the number of its rows above the view    *)

Top(line, sub) == [line |-> line, sub |-> sub]
CursorCell(b, width) == PositionToCell(Cur(b), b.col, width)

\* The rows of the lines from `from` to `to`, of none if `to` is before `from`.
RowsOf(b, from, to, width) ==
    LET rows[l \in from - 1..Len(b.lines)] ==
            IF l = from - 1 THEN 0 ELSE rows[l - 1] + RowCount(b.lines[l], width)
    IN  rows[to]

\* Mutant of TallSub: the subtraction is not a saturating one.
TallSubUnclamped(b, top, height, row) ==
    IF top.line = b.line /\ row - 1 < top.sub THEN row - 1
    ELSE IF top.line = b.line /\ row - 1 < top.sub + height THEN top.sub
    ELSE row - height

\* A line taller than the view: how many of its rows are above it.
TallSub(b, top, height, row) ==
    IF top.line = b.line /\ row - 1 < top.sub THEN row - 1
    ELSE IF top.line = b.line /\ row - 1 < top.sub + height THEN top.sub
    ELSE Greater(row - height, 0)

Enough(b, lines, height, width) ==
    LET row == CursorCell(b, width).row
        enough == {l \in lines : l = b.line \/ RowsOf(b, l, b.line - 1, width) + row <= height}
    IN  CHOOSE l \in enough : \A k \in enough : l <= k

\* Mutant of FirstLine: as far up as there is room for.
FirstLineAnywhere(b, top, height, width) == Enough(b, 1..b.line, height, width)

\* The first line, from the top on, below which there is room for the cursor's row.
FirstLine(b, top, height, width) == Enough(b, top.line..b.line, height, width)

\* Mutant of ScrollToCursor: no line is taller than the view.
ScrollByLines(b, top, height, width) ==
    Top(IF b.line < top.line THEN b.line ELSE FirstLine(b, top, height, width), 0)

\* Mutant of ScrollToCursor: the rows above the view are left above it.
ScrollKeepingSub(b, top, height, width) ==
    IF RowCount(Cur(b), width) > height
    THEN Top(b.line, TallSub(b, top, height, CursorCell(b, width).row))
    ELSE IF b.line < top.line THEN Top(b.line, 0)
    ELSE [top EXCEPT !.line = FirstLine(b, top, height, width)]

ScrollToCursor(b, top, height, width) ==
    IF RowCount(Cur(b), width) > height
    THEN Top(b.line, TallSub(b, top, height, CursorCell(b, width).row))
    ELSE IF b.line < top.line THEN Top(b.line, 0)
    ELSE Top(FirstLine(b, top, height, width), 0)

\* Back from the line while no more than half a screen of rows is above it.
CenterOn(b, line, height, width) ==
    LET near == {l \in 1..line : RowsOf(b, l, line - 1, width) <= height \div 2}
    IN  Top(CHOOSE l \in near : \A k \in near : l <= k, 0)

VisibleRows(b, top, height, width) ==
    LET rows(l) == LET all == WrapLine(b.lines[l], width)
                   IN  SubSeq(all, IF l = top.line THEN top.sub + 1 ELSE 1, Len(all))
        tagged(l) == [r \in 1..Len(rows(l)) |-> [line |-> l, row |-> rows(l)[r]]]
        all == FlattenSeq([k \in 1..Len(b.lines) - top.line + 1 |-> tagged(top.line + k - 1)])
    IN  SubSeq(all, 1, Lesser(height, Len(all)))

\* One row up or down, towards the preferred column; NoRow at the first and the last row.
NoRow == [line |-> 0, row |-> 0]
TargetRow(b, up, width) ==
    LET row == CursorCell(b, width).row
    IN  IF up
        THEN IF row > 1 THEN [line |-> b.line, row |-> row - 1]
             ELSE IF b.line > 1
             THEN [line |-> b.line - 1, row |-> RowCount(b.lines[b.line - 1], width)]
             ELSE NoRow
        ELSE IF row < RowCount(Cur(b), width) THEN [line |-> b.line, row |-> row + 1]
             ELSE IF b.line < Len(b.lines) THEN [line |-> b.line + 1, row |-> 1] ELSE NoRow

MoveVertical(b, up, want, width) ==
    LET to == TargetRow(b, up, width)
    IN  IF to = NoRow THEN b
        ELSE SetCursor(b, to.line, CellToPosition(b.lines[to.line], to.row, want, width))

-----------------------------------------------------------------------------
(* render.rs                                                               *)

Spaces(n) == [i \in 1..n |-> Space]

\* The cells of a row with one more character, as far as there are columns.
DrawnAfter(c, cells, cols) ==
    LET w == Lesser(WidthAt(c, Len(cells)), cols - Len(cells))
    IN  IF w = 0 THEN cells
        ELSE Append(cells, IF c = Tab THEN Space ELSE c) \o Spaces(w - 1)

\* The row as exactly `cols` cells: a tab is blanks, a wide character has one after it.
RenderRow(s, row, cols) ==
    LET cells[o \in row.start..row.end] ==
            IF o = row.start THEN << >> ELSE DrawnAfter(s[o], cells[o - 1], cols)
    IN  cells[row.end] \o Spaces(cols - Len(cells[row.end]))

\* Mutant of RegionColumns: the end of the region is not cut at the end of the row.
RegionPastRow(s, row, line, start, end) ==
    LET from == IF line = start.line THEN Greater(start.col, row.start) ELSE row.start
        to == IF line = end.line THEN end.col ELSE row.end
    IN  IF line < start.line \/ line > end.line \/ from >= to THEN {}
        ELSE ColumnAt(s, row.start, from)..ColumnAt(s, row.start, to) - 1

\* The columns of the row inside the region, as a set.
RegionColumns(s, row, line, start, end) ==
    LET from == IF line = start.line THEN Greater(start.col, row.start) ELSE row.start
        to == IF line = end.line THEN Lesser(end.col, row.end) ELSE row.end
    IN  IF line < start.line \/ line > end.line \/ from >= to THEN {}
        ELSE ColumnAt(s, row.start, from)..ColumnAt(s, row.start, to) - 1
=============================================================================
