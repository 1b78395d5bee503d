------------------------------- MODULE Editor -------------------------------
(***************************************************************************)
(* The editor's key loop, bin/edit.rs: one action per kind of key, for     *)
(* each of the overlays that can have the keyboard, with the files it      *)
(* reads and writes.  Opening, writing or closing a file can fail at any   *)
(* save; a read can fail while the file is loaded if ReadFaults says so.   *)
(*                                                                         *)
(* Left to EditorView: where the view is, and which row a vertical move    *)
(* reaches -- here it may reach any position.  The text typed at a prompt  *)
(* is chosen when Enter ends it.                                           *)
(***************************************************************************)
EXTENDS TextBuffer

CONSTANTS
    Name,           \* file names
    Term,           \* what can be searched for: nonempty lines
    Files,          \* what a file can hold at first: texts, as their pieces
    MaxCut,         \* bound: lines in the cut buffer
    MaxSaves,       \* bound: attempts to save
    ReadFaults,     \* whether a read can fail part-way through a file
    NoMark, NoTerm, Absent

ASSUME EditorAssumption ==
    /\ Term \subseteq Line \ {Empty} /\ Files \subseteq Text
    /\ NoMark \notin [line : Nat, col : Nat]
    /\ NoTerm \notin Line /\ Absent \notin Text
    /\ MaxCut \in Nat /\ MaxSaves \in Nat

VARIABLES
    buf,            \* buffer
    filename,
    disk,           \* what each file holds, or Absent
    overlay,        \* which overlay has the keyboard
    mark,           \* the mark's position, or NoMark
    cut,            \* cut_buffer
    cutIsRegion,
    streak,         \* cut_streak: the last key was a line cut
    autoIndent,
    lastTerm,       \* last_search
    running,
    saves,          \* attempts to save so far
    torn,           \* whether a failed save of an unmodified buffer hit its file
    origin          \* before the run of line cuts: its lines, and whether it took the last

vars == <<buf, filename, disk, overlay, mark, cut, cutIsRegion, streak, autoIndent,
          lastTerm, running, saves, torn, origin>>

Overlays == {"none", "saveas", "search", "goto", "confirm", "help"}
NoOrigin == [lines |-> <<Empty>>, tookLast |-> FALSE]

\* The lines of a file, as the editor would show them.
LinesOf(t) == IF t = Absent THEN NewBuffer.lines ELSE FromText(t).lines

\* What a text can be cut short to.
CutShort(t) ==
    UNION {{Append(SubSeq(t, 1, k - 1), Before(t[k], j)) : j \in 0..Len(t[k])} :
           k \in 1..Len(t)}

\* load_file: read_whole takes a failed read for the end of the file.
Loaded(t) ==
    IF t = Absent THEN {NewBuffer}
    ELSE {FromText(p) : p \in IF ReadFaults THEN CutShort(t) ELSE {t}}

Init ==
    /\ filename \in Name
    /\ disk \in [Name -> Files \cup {Absent}]
    /\ buf \in Loaded(disk[filename])
    /\ autoIndent \in BOOLEAN
    /\ overlay = "none"
    /\ mark = NoMark
    /\ cut = <<Empty>>
    /\ cutIsRegion = FALSE
    /\ streak = FALSE
    /\ lastTerm = NoTerm
    /\ running = TRUE
    /\ saves = 0
    /\ torn = FALSE
    /\ origin = NoOrigin

-----------------------------------------------------------------------------
(* Keys with no overlay: the text                                          *)

\* Any key but a line cut ends the run of cuts.
EndStreak == streak' = FALSE /\ origin' = NoOrigin
Editing == running /\ overlay = "none"

\* Mutant of Edit: a mark survives an edit.
EditKeepingMark(b) ==
    /\ Editing /\ Fits(b)
    /\ buf' = b
    /\ EndStreak
    /\ UNCHANGED <<filename, disk, overlay, mark, cut, cutIsRegion, autoIndent, lastTerm,
                   running, saves, torn>>

\* The key edits the text (or finds nothing to edit) and drops the mark.
Edit(b) ==
    /\ Editing /\ Fits(b)
    /\ buf' = b
    /\ mark' = NoMark
    /\ EndStreak
    /\ UNCHANGED <<filename, disk, overlay, cut, cutIsRegion, autoIndent, lastTerm,
                   running, saves, torn>>

Type(c) == Edit(InsertChar(buf, c))
BackspaceKey == Edit(Backspace(buf))
DeleteKey == Edit(DeleteForward(buf))
EnterKey == Edit(SplitLine(buf, autoIndent))
PasteKey == Edit(IF cutIsRegion THEN PasteRegion(buf, cut) ELSE PasteLine(buf, cut))

\* The key moves the cursor; the mark stays.
Move(b) ==
    /\ Editing
    /\ buf' = b
    /\ EndStreak
    /\ UNCHANGED <<filename, disk, overlay, mark, cut, cutIsRegion, autoIndent,
                   lastTerm, running, saves, torn>>

MoveKey ==
    \/ Move(MoveLeft(buf)) \/ Move(MoveRight(buf))
    \/ Move(MoveWordLeft(buf)) \/ Move(MoveWordRight(buf))
    \/ Move(MoveHome(buf)) \/ Move(MoveEnd(buf))
    \/ Move(MoveToFirstLine(buf)) \/ Move(MoveToLastLine(buf))

Anywhere == {p \in [line : 1..Len(buf.lines), col : 0..MaxSize] :
                p.col <= Len(buf.lines[p.line])}

\* Up, Down, PageUp, PageDown.
VerticalKey == \E p \in Anywhere : Move(SetCursor(buf, p.line, p.col))

-----------------------------------------------------------------------------
(* Keys with no overlay: the mark and the cut buffer                       *)

\* ^K with a mark cuts the region it makes with the cursor ...
CutRegionKey ==
    /\ Editing /\ mark # NoMark
    /\ LET start == StartOf(mark, Cursor(buf))
           end == StopOf(mark, Cursor(buf))
       IN  /\ cut' = RegionText(buf, start, end)
           /\ buf' = CutRegion(buf, start, end)
    /\ cutIsRegion' = TRUE
    /\ mark' = NoMark
    /\ EndStreak
    /\ UNCHANGED <<filename, disk, overlay, autoIndent, lastTerm, running, saves, torn>>

\* ... and without one the line, which joins those of the run of cuts it continues.
CutLineKey ==
    /\ Editing /\ mark = NoMark
    /\ cut' = IF streak THEN Append(cut, Cur(buf)) ELSE <<Cur(buf)>>
    /\ Len(cut') <= MaxCut
    /\ buf' = CutLine(buf)
    /\ cutIsRegion' = FALSE
    /\ streak' = TRUE
    /\ origin' = [lines |-> IF streak THEN origin.lines ELSE buf.lines,
                  tookLast |-> origin.tookLast \/ buf.line = Len(buf.lines)]
    /\ UNCHANGED <<filename, disk, overlay, mark, autoIndent, lastTerm, running,
                   saves, torn>>

CopyKey ==
    /\ Editing
    /\ cut' = IF mark = NoMark THEN <<Cur(buf)>>
              ELSE RegionText(buf, StartOf(mark, Cursor(buf)), StopOf(mark, Cursor(buf)))
    /\ cutIsRegion' = (mark # NoMark)
    /\ mark' = NoMark
    /\ EndStreak
    /\ UNCHANGED <<buf, filename, disk, overlay, autoIndent, lastTerm, running, saves, torn>>

MarkKey ==
    /\ Editing
    /\ mark' = IF mark = NoMark THEN Cursor(buf) ELSE NoMark
    /\ EndStreak
    /\ UNCHANGED <<buf, filename, disk, overlay, cut, cutIsRegion, autoIndent, lastTerm,
                   running, saves, torn>>

AutoIndentKey ==
    /\ Editing
    /\ autoIndent' = ~autoIndent
    /\ EndStreak
    /\ UNCHANGED <<buf, filename, disk, overlay, mark, cut, cutIsRegion, lastTerm,
                   running, saves, torn>>

\* A key that only shows a message or does nothing: ^C, and a repeat of a command key.
OtherKey ==
    /\ Editing
    /\ EndStreak
    /\ UNCHANGED <<buf, filename, disk, overlay, mark, cut, cutIsRegion, autoIndent,
                   lastTerm, running, saves, torn>>

-----------------------------------------------------------------------------
(* Searching, with a prompt (^W) or for the last term again (Alt+W)        *)

\* Mutant of Searched: the cursor is left at the start of the match.
SearchedToStart(b, term) ==
    LET hit == Find(b, term)
    IN  IF Found(hit) THEN SetCursor(b, hit.line, hit.col) ELSE b

\* do_search leaves the cursor at the end of the match.
Searched(b, term) ==
    LET hit == Find(b, term)
    IN  IF Found(hit) THEN SetCursor(b, hit.line, hit.col + Len(term)) ELSE b

SearchFor(term) ==
    /\ buf' = Searched(buf, term)
    /\ EndStreak
    /\ UNCHANGED <<filename, disk, mark, cut, cutIsRegion, autoIndent, running, saves, torn>>

SearchAgain ==
    /\ Editing /\ lastTerm # NoTerm
    /\ SearchFor(lastTerm)
    /\ UNCHANGED <<overlay, lastTerm>>

EnterSearch(term) ==
    /\ running /\ overlay = "search"
    /\ SearchFor(term)
    /\ lastTerm' = term
    /\ overlay' = "none"

EnterGoto ==
    /\ running /\ overlay = "goto"
    /\ \E p \in Anywhere : buf' = SetCursor(buf, p.line, p.col)
    /\ overlay' = "none"
    /\ EndStreak
    /\ UNCHANGED <<filename, disk, mark, cut, cutIsRegion, autoIndent, lastTerm, running,
                   saves, torn>>

-----------------------------------------------------------------------------
(* Saving: try_save, from ^S, the Save As prompt and the exit question     *)

SaveOk(name) ==
    /\ saves < MaxSaves /\ saves' = saves + 1
    /\ disk' = [disk EXCEPT ![name] = ToText(buf)]

\* Mutant of SaveFails: the file is not emptied first.
SaveFailsOver(name) ==
    /\ saves < MaxSaves /\ saves' = saves + 1
    /\ \E t \in CutShort(ToText(buf)), old \in {disk[name]} \ {Absent} :
            disk' = [disk EXCEPT ![name] = t \o SubSeq(old, Len(t) + 1, Len(old))]
    /\ torn' = (torn \/ (name = filename /\ ~buf.modified))

\* open refused it, or had already emptied it when a write or the close failed.
SaveFails(name) ==
    /\ saves < MaxSaves /\ saves' = saves + 1
    /\ \E t \in {disk[name]} \cup CutShort(ToText(buf)) : disk' = [disk EXCEPT ![name] = t]
    /\ torn' = (torn \/ (name = filename /\ ~buf.modified))

Saved(name) ==
    /\ SaveOk(name)
    /\ buf' = [buf EXCEPT !.modified = FALSE]
    /\ torn' = FALSE

SaveKey ==
    /\ Editing
    /\ Saved(filename) \/ (SaveFails(filename) /\ UNCHANGED buf)
    /\ EndStreak
    /\ UNCHANGED <<filename, overlay, mark, cut, cutIsRegion, autoIndent, lastTerm, running>>

EnterSaveAs(name) ==
    /\ running /\ overlay = "saveas"
    /\ \/ Saved(name) /\ filename' = name
       \/ SaveFails(name) /\ UNCHANGED <<buf, filename>>
    /\ overlay' = "none"
    /\ EndStreak
    /\ UNCHANGED <<mark, cut, cutIsRegion, autoIndent, lastTerm, running>>

-----------------------------------------------------------------------------
(* Overlays and the end                                                    *)

\* ^O, ^W, ^_ or Alt+G, and ^G.
OpenOverlay ==
    /\ Editing
    /\ overlay' \in {"saveas", "search", "goto", "help"}
    /\ EndStreak
    /\ UNCHANGED <<buf, filename, disk, mark, cut, cutIsRegion, autoIndent, lastTerm,
                   running, saves, torn>>

\* Esc, Enter on an empty answer, or any key for the help.
CloseOverlay ==
    /\ running /\ overlay # "none"
    /\ overlay' = "none"
    /\ EndStreak
    /\ UNCHANGED <<buf, filename, disk, mark, cut, cutIsRegion, autoIndent, lastTerm,
                   running, saves, torn>>

\* ^X asks about a modified buffer.
ExitKey ==
    /\ Editing
    /\ IF buf.modified THEN overlay' = "confirm" /\ UNCHANGED running
                       ELSE running' = FALSE /\ UNCHANGED overlay
    /\ EndStreak
    /\ UNCHANGED <<buf, filename, disk, mark, cut, cutIsRegion, autoIndent, lastTerm,
                   saves, torn>>

\* Mutant of ConfirmYes: it ends whether or not the save worked.
ConfirmYesAnyhow ==
    /\ running /\ overlay = "confirm"
    /\ (SaveOk(filename) /\ UNCHANGED torn) \/ SaveFails(filename)
    /\ running' = FALSE
    /\ EndStreak
    /\ UNCHANGED <<buf, filename, overlay, mark, cut, cutIsRegion, autoIndent, lastTerm>>

ConfirmYes ==
    /\ running /\ overlay = "confirm"
    /\ \/ SaveOk(filename) /\ running' = FALSE /\ UNCHANGED <<overlay, torn>>
       \/ SaveFails(filename) /\ overlay' = "none" /\ UNCHANGED running
    /\ EndStreak
    /\ UNCHANGED <<buf, filename, mark, cut, cutIsRegion, autoIndent, lastTerm>>

ConfirmNo ==
    /\ running /\ overlay = "confirm"
    /\ running' = FALSE
    /\ EndStreak
    /\ UNCHANGED <<buf, filename, disk, overlay, mark, cut, cutIsRegion, autoIndent,
                   lastTerm, saves, torn>>

Next ==
    \/ \E c \in Char : Type(c)
    \/ BackspaceKey \/ DeleteKey \/ EnterKey \/ PasteKey
    \/ MoveKey \/ VerticalKey
    \/ CutRegionKey \/ CutLineKey \/ CopyKey \/ MarkKey \/ AutoIndentKey \/ OtherKey
    \/ SearchAgain \/ \E term \in Term : EnterSearch(term)
    \/ EnterGoto
    \/ SaveKey \/ \E name \in Name : EnterSaveAs(name)
    \/ OpenOverlay \/ CloseOverlay \/ ExitKey \/ ConfirmYes \/ ConfirmNo

Spec == Init /\ [][Next]_vars

-----------------------------------------------------------------------------
(* Properties                                                              *)

\* Every variable has its type, and the cursor stands in the text.
TypeOK ==
    /\ buf \in Buffers /\ CursorIn(buf)
    /\ filename \in Name
    /\ disk \in [Name -> Text \cup {Absent}]
    /\ overlay \in Overlays
    /\ mark \in [line : Nat, col : Nat] \cup {NoMark}
    /\ cut \in Text
    /\ cutIsRegion \in BOOLEAN /\ streak \in BOOLEAN /\ autoIndent \in BOOLEAN
    /\ lastTerm \in Term \cup {NoTerm}
    /\ running \in BOOLEAN
    /\ saves \in Nat
    /\ torn \in BOOLEAN
    /\ origin \in [lines : Text, tookLast : BOOLEAN]

\* Whatever was typed, cut, pasted or found since it was set, the mark is a position of
\* the text: region_text slices lines at it, and a stale one would panic the editor.
MarkInText ==
    mark # NoMark => mark.line \in 1..Len(buf.lines)
                     /\ mark.col \in 0..Len(buf.lines[mark.line])

\* The two positions the editor keeps, cursor and mark, are positions of the text.
PositionsInText == TypeOK /\ MarkInText

\* Cutting the region and pasting it back at once gives the same lines, with the cursor
\* at the region's end -- over every region a session can mark.
RegionInverse ==
    mark # NoMark =>
        LET start == StartOf(mark, Cursor(buf))
            end == StopOf(mark, Cursor(buf))
            back == PasteRegion(CutRegion(buf, start, end), RegionText(buf, start, end))
        IN  back.lines = buf.lines /\ Cursor(back) = end

\* A paste right after a run of line cuts restores every line they took, in order, as
\* long as none of them was the last line of the text.
CutsRestored ==
    streak /\ ~origin.tookLast => PasteLine(buf, cut).lines = origin.lines

\* A buffer that counts as unmodified is what its file holds, unless a save of it, while
\* it was unmodified, failed and left the file cut short.
CleanIsSaved ==
    running /\ ~buf.modified /\ ~torn => LinesOf(disk[filename]) = buf.lines

\* The editor ends with the text in its file or with the user's word that it may go; and
\* the name it wrote to is the one it shows.
NoSilentLoss ==
    [][running' \/ ConfirmNo \/ torn \/ LinesOf(disk'[filename']) = buf.lines]_vars

\* A file changes only by a save, and then only the one named; a failed save leaves there
\* what it held or the start of the new text, never a mixture.
SavesAreWhole ==
    [][\A n \in Name : disk'[n] # disk[n] =>
            /\ saves' = saves + 1 /\ \A o \in Name \ {n} : disk'[o] = disk[o]
            /\ disk'[n] \in CutShort(ToText(buf))
            /\ buf'.lines = buf.lines]_vars

\* Searching again moves on: from the end of one match to another one, if the text has
\* one that does not overlap it.
SearchMovesOn ==
    \A term \in Term, p \in Anywhere :
        /\ buf.col >= Len(term)
        /\ MatchAt(Cur(buf), buf.col - Len(term), term)
        /\ MatchAt(buf.lines[p.line], p.col, term)
        /\ p.line = buf.line => p.col >= buf.col \/ p.col + Len(term) <= buf.col - Len(term)
        => Cursor(Searched(buf, term)) # Cursor(buf)

\* A term that is in the text and yet "Not found" is there across the cursor only.
NotFoundOnlyAcross ==
    \A term \in Term, p \in Anywhere :
        MatchAt(buf.lines[p.line], p.col, term) /\ ~Found(Find(buf, term))
        => p.line = buf.line /\ p.col < buf.col /\ buf.col < p.col + Len(term)

-----------------------------------------------------------------------------
(* What the code's documentation says, and the code does not do            *)

\* region.rs, paste_line: "a `cut_line` immediately followed by `paste_line` reproduces
\* exactly what was there before".
CutPasteRestores == streak => PasteLine(buf, cut).lines = origin.lines

\* search.rs, find: the search goes on "wrapping around to the start of the buffer once",
\* so that "Not found" means that the term is not in the text.
NotFoundMeansAbsent ==
    \A term \in Term, p \in Anywhere :
        MatchAt(buf.lines[p.line], p.col, term) => Found(Find(buf, term))

\* buffer.rs: the flag is "whether it has unsaved changes", so what is not modified is in
\* the file.
UnmodifiedIsSaved == running /\ ~buf.modified => LinesOf(disk[filename]) = buf.lines

\* edit.rs, load_file: a missing file is an empty buffer and "everything else is the
\* syscall's own error": what is opened, unedited and saved has the lines it had.
OpenedWhole ==
    [][~buf.modified /\ ~torn /\ Saved(filename)
        => LinesOf(disk'[filename]) = LinesOf(disk[filename])]_vars
=============================================================================
