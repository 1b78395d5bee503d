---------------------------- MODULE EditorProofs ----------------------------
(***************************************************************************)
(* Proofs about the editor, for any characters, files, search terms, texts *)
(* and screens of any size.  The key loop: the mark stays in the text,     *)
(* what is cut can be put back, and nothing is lost without a word.  The   *)
(* view: the cursor is on the screen, on the character it acts on, in a    *)
(* frame that the kernel draws.                                            *)
(***************************************************************************)
EXTENDS Editor, EditorView, LayoutProofs

LEMMA CutShortIs ==
    ASSUME NEW t
    PROVE  /\ \A k \in 1..Len(t) : \A j \in 0..Len(t[k]) :
                 Append(SubSeq(t, 1, k - 1), Before(t[k], j)) \in CutShort(t)
           /\ \A x \in CutShort(t) : \E k \in 1..Len(t) : \E j \in 0..Len(t[k]) :
                 x = Append(SubSeq(t, 1, k - 1), Before(t[k], j))
<1> DEFINE short(k, j) == Append(SubSeq(t, 1, k - 1), Before(t[k], j))
           row(k) == {short(k, j) : j \in 0..Len(t[k])}
           rows == {row(k) : k \in 1..Len(t)}
<1>1. CutShort(t) = UNION rows
  BY DEF CutShort
<1>2. ASSUME NEW k \in 1..Len(t), NEW j \in 0..Len(t[k])
      PROVE  short(k, j) \in CutShort(t)
  <2>1. short(k, j) \in row(k)
    OBVIOUS
  <2>2. row(k) \in rows
    OBVIOUS
  <2> HIDE DEF short, row, rows
  <2> QED BY <1>1, <2>1, <2>2
<1>3. ASSUME NEW x \in CutShort(t)
      PROVE  \E k \in 1..Len(t) : \E j \in 0..Len(t[k]) : x = short(k, j)
  <2>1. PICK r \in rows : x \in r
    <3> HIDE DEF rows
    <3> QED BY <1>1, <1>3
  <2>2. PICK k \in 1..Len(t) : r = row(k)
    BY <2>1
  <2>3. PICK j \in 0..Len(t[k]) : x = short(k, j)
    BY <2>1, <2>2
  <2> QED BY <2>3
<1> QED BY <1>2, <1>3

LEMMA LineAppended ==
    ASSUME NEW p \in Seq(Line), NEW s \in Line
    PROVE  Append(p, s) \in Text
<1> DEFINE t == Append(p, s)
<1>1. t \in Seq(Line) /\ Len(t) = Len(p) + 1 /\ Len(p) \in Nat
  OBVIOUS
<1> HIDE DEF t
<1>2. t # << >>
  BY <1>1
<1> QED BY <1>1, <1>2 DEF Text, t

LEMMA CutShortSound ==
    ASSUME NEW t \in Text
    PROVE  CutShort(t) \subseteq Text
<1> SUFFICES ASSUME NEW x \in CutShort(t)
             PROVE  x \in Text
  OBVIOUS
<1> PICK k \in 1..Len(t) :
        \E j \in 0..Len(t[k]) : x = Append(SubSeq(t, 1, k - 1), Before(t[k], j))
  BY CutShortIs
<1> PICK j \in 0..Len(t[k]) : x = Append(SubSeq(t, 1, k - 1), Before(t[k], j))
  OBVIOUS
<1>1. t \in Seq(Line) /\ Len(t) \in Nat /\ t[k] \in Line
  <2>1. t \in Seq(Line)
    BY DEF Text
  <2> QED BY <2>1
<1>2. 1 \in 1..Len(t) + 1 /\ k - 1 \in 0..Len(t)
  BY <1>1
<1>3. SubSeq(t, 1, k - 1) \in Seq(Line) /\ Before(t[k], j) \in Line
  BY <1>1, <1>2, Piece, BeforeAfter
<1> QED BY <1>3, LineAppended

\* A text is one of the things it can be cut short to.
LEMMA WholeIsCutShort ==
    ASSUME NEW t \in Seq(Line), NEW n \in Nat, Len(t) = n + 1, t[n + 1] = Empty
    PROVE  t \in CutShort(t)
<1>1. Len(Empty) = 0 /\ Empty \in Line
  BY DEF Empty, Line
<1>2. /\ n + 1 \in 1..Len(t) /\ 0 \in 0..Len(t[n + 1]) /\ n + 1 - 1 = n
      /\ 1 \in 1..Len(t) + 1 /\ n \in 0..Len(t)
  BY <1>1
<1>3. Before(Empty, 0) = Empty
  <2>1. 0 \in 0..Len(Empty)
    BY <1>1
  <2>2. Before(Empty, 0) \in Line /\ Len(Before(Empty, 0)) = 0
    BY <1>1, <2>1, BeforeAfter
  <2> QED BY <2>2 DEF Line, Empty
<1> DEFINE p == SubSeq(t, 1, n)
<1>4. p \in Seq(Line) /\ Len(p) = n /\ \A i \in 1..n : p[i] = t[i]
  BY <1>2, Piece
<1>5. Append(p, Empty) = t
  <2> HIDE DEF p
  <2>1. /\ Append(p, Empty) \in Seq(Line) /\ Len(Append(p, Empty)) = n + 1
        /\ \A i \in 1..n + 1 : Append(p, Empty)[i] = t[i]
    BY <1>1, <1>4, AppendProperties
  <2> QED BY <2>1, SeqEqual
<1>6. Append(SubSeq(t, 1, n + 1 - 1), Before(t[n + 1], 0)) \in CutShort(t)
  BY <1>2, CutShortIs
<1> QED BY <1>2, <1>3, <1>5, <1>6

LEMMA SavedText ==
    ASSUME NEW b, Sound(b)
    PROVE  ToText(b) \in CutShort(ToText(b))
<1>1. b.lines \in Seq(Line) /\ Len(b.lines) \in Nat /\ Empty \in Line
  BY Parts DEF Empty, Line
<1>2. /\ ToText(b) \in Seq(Line) /\ Len(ToText(b)) = Len(b.lines) + 1
      /\ ToText(b)[Len(b.lines) + 1] = Empty
  BY <1>1, AppendProperties DEF ToText
<1> QED BY <1>1, <1>2, WholeIsCutShort

LEMMA LoadedSound ==
    ASSUME NEW t \in Text \cup {Absent}
    PROVE  /\ \A b \in Loaded(t) : Sound(b) /\ ~b.modified
           /\ ~ReadFaults => \A b \in Loaded(t) : b.lines = LinesOf(t)
<1>1. CASE t = Absent
  BY <1>1, FilesSound DEF Loaded, LinesOf
<1>2. CASE t # Absent
  <2>1. t \in Text /\ CutShort(t) \subseteq Text
    BY <1>2, CutShortSound
  <2> QED BY <1>2, <2>1, FilesSound DEF Loaded, LinesOf
<1> QED BY <1>1, <1>2
-----------------------------------------------------------------------------
(* The inductive invariant: types, the mark, and the run of line cuts      *)

EditorInv == TypeOK /\ MarkInText /\ CutsRestored

LEMMA BufSound == TypeOK => Sound(buf)
BY DEF TypeOK, Sound

\* The mark and the cursor, in order, are a region of the text.
LEMMA MarkedRegion ==
    ASSUME TypeOK, MarkInText, mark # NoMark
    PROVE  Region(buf, StartOf(mark, Cursor(buf)), StopOf(mark, Cursor(buf)))
<1>1. /\ mark \in [line : 1..Len(buf.lines), col : Nat]
      /\ mark.col <= Len(buf.lines[mark.line])
  <2>1. mark \in [line : Nat, col : Nat] /\ mark.line \in 1..Len(buf.lines)
        /\ mark.col \in 0..Len(buf.lines[mark.line])
    BY DEF TypeOK, MarkInText
  <2> QED BY <2>1
<1>2. /\ Cursor(buf) \in [line : 1..Len(buf.lines), col : Nat]
      /\ Cursor(buf).col <= Len(buf.lines[Cursor(buf).line])
  <2>1. buf.line \in 1..Len(buf.lines) /\ buf.col \in 0..Len(buf.lines[buf.line])
    BY BufSound, Parts DEF Cur
  <2> QED BY <2>1 DEF Cursor, Position
<1>3. Len(buf.lines) \in Nat
  BY BufSound, Parts
<1>4. Earlier(mark, Cursor(buf)) \/ Earlier(Cursor(buf), mark)
  BY <1>1, <1>2, <1>3 DEF Earlier
<1> QED BY <1>1, <1>2, <1>4 DEF Region, StartOf, StopOf

LEMMA SearchedSound ==
    ASSUME NEW b, Sound(b), NEW term \in Line
    PROVE  MovedFrom(b, Searched(b, term))
<1> DEFINE hit == Find(b, term)
<1>1. CASE Found(hit)
  <2>1. hit.line \in Nat \ {0} /\ hit.col \in Nat
    BY <1>1, FindSound
  <2>2. Len(term) \in Nat
    BY DEF Line
  <2>3. hit.col + Len(term) \in Nat
    BY <2>1, <2>2
  <2>4. Searched(b, term) = SetCursor(b, hit.line, hit.col + Len(term))
    BY <1>1 DEF Searched
  <2> HIDE DEF hit
  <2> QED BY <2>1, <2>3, <2>4, SetCursorSound
<1>2. CASE ~Found(hit)
  BY <1>2 DEF Searched, MovedFrom
<1> QED BY <1>1, <1>2

\* Clearing the flag moves nothing.
LEMMA SavedSound ==
    ASSUME NEW b, Sound(b)
    PROVE  LET c == [b EXCEPT !.modified = FALSE]
           IN  Sound(c) /\ c.lines = b.lines /\ ~c.modified
BY DEF Sound, Buffers, CursorIn, Cur

\* What stays true when a key keeps the lines and everything but the cursor and the flag.
LEMMA SameLines ==
    ASSUME EditorInv, Sound(buf'), buf'.lines = buf.lines, EndStreak,
           UNCHANGED mark
    PROVE  MarkInText' /\ CutsRestored' /\ buf' \in Buffers /\ CursorIn(buf')
BY DEF EditorInv, MarkInText, CutsRestored, EndStreak, Sound

LEMMA NoOriginType == NoOrigin \in [lines : Text, tookLast : BOOLEAN] /\ <<Empty>> \in Text
<1>1. Empty \in Line
  BY DEF Empty, Line
<1>2. << >> \in Seq(Line)
  OBVIOUS
<1>3. Append(<< >>, Empty) = <<Empty>>
  OBVIOUS
<1>4. <<Empty>> \in Text
  BY <1>1, <1>2, <1>3, LineAppended
<1> QED BY <1>4 DEF NoOrigin

LEMMA InitInv == Init => EditorInv
<1> SUFFICES ASSUME Init
             PROVE  EditorInv
  OBVIOUS
<1>1. disk \in [Name -> Text \cup {Absent}] /\ disk[filename] \in Text \cup {Absent}
  BY EditorAssumption DEF Init
<1>2. buf \in Buffers /\ CursorIn(buf)
  BY <1>1, LoadedSound DEF Init, Sound
<1>3. TypeOK
  BY <1>1, <1>2, NoOriginType DEF Init, TypeOK, Overlays
<1>4. MarkInText /\ CutsRestored
  BY DEF Init, MarkInText, CutsRestored
<1> QED BY <1>3, <1>4 DEF EditorInv
\* A key that edits: the mark goes, the run of cuts ends.
LEMMA EditStep ==
    ASSUME EditorInv, NEW b, EditedFrom(buf, b), Edit(b)
    PROVE  EditorInv'
<1>1. b \in Buffers /\ b.line \in 1..Len(b.lines) /\ b.col \in 0..Len(b.lines[b.line])
  BY DEF EditedFrom, Sound, CursorIn, Cur
<1>2. TypeOK'
  BY <1>1, NoOriginType DEF EditorInv, TypeOK, Edit, EndStreak, CursorIn, Cur
<1> QED BY <1>2 DEF EditorInv, Edit, EndStreak, MarkInText, CutsRestored

\* A key that moves the cursor.
LEMMA MoveStep ==
    ASSUME EditorInv, NEW b, MovedFrom(buf, b), Move(b)
    PROVE  EditorInv'
<1>1. MarkInText' /\ CutsRestored' /\ buf' \in Buffers /\ CursorIn(buf')
  BY SameLines DEF Move, MovedFrom
<1>2. TypeOK'
  BY <1>1, NoOriginType DEF EditorInv, TypeOK, Move, EndStreak, CursorIn, Cur
<1> QED BY <1>1, <1>2 DEF EditorInv

LEMMA EditKeysSound ==
    ASSUME EditorInv
    PROVE  /\ \A c \in Char : EditedFrom(buf, InsertChar(buf, c))
           /\ EditedFrom(buf, Backspace(buf)) /\ EditedFrom(buf, DeleteForward(buf))
           /\ EditedFrom(buf, SplitLine(buf, autoIndent))
           /\ EditedFrom(buf, PasteRegion(buf, cut)) /\ EditedFrom(buf, PasteLine(buf, cut))
<1>1. Sound(buf) /\ cut \in Text /\ autoIndent \in BOOLEAN
  BY BufSound DEF EditorInv, TypeOK
<1> QED BY <1>1, InsertCharSound, DeleteSound, SplitLineSound, PasteRegionSound,
           PasteLineSound

LEMMA CutRegionStep == EditorInv /\ CutRegionKey => EditorInv'
<1> SUFFICES ASSUME EditorInv, CutRegionKey
             PROVE  EditorInv'
  OBVIOUS
<1> DEFINE start == StartOf(mark, Cursor(buf))
           end == StopOf(mark, Cursor(buf))
<1>1. Sound(buf) /\ Region(buf, start, end)
  BY BufSound, MarkedRegion DEF EditorInv, CutRegionKey
<1>2. Sound(CutRegion(buf, start, end)) /\ RegionText(buf, start, end) \in Text
  BY <1>1, CutRegionSound, RegionTextSound DEF EditedFrom
<1>3. Sound(buf') /\ cut' \in Text
  BY <1>2 DEF CutRegionKey
<1>4. TypeOK'
  BY <1>3, NoOriginType
     DEF EditorInv, TypeOK, CutRegionKey, EndStreak, Sound, CursorIn, Cur
<1> QED BY <1>4 DEF EditorInv, CutRegionKey, EndStreak, MarkInText, CutsRestored

\* The run of cuts goes on, with the line cut behind those before it; or it begins.
LEMMA CutLineStep == EditorInv /\ CutLineKey => EditorInv'
<1> SUFFICES ASSUME EditorInv, CutLineKey
             PROVE  EditorInv'
  OBVIOUS
<1>1. Sound(buf) /\ cut \in Text /\ buf.lines \in Text /\ Cur(buf) \in Line
  BY BufSound, Parts DEF EditorInv, TypeOK, Buffers
<1>2. Sound(buf')
  BY <1>1, CutLineSound DEF CutLineKey, EditedFrom
<1>3. <<Cur(buf)>> \in Text /\ Append(cut, Cur(buf)) \in Text /\ cut \in Seq(Line)
  <2>1. << >> \in Seq(Line) /\ cut \in Seq(Line) /\ Append(<< >>, Cur(buf)) = <<Cur(buf)>>
    BY <1>1 DEF Text
  <2> QED BY <1>1, <2>1, LineAppended
<1>4. TypeOK'
  BY <1>1, <1>2, <1>3 DEF EditorInv, TypeOK, CutLineKey, Sound, CursorIn, Cur
<1>5. ASSUME ~origin'.tookLast
      PROVE  PasteLine(buf', cut').lines = origin'.lines
  <2>1. buf.line < Len(buf.lines) /\ ~origin.tookLast
    <3>1. origin'.tookLast = (origin.tookLast \/ buf.line = Len(buf.lines))
      BY DEF CutLineKey
    <3>2. ~origin.tookLast /\ buf.line # Len(buf.lines)
      BY <1>5, <3>1
    <3>3. buf.line \in 1..Len(buf.lines) /\ Len(buf.lines) \in Nat
      BY <1>1, Parts
    <3> QED BY <3>2, <3>3
  <2>2. CASE streak
    <3>1. PasteLine(buf, cut).lines = origin.lines
      BY <2>1, <2>2 DEF EditorInv, CutsRestored
    <3>2. PasteLine(CutLine(buf), Append(cut, Cur(buf))).lines = PasteLine(buf, cut).lines
      BY <1>1, <1>3, <2>1, LineCutsRestored
    <3> QED BY <2>2, <3>1, <3>2 DEF CutLineKey
  <2>3. CASE ~streak
    <3>1. PasteLine(CutLine(buf), <<Cur(buf)>>).lines = buf.lines
      BY <1>1, <1>3, <2>1, LineCutsRestored
    <3> QED BY <2>3, <3>1 DEF CutLineKey
  <2> QED BY <2>2, <2>3
<1>6. MarkInText' /\ CutsRestored'
  BY <1>5 DEF CutLineKey, MarkInText, CutsRestored
<1> QED BY <1>4, <1>6 DEF EditorInv

LEMMA CopyStep == EditorInv /\ CopyKey => EditorInv'
<1> SUFFICES ASSUME EditorInv, CopyKey
             PROVE  EditorInv'
  OBVIOUS
<1>1. Sound(buf) /\ Cur(buf) \in Line
  BY BufSound, Parts DEF EditorInv
<1>2. <<Cur(buf)>> \in Text
  <2>1. << >> \in Seq(Line) /\ Append(<< >>, Cur(buf)) = <<Cur(buf)>>
    OBVIOUS
  <2> QED BY <1>1, <2>1, LineAppended
<1>3. mark # NoMark =>
        RegionText(buf, StartOf(mark, Cursor(buf)), StopOf(mark, Cursor(buf))) \in Text
  BY <1>1, MarkedRegion, RegionTextSound DEF EditorInv
<1>4. cut' \in Text /\ cutIsRegion' \in BOOLEAN
  BY <1>2, <1>3 DEF CopyKey
<1>5. TypeOK'
  BY <1>4, NoOriginType DEF EditorInv, TypeOK, CopyKey, EndStreak, CursorIn, Cur
<1> QED BY <1>5 DEF EditorInv, CopyKey, EndStreak, MarkInText, CutsRestored

LEMMA MarkStep == EditorInv /\ MarkKey => EditorInv'
<1> SUFFICES ASSUME EditorInv, MarkKey
             PROVE  EditorInv'
  OBVIOUS
<1>1. buf.line \in 1..Len(buf.lines) /\ buf.col \in 0..Len(buf.lines[buf.line])
      /\ buf.line \in Nat /\ buf.col \in Nat
  BY BufSound, Parts DEF EditorInv, Cur
<1>2. TypeOK'
  BY <1>1, NoOriginType
     DEF EditorInv, TypeOK, MarkKey, EndStreak, CursorIn, Cur, Cursor, Position
<1>3. MarkInText'
  BY <1>1 DEF MarkKey, MarkInText, Cursor, Position
<1> QED BY <1>2, <1>3 DEF EditorInv, MarkKey, EndStreak, CutsRestored
LEMMA SearchStep ==
    ASSUME EditorInv, NEW term \in Line, SearchFor(term)
    PROVE  /\ MarkInText' /\ CutsRestored' /\ buf' \in Buffers /\ CursorIn(buf')
           /\ buf'.lines = buf.lines
<1>1. MovedFrom(buf, Searched(buf, term))
  BY BufSound, SearchedSound DEF EditorInv
<1> QED BY <1>1, SameLines DEF SearchFor, MovedFrom

LEMMA AnywhereSound ==
    ASSUME EditorInv, NEW p \in Anywhere
    PROVE  MovedFrom(buf, SetCursor(buf, p.line, p.col))
<1>1. p.line \in Nat \ {0} /\ p.col \in Nat
  BY EditorAssumption, BufSound, Parts DEF Anywhere
<1> QED BY <1>1, BufSound, SetCursorSound DEF EditorInv

\* A save leaves the lines alone and some text in the file.
LEMMA SaveTypes ==
    ASSUME EditorInv, NEW name \in Name
    PROVE  /\ SaveOk(name) \/ SaveFails(name) =>
                /\ disk' \in [Name -> Text \cup {Absent}] /\ saves' \in Nat
           /\ Saved(name) => /\ Sound(buf') /\ buf'.lines = buf.lines
                             /\ torn' \in BOOLEAN
           /\ SaveFails(name) => torn' \in BOOLEAN
<1>1. Sound(buf) /\ disk \in [Name -> Text \cup {Absent}] /\ saves \in Nat /\ torn \in BOOLEAN
  BY BufSound DEF EditorInv, TypeOK
<1>2. ToText(buf) \in Text
  BY <1>1, FilesSound
<1>3. CutShort(ToText(buf)) \subseteq Text
  BY <1>2, CutShortSound
<1>4. SaveOk(name) => disk' \in [Name -> Text \cup {Absent}] /\ saves' \in Nat
  BY <1>1, <1>2 DEF SaveOk
<1>5. SaveFails(name) => /\ disk' \in [Name -> Text \cup {Absent}] /\ saves' \in Nat
                         /\ torn' \in BOOLEAN
  <2> SUFFICES ASSUME SaveFails(name)
               PROVE  /\ disk' \in [Name -> Text \cup {Absent}] /\ saves' \in Nat
                      /\ torn' \in BOOLEAN
    OBVIOUS
  <2>1. PICK t \in {disk[name]} \cup CutShort(ToText(buf)) : disk' = [disk EXCEPT ![name] = t]
    BY DEF SaveFails
  <2>2. t \in Text \cup {Absent}
    BY <1>1, <1>3
  <2> QED BY <1>1, <2>1, <2>2 DEF SaveFails
<1>6. Saved(name) => Sound(buf') /\ buf'.lines = buf.lines /\ torn' \in BOOLEAN
  BY <1>1, SavedSound DEF Saved
<1> QED BY <1>4, <1>5, <1>6

LEMMA SaveStep == EditorInv /\ SaveKey => EditorInv'
<1> SUFFICES ASSUME EditorInv, SaveKey
             PROVE  EditorInv'
  OBVIOUS
<1>1. /\ Sound(buf') /\ buf'.lines = buf.lines /\ torn' \in BOOLEAN
      /\ disk' \in [Name -> Text \cup {Absent}] /\ saves' \in Nat
  <2>1. filename \in Name /\ Sound(buf)
    BY BufSound DEF EditorInv, TypeOK
  <2> QED BY <2>1, SaveTypes DEF SaveKey, Saved
<1>2. MarkInText' /\ CutsRestored' /\ buf' \in Buffers /\ CursorIn(buf')
  BY <1>1, SameLines DEF SaveKey
<1>3. TypeOK'
  BY <1>1, <1>2, NoOriginType DEF EditorInv, TypeOK, SaveKey, EndStreak, CursorIn, Cur
<1> QED BY <1>2, <1>3 DEF EditorInv

LEMMA SaveAsStep ==
    ASSUME EditorInv, NEW name \in Name, EnterSaveAs(name)
    PROVE  EditorInv'
<1>1. /\ Sound(buf') /\ buf'.lines = buf.lines /\ torn' \in BOOLEAN
      /\ disk' \in [Name -> Text \cup {Absent}] /\ saves' \in Nat /\ filename' \in Name
  <2>1. filename \in Name /\ Sound(buf)
    BY BufSound DEF EditorInv, TypeOK
  <2> QED BY <2>1, SaveTypes DEF EnterSaveAs, Saved
<1>2. MarkInText' /\ CutsRestored' /\ buf' \in Buffers /\ CursorIn(buf')
  BY <1>1, SameLines DEF EnterSaveAs
<1>3. TypeOK'
  BY <1>1, <1>2, NoOriginType
     DEF EditorInv, TypeOK, EnterSaveAs, EndStreak, CursorIn, Cur, Overlays
<1> QED BY <1>2, <1>3 DEF EditorInv

LEMMA ConfirmYesStep == EditorInv /\ ConfirmYes => EditorInv'
<1> SUFFICES ASSUME EditorInv, ConfirmYes
             PROVE  EditorInv'
  OBVIOUS
<1>1. /\ torn' \in BOOLEAN /\ saves' \in Nat
      /\ disk' \in [Name -> Text \cup {Absent}]
  <2>1. filename \in Name /\ torn \in BOOLEAN
    BY DEF EditorInv, TypeOK
  <2> QED BY <2>1, SaveTypes DEF ConfirmYes
<1>2. MarkInText' /\ CutsRestored' /\ buf' \in Buffers /\ CursorIn(buf')
  BY BufSound, SameLines DEF ConfirmYes, EditorInv
<1>3. TypeOK'
  BY <1>1, <1>2, NoOriginType
     DEF EditorInv, TypeOK, ConfirmYes, EndStreak, CursorIn, Cur, Overlays
<1> QED BY <1>2, <1>3 DEF EditorInv

\* The keys that leave text, mark, cut buffer and files alone.
LEMMA QuietStep ==
    ASSUME EditorInv,
           \/ AutoIndentKey \/ OtherKey \/ OpenOverlay \/ CloseOverlay \/ ExitKey \/ ConfirmNo
    PROVE  EditorInv'
<1>1. /\ EndStreak /\ UNCHANGED <<buf, filename, disk, mark, cut, cutIsRegion, lastTerm,
                                  saves, torn>>
  BY DEF AutoIndentKey, OtherKey, OpenOverlay, CloseOverlay, ExitKey, ConfirmNo
<1>2. overlay' \in Overlays /\ autoIndent' \in BOOLEAN /\ running' \in BOOLEAN
  BY DEF AutoIndentKey, OtherKey, OpenOverlay, CloseOverlay, ExitKey, ConfirmNo,
         EditorInv, TypeOK, Overlays
<1>3. TypeOK'
  BY <1>1, <1>2, NoOriginType DEF EditorInv, TypeOK, EndStreak, CursorIn, Cur
<1> QED BY <1>1, <1>3 DEF EditorInv, EndStreak, MarkInText, CutsRestored

LEMMA StepInv == EditorInv /\ [Next]_vars => EditorInv'
<1> SUFFICES ASSUME EditorInv, [Next]_vars
             PROVE  EditorInv'
  OBVIOUS
<1>1. ASSUME NEW c \in Char, Type(c) PROVE EditorInv'
  BY <1>1, EditKeysSound, EditStep DEF Type
<1>2. CASE BackspaceKey
  BY <1>2, EditKeysSound, EditStep DEF BackspaceKey
<1>3. CASE DeleteKey
  BY <1>3, EditKeysSound, EditStep DEF DeleteKey
<1>4. CASE EnterKey
  BY <1>4, EditKeysSound, EditStep DEF EnterKey
<1>5. CASE PasteKey
  <2>1. EditedFrom(buf, IF cutIsRegion THEN PasteRegion(buf, cut) ELSE PasteLine(buf, cut))
    BY EditKeysSound
  <2> QED BY <1>5, <2>1, EditStep DEF PasteKey
<1>6. CASE MoveKey
  <2>1. \A c \in Moves(buf) : MovedFrom(buf, c)
    BY BufSound, MovesSound DEF EditorInv
  <2>2. PICK c \in Moves(buf) : Move(c)
    BY <1>6 DEF MoveKey, Moves
  <2> QED BY <2>1, <2>2, MoveStep
<1>7. CASE VerticalKey
  <2>1. PICK p \in Anywhere : Move(SetCursor(buf, p.line, p.col))
    BY <1>7 DEF VerticalKey
  <2> QED BY <2>1, AnywhereSound, MoveStep
<1>8. CASE CutRegionKey \/ CutLineKey \/ CopyKey \/ MarkKey
  BY <1>8, CutRegionStep, CutLineStep, CopyStep, MarkStep
<1>9. CASE SearchAgain
  <2>1. lastTerm \in Line /\ SearchFor(lastTerm)
    BY <1>9, EditorAssumption DEF SearchAgain, EditorInv, TypeOK
  <2>2. MarkInText' /\ CutsRestored' /\ buf' \in Buffers /\ CursorIn(buf')
    BY <2>1, SearchStep
  <2>3. TypeOK'
    BY <1>9, <2>2, NoOriginType
       DEF EditorInv, TypeOK, SearchAgain, SearchFor, EndStreak, CursorIn, Cur
  <2> QED BY <2>2, <2>3 DEF EditorInv
<1>10. ASSUME NEW term \in Term, EnterSearch(term) PROVE EditorInv'
  <2>1. term \in Line /\ SearchFor(term)
    BY <1>10, EditorAssumption DEF EnterSearch
  <2>2. MarkInText' /\ CutsRestored' /\ buf' \in Buffers /\ CursorIn(buf')
    BY <2>1, SearchStep
  <2>3. TypeOK'
    BY <1>10, <2>2, NoOriginType
       DEF EditorInv, TypeOK, EnterSearch, SearchFor, EndStreak, CursorIn, Cur, Overlays
  <2> QED BY <2>2, <2>3 DEF EditorInv
<1>11. CASE EnterGoto
  <2>1. PICK p \in Anywhere : buf' = SetCursor(buf, p.line, p.col)
    BY <1>11 DEF EnterGoto
  <2>2. MovedFrom(buf, buf')
    BY <2>1, AnywhereSound
  <2>3. MarkInText' /\ CutsRestored' /\ buf' \in Buffers /\ CursorIn(buf')
    BY <1>11, <2>2, SameLines DEF EnterGoto, MovedFrom
  <2>4. TypeOK'
    BY <1>11, <2>3, NoOriginType
       DEF EditorInv, TypeOK, EnterGoto, EndStreak, CursorIn, Cur, Overlays
  <2> QED BY <2>3, <2>4 DEF EditorInv
<1>12. CASE SaveKey \/ ConfirmYes
  BY <1>12, SaveStep, ConfirmYesStep
<1>13. ASSUME NEW name \in Name, EnterSaveAs(name) PROVE EditorInv'
  BY <1>13, SaveAsStep
<1>14. CASE \/ AutoIndentKey \/ OtherKey \/ OpenOverlay \/ CloseOverlay \/ ExitKey \/ ConfirmNo
  BY <1>14, QuietStep
<1>15. CASE UNCHANGED vars
  BY <1>15 DEF vars, EditorInv, TypeOK, MarkInText, CutsRestored, CursorIn, Cur
<1> QED BY <1>1, <1>2, <1>3, <1>4, <1>5, <1>6, <1>7, <1>8, <1>9, <1>10, <1>11, <1>12,
           <1>13, <1>14, <1>15 DEF Next

LEMMA InvHolds == Spec => []EditorInv
BY InitInv, StepInv, PTL DEF Spec
-----------------------------------------------------------------------------
(* Theorems                                                                *)

\* Whatever keys come, every variable keeps its type and the cursor stands in the text.
THEOREM TypesHold == Spec => []TypeOK
<1>1. EditorInv => TypeOK
  BY DEF EditorInv
<1> QED BY <1>1, InvHolds, PTL

\* The mark set by Alt+A is a position of the text for as long as there is one, so that
\* region_text never slices beyond a line.
THEOREM MarkStays == Spec => []MarkInText
<1>1. EditorInv => MarkInText
  BY DEF EditorInv
<1> QED BY <1>1, InvHolds, PTL

\* Cutting the region between mark and cursor and pasting it at once changes nothing, for
\* every region a session of any length can make in a text of any size.
THEOREM RegionsComeBack == Spec => []RegionInverse
<1>1. EditorInv => RegionInverse
  <2> SUFFICES ASSUME EditorInv, mark # NoMark
               PROVE  LET start == StartOf(mark, Cursor(buf))
                          end == StopOf(mark, Cursor(buf))
                          back == PasteRegion(CutRegion(buf, start, end),
                                              RegionText(buf, start, end))
                      IN  back.lines = buf.lines /\ Cursor(back) = end
    BY DEF RegionInverse
  <2> DEFINE start == StartOf(mark, Cursor(buf))
             end == StopOf(mark, Cursor(buf))
             back == PasteRegion(CutRegion(buf, start, end), RegionText(buf, start, end))
  <2>1. Sound(buf) /\ Region(buf, start, end)
    BY BufSound, MarkedRegion DEF EditorInv
  <2> HIDE DEF start, end
  <2>2. back.lines = buf.lines /\ back.line = end.line /\ back.col = end.col
    BY <2>1, RegionRoundTrip
  <2>3. end \in [line : 1..Len(buf.lines), col : Nat]
    BY <2>1 DEF Region
  <2> HIDE DEF back
  <2>4. Cursor(back) = end
    BY <2>2, <2>3 DEF Cursor, Position
  <2> QED BY <2>2, <2>4 DEF start, end, back
<1> QED BY <1>1, InvHolds, PTL

\* A paste right after a run of line cuts gives the lines back as they were before the
\* run, for a run of any length that leaves the last line of the text alone.
THEOREM CutsComeBack == Spec => []CutsRestored
<1>1. EditorInv => CutsRestored
  BY DEF EditorInv
<1> QED BY <1>1, InvHolds, PTL

-----------------------------------------------------------------------------
(* What the files hold                                                     *)

\* Keys that leave the file and its name alone, and the text too unless they flag it.
Kept == /\ UNCHANGED <<filename, disk, torn>>
        /\ running' => running
        /\ buf'.modified \/ (buf'.lines = buf.lines /\ buf'.modified = buf.modified)

LEMMA KeysKeep ==
    ASSUME EditorInv, Next
    PROVE  \/ Kept
           \/ SaveKey \/ ConfirmYes \/ \E name \in Name : EnterSaveAs(name)
<1> DEFINE Saves == SaveKey \/ ConfirmYes \/ \E name \in Name : EnterSaveAs(name)
<1>1. ASSUME NEW b, EditedFrom(buf, b), Edit(b)
      PROVE  Kept
  BY <1>1 DEF Kept, Edit, EditedFrom
<1>2. ASSUME NEW b, MovedFrom(buf, b), Move(b)
      PROVE  Kept
  BY <1>2 DEF Kept, Move, MovedFrom
<1>3. (\E c \in Char : Type(c)) \/ BackspaceKey \/ DeleteKey \/ EnterKey \/ PasteKey => Kept
  <2>1. EditedFrom(buf, IF cutIsRegion THEN PasteRegion(buf, cut) ELSE PasteLine(buf, cut))
    BY EditKeysSound
  <2> QED BY <1>1, <2>1, EditKeysSound
          DEF Type, BackspaceKey, DeleteKey, EnterKey, PasteKey
<1>4. MoveKey \/ VerticalKey => Kept
  <2>1. MoveKey => Kept
    <3>1. MoveKey => \E c \in Moves(buf) : Move(c)
      BY DEF MoveKey, Moves
    <3> QED BY <3>1, <1>2, BufSound, MovesSound DEF EditorInv
  <2>2. VerticalKey => Kept
    BY <1>2, AnywhereSound DEF VerticalKey
  <2> QED BY <2>1, <2>2
<1>5. CutRegionKey => Kept
  <2>1. ASSUME CutRegionKey PROVE buf'.modified /\ running' = running
                                  /\ UNCHANGED <<filename, disk, torn>>
    BY <2>1 DEF CutRegionKey, CutRegion, Edited
  <2> QED BY <2>1 DEF Kept
<1>6. CutLineKey => Kept
  <2>1. CutLine(buf).modified
    BY DEF CutLine, Edited
  <2> QED BY <2>1 DEF CutLineKey, Kept
<1>7. SearchAgain \/ (\E term \in Term : EnterSearch(term)) => Kept
  <2>1. ASSUME NEW term \in Line, SearchFor(term), UNCHANGED running
        PROVE  Kept
    <3>1. MovedFrom(buf, Searched(buf, term))
      BY BufSound, SearchedSound DEF EditorInv
    <3> QED BY <2>1, <3>1 DEF SearchFor, Kept, MovedFrom
  <2>2. SearchAgain => lastTerm \in Line /\ SearchFor(lastTerm) /\ UNCHANGED running
    BY EditorAssumption DEF SearchAgain, SearchFor, EditorInv, TypeOK
  <2>3. ASSUME NEW term \in Term, EnterSearch(term)
        PROVE  term \in Line /\ SearchFor(term) /\ UNCHANGED running
    BY <2>3, EditorAssumption DEF EnterSearch, SearchFor
  <2> QED BY <2>1, <2>2, <2>3
<1>8. EnterGoto => Kept
  <2> SUFFICES ASSUME EnterGoto
               PROVE  Kept
    OBVIOUS
  <2>1. PICK p \in Anywhere : buf' = SetCursor(buf, p.line, p.col)
    BY DEF EnterGoto
  <2>2. MovedFrom(buf, buf')
    BY <2>1, AnywhereSound
  <2> QED BY <2>2 DEF EnterGoto, Kept, MovedFrom
<1>9. \/ CopyKey \/ MarkKey \/ AutoIndentKey \/ OtherKey \/ OpenOverlay \/ CloseOverlay
      \/ ExitKey \/ ConfirmNo
      => Kept
  BY DEF CopyKey, MarkKey, AutoIndentKey, OtherKey, OpenOverlay, CloseOverlay, ExitKey,
         ConfirmNo, Kept, Editing
<1> QED BY <1>3, <1>4, <1>5, <1>6, <1>7, <1>8, <1>9 DEF Next

\* What a save that works leaves in the file reads back as the lines of the buffer.
LEMMA SavedReadsBack ==
    ASSUME EditorInv, NEW name \in Name, SaveOk(name)
    PROVE  LinesOf(disk'[name]) = buf.lines
<1>1. Sound(buf) /\ disk \in [Name -> Text \cup {Absent}]
  BY BufSound DEF EditorInv, TypeOK
<1>2. ToText(buf) \in Text /\ FromText(ToText(buf)).lines = buf.lines
  BY <1>1, FilesSound
<1>3. disk'[name] = ToText(buf)
  BY <1>1 DEF SaveOk
<1> QED BY <1>2, <1>3, EditorAssumption DEF LinesOf

\* If no read fails while the file is loaded, an unmodified buffer is what its file holds
\* for as long as no save of it fails half-way, by whatever mix of edits, saves under
\* other names and failures it came about.
THEOREM CleanSaved == ~ReadFaults => (Spec => []CleanIsSaved)
<1> SUFFICES ASSUME ~ReadFaults
             PROVE  Spec => []CleanIsSaved
  OBVIOUS
<1>1. Init => CleanIsSaved
  <2> SUFFICES ASSUME Init
               PROVE  CleanIsSaved
    OBVIOUS
  <2>1. disk[filename] \in Text \cup {Absent}
    BY EditorAssumption DEF Init
  <2> QED BY <2>1, LoadedSound DEF Init, CleanIsSaved
<1>2. EditorInv /\ CleanIsSaved /\ [Next]_vars => CleanIsSaved'
  <2> SUFFICES ASSUME EditorInv, CleanIsSaved, [Next]_vars
               PROVE  CleanIsSaved'
    OBVIOUS
  <2>0. filename \in Name /\ Sound(buf) /\ disk \in [Name -> Text \cup {Absent}]
    BY BufSound DEF EditorInv, TypeOK
  <2>1. CASE Kept
    BY <2>1 DEF Kept, CleanIsSaved
  <2>2. CASE SaveKey
    <3>1. CASE Saved(filename)
      <4>1. LinesOf(disk'[filename]) = buf.lines
        BY <2>0, <3>1, SavedReadsBack DEF Saved
      <4>2. buf'.lines = buf.lines
        BY <2>0, <3>1, SavedSound DEF Saved
      <4> QED BY <2>2, <4>1, <4>2 DEF SaveKey, CleanIsSaved
    <3>2. CASE SaveFails(filename) /\ UNCHANGED buf
      BY <2>2, <3>2 DEF SaveKey, SaveFails, CleanIsSaved
    <3> QED BY <2>2, <3>1, <3>2 DEF SaveKey
  <2>3. CASE ConfirmYes
    <3>1. CASE SaveOk(filename) /\ running' = FALSE
      BY <3>1 DEF CleanIsSaved
    <3>2. CASE SaveFails(filename) /\ UNCHANGED running
      BY <2>3, <3>2 DEF ConfirmYes, SaveFails, CleanIsSaved
    <3> QED BY <2>3, <3>1, <3>2 DEF ConfirmYes
  <2>4. ASSUME NEW name \in Name, EnterSaveAs(name)
        PROVE  CleanIsSaved'
    <3>1. CASE Saved(name) /\ filename' = name
      <4>1. LinesOf(disk'[name]) = buf.lines
        BY <3>1, SavedReadsBack DEF Saved
      <4>2. buf'.lines = buf.lines
        BY <2>0, <3>1, SavedSound DEF Saved
      <4> QED BY <3>1, <4>1, <4>2 DEF CleanIsSaved
    <3>2. CASE SaveFails(name) /\ UNCHANGED <<buf, filename>>
      <4>1. name # filename => disk'[filename] = disk[filename]
        BY <2>0, <3>2 DEF SaveFails
      <4>2. torn' = (torn \/ (name = filename /\ ~buf.modified)) /\ running' = running
        BY <2>4, <3>2 DEF SaveFails, EnterSaveAs
      <4> QED BY <3>2, <4>1, <4>2 DEF CleanIsSaved
    <3> QED BY <2>4, <3>1, <3>2 DEF EnterSaveAs
  <2>5. CASE UNCHANGED vars
    BY <2>5 DEF vars, CleanIsSaved
  <2> QED BY <2>1, <2>2, <2>3, <2>4, <2>5, KeysKeep
<1> QED BY <1>1, <1>2, InvHolds, PTL DEF Spec

\* If no read fails while the file is loaded, the editor ends with its text in the file
\* of the name it shows, or with the user's word that the text may go -- or after a save
\* that failed while the buffer counted as unmodified.
THEOREM NothingLost == ~ReadFaults => (Spec => NoSilentLoss)
<1> SUFFICES ASSUME ~ReadFaults
             PROVE  Spec => NoSilentLoss
  OBVIOUS
<1> DEFINE Told == running' \/ ConfirmNo \/ torn \/ LinesOf(disk'[filename']) = buf.lines
<1>1. EditorInv /\ CleanIsSaved /\ [Next]_vars => [Told]_vars
  <2> SUFFICES ASSUME EditorInv, CleanIsSaved, Next, ~running', ~ConfirmNo, ~torn
               PROVE  LinesOf(disk'[filename']) = buf.lines
    OBVIOUS
  <2>1. running
    BY DEF Next, Type, BackspaceKey, DeleteKey, EnterKey, PasteKey, Edit, Move, MoveKey,
           VerticalKey, CutRegionKey, CutLineKey, CopyKey, MarkKey, AutoIndentKey,
           OtherKey, SearchAgain, EnterSearch, EnterGoto, SaveKey, EnterSaveAs,
           OpenOverlay, CloseOverlay, ExitKey, ConfirmYes, ConfirmNo, Editing
  <2>2. ExitKey \/ ConfirmYes
    BY <2>1 DEF Next, Type, BackspaceKey, DeleteKey, EnterKey, PasteKey, Edit, Move, MoveKey,
           VerticalKey, CutRegionKey, CutLineKey, CopyKey, MarkKey, AutoIndentKey,
           OtherKey, SearchAgain, EnterSearch, SearchFor, EnterGoto, SaveKey, EnterSaveAs,
           OpenOverlay, CloseOverlay
  <2>3. CASE ExitKey
    BY <2>1, <2>3 DEF ExitKey, CleanIsSaved
  <2>4. CASE ConfirmYes
    <3>1. SaveOk(filename) /\ filename' = filename /\ filename \in Name
      BY <2>1, <2>4 DEF ConfirmYes, EditorInv, TypeOK
    <3> QED BY <3>1, SavedReadsBack
  <2> QED BY <2>2, <2>3, <2>4
<1>2. Spec => []CleanIsSaved
  BY CleanSaved
<1> QED BY <1>1, <1>2, InvHolds, PTL DEF Spec, NoSilentLoss

\* Only a save changes a file, only the one it names, and whatever fails on the way it
\* leaves there what it held or the start of the new text.
THEOREM WholeSaves == Spec => SavesAreWhole
<1> DEFINE Whole ==
      \A n \in Name : disk'[n] # disk[n] =>
            /\ saves' = saves + 1 /\ \A o \in Name \ {n} : disk'[o] = disk[o]
            /\ disk'[n] \in CutShort(ToText(buf))
            /\ buf'.lines = buf.lines
<1>1. EditorInv /\ [Next]_vars => [Whole]_vars
  <2> SUFFICES ASSUME EditorInv, Next
               PROVE  Whole
    OBVIOUS
  <2>0. filename \in Name /\ Sound(buf) /\ disk \in [Name -> Text \cup {Absent}]
    BY BufSound DEF EditorInv, TypeOK
  <2>1. ASSUME NEW name \in Name, SaveOk(name) \/ SaveFails(name), buf'.lines = buf.lines
        PROVE  Whole
    <3>1. ToText(buf) \in CutShort(ToText(buf))
      BY <2>0, SavedText
    <3>2. PICK t \in {disk[name]} \cup CutShort(ToText(buf)) :
             disk' = [disk EXCEPT ![name] = t]
      BY <2>1, <3>1 DEF SaveOk, SaveFails
    <3>3. saves' = saves + 1
      BY <2>1 DEF SaveOk, SaveFails
    <3>4. /\ \A o \in Name \ {name} : disk'[o] = disk[o]
          /\ disk'[name] = t
      BY <2>0, <3>2
    <3> QED BY <2>1, <3>2, <3>3, <3>4
  <2>2. ASSUME NEW name \in Name, Saved(name)
        PROVE  SaveOk(name) /\ buf'.lines = buf.lines
    BY <2>0, <2>2, SavedSound DEF Saved
  <2>3. CASE SaveKey
    BY <2>0, <2>1, <2>2, <2>3 DEF SaveKey
  <2>4. CASE ConfirmYes
    BY <2>0, <2>1, <2>4 DEF ConfirmYes
  <2>5. CASE \E name \in Name : EnterSaveAs(name)
    BY <2>1, <2>2, <2>5 DEF EnterSaveAs
  <2>6. CASE Kept
    BY <2>6 DEF Kept
  <2> QED BY <2>3, <2>4, <2>5, <2>6, KeysKeep
<1> QED BY <1>1, InvHolds, PTL DEF Spec, SavesAreWhole
-----------------------------------------------------------------------------
(* Searching                                                               *)

\* A position of the text, as Anywhere has them, is one that IsMatch speaks of.
LEMMA AnywhereIs ==
    ASSUME TypeOK, NEW p \in Anywhere, NEW term, MatchAt(buf.lines[p.line], p.col, term)
    PROVE  IsMatch(buf, term, p.line, p.col) /\ p.line \in Nat /\ p.col \in Nat
<1>1. DOMAIN buf.lines = 1..Len(buf.lines) /\ Len(buf.lines) \in Nat
  BY BufSound, Parts
<1>2. p.line \in 1..Len(buf.lines) /\ p.col \in 0..MaxSize
  BY DEF Anywhere
<1> QED BY <1>1, <1>2, EditorAssumption DEF IsMatch

\* A term is "Not found" only if the text has it nowhere, or with the cursor in it.
THEOREM FoundUnlessAcross == Spec => []NotFoundOnlyAcross
<1>1. TypeOK => NotFoundOnlyAcross
  <2> SUFFICES ASSUME TypeOK, NEW term \in Term, NEW p \in Anywhere,
                      MatchAt(buf.lines[p.line], p.col, term), ~Found(Find(buf, term))
               PROVE  p.line = buf.line /\ p.col < buf.col /\ buf.col < p.col + Len(term)
    BY DEF NotFoundOnlyAcross
  <2>1. Sound(buf) /\ term \in Line /\ IsMatch(buf, term, p.line, p.col)
    BY BufSound, AnywhereIs, EditorAssumption
  <2>2. p.line = buf.line /\ p.col < buf.col /\ p.col + Len(term) > buf.col
    BY <2>1, FindIs
  <2>3. p.col \in Nat /\ buf.col \in Nat /\ Len(term) \in Nat
    BY <2>1, Parts DEF IsMatch, Line
  <2> QED BY <2>2, <2>3
<1> QED BY <1>1, TypesHold, PTL

\* From the end of a match a search moves on to another one, if there is one that does
\* not overlap it.
THEOREM SearchGoesOn == Spec => []SearchMovesOn
<1>1. TypeOK => SearchMovesOn
  <2> SUFFICES ASSUME TypeOK, NEW term \in Term, NEW p \in Anywhere, buf.col >= Len(term),
                      MatchAt(buf.lines[p.line], p.col, term),
                      p.line = buf.line => \/ p.col >= buf.col
                                           \/ p.col + Len(term) <= buf.col - Len(term)
               PROVE  Cursor(Searched(buf, term)) # Cursor(buf)
    BY DEF SearchMovesOn
  <2> DEFINE hit == Find(buf, term)
             n == Len(term)
  <2>1. Sound(buf) /\ term \in Line /\ IsMatch(buf, term, p.line, p.col)
    BY BufSound, AnywhereIs, EditorAssumption
  <2>2. n \in Nat /\ n > 0
    BY <2>1, EditorAssumption DEF Line, Empty
  <2>3. p.line \in Nat /\ p.col \in Nat /\ buf.line \in Nat /\ buf.col \in Nat
    BY <2>1, Parts, AnywhereIs
  <2>4. Found(hit)
    <3>1. ~(p.line = buf.line /\ p.col < buf.col /\ p.col + n > buf.col)
      BY <2>2, <2>3
    <3> QED BY <2>1, <3>1, FindIs
  <2>5. /\ hit.line \in 1..Len(buf.lines) /\ hit.line \in Nat \ {0} /\ hit.col \in Nat
        /\ hit.col + n <= Len(buf.lines[hit.line])
    BY <2>1, <2>4, FindSound
  <2>6. hit.line = buf.line => hit.col >= buf.col \/ hit.col + n < buf.col
    <3> DEFINE Onward == hit.line = buf.line => hit.col >= buf.col
               Around == /\ p.line < buf.line \/ (p.line = buf.line /\ p.col < buf.col)
                         /\ (p.line = buf.line => p.col + n <= buf.col)
                            => hit.line < p.line \/ (hit.line = p.line /\ hit.col <= p.col)
    <3>1. Onward \/ Around
      BY <2>1, <2>3, <2>4, FindFrom
    <3>2. p.line = buf.line => p.col >= buf.col \/ p.col + n <= buf.col - n
      OBVIOUS
    <3> HIDE DEF hit, n
    <3>3. CASE Around
      BY <2>2, <2>3, <2>5, <3>2, <3>3
    <3> QED BY <3>1, <3>3
  <2>7. Searched(buf, term) = [buf EXCEPT !.line = hit.line, !.col = hit.col + n]
    <3>1. Len(buf.lines) \in Nat /\ Len(buf.lines[hit.line]) \in Nat
      BY <2>1, <2>5, Parts
    <3>2. Lesser(hit.line, Len(buf.lines)) = hit.line
      BY <2>5, <3>1 DEF Lesser
    <3>3. Lesser(hit.col + n, Len(buf.lines[hit.line])) = hit.col + n
      BY <2>2, <2>5, <3>1 DEF Lesser
    <3> QED BY <2>4, <3>2, <3>3 DEF Searched, SetCursor
  <2>8. buf \in Buffers
    BY <2>1 DEF Sound
  <2>9. /\ Searched(buf, term).line = hit.line
        /\ Searched(buf, term).col = hit.col + n
    <3> DEFINE to == Searched(buf, term)
    <3>1. to = [buf EXCEPT !.line = hit.line, !.col = hit.col + n]
      BY <2>7
    <3> HIDE DEF hit, n, to
    <3>2. to.line = hit.line /\ to.col = hit.col + n
      BY <3>1, <2>8 DEF Buffers
    <3> QED BY <3>2 DEF to
  <2>10. ~(hit.line = buf.line /\ hit.col + n = buf.col)
    <3> HIDE DEF hit, n
    <3> QED BY <2>2, <2>3, <2>5, <2>6
  <2> HIDE DEF hit, n
  <2> QED BY <2>9, <2>10 DEF Cursor, Position
<1> QED BY <1>1, TypesHold, PTL

(***************************************************************************)
(* The two together: the buffer's cursor and the mark are places of the    *)
(* text after every key (bin/edit.rs:389-417 slices lines at both).        *)
(***************************************************************************)
THEOREM PositionsStay == Spec => []PositionsInText
<1> QED BY TypesHold, MarkStays, PTL DEF PositionsInText

-----------------------------------------------------------------------------
(* The view: its inductive invariant                                       *)

LEMMA Sizes ==
    ASSUME NEW b, Sound(b), NEW on \in BOOLEAN
    PROVE  TextHeight \in Nat \ {0} /\ TextWidth(on, b) \in Nat
<1>1. TextHeight \in Nat \ {0}
  BY ViewAssumption DEF TextHeight, Greater, Reserved
<1>2. GutterWidth(on, b) \in Nat
  <2> PICK n : n = Len(b.lines)
    OBVIOUS
  <2> PICK T : T = {k \in 0..n : Radix ^ k <= n}
    OBVIOUS
  <2>1. n \in Nat
    BY Parts
  <2>2. T \subseteq 0..n
    OBVIOUS
  <2>3. IsFiniteSet(0..n)
    BY <2>1, FS_Interval
  <2>4. Cardinality(T) \in Nat
    BY <2>2, <2>3, FS_Subset, FS_CardinalityType
  <2>5. Digits(n) = Cardinality(T)
    BY DEF Digits
  <2>6. GutterWidth(on, b) = IF on THEN Digits(n) + 1 ELSE 0
    BY DEF GutterWidth
  <2> HIDE DEF Digits
  <2> QED BY <2>4, <2>5, <2>6
<1>3. Cols \in Nat
  BY ViewAssumption
<1>4. TextWidth(on, b) = Greater(Cols - GutterWidth(on, b), 0)
  BY DEF TextWidth
<1> QED BY <1>1, <1>2, <1>3, <1>4 DEF Greater

\* The cursor's row is among those a view of so many rows from t on has room for.
InView(b, t, width, height) ==
    LET row == CursorCell(b, width).row
    IN  /\ t = Top(t.line, t.sub)
        /\ t.line \in 1..b.line /\ t.sub \in Nat /\ TopIn(b, t, width)
        /\ row \in Skipped(t, b.line) + 1..Len(RowsAt(b, b.line, width))
        /\ Place(b, t, b.line, row, width) <= height
        /\ t.sub > 0 => t.line = b.line /\ RowCount(Cur(b), width) > height

\* The inductive invariant: a sound text, and a view that the cursor is in.
ViewInv ==
    /\ Sound(buffer)
    /\ preferred \in Nat \cup {NoColumn}
    /\ lineNumbers \in BOOLEAN
    /\ InView(buffer, top, Width, TextHeight)

LEMMA ScrolledInView ==
    ASSUME NEW b, Sound(b), NEW on \in BOOLEAN, NEW from, from.line \in Nat \ {0}, from.sub \in Nat,
           NEW t, t = Scrolled(b, from, on)
    PROVE  InView(b, t, TextWidth(on, b), TextHeight)
<1> PICK width : width = TextWidth(on, b)
  OBVIOUS
<1> PICK height : height = TextHeight
  OBVIOUS
<1>1. width \in Nat /\ height \in Nat \ {0}
  BY Sizes
<1>2. t = ScrollToCursor(b, from, height, width)
  BY DEF Scrolled
<1> PICK row : row = CursorCell(b, width).row
  OBVIOUS
<1>3. /\ t = Top(t.line, t.sub)
      /\ t.line \in 1..b.line /\ t.sub \in Nat /\ TopIn(b, t, width)
      /\ row \in Skipped(t, b.line) + 1..Len(RowsAt(b, b.line, width))
      /\ Place(b, t, b.line, row, width) <= height
      /\ t.sub > 0 => t.line = b.line /\ RowCount(Cur(b), width) > height
  BY <1>1, <1>2, ScrolledIs
<1> QED BY <1>3 DEF InView

LEMMA InViewTop ==
    ASSUME ViewInv
    PROVE  top.line \in Nat \ {0} /\ top.sub \in Nat /\ Width \in Nat /\ Sound(buffer)
<1>1. Sound(buffer) /\ lineNumbers \in BOOLEAN
  BY DEF ViewInv
<1>2. top.line \in 1..buffer.line /\ top.sub \in Nat
  BY DEF ViewInv, InView
<1>3. Width \in Nat
  BY <1>1, Sizes DEF Width
<1>4. buffer.line \in Nat
  BY <1>1, Parts
<1> QED BY <1>1, <1>2, <1>3, <1>4

\* A screenful of rows, one by one.
LEMMA PagedSound ==
    ASSUME NEW b, Sound(b), NEW up \in BOOLEAN, NEW want \in Nat, NEW n \in Nat, Width \in Nat
    PROVE  Sound(Paged(b, up, want, n))
<1> PICK w : w = Width
  OBVIOUS
<1> DEFINE S == {c \in Buffers : CursorIn(c)}
           g == [p \in S \X (1..n) |-> MoveVertical(p[1], up, want, w)]
           after == CHOOSE f : f = [k \in 0..n |-> IF k = 0 THEN b
                                                    ELSE MoveVertical(f[k - 1], up, want, w)]
<1>1. \A c : c \in S <=> Sound(c)
  BY DEF Sound
<1>2. \A c \in S : \A k \in 0 + 1..n : g[<<c, k>>] = MoveVertical(c, up, want, w)
  OBVIOUS
<1>3. \A c \in S : MoveVertical(c, up, want, w) \in S
  BY <1>1, VerticalSound DEF MovedFrom
<1> HIDE DEF g, S
<1>4. PICK f : GoesOn(f, 0, n, S, b, g)
  <2>1. \A c \in S : \A k \in 0 + 1..n : g[<<c, k>>] \in S
    BY <1>2, <1>3
  <2>2. 0 \in Int /\ n \in Int /\ 0 <= n /\ b \in S
    BY <1>1
  <2> QED BY <2>1, <2>2, Recursion
<1>5. \A k \in 0..n : (IF k = 0 THEN b ELSE g[<<f[k - 1], k>>])
                      = (IF k = 0 THEN b ELSE MoveVertical(f[k - 1], up, want, w))
  <2>1. SUFFICES ASSUME NEW k \in 0..n, k # 0
                 PROVE  g[<<f[k - 1], k>>] = MoveVertical(f[k - 1], up, want, w)
    OBVIOUS
  <2>2. k \in 0 + 1..n /\ k - 1 \in 0..n
    BY <2>1
  <2>3. f[k - 1] \in S
    BY <1>4, <2>2 DEF GoesOn
  <2> QED BY <1>2, <2>2, <2>3
<1>6. f = [k \in 0..n |-> IF k = 0 THEN b ELSE MoveVertical(f[k - 1], up, want, w)]
  BY <1>4, <1>5, Zenon DEF GoesOn
<1>7. after = [k \in 0..n |-> IF k = 0 THEN b ELSE MoveVertical(after[k - 1], up, want, w)]
  <2>1. \E h : h = [k \in 0..n |-> IF k = 0 THEN b ELSE MoveVertical(h[k - 1], up, want, w)]
    BY <1>6
  <2> QED BY <2>1, Zenon
<1>8. Paged(b, up, want, n) = after[n]
  BY DEF Paged
<1> HIDE DEF after
<1>9. after[0] = b
  <2>1. 0 \in 0..n
    OBVIOUS
  <2> QED BY <2>1, <1>7
<1>10. ASSUME NEW k \in 0..n - 1, after[k] \in S
       PROVE  after[k + 1] \in S
  <2>1. k + 1 \in 0..n /\ k + 1 # 0 /\ (k + 1) - 1 = k
    OBVIOUS
  <2>2. after[k + 1] = MoveVertical(after[k], up, want, w)
    BY <1>7, <2>1
  <2> QED BY <1>3, <1>10, <2>2
<1>11. \A k \in 0..n : after[k] \in S
  <2> DEFINE P == {k \in 0..n : after[k] \in S}
  <2>1. 0 \in P
    BY <1>1, <1>9
  <2>2. ASSUME NEW k \in 0..n - 1, k \in P PROVE k + 1 \in P
    BY <2>2, <1>10
  <2> HIDE DEF P
  <2>3. \A k \in 0..n : k \in P
    BY <2>1, <2>2, Upwards
  <2> QED BY <2>3 DEF P
<1>12. after[n] \in S
  BY <1>11
<1> QED BY <1>1, <1>8, <1>12

LEMMA WantTyped ==
    ASSUME ViewInv
    PROVE  Want \in Nat /\ CursorCell(buffer, Width).col \in Nat
<1>1. CursorCell(buffer, Width).col \in Nat
  BY InViewTop, CursorCellIs
<1> QED BY <1>1 DEF Want, ViewInv

LEMMA ViewInitInv == ViewInit => ViewInv
<1> SUFFICES ASSUME ViewInit PROVE ViewInv
  OBVIOUS
<1>1. PICK lines \in Opened : buffer = [NewBuffer EXCEPT !.lines = lines]
  BY DEF ViewInit
<1>2. lines \in Text
  BY <1>1, ViewAssumption
<1>3. buffer = [lines |-> lines, line |-> 1, col |-> 0, modified |-> FALSE]
  BY <1>1 DEF NewBuffer
<1>4. Sound(buffer)
  <2>1. lines \in Seq(Line) /\ lines # << >>
    BY <1>2 DEF Text
  <2>2. Len(lines) \in Nat \ {0} /\ lines[1] \in Line
    BY <2>1, ElementOfSeq
  <2>3. Len(lines[1]) \in Nat
    BY <2>2 DEF Line
  <2>4. CursorIn(buffer)
    BY <1>3, <2>2, <2>3 DEF CursorIn, Cur
  <2>5. buffer \in Buffers
    BY <1>2, <1>3 DEF Buffers
  <2> QED BY <2>4, <2>5 DEF Sound
<1>5. lineNumbers \in BOOLEAN /\ preferred = NoColumn /\ top = Scrolled(buffer, Top(1, 0), lineNumbers)
  <2>1. lineNumbers \in IF Gutter THEN BOOLEAN ELSE {FALSE}
    BY DEF ViewInit
  <2>2. lineNumbers \in BOOLEAN
    BY <2>1
  <2> QED BY <2>2 DEF ViewInit
<1>6. Top(1, 0).line \in Nat \ {0} /\ Top(1, 0).sub \in Nat
  BY DEF Top
<1>7. InView(buffer, top, TextWidth(lineNumbers, buffer), TextHeight)
  BY <1>4, <1>5, <1>6, ScrolledInView
<1> QED BY <1>4, <1>5, <1>7 DEF ViewInv, Width

\* What every key does: another sound text, and the view scrolled to the cursor from where
\* it was, or from around the place jumped to.
Moved ==
    /\ Sound(buffer')
    /\ preferred' \in Nat \cup {NoColumn}
    /\ lineNumbers' \in BOOLEAN

LEMMA KeyMoves ==
    ASSUME ViewInv, NEW b, Sound(b), Key(b)
    PROVE  Moved /\ top' = Scrolled(buffer', top, lineNumbers')
BY DEF Key, Moved, ViewInv

LEMMA StepMoves ==
    ASSUME ViewInv, EditingKey \/ MovingKey \/ UpDown(TRUE) \/ UpDown(FALSE)
                    \/ Page(TRUE) \/ Page(FALSE) \/ GutterKey
    PROVE  Moved /\ top' = Scrolled(buffer', top, lineNumbers')
<1>1. Sound(buffer) /\ Width \in Nat /\ lineNumbers \in BOOLEAN
  BY InViewTop DEF ViewInv
<1>2. CASE EditingKey
  <2>1. CASE \E c \in Typed : Key(InsertChar(buffer, c))
    <3>1. PICK c \in Typed : Key(InsertChar(buffer, c))
      BY <2>1
    <3>2. c \in Char
      BY ViewAssumption
    <3>3. Sound(InsertChar(buffer, c))
      BY <1>1, <3>2, InsertCharSound DEF EditedFrom
    <3> QED BY <3>1, <3>3, KeyMoves
  <2>2. CASE Key(Backspace(buffer))
    BY <1>1, <2>2, DeleteSound, KeyMoves DEF EditedFrom
  <2>3. CASE Key(DeleteForward(buffer))
    BY <1>1, <2>3, DeleteSound, KeyMoves DEF EditedFrom
  <2>4. CASE Key(SplitLine(buffer, FALSE))
    BY <1>1, <2>4, SplitLineSound, KeyMoves DEF EditedFrom
  <2>5. CASE Key(CutLine(buffer))
    BY <1>1, <2>5, CutLineSound, KeyMoves DEF EditedFrom
  <2> QED BY <1>2, <2>1, <2>2, <2>3, <2>4, <2>5 DEF EditingKey
<1>3. CASE MovingKey
  <2>1. \E c \in Moves(buffer) : Key(c)
    BY <1>3, Zenon DEF MovingKey, Moves
  <2>2. PICK c \in Moves(buffer) : Key(c)
    BY <2>1
  <2>3. Sound(c)
    BY <1>1, MovesSound DEF MovedFrom
  <2> QED BY <2>2, <2>3, KeyMoves
<1>4. ASSUME NEW up \in BOOLEAN, UpDown(up)
      PROVE  Moved /\ top' = Scrolled(buffer', top, lineNumbers')
  <2>1. buffer' = MoveVertical(buffer, up, Want, Width) /\ lineNumbers' = lineNumbers
        /\ top' = Scrolled(buffer', top, lineNumbers')
    BY <1>4 DEF UpDown, Vertical
  <2>2. Want \in Nat
    BY WantTyped
  <2>3. Sound(buffer')
    BY <1>1, <2>1, <2>2, VerticalSound DEF MovedFrom
  <2>4. preferred' = preferred \/ preferred' = Want
    BY <1>4 DEF UpDown
  <2>5. preferred' \in Nat \cup {NoColumn}
    BY <2>2, <2>4 DEF ViewInv
  <2> QED BY <1>1, <2>1, <2>3, <2>5 DEF Moved
<1>5. ASSUME NEW up \in BOOLEAN, Page(up)
      PROVE  Moved /\ top' = Scrolled(buffer', top, lineNumbers')
  <2> PICK want : want = CursorCell(buffer, Width).col
    OBVIOUS
  <2>1. buffer' = Paged(buffer, up, want, TextHeight) /\ lineNumbers' = lineNumbers
        /\ top' = Scrolled(buffer', top, lineNumbers')
    BY <1>5 DEF Page, Vertical
  <2>2. want \in Nat /\ TextHeight \in Nat
    BY WantTyped, <1>1, Sizes
  <2>3. Sound(buffer')
    BY <1>1, <2>1, <2>2, PagedSound
  <2>4. preferred' = NoColumn \/ preferred' = want
    BY <1>5 DEF Page
  <2>5. preferred' \in Nat \cup {NoColumn}
    BY <2>2, <2>4
  <2> QED BY <1>1, <2>1, <2>3, <2>5 DEF Moved
<1>6. CASE GutterKey
  BY <1>1, <1>6 DEF GutterKey, Moved
<1> QED BY <1>2, <1>3, <1>4, <1>5, <1>6

LEMMA JumpMoves ==
    ASSUME ViewInv, Jump
    PROVE  Moved /\ InView(buffer', top', TextWidth(lineNumbers', buffer'), TextHeight)
<1>1. Sound(buffer) /\ Width \in Nat /\ lineNumbers \in BOOLEAN /\ TextHeight \in Nat
  BY InViewTop, Sizes DEF ViewInv
<1>2. PICK p \in Places : LET b == SetCursor(buffer, p.line, p.col)
                          IN  /\ buffer' = b
                              /\ top' = Scrolled(b, CenterOn(b, p.line, TextHeight, Width), lineNumbers)
                              /\ preferred' = NoColumn
                              /\ UNCHANGED lineNumbers
  BY DEF Jump
<1>3. p.line \in 1..Len(buffer.lines) /\ p.line \in Nat \ {0} /\ p.col \in Nat
  <2>1. p \in [line : 1..Len(buffer.lines), col : 0..MaxSize]
    BY <1>2 DEF Places
  <2> QED BY <2>1, SizeAssumption
<1> PICK b : b = SetCursor(buffer, p.line, p.col)
  OBVIOUS
<1>4. Sound(b) /\ b.lines = buffer.lines
  BY <1>1, <1>3, SetCursorSound DEF MovedFrom
<1> PICK from : from = CenterOn(b, p.line, TextHeight, Width)
  OBVIOUS
<1>5. from.line \in Nat \ {0} /\ from.sub \in Nat
  BY <1>1, <1>3, <1>4, CenteredIs
<1>6. buffer' = b /\ top' = Scrolled(b, from, lineNumbers) /\ preferred' = NoColumn
      /\ lineNumbers' = lineNumbers
  BY <1>2
<1> PICK t : t = Scrolled(b, from, lineNumbers)
  OBVIOUS
<1>7. InView(b, t, TextWidth(lineNumbers, b), TextHeight)
  BY <1>1, <1>4, <1>5, ScrolledInView
<1> QED BY <1>1, <1>4, <1>6, <1>7 DEF Moved

LEMMA ViewNextInv ==
    ASSUME ViewInv, [ViewNext]_viewVars
    PROVE  ViewInv'
<1>1. Sound(buffer) /\ lineNumbers \in BOOLEAN /\ top.line \in Nat \ {0} /\ top.sub \in Nat
  BY InViewTop DEF ViewInv
<1>2. ASSUME Moved, InView(buffer', top', TextWidth(lineNumbers', buffer'), TextHeight)
      PROVE  ViewInv'
  BY <1>2 DEF Moved, ViewInv, Width, InView
<1>3. ASSUME Moved, top' = Scrolled(buffer', top, lineNumbers')
      PROVE  ViewInv'
  <2> PICK b : b = buffer'
    OBVIOUS
  <2> PICK on : on = lineNumbers'
    OBVIOUS
  <2> PICK t : t = Scrolled(b, top, on)
    OBVIOUS
  <2>1. Sound(b) /\ on \in BOOLEAN
    BY <1>3 DEF Moved
  <2>2. InView(b, t, TextWidth(on, b), TextHeight)
    BY <1>1, <2>1, ScrolledInView
  <2> QED BY <1>2, <1>3, <2>2
<1>4. CASE EditingKey \/ MovingKey \/ UpDown(TRUE) \/ UpDown(FALSE) \/ Page(TRUE) \/ Page(FALSE)
           \/ GutterKey
  BY <1>3, <1>4, StepMoves
<1>5. CASE Jump
  BY <1>2, <1>5, JumpMoves
<1>6. CASE UNCHANGED viewVars
  BY <1>6 DEF viewVars, ViewInv, Width
<1> QED BY <1>4, <1>5, <1>6 DEF ViewNext

LEMMA ViewInvariant == ViewSpec => []ViewInv
<1> QED BY ViewInitInv, ViewNextInv, PTL DEF ViewSpec

-----------------------------------------------------------------------------
(* The view: the cursor, scrolling, up and down                            *)

LEMMA CursorRowIs ==
    ASSUME ViewInv
    PROVE  /\ CursorRow \in DOMAIN Shown /\ CursorRow \in 1..Len(Shown) /\ CursorRow # 0
           /\ Len(Shown) <= TextHeight
           /\ Shown[CursorRow]
              = [line |-> buffer.line,
                 row |-> RowsAt(buffer, buffer.line, Width)[CursorCell(buffer, Width).row]]
<1> PICK b : b = buffer
  OBVIOUS
<1> PICK width : width = Width
  OBVIOUS
<1> PICK v : v = Shown
  OBVIOUS
<1> PICK row : row = CursorCell(b, width).row
  OBVIOUS
<1> PICK target : target = [line |-> buffer.line,
                            row |-> WrapLine(Cur(buffer), Width)[CursorCell(buffer, Width).row]]
  OBVIOUS
<1>1. Sound(b) /\ width \in Nat /\ TextHeight \in Nat
  BY InViewTop, Sizes DEF ViewInv
<1>2. InView(b, top, width, TextHeight)
  BY DEF ViewInv
<1>3. TopIn(b, top, width) /\ v = VisibleRows(b, top, TextHeight, width)
  BY <1>2 DEF InView, Shown
<1>4. v \in Seq(RowTags) /\ Len(v) <= TextHeight
  BY <1>1, <1>3, VisibleIs
<1>5. InPlace(v, b, top, TextHeight, width)
  BY <1>1, <1>3, VisibleIs
<1>6. /\ b.line \in top.line..Len(b.lines)
      /\ row \in Skipped(top, b.line) + 1..Len(RowsAt(b, b.line, width))
      /\ Place(b, top, b.line, row, width) <= TextHeight
  <2>1. b.line \in 1..Len(b.lines) /\ Len(b.lines) \in Nat
    BY <1>1, Parts
  <2>2. top.line \in 1..b.line
    BY <1>2 DEF InView
  <2> QED BY <1>2, <2>1, <2>2 DEF InView
<1> PICK p : p = Place(b, top, b.line, row, width)
  OBVIOUS
<1>7. p \in 1..Len(v) /\ v[p] = Tag(b, b.line, row, width)
  BY <1>5, <1>6 DEF InPlace
<1>8. v[p] = target /\ p \in DOMAIN v
  BY <1>4, <1>7 DEF Tag, RowsAt, Cur
<1> DEFINE on == {r \in DOMAIN Shown : Shown[r]
                                = [line |-> buffer.line,
                                   row |-> WrapLine(Cur(buffer), Width)[CursorCell(buffer, Width).row]]}
<1>9. CursorRow = IF on = {} THEN 0 ELSE CHOOSE r \in on : TRUE
  BY DEF CursorRow
<1>10. CursorRow \in on
  <2>1. p \in on
    BY <1>8
  <2>2. on # {}
    BY <2>1
  <2> QED BY <2>2, <1>9
<1>11. CursorRow \in 1..Len(v)
  <2>1. CursorRow \in DOMAIN v
    BY <1>10
  <2> QED BY <1>4, <2>1
<1>12. CursorRow # 0
  BY <1>4, <1>11
<1>13. CursorRow \in DOMAIN v /\ v[CursorRow] = target
  BY <1>10
<1>14. target = [line |-> buffer.line,
                 row |-> RowsAt(buffer, buffer.line, Width)[CursorCell(buffer, Width).row]]
  BY DEF RowsAt, Cur
<1> QED BY <1>4, <1>11, <1>12, <1>13, <1>14

LEMMA ViewTyped == ViewInv => ViewTypeOK /\ CursorVisible /\ TopIsALineStart
<1> SUFFICES ASSUME ViewInv PROVE ViewTypeOK /\ CursorVisible /\ TopIsALineStart
  OBVIOUS
<1>1. buffer \in Buffers /\ CursorIn(buffer)
  BY DEF ViewInv, Sound
<1>2. top = Top(top.line, top.sub) /\ top.line \in 1..buffer.line /\ top.sub \in Nat
  BY DEF ViewInv, InView
<1>3. buffer.line \in 1..Len(buffer.lines) /\ Len(buffer.lines) \in Nat
  BY Parts DEF ViewInv
<1>4. top.line \in 1..Len(buffer.lines)
  BY <1>2, <1>3
<1>5. top \in [line : 1..Len(buffer.lines), sub : Nat]
  BY <1>2, <1>4 DEF Top
<1>6. ViewTypeOK
  BY <1>1, <1>5 DEF ViewTypeOK, ViewInv
<1>7. CursorVisible
  BY CursorRowIs DEF CursorVisible
<1>8. TopIsALineStart
  BY DEF ViewInv, InView, TopIsALineStart
<1> QED BY <1>6, <1>7, <1>8

\* The cursor's row is on the screen after every key, whatever was edited, cut, jumped to or
\* toggled; and the view starts inside a line only while the line is taller than it.
THEOREM CursorOnScreen == ViewSpec => [](ViewTypeOK /\ CursorVisible /\ TopIsALineStart)
<1> QED BY ViewInvariant, ViewTyped, PTL

\* A key that leaves the cursor on a row the screen already had does not move the view.
THEOREM ViewRests == ViewSpec => NoNeedlessScroll
<1> DEFINE Rests ==
      \/ top.sub > 0 \/ RowCount(Cur(buffer'), Width') > TextHeight
      \/ ~\E r \in DOMAIN VisibleRows(buffer', top, TextHeight, Width') :
            VisibleRows(buffer', top, TextHeight, Width')[r]
            = [line |-> buffer'.line,
               row |-> WrapLine(Cur(buffer'), Width')[CursorCell(buffer', Width').row]]
      \/ top' = top \/ Jump
<1>1. ASSUME ViewInv, ViewNext PROVE Rests
  <2>1. CASE Jump
    BY <2>1
  <2>2. CASE ~Jump
    <3> SUFFICES ASSUME ~(top.sub > 0), ~(RowCount(Cur(buffer'), Width') > TextHeight),
                        NEW r \in DOMAIN VisibleRows(buffer', top, TextHeight, Width'),
                        VisibleRows(buffer', top, TextHeight, Width')[r]
                        = [line |-> buffer'.line,
                           row |-> WrapLine(Cur(buffer'), Width')[CursorCell(buffer', Width').row]]
                 PROVE  top' = top
      OBVIOUS
    <3> PICK b : b = buffer'
      OBVIOUS
    <3> PICK on : on = lineNumbers'
      OBVIOUS
    <3> PICK w : w = TextWidth(on, b)
      OBVIOUS
    <3>1. Moved /\ top' = Scrolled(buffer', top, lineNumbers')
      BY <1>1, <2>2, StepMoves DEF ViewNext
    <3>2. Sound(b) /\ on \in BOOLEAN /\ w = Width'
      BY <3>1 DEF Moved, Width
    <3>3. TextHeight \in Nat \ {0} /\ w \in Nat
      BY <3>2, Sizes
    <3>4. top.line \in Nat \ {0} /\ top.sub = 0
      BY <1>1, InViewTop
    <3>5. top = Top(top.line, top.sub)
      BY <1>1 DEF ViewInv, InView
    <3>6. RowCount(Cur(b), w) <= TextHeight
      <4>1. Cur(b) = b.lines[b.line] /\ b.line \in 1..Len(b.lines)
        BY <3>2, Parts DEF Cur
      <4>2. RowCount(Cur(b), w) = Len(RowsAt(b, b.line, w)) /\ Len(RowsAt(b, b.line, w)) \in Nat
        BY <3>2, <3>3, <4>1, RowsAtWrap
      <4>3. ~(RowCount(Cur(b), w) > TextHeight)
        BY <3>2
      <4> QED BY <3>3, <4>2, <4>3
    <3>7. /\ r \in DOMAIN VisibleRows(b, top, TextHeight, w)
          /\ VisibleRows(b, top, TextHeight, w)[r]
             = [line |-> b.line, row |-> RowsAt(b, b.line, w)[CursorCell(b, w).row]]
      BY <3>2 DEF RowsAt, Cur
    <3>8. ScrollToCursor(b, top, TextHeight, w) = top
      BY <3>2, <3>3, <3>4, <3>5, <3>6, <3>7, ViewStays
    <3> QED BY <3>1, <3>8 DEF Scrolled
  <2> QED BY <2>1, <2>2
<1>2. ASSUME UNCHANGED viewVars PROVE Rests
  BY <1>2 DEF viewVars
<1>3. ViewInv /\ [ViewNext]_viewVars => [Rests]_viewVars
  BY <1>1, <1>2
<1>4. NoNeedlessScroll <=> [][Rests]_viewVars
  BY DEF NoNeedlessScroll
<1> HIDE DEF Rests
<1> QED BY <1>3, <1>4, ViewInvariant, PTL DEF ViewSpec

LEMMA ReachesHasColumn ==
    ASSUME NEW to, NEW want, NEW l, NEW r, to = [line |-> l, row |-> r]
    PROVE  Reaches(to, want, Width) <=> HasColumn(RowsAt(buffer, l, Width), r, buffer.lines[l], want)
BY DEF Reaches, HasColumn, RowsAt

Opposite(up, down) == down = ~up

LEMMA BackAgain ==
    ASSUME ViewInv, NEW up \in BOOLEAN, NEW down \in BOOLEAN, Opposite(up, down),
           NEW want, want = CursorCell(buffer, Width).col,
           NEW to, to = TargetRow(buffer, up, Width), to # NoRow,
           Reaches(to, want, Width), Reaches(OwnRow(buffer), want, Width),
           NEW there, there = MoveVertical(buffer, up, want, Width),
           NEW back, back = MoveVertical(there, down, want, Width)
    PROVE  /\ there.line = to.line /\ CursorCell(there, Width).row = to.row
           /\ back.line = buffer.line /\ CursorCell(back, Width) = CursorCell(buffer, Width)
<1> PICK b : b = buffer
  OBVIOUS
<1> PICK w : w = Width
  OBVIOUS
<1>1. Sound(b) /\ w \in Nat /\ want \in Nat
  BY InViewTop, WantTyped
<1>2. PICK l \in 1..Len(b.lines) : \E r \in 1..Len(RowsAt(b, l, w)) :
         TargetRow(b, up, w) = [line |-> l, row |-> r]
  BY <1>1, TargetIs
<1>3. PICK r \in 1..Len(RowsAt(b, l, w)) : TargetRow(b, up, w) = [line |-> l, row |-> r]
  BY <1>2
<1>4. to = [line |-> l, row |-> r]
  BY <1>3
<1>5. HasColumn(RowsAt(b, l, w), r, b.lines[l], want)
  BY <1>4, ReachesHasColumn
<1> PICK own : own = CursorCell(b, w).row
  OBVIOUS
<1>6. HasColumn(RowsAt(b, b.line, w), CursorCell(b, w).row, Cur(b), want)
  <2>1. OwnRow(b) = [line |-> b.line, row |-> own]
    BY DEF OwnRow
  <2> QED BY <2>1, ReachesHasColumn DEF Cur
<1>7. there = MoveVertical(b, up, want, w) /\ back = MoveVertical(there, down, want, w)
  OBVIOUS
<1>8. MovedFrom(b, there) /\ there.line = l /\ CursorCell(there, w).row = r
  BY <1>1, <1>2, <1>3, <1>5, <1>7, There
<1>9. Sound(there) /\ there.lines = b.lines
  BY <1>8 DEF MovedFrom
<1>10. TargetRow(b, up, w) = [line |-> there.line, row |-> CursorCell(there, w).row]
  BY <1>3, <1>8
<1>11. TargetRow(there, down, w) = [line |-> b.line, row |-> CursorCell(b, w).row]
  BY <1>1, <1>9, <1>10, TargetBack DEF Opposite
<1>12. want = CursorCell(b, w).col
  OBVIOUS
<1>13. back.line = b.line
  BY <1>1, <1>6, <1>7, <1>9, <1>11, <1>12, AndBack
<1>14. CursorCell(back, w) = CursorCell(b, w)
  BY <1>1, <1>6, <1>7, <1>9, <1>11, <1>12, AndBack
<1> QED BY <1>4, <1>8, <1>13, <1>14

Returns(up, down) ==
    LET want == CursorCell(buffer, Width).col
        to == TargetRow(buffer, up, Width)
        there == MoveVertical(buffer, up, want, Width)
        back == MoveVertical(there, down, want, Width)
    IN  to # NoRow /\ Reaches(to, want, Width) /\ Reaches(OwnRow(buffer), want, Width)
        => there.line = to.line /\ CursorCell(there, Width).row = to.row
           /\ back.line = buffer.line /\ CursorCell(back, Width) = CursorCell(buffer, Width)

\* Up and down again, or down and up again, is back on the cell it left, when both rows have
\* a cell for its column or end their lines.
THEOREM RowsReturn == ViewSpec => []ThereAndBack
<1>1. ViewInv => ThereAndBack
  <2> SUFFICES ASSUME ViewInv PROVE ThereAndBack
    OBVIOUS
  <2>1. ASSUME NEW up \in BOOLEAN, NEW down \in BOOLEAN, Opposite(up, down)
        PROVE  Returns(up, down)
    <3> PICK want : want = CursorCell(buffer, Width).col
      OBVIOUS
    <3> PICK to : to = TargetRow(buffer, up, Width)
      OBVIOUS
    <3> PICK there : there = MoveVertical(buffer, up, want, Width)
      OBVIOUS
    <3> PICK back : back = MoveVertical(there, down, want, Width)
      OBVIOUS
    <3>1. ASSUME to # NoRow, Reaches(to, want, Width), Reaches(OwnRow(buffer), want, Width)
          PROVE  /\ there.line = to.line /\ CursorCell(there, Width).row = to.row
                 /\ back.line = buffer.line /\ CursorCell(back, Width) = CursorCell(buffer, Width)
      <4>1. there.line = to.line
        BY <2>1, <3>1, BackAgain
      <4>2. CursorCell(there, Width).row = to.row
        BY <2>1, <3>1, BackAgain
      <4>3. back.line = buffer.line
        BY <2>1, <3>1, BackAgain
      <4>4. CursorCell(back, Width) = CursorCell(buffer, Width)
        BY <2>1, <3>1, BackAgain
      <4> QED BY <4>1, <4>2, <4>3, <4>4
    <3> QED BY <3>1 DEF Returns
  <2>2. Returns(TRUE, FALSE) /\ Returns(FALSE, TRUE)
    BY <2>1 DEF Opposite
  <2> QED BY <2>2 DEF ThereAndBack, Returns
<1> QED BY <1>1, ViewInvariant, PTL

-----------------------------------------------------------------------------
(* The view: the region                                                    *)

LEMMA ShownRows ==
    ASSUME ViewInv, NEW i \in DOMAIN Shown
    PROVE  /\ Shown[i].line \in 1..Len(buffer.lines) /\ Shown[i].line \in Nat
           /\ buffer.lines[Shown[i].line] \in Line
           /\ Shown[i].row.start \in 0..Len(buffer.lines[Shown[i].line])
           /\ Shown[i].row.end \in Shown[i].row.start..Len(buffer.lines[Shown[i].line])
           /\ \E r \in 1..Len(RowsAt(buffer, Shown[i].line, Width)) :
                 Shown[i].row = RowsAt(buffer, Shown[i].line, Width)[r]
<1> PICK b : b = buffer
  OBVIOUS
<1> PICK w : w = Width
  OBVIOUS
<1> PICK v : v = Shown
  OBVIOUS
<1>1. Sound(b) /\ w \in Nat /\ TextHeight \in Nat
  BY InViewTop, Sizes DEF ViewInv
<1>2. TopIn(b, top, w) /\ v = VisibleRows(b, top, TextHeight, w)
  BY DEF ViewInv, InView, Shown
<1>3. v \in Seq(RowTags) /\ OnlyRows(v, b, top, w)
  BY <1>1, <1>2, VisibleIs
<1>4. i \in 1..Len(v)
  BY <1>3
<1>5. PICK l \in top.line..Len(b.lines) : \E r \in Skipped(top, l) + 1..Len(RowsAt(b, l, w)) :
         i = Place(b, top, l, r, w) /\ v[i] = Tag(b, l, r, w)
  BY <1>3, <1>4 DEF OnlyRows
<1>6. PICK r \in Skipped(top, l) + 1..Len(RowsAt(b, l, w)) : v[i] = Tag(b, l, r, w)
  BY <1>5
<1>7. l \in 1..Len(b.lines) /\ l \in Nat
  <2>1. Len(b.lines) \in Nat
    BY <1>1, Parts
  <2> QED BY <1>2, <2>1 DEF TopIn
<1> PICK rows : rows = RowsAt(b, l, w)
  OBVIOUS
<1>8. IsWrap(rows, b.lines[l], Greater(w, 1)) /\ b.lines[l] \in Line /\ Len(rows) \in Nat
  BY <1>1, <1>7, RowsAtWrap, Parts
<1>9. r \in 1..Len(rows)
  <2>1. Skipped(top, l) \in Nat
    BY <1>2, <1>7, <1>1, TaggedIs
  <2> QED BY <2>1, <1>8
<1>10. rows[r].start \in 0..Len(b.lines[l]) /\ rows[r].end \in rows[r].start..Len(b.lines[l])
  BY <1>8, <1>9, WrapTyped
<1>11. v[i].line = l /\ v[i].row = rows[r]
  BY <1>6 DEF Tag
<1> QED BY <1>7, <1>8, <1>9, <1>10, <1>11

Highlighted(r, m) ==
    LET line == Shown[r].line
        row == Shown[r].row
        s == buffer.lines[line]
        at == ColumnsOf(s, row)
        start == StartOf(m, Cursor(buffer))
        end == StopOf(m, Cursor(buffer))
    IN  RegionColumns(s, row, line, start, end) = Cells(at, Inside(row, line, start, end))

LEMMA HighlightedIs ==
    ASSUME ViewInv, NEW r \in DOMAIN Shown, NEW m \in Places
    PROVE  Highlighted(r, m)
<1> PICK line : line = Shown[r].line
  OBVIOUS
<1> PICK row : row = Shown[r].row
  OBVIOUS
<1> PICK s : s = buffer.lines[line]
  OBVIOUS
<1> PICK at : at = ColumnsOf(s, row)
  OBVIOUS
<1> PICK start : start = StartOf(m, Cursor(buffer))
  OBVIOUS
<1> PICK end : end = StopOf(m, Cursor(buffer))
  OBVIOUS
<1>1. line \in Nat /\ s \in Line /\ row.start \in 0..Len(s) /\ row.end \in row.start..Len(s)
  BY ShownRows
<1>2. m.line \in Nat /\ m.col \in Nat
  <2>1. m \in [line : 1..Len(buffer.lines), col : 0..MaxSize]
    BY DEF Places
  <2> QED BY <2>1, SizeAssumption
<1>3. Cursor(buffer).line \in Nat /\ Cursor(buffer).col \in Nat
  <2>1. buffer.line \in Nat /\ buffer.col \in Nat
    BY InViewTop, Parts
  <2> QED BY <2>1 DEF Cursor, Position
<1>4. start.line \in Nat /\ start.col \in Nat /\ end.line \in Nat /\ end.col \in Nat
  BY <1>2, <1>3 DEF StartOf, StopOf
<1>5. RegionColumns(s, row, line, start, end) = Cells(at, Inside(row, line, start, end))
  BY <1>1, <1>4, RegionIs
<1> QED BY <1>5, Zenon DEF Highlighted

\* With a mark anywhere, the cells inverted on a row are exactly those of the region's
\* characters on it.
THEOREM HighlightRight == ViewSpec => []HighlightExact
<1>1. ViewInv => HighlightExact
  <2> SUFFICES ASSUME ViewInv PROVE HighlightExact
    OBVIOUS
  <2>1. \A r \in DOMAIN Shown : \A m \in Places : Highlighted(r, m)
    BY HighlightedIs
  <2> QED BY <2>1, Zenon DEF HighlightExact, Highlighted, Cells, Inside, ColumnsOf
<1> QED BY <1>1, ViewInvariant, PTL

-----------------------------------------------------------------------------
(* The view: the frame                                                     *)

\* What the kernel can draw at all: no control character in the text (a run shows what it
\* does with one), and columns enough for the widest glyph.
Drawable ==
    /\ Width >= 2
    /\ \A l \in 1..Len(buffer.lines) : \A p \in 1..Len(buffer.lines[l]) :
          buffer.lines[l][p] \notin Control

\* A row of cells none of which is a control character or hangs over the edge.
InRow(cells, cols) ==
    /\ cells \in Seq(Cell) /\ Len(cells) = cols
    /\ \A n \in 1..cols : cells[n] \notin Control
    /\ \A n \in 1..cols : cells[n] \in Wide => n + 1 <= cols

LEMMA InRowAccepted ==
    ASSUME Width \in Nat, NEW cells, InRow(cells, Width)
    PROVE  RowAccepted(cells)
<1> PICK w : w = Width
  OBVIOUS
<1> DEFINE S == [ok : BOOLEAN, skip : BOOLEAN]
           g == [x \in S \X (1..w) |-> CellAccepted(x[1], cells[x[2]], x[2])]
           walk == CHOOSE f : f = [n \in 0..w |-> IF n = 0 THEN [ok |-> TRUE, skip |-> FALSE]
                                                  ELSE CellAccepted(f[n - 1], cells[n], n)]
<1>1. w \in Nat /\ w \in Int /\ 0 \in Int /\ 0 <= w /\ Len(cells) = w /\ cells \in Seq(Cell)
  BY DEF InRow
<1>2. \A x \in S : \A n \in 0 + 1..w : g[<<x, n>>] = CellAccepted(x, cells[n], n)
  OBVIOUS
<1>3. ASSUME NEW x \in S, NEW n \in 1..w
      PROVE  /\ CellAccepted(x, cells[n], n) \in S
             /\ x.ok => CellAccepted(x, cells[n], n).ok
  <2> PICK c : c = cells[n]
    OBVIOUS
  <2>1. c \notin Control /\ (c \in Wide => n + 1 <= w)
    BY DEF InRow
  <2>2. n - 1 + Greater(CellWidth(c), 1) <= w
    <3>1. c \in Wide => Greater(CellWidth(c), 1) = 2
      BY LayoutAssumption DEF Greater, CellWidth
    <3>2. c \notin Wide => Greater(CellWidth(c), 1) = 1
      BY DEF Greater, CellWidth
    <3> QED BY <3>1, <3>2, <2>1, <1>1
  <2>3. CASE x.skip
    <3>1. CellAccepted(x, c, n) = [x EXCEPT !.skip = FALSE]
      BY <2>3 DEF CellAccepted
    <3> QED BY <3>1
  <2>4. CASE ~x.skip
    <3>1. CellAccepted(x, c, n)
          = [ok |-> x.ok /\ c \notin Control /\ n - 1 + Greater(CellWidth(c), 1) <= Width,
             skip |-> c \in Wide]
      BY <2>4 DEF CellAccepted
    <3>2. (x.ok /\ c \notin Control /\ n - 1 + Greater(CellWidth(c), 1) <= Width) <=> x.ok
      BY <2>1, <2>2
    <3> QED BY <3>1, <3>2
  <2> QED BY <2>3, <2>4
<1> HIDE DEF g, S
<1>4. [ok |-> TRUE, skip |-> FALSE] \in S
  BY DEF S
<1>5. PICK f : GoesOn(f, 0, w, S, [ok |-> TRUE, skip |-> FALSE], g)
  <2>1. \A x \in S : \A n \in 0 + 1..w : g[<<x, n>>] \in S
    <3>1. \A x \in S : \A n \in 1..w : CellAccepted(x, cells[n], n) \in S
      BY <1>3
    <3>2. 0 + 1 = 1
      OBVIOUS
    <3> QED BY <1>2, <3>1, <3>2
  <2> QED BY <1>1, <1>4, <2>1, Recursion
<1>6. \A n \in 0..w : (IF n = 0 THEN [ok |-> TRUE, skip |-> FALSE] ELSE g[<<f[n - 1], n>>])
                      = (IF n = 0 THEN [ok |-> TRUE, skip |-> FALSE]
                         ELSE CellAccepted(f[n - 1], cells[n], n))
  <2>1. SUFFICES ASSUME NEW n \in 0..w, n # 0
                 PROVE  g[<<f[n - 1], n>>] = CellAccepted(f[n - 1], cells[n], n)
    OBVIOUS
  <2>2. n \in 0 + 1..w /\ n - 1 \in 0..w
    BY <2>1, <1>1
  <2>3. f[n - 1] \in S
    BY <1>5, <2>2 DEF GoesOn
  <2> QED BY <1>2, <2>2, <2>3
<1>7. f = [n \in 0..w |-> IF n = 0 THEN [ok |-> TRUE, skip |-> FALSE]
                          ELSE CellAccepted(f[n - 1], cells[n], n)]
  BY <1>5, <1>6, Zenon DEF GoesOn
<1>8. walk = [n \in 0..w |-> IF n = 0 THEN [ok |-> TRUE, skip |-> FALSE]
                             ELSE CellAccepted(walk[n - 1], cells[n], n)]
  <2>1. \E h : h = [n \in 0..w |-> IF n = 0 THEN [ok |-> TRUE, skip |-> FALSE]
                                   ELSE CellAccepted(h[n - 1], cells[n], n)]
    BY <1>7
  <2> QED BY <2>1, Zenon
<1>9. RowAccepted(cells) <=> walk[w].ok
  BY <1>1 DEF RowAccepted
<1> HIDE DEF walk
<1> DEFINE P == {n \in 0..w : walk[n] \in S /\ walk[n].ok}
<1>10. 0 \in P
  <2>1. walk[0] = [ok |-> TRUE, skip |-> FALSE]
    BY <1>1, <1>8
  <2> QED BY <2>1, <1>1, <1>4
<1>11. ASSUME NEW n \in 0..w - 1, n \in P PROVE n + 1 \in P
  <2>1. n + 1 \in 0..w /\ n + 1 \in 1..w /\ n + 1 # 0 /\ (n + 1) - 1 = n
    BY <1>1
  <2>2. walk[n + 1] = CellAccepted(walk[n], cells[n + 1], n + 1)
    BY <2>1, <1>8
  <2>3. walk[n] \in S /\ walk[n].ok
    BY <1>11
  <2>4. walk[n + 1] \in S /\ walk[n + 1].ok
    BY <2>1, <2>2, <2>3, <1>3
  <2> QED BY <2>1, <2>4
<1> HIDE DEF P
<1>12. w \in P
  <2>1. \A n \in 0..w : n \in P
    BY <1>1, <1>10, <1>11, Upwards
  <2> QED BY <2>1, <1>1
<1> QED BY <1>9, <1>12 DEF P

\* A row that is shown is drawn whole: nothing on it hangs over the edge, and every
\* character that has a cell is in its column.
LEMMA RowDrawn ==
    ASSUME ViewInv, Drawable, NEW i \in DOMAIN Shown,
           NEW s, s = buffer.lines[Shown[i].line], NEW row, row = Shown[i].row,
           NEW v, v = RenderRow(s, row, Width)
    PROVE  /\ InRow(v, Width)
           /\ \A p \in row.start + 1..row.end : s[p] \notin Zero =>
                 v[ColumnAt(s, row.start, p - 1) + 1] = Glyph(s[p])
<1> PICK l : l = Shown[i].line
  OBVIOUS
<1> PICK w : w = Width
  OBVIOUS
<1>1. w \in Nat /\ w >= 2 /\ Sound(buffer)
  BY InViewTop DEF Drawable
<1>2. l \in 1..Len(buffer.lines) /\ s = buffer.lines[l] /\ s \in Line
      /\ row.start \in 0..Len(s) /\ row.end \in row.start..Len(s)
  BY ShownRows
<1>3. PICK r \in 1..Len(RowsAt(buffer, l, w)) : row = RowsAt(buffer, l, w)[r]
  BY ShownRows
<1>4. AllHaveRoom(s, row, w)
  <2>1. IsWrap(RowsAt(buffer, l, w), s, Greater(w, 1))
    BY <1>1, <1>2, RowsAtWrap
  <2>2. Greater(w, 1) = w
    BY <1>1 DEF Greater
  <2>3. Chained(RowsAt(buffer, l, w), s, w)
    BY <2>1, <2>2 DEF IsWrap
  <2> QED BY <1>3, <2>3 DEF Chained, AllHaveRoom
<1>5. v = RenderRow(s, row, w)
  OBVIOUS
<1>12. Rendered(v, s, row, w)
  BY <1>1, <1>2, <1>4, <1>5, RenderIs
<1>6. v \in Seq(Cell) /\ Len(v) = w
  BY <1>12 DEF Rendered
<1>7. \A n \in 1..w : v[n] = Space \/ \E p \in row.start + 1..row.end : v[n] = s[p]
  BY <1>12 DEF Rendered
<1>8. \A n \in 1..w : v[n] \in Wide => n + 1 <= w
  BY <1>12 DEF Rendered
<1>9. \A p \in row.start + 1..row.end : s[p] \notin Zero =>
          v[ColumnAt(s, row.start, p - 1) + 1] = Glyph(s[p])
  BY <1>12 DEF Rendered
<1>10. \A n \in 1..w : v[n] \notin Control
  <2>1. Space \notin Control
    BY ViewAssumption
  <2>2. \A p \in 1..Len(s) : s[p] \notin Control
    BY <1>2 DEF Drawable
  <2>3. \A p \in row.start + 1..row.end : p \in 1..Len(s)
    <3>1. Len(s) \in Nat
      BY <1>2 DEF Line
    <3> QED BY <3>1, <1>2
  <2> QED BY <1>7, <2>1, <2>2, <2>3
<1>11. InRow(v, w)
  BY <1>6, <1>8, <1>10 DEF InRow
<1> QED BY <1>9, <1>11

LEMMA FrameDrawn ==
    ASSUME ViewInv, Drawable
    PROVE  FrameAccepted
<1>1. Width \in Nat /\ Width >= 2
  BY InViewTop DEF Drawable
<1>2. ASSUME NEW r \in 1..TextHeight PROVE RowAccepted(Frame[r])
  <2>1. CASE r <= Len(Shown)
    <3>1. r \in DOMAIN Shown
      <4>1. Shown \in Seq(RowTags)
        <5>1. Sound(buffer) /\ TextHeight \in Nat
          BY InViewTop, Sizes DEF ViewInv
        <5>2. TopIn(buffer, top, Width)
          BY DEF ViewInv, InView
        <5>3. Shown = VisibleRows(buffer, top, TextHeight, Width)
          BY DEF Shown
        <5> QED BY <1>1, <5>1, <5>2, <5>3, VisibleIs
      <4>2. TextHeight \in Nat
        BY InViewTop, Sizes DEF ViewInv
      <4> QED BY <2>1, <4>1, <4>2
    <3>2. Frame[r] = RenderRow(buffer.lines[Shown[r].line], Shown[r].row, Width)
      BY <2>1 DEF Frame
    <3>3. InRow(Frame[r], Width)
      BY <3>1, <3>2, RowDrawn
    <3> QED BY <1>1, <3>3, InRowAccepted
  <2>2. CASE ~(r <= Len(Shown))
    <3>1. Frame[r] = Spaces(Width)
      BY <2>2 DEF Frame
    <3>2. Space \notin Control /\ Space \notin Wide
      BY ViewAssumption, LayoutAssumption
    <3>3. InRow(Frame[r], Width)
      BY <1>1, <3>1, <3>2, BlanksAre DEF InRow
    <3> QED BY <1>1, <3>3, InRowAccepted
  <2> QED BY <2>1, <2>2
<1>3. DOMAIN Frame = 1..TextHeight
  BY DEF Frame
<1> QED BY <1>2, <1>3 DEF FrameAccepted

LEMMA CursorDrawn ==
    ASSUME ViewInv, Drawable
    PROVE  CursorOnItsCharacter
<1> SUFFICES ASSUME buffer.col < Len(Cur(buffer)), Cur(buffer)[buffer.col + 1] \notin Zero
             PROVE  Frame[CursorRow][CursorCell(buffer, Width).col + 1]
                    = Glyph(Cur(buffer)[buffer.col + 1])
  BY DEF CursorOnItsCharacter, Glyph
<1> PICK s : s = Cur(buffer)
  OBVIOUS
<1> PICK p : p = buffer.col + 1
  OBVIOUS
<1> PICK i : i = CursorRow
  OBVIOUS
<1> PICK row : row = Shown[i].row
  OBVIOUS
<1> PICK rows : rows = RowsAt(buffer, buffer.line, Width)
  OBVIOUS
<1> PICK at : at = RowAt(rows, buffer.col)
  OBVIOUS
<1>1. Sound(buffer) /\ Width \in Nat
  BY InViewTop
<1>2. /\ i \in DOMAIN Shown /\ i \in 1..Len(Shown) /\ Len(Shown) <= TextHeight
      /\ Shown[i] = [line |-> buffer.line, row |-> rows[CursorCell(buffer, Width).row]]
  BY CursorRowIs
<1>3. /\ CursorCell(buffer, Width).row = at
      /\ at \in 1..Len(rows)
      /\ CursorCell(buffer, Width).col = ColumnAt(s, rows[at].start, buffer.col)
  BY <1>1, CursorCellIs
<1>4. row = rows[at] /\ Shown[i].line = buffer.line
  BY <1>2, <1>3
<1>5. s \in Line /\ Len(s) \in Nat /\ buffer.col \in 0..Len(s) /\ s = buffer.lines[buffer.line]
      /\ buffer.line \in 1..Len(buffer.lines)
  BY <1>1, Parts DEF Cur
<1>6. IsWrap(rows, s, Greater(Width, 1))
  BY <1>1, <1>5, RowsAtWrap
<1>7. row.start <= buffer.col /\ buffer.col < row.end /\ row.start \in Nat /\ row.end \in Nat
  <2>1. rows[at].start <= buffer.col /\ (buffer.col < rows[at].end \/ at = Len(rows))
    BY <1>5, <1>6, RowAtIs
  <2>2. rows[Len(rows)].end = Len(s)
    BY <1>6 DEF IsWrap
  <2>3. rows[at].start \in Nat /\ rows[at].end \in Nat
    BY <1>3, <1>5, <1>6, WrapTyped
  <2> QED BY <1>4, <2>1, <2>2, <2>3
<1>8. p \in row.start + 1..row.end /\ p - 1 = buffer.col /\ s[p] \notin Zero
  BY <1>5, <1>7
<1> PICK v : v = RenderRow(s, row, Width)
  OBVIOUS
<1>9. v[ColumnAt(s, row.start, p - 1) + 1] = Glyph(s[p])
  <2>1. s = buffer.lines[Shown[i].line]
    BY <1>4, <1>5
  <2>2. \A q \in row.start + 1..row.end : s[q] \notin Zero =>
                 v[ColumnAt(s, row.start, q - 1) + 1] = Glyph(s[q])
    BY <1>2, <2>1, RowDrawn
  <2> QED BY <1>8, <2>2
<1>10. Frame[i] = v
  <2>1. i \in 1..TextHeight /\ i <= Len(Shown)
    <3>1. TextHeight \in Nat /\ Len(Shown) \in Int
      <4>1. TextHeight \in Nat
        BY <1>1, Sizes DEF ViewInv
      <4>2. Shown \in Seq(RowTags)
        BY <1>1, <4>1, VisibleIs DEF ViewInv, InView, Shown
      <4> QED BY <4>1, <4>2
    <3> QED BY <1>2, <3>1
  <2>2. Frame[i] = RenderRow(buffer.lines[Shown[i].line], Shown[i].row, Width)
    BY <2>1 DEF Frame
  <2> QED BY <2>2, <1>4, <1>5
<1> QED BY <1>3, <1>4, <1>8, <1>9, <1>10

\* Whatever is typed, cut, jumped to or toggled: the kernel accepts the frame, the cursor is
\* in it, and the cell it is on is the character that the next key acts on.
THEOREM ScreenDrawn == ViewSpec => [](Drawable => ScreenRight)
<1>1. ViewInv => (Drawable => ScreenRight)
  BY ViewTyped, FrameDrawn, CursorDrawn DEF ScreenRight
<1> QED BY <1>1, ViewInvariant, PTL
=============================================================================
