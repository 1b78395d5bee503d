---------------------------- MODULE MCEditorView ----------------------------
(* TLC instance of EditorView.                                             *)
EXTENDS EditorView

OneLine == {<<Empty>>}
\* A wide character at the edge of a row of three, and a line taller than the screen.
\* And lines enough for a wider gutter, with a tab.
Wides == {<<Empty>>, <<<<"a", "a", "W", "a">>, <<"a">>>>,
          <<<<"a", "T", "W">>, <<"W">>, <<"a">>>>}
\* A zero-width character after a full row, as a file can hold.
Joined == {<<<<"a", "a", "a", "Z">>>>}
Binary == {<<<<"E">>>>}
=============================================================================
