------------------------------ MODULE MCEditor ------------------------------
(* TLC instance of Editor.                                                 *)
EXTENDS Editor

\* The second term can overlap itself.
Terms == {<<"a">>, <<"a", "a">>}
NoTerms == {}

\* Files with and without a final newline, an empty one, and one with an empty last line.
TwoLines == {<<<<"a">>, <<>>>>}
Plain == {<<<<"a">>, <<"a", "a">>, <<>>>>}
Shapes == {<<<<>>>>, <<<<"a">>>>, <<<<"a">>, <<>>>>, <<<<"a">>, <<>>, <<>>>>}
=============================================================================
