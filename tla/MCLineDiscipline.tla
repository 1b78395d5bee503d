-------------------------- MODULE MCLineDiscipline --------------------------
(* TLC instance of LineDiscipline.                                         *)
EXTENDS LineDiscipline
=============================================================================
