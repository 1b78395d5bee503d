---------------------------- MODULE MCShellVars -----------------------------
(* One name: names meet only when one is copied into another, and that is  *)
(* an assignment of one of the two values.                                 *)
EXTENDS ShellVars

=============================================================================
