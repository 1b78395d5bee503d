---------------------------- MODULE MCShellExec -----------------------------
(* TLC instance of ShellExec.                                              *)
EXTENDS ShellExec
=============================================================================
