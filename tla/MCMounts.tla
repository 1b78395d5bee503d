------------------------------ MODULE MCMounts ------------------------------
(* TLC instance of Mounts: the root volume, one that can be mounted and    *)
(* one more to nest in it.                                                 *)
EXTENDS Mounts, TLC

CONSTANTS d0, d1, d2, a, b

Volumes == {d0, d1, d2}
Components == {a, b}
Symmetric == Permutations({d1, d2}) \cup Permutations({a, b})
=============================================================================
