------------------------------- MODULE MCProc -------------------------------
(* The process table for TLC: the constants come from the .cfg files. *)
EXTENDS Proc, TLC

Perms == Permutations(CPUs)
=============================================================================
