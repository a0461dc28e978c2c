------------------------------- MODULE MCLog --------------------------------
(* The log for TLC: the constants come from the .cfg files. *)
EXTENDS Log, TLC

Perms == Permutations(Procs) \cup Permutations(Blocks) \cup Permutations(Values)
=============================================================================
