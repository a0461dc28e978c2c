------------------------------ MODULE MCBcache ------------------------------
(* The buffer cache for TLC: the constants come from the .cfg file. *)
EXTENDS Bcache, TLC

Perms == Permutations(Procs) \cup Permutations(Blocks) \cup Permutations(Values)
=============================================================================
