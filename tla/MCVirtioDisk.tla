---------------------------- MODULE MCVirtioDisk ----------------------------
(* The disk driver for TLC: the constants come from the .cfg files. *)
EXTENDS VirtioDisk, TLC

Perms == Permutations(Procs) \cup Permutations(Blocks) \cup Permutations(Values)
=============================================================================
