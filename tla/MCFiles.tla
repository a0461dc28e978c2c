------------------------------ MODULE MCFiles ------------------------------
(***************************************************************************)
(* A pipe, and the table of open files with pipes' ends in it, for TLC.    *)
(* The two models share no state, so a behaviour runs one of them, and the *)
(* states add up instead of multiplying.                                   *)
(***************************************************************************)
EXTENDS Pipe, Files, TLC

VARIABLE part

allvars == <<part, vars, filevars>>

(* In a behaviour of the table, the pipe is as it is at first, in one way. *)
MCInit ==
  /\ part \in {"pipe", "files"} /\ Init /\ FilesInit
  /\ part = "files" => rfile = Procs /\ wfile = Procs /\ \A k, l \in DOMAIN data : data[k] = data[l]

MCNext ==
  /\ \/ part = "pipe" /\ Next /\ UNCHANGED filevars
     \/ part = "files" /\ FilesNext /\ UNCHANGED vars
  /\ UNCHANGED part

MCSpec == MCInit /\ [][MCNext]_allvars

Perms == Permutations(Killable) \cup Permutations(Procs \ Killable) \cup Permutations(Bytes)
=============================================================================
