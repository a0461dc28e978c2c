------------------------------- MODULE TxDisk -------------------------------
(***************************************************************************)
(* What the logging layer promises to the file system: a disk on which the *)
(* block writes of a file-system call become durable all together or not   *)
(* at all.                                                                 *)
(*                                                                         *)
(*   stable  what the disk holds after a crash at this moment              *)
(*   mem     what a read returns now                                       *)
(*   active  the processes between begin_op() and end_op()                 *)
(*                                                                         *)
(* The only step that changes stable takes all of mem, and it is taken     *)
(* with no call active: no half of a call is ever made durable, and no     *)
(* committed call is ever lost.                                            *)
(***************************************************************************)
CONSTANTS Procs, Blocks, Values

VARIABLES stable, mem, active

txvars == <<stable, mem, active>>

TxInit ==
  /\ stable \in [Blocks -> Values]
  /\ mem = stable
  /\ active = {}

Begin(p) ==
  /\ p \notin active
  /\ active' = active \cup {p}
  /\ UNCHANGED <<stable, mem>>

Write(p, b, v) ==
  /\ p \in active
  /\ mem' = [mem EXCEPT ![b] = v]
  /\ UNCHANGED <<stable, active>>

End(p) ==
  /\ p \in active
  /\ active' = active \ {p}
  /\ UNCHANGED <<stable, mem>>

Commit ==
  /\ active = {}
  /\ stable' = mem
  /\ UNCHANGED <<mem, active>>

Lose ==
  /\ mem' = stable
  /\ active' = {}
  /\ UNCHANGED stable

TxNext ==
  \/ \E p \in Procs : Begin(p) \/ End(p)
  \/ \E p \in Procs, b \in Blocks, v \in Values : Write(p, b, v)
  \/ Commit
  \/ Lose

TxSpec == TxInit /\ [][TxNext]_txvars
=============================================================================
