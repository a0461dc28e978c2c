----------------------------- MODULE BlockStore -----------------------------
(***************************************************************************)
(* What the buffer cache promises to the file system: every disk block has *)
(* one current content, and whoever has it from bread() has it alone until *)
(* brelse().  Which buffer holds the block, and when it is recycled and    *)
(* read again, cannot be seen.                                             *)
(***************************************************************************)
CONSTANTS Procs, Blocks, Values, NoProc

VARIABLES content, holder

stvars == <<content, holder>>

StInit ==
  /\ content \in [Blocks -> Values]
  /\ holder = [k \in Blocks |-> NoProc]

Take(p, k) ==
  /\ holder[k] = NoProc
  /\ holder' = [holder EXCEPT ![k] = p]
  /\ UNCHANGED content

Change(p, k, v) ==
  /\ holder[k] = p
  /\ content' = [content EXCEPT ![k] = v]
  /\ UNCHANGED holder

Give(p, k) ==
  /\ holder[k] = p
  /\ holder' = [holder EXCEPT ![k] = NoProc]
  /\ UNCHANGED content

StNext ==
  \E p \in Procs, k \in Blocks :
    Take(p, k) \/ Give(p, k) \/ \E v \in Values : Change(p, k, v)

StSpec == StInit /\ [][StNext]_stvars
=============================================================================
