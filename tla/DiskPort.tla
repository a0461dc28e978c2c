------------------------------ MODULE DiskPort ------------------------------
(***************************************************************************)
(* What the disk driver promises: each call of virtio_disk_rw() moves one  *)
(* block between the caller's buffer and the disk, once, at one moment     *)
(* between the call and its return.                                        *)
(***************************************************************************)
CONSTANTS Procs, Blocks, Values

VARIABLES store, buf, op, phase

dpvars == <<store, buf, op, phase>>

Ops == [write : BOOLEAN, block : Blocks]

DPInit ==
  /\ store \in [Blocks -> Values]
  /\ buf \in [Procs -> Values]
  /\ op \in [Procs -> Ops]
  /\ phase = [p \in Procs |-> "idle"]

Call(p, o, v) ==
  /\ phase[p] = "idle"
  /\ phase' = [phase EXCEPT ![p] = "pending"]
  /\ op' = [op EXCEPT ![p] = o]
  /\ buf' = [buf EXCEPT ![p] = v]
  /\ UNCHANGED store

Perform(p) ==
  /\ phase[p] = "pending"
  /\ phase' = [phase EXCEPT ![p] = "performed"]
  /\ IF op[p].write
     THEN store' = [store EXCEPT ![op[p].block] = buf[p]] /\ UNCHANGED buf
     ELSE buf' = [buf EXCEPT ![p] = store[op[p].block]] /\ UNCHANGED store
  /\ UNCHANGED op

Return(p) ==
  /\ phase[p] = "performed"
  /\ phase' = [phase EXCEPT ![p] = "idle"]
  /\ UNCHANGED <<store, buf, op>>

DPNext ==
  \E p \in Procs : \/ \E o \in Ops, v \in Values : Call(p, o, v)
                   \/ Perform(p) \/ Return(p)

DPSpec == DPInit /\ [][DPNext]_dpvars
=============================================================================
