--------------------------- MODULE AddressSpaces ---------------------------
(***************************************************************************)
(* What virtual memory promises: every process has bytes of its own, and   *)
(* what one does to its bytes no other sees.                               *)
(***************************************************************************)
EXTENDS Integers, Sequences

CONSTANTS
  Procs, Bytes, PGSIZE,
  Images   \* the bytes that the programs start with

VARIABLES space   \* the bytes of each process, none when there is none

RoundUp(n) == ((n + PGSIZE - 1) \div PGSIZE) * PGSIZE

(* copyout(), a system call's answer or a store: a range gets one value, or *)
(* the start of the range does when the rest is not there.                  *)
Write(p) ==
  \E lo, hi \in 1 .. Len(space[p]), v \in Bytes :
    space' = [space EXCEPT ![p] = [k \in DOMAIN @ |-> IF lo <= k /\ k <= hi THEN v ELSE @[k]]]

(* sbrk(): the new bytes are zero, but for what is left in the last page. *)
Resize(p) ==
  LET old == space[p]
      new == space'[p]
  IN /\ space' = [space EXCEPT ![p] = new]
     /\ Len(old) > 0
     /\ \A k \in 1 .. Len(new) :
          \/ k <= Len(old) /\ new[k] = old[k]
          \/ Len(old) < k /\ k <= RoundUp(Len(old))
          \/ RoundUp(Len(old)) < k /\ new[k] = 0

Fork(p, c) ==
  /\ Len(space[c]) = 0 /\ Len(space[p]) > 0
  /\ space' = [space EXCEPT ![c] = space[p]]

(* exec(): nothing is left of the bytes before it. *)
Exec(p) ==
  /\ Len(space[p]) > 0
  /\ \E image \in Images : space' = [space EXCEPT ![p] = image]

Exit(p) == space' = [space EXCEPT ![p] = <<>>]

Next == \E p \in Procs : Write(p) \/ Resize(p) \/ Exec(p) \/ Exit(p) \/ \E c \in Procs : Fork(p, c)

Spec == [][Next]_space
=============================================================================
