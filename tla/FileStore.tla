----------------------------- MODULE FileStore -----------------------------
(***************************************************************************)
(* What readi(), writei() and itrunc() promise: a file is a sequence of    *)
(* bytes, read and written at the position of an open file.                *)
(***************************************************************************)
EXTENDS Integers, Sequences

CONSTANTS Inums, Bytes

VARIABLES
  file,   \* the bytes of each file
  pos     \* the position of the open file on each

Larger(a, b) == IF a > b THEN a ELSE b

(* s with n bytes v from position o on, longer if it must be. *)
Overwrite(s, o, n, v) ==
  [k \in 1 .. Larger(Len(s), o + n) |-> IF o < k /\ k <= o + n THEN v ELSE s[k]]

(* A write of bytes v at the position, which moves over r of them; bytes    *)
(* after those change only within the old file, when the caller's buffer    *)
(* ends inside a block.                                                     *)
Write(i) ==
  LET end == pos'[i]
      old == file[i]
  IN /\ pos[i] <= end /\ pos[i] <= Len(old)
     /\ pos' = [pos EXCEPT ![i] = end]
     /\ \E v \in Bytes, hi \in end .. Larger(Len(old), end) :
          file' = [file EXCEPT ![i] = Overwrite(old, pos[i], hi - pos[i], v)]

Read(i) ==
  /\ pos'[i] \in pos[i] .. Len(file[i])
  /\ pos' = [pos EXCEPT ![i] = pos'[i]]
  /\ UNCHANGED file

Open(i, trunc) ==
  /\ pos' = [pos EXCEPT ![i] = 0]
  /\ file' = [file EXCEPT ![i] = IF trunc THEN <<>> ELSE @]

(* Another open file truncates it. *)
Truncate(i) ==
  /\ file' = [file EXCEPT ![i] = <<>>]
  /\ UNCHANGED pos

Next ==
  \E i \in Inums :
    Write(i) \/ Read(i) \/ Truncate(i) \/ \E t \in BOOLEAN : Open(i, t)

Spec == [][Next]_<<file, pos>>
=============================================================================
