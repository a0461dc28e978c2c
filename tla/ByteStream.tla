----------------------------- MODULE ByteStream -----------------------------
(***************************************************************************)
(* What a pipe promises: a bounded queue of bytes.  Bytes come out in the  *)
(* order they went in, each once; none goes in once the read end is        *)
(* closed; a reader is told "end of file" only when the write end is       *)
(* closed and every byte is gone.                                          *)
(***************************************************************************)
EXTENDS Naturals, Sequences

CONSTANTS Procs, Bytes, Capacity

VARIABLES
  queue,    \* bytes written and not yet read
  ropen, wopen,
  eof       \* readers whose last read() was told "end of file"

bsvars == <<queue, ropen, wopen, eof>>

BSInit == queue = <<>> /\ ropen = TRUE /\ wopen = TRUE /\ eof = {}

Put(b) ==
  /\ ropen /\ Len(queue) < Capacity
  /\ queue' = Append(queue, b)
  /\ UNCHANGED <<ropen, wopen, eof>>

Take ==
  /\ queue # <<>>
  /\ queue' = Tail(queue)
  /\ UNCHANGED <<ropen, wopen, eof>>

(* A new read() begins. *)
Read(p) == eof' = eof \ {p} /\ UNCHANGED <<queue, ropen, wopen>>

EndOfFile(p) ==
  /\ ~wopen /\ queue = <<>>
  /\ eof' = eof \cup {p}
  /\ UNCHANGED <<queue, ropen, wopen>>

CloseRead  == ropen /\ ropen' = FALSE /\ UNCHANGED <<queue, wopen, eof>>
CloseWrite == wopen /\ wopen' = FALSE /\ UNCHANGED <<queue, ropen, eof>>

BSNext ==
  \/ \E b \in Bytes : Put(b)
  \/ Take
  \/ \E p \in Procs : Read(p) \/ EndOfFile(p)
  \/ CloseRead \/ CloseWrite

BSSpec == BSInit /\ [][BSNext]_bsvars
=============================================================================
