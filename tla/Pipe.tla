-------------------------------- MODULE Pipe --------------------------------
(***************************************************************************)
(* A pipe, kernel/pipe.c, shared by processes that hold its two ends.      *)
(*                                                                         *)
(* pi->lock is held from one sleep() to the next, but kill() does not take *)
(* it: every test of killed() is a step of its own, and so is every byte.  *)
(* The counters are unsigned and wrap at Word, which is 2^32 in the code   *)
(* and, like it, a multiple of PIPESIZE.                                   *)
(***************************************************************************)
EXTENDS Integers, FiniteSets

CONSTANTS
  Procs,
  Bytes,
  PIPESIZE,
  Word,       \* counters are kept modulo Word
  MaxN,       \* bound: most bytes one call asks for
  Killable    \* the processes that may be killed

NoProc == "nobody"

ASSUME PipeAssumption ==
  /\ NoProc \notin Procs
  /\ PIPESIZE \in Nat \ {0}
  /\ Word \in Nat /\ Word % PIPESIZE = 0 /\ Word > PIPESIZE
  /\ MaxN \in Nat
  /\ Killable \subseteq Procs

VARIABLES
  data, nread, nwrite, readopen, writeopen,   \* struct pipe
  lock,      \* holder of pi->lock
  freed,     \* the page was given back by kfree()
  rfile,     \* the processes that hold the read end: the file's references
  wfile,     \* the processes that hold the write end
  killed,
  pc, n, i,  \* where each process is in its call; the call's n and i
  sawEOF     \* processes whose last read() returned 0 without a fault

pipe  == <<data, nread, nwrite, readopen, writeopen, freed>>
files == <<rfile, wfile>>
vars  == <<pipe, lock, files, killed, pc, n, i, sawEOF>>

WritePCs == {"write", "write_loop", "write_put", "write_sleep", "write_asleep"}
ReadPCs  == {"read", "read_wait", "read_check", "read_sleep", "read_asleep", "read_copy"}
PCs == {"user", "close_r", "close_w"} \cup WritePCs \cup ReadPCs
LockPCs == {"write_loop", "write_put", "write_sleep",
            "read_wait", "read_check", "read_sleep", "read_copy"}

(* x++ on a counter. *)
Bump(x) == (x + 1) % Word

Count == (nwrite - nread) % Word
Empty == nread = nwrite

(* struct pipe, the processes at its ends, and the counters nread and       *)
(* nwrite, which pipewrite() and piperead() let wrap.                       *)
TypeOK ==
  /\ data \in [0 .. PIPESIZE - 1 -> Bytes]
  /\ nread \in 0 .. Word - 1 /\ nwrite \in 0 .. Word - 1
  /\ readopen \in BOOLEAN /\ writeopen \in BOOLEAN /\ freed \in BOOLEAN
  /\ lock \in Procs \cup {NoProc}
  /\ rfile \subseteq Procs /\ wfile \subseteq Procs
  /\ killed \subseteq Killable
  /\ pc \in [Procs -> PCs]
  /\ n \in [Procs -> 0 .. MaxN] /\ i \in [Procs -> 0 .. MaxN]
  /\ sawEOF \subseteq Procs
  /\ \A p \in Procs : i[p] <= n[p]

(* After pipealloc(), and the fork()s and close()s that hand the ends out. *)
Init ==
  /\ data \in [0 .. PIPESIZE - 1 -> Bytes]
  /\ nread = 0 /\ nwrite = 0
  /\ readopen = TRUE /\ writeopen = TRUE /\ freed = FALSE
  /\ lock = NoProc
  /\ rfile \in (SUBSET Procs) \ {{}} /\ wfile \in (SUBSET Procs) \ {{}}
  /\ killed = {}
  /\ pc = [p \in Procs |-> "user"]
  /\ n = [p \in Procs |-> 0] /\ i = [p \in Procs |-> 0]
  /\ sawEOF = {}
-----------------------------------------------------------------------------
Goto(p, s) == pc' = [pc EXCEPT ![p] = s]

(* wakeup(&pi->nread) and wakeup(&pi->nwrite), on a new pc f. *)
wakeup_nread(f)  == [q \in Procs |-> IF f[q] = "read_asleep" THEN "read" ELSE f[q]]
wakeup_nwrite(f) == [q \in Procs |-> IF f[q] = "write_asleep" THEN "write" ELSE f[q]]

(* release(&pi->lock) and return to user space. *)
Return(p, f) ==
  /\ lock' = NoProc
  /\ pc' = [f EXCEPT ![p] = "user"]
  /\ n' = [n EXCEPT ![p] = 0]
  /\ i' = [i EXCEPT ![p] = 0]
-----------------------------------------------------------------------------
(* pipewrite() *)

(* A process that was killed does not make another call: usertrap(). *)
write_call(p) ==
  /\ pc[p] = "user" /\ p \in wfile /\ p \notin killed
  /\ \E k \in 1 .. MaxN : n' = [n EXCEPT ![p] = k]
  /\ Goto(p, "write")
  /\ UNCHANGED <<pipe, lock, files, killed, i, sawEOF>>

(* acquire(&pi->lock), first or on the way out of sleep(). *)
write_lock(p) ==
  /\ pc[p] = "write" /\ lock = NoProc
  /\ lock' = p
  /\ Goto(p, "write_loop")
  /\ UNCHANGED <<pipe, files, killed, n, i, sawEOF>>

(* The loop's condition and the test that ends it early. *)
write_loop(p) ==
  /\ pc[p] = "write_loop"
  /\ \/ i[p] = n[p] /\ Return(p, wakeup_nread(pc))
     \/ i[p] < n[p] /\ (~readopen \/ p \in killed) /\ Return(p, pc)
     \/ /\ i[p] < n[p] /\ readopen /\ p \notin killed
        /\ Goto(p, "write_put")
        /\ UNCHANGED <<lock, n, i>>
  /\ UNCHANGED <<pipe, files, killed, sawEOF>>

(* Mutant: the counters are compared as ring indices. *)
Full_index == nwrite % PIPESIZE = nread % PIPESIZE /\ nwrite > nread

Full == nwrite = (nread + PIPESIZE) % Word

(* Mutant: a writer that fills the pipe sleeps without waking the readers. *)
write_full_quiet(p) == Goto(p, "write_sleep")

write_full(p) == pc' = [wakeup_nread(pc) EXCEPT ![p] = "write_sleep"]

(* The pipe is full, or a byte is copied in, or copyin() fails. *)
write_put(p) ==
  /\ pc[p] = "write_put"
  /\ \/ /\ Full
        /\ write_full(p)
        /\ UNCHANGED <<pipe, lock, n, i>>
     \/ /\ ~Full
        /\ \E ch \in Bytes : data' = [data EXCEPT ![nwrite % PIPESIZE] = ch]
        /\ nwrite' = Bump(nwrite)
        /\ i' = [i EXCEPT ![p] = @ + 1]
        /\ Goto(p, "write_loop")
        /\ UNCHANGED <<nread, readopen, writeopen, freed, lock, n>>
     \/ /\ ~Full
        /\ Return(p, wakeup_nread(pc))
        /\ UNCHANGED pipe
  /\ UNCHANGED <<files, killed, sawEOF>>

write_sleep(p) ==
  /\ pc[p] = "write_sleep"
  /\ lock' = NoProc
  /\ Goto(p, "write_asleep")
  /\ UNCHANGED <<pipe, files, killed, n, i, sawEOF>>
-----------------------------------------------------------------------------
(* piperead() *)

read_call(p) ==
  /\ pc[p] = "user" /\ p \in rfile /\ p \notin killed
  /\ \E k \in 1 .. MaxN : n' = [n EXCEPT ![p] = k]
  /\ sawEOF' = sawEOF \ {p}
  /\ Goto(p, "read")
  /\ UNCHANGED <<pipe, lock, files, killed, i>>

read_lock(p) ==
  /\ pc[p] = "read" /\ lock = NoProc
  /\ lock' = p
  /\ Goto(p, "read_wait")
  /\ UNCHANGED <<pipe, files, killed, n, i, sawEOF>>

MustWait == Empty /\ writeopen

read_wait(p) ==
  /\ pc[p] = "read_wait"
  /\ Goto(p, IF MustWait THEN "read_check" ELSE "read_copy")
  /\ UNCHANGED <<pipe, lock, files, killed, n, i, sawEOF>>

read_check(p) ==
  /\ pc[p] = "read_check"
  /\ \/ p \in killed /\ Return(p, pc)
     \/ p \notin killed /\ Goto(p, "read_sleep") /\ UNCHANGED <<lock, n, i>>
  /\ UNCHANGED <<pipe, files, killed, sawEOF>>

read_sleep(p) ==
  /\ pc[p] = "read_sleep"
  /\ lock' = NoProc
  /\ Goto(p, "read_asleep")
  /\ UNCHANGED <<pipe, files, killed, n, i, sawEOF>>

read_done(p) == Return(p, wakeup_nwrite(pc))

(* One byte, which is gone even if copyout() fails; or the end of the loop. *)
read_copy(p) ==
  /\ pc[p] = "read_copy"
  /\ \/ /\ i[p] = n[p] \/ Empty
        /\ read_done(p)
        /\ sawEOF' = IF i[p] = 0 THEN sawEOF \cup {p} ELSE sawEOF
        /\ UNCHANGED nread
     \/ /\ i[p] < n[p] /\ ~Empty
        /\ nread' = Bump(nread)
        /\ \/ i' = [i EXCEPT ![p] = @ + 1] /\ UNCHANGED <<lock, pc, n>>
           \/ read_done(p)
        /\ UNCHANGED sawEOF
  /\ UNCHANGED <<data, nwrite, readopen, writeopen, freed, files, killed>>
-----------------------------------------------------------------------------
(* fileclose(), by close() or exit(): the last reference closes the end.    *)
close(p) ==
  /\ pc[p] = "user"
  /\ \/ /\ p \in rfile
        /\ rfile' = rfile \ {p}
        /\ pc' = IF rfile = {p} THEN [pc EXCEPT ![p] = "close_r"] ELSE pc
        /\ UNCHANGED wfile
     \/ /\ p \in wfile
        /\ wfile' = wfile \ {p}
        /\ pc' = IF wfile = {p} THEN [pc EXCEPT ![p] = "close_w"] ELSE pc
        /\ UNCHANGED rfile
  /\ UNCHANGED <<pipe, lock, killed, n, i, sawEOF>>

(* pipeclose(pi, 1) *)
pipeclose_w(p) ==
  /\ pc[p] = "close_w" /\ lock = NoProc
  /\ writeopen' = FALSE
  /\ freed' = ~readopen
  /\ pc' = [wakeup_nread(pc) EXCEPT ![p] = "user"]
  /\ UNCHANGED <<data, nread, nwrite, readopen, lock, files, killed, n, i, sawEOF>>

(* pipeclose(pi, 0) *)
pipeclose_r(p) ==
  /\ pc[p] = "close_r" /\ lock = NoProc
  /\ readopen' = FALSE
  /\ freed' = ~writeopen
  /\ pc' = [wakeup_nwrite(pc) EXCEPT ![p] = "user"]
  /\ UNCHANGED <<data, nread, nwrite, writeopen, lock, files, killed, n, i, sawEOF>>

(* kill(): without pi->lock; a sleeping victim goes back to its loop. *)
kill(p) ==
  /\ p \in Killable \ killed
  /\ killed' = killed \cup {p}
  /\ Goto(p, CASE pc[p] = "read_asleep"  -> "read"
               [] pc[p] = "write_asleep" -> "write"
               [] OTHER                  -> pc[p])
  /\ UNCHANGED <<pipe, lock, files, n, i, sawEOF>>

pipewrite(p) ==
  write_call(p) \/ write_lock(p) \/ write_loop(p) \/ write_put(p) \/ write_sleep(p)
piperead(p) ==
  read_call(p) \/ read_lock(p) \/ read_wait(p) \/ read_check(p) \/ read_sleep(p)
    \/ read_copy(p)

(* All ends may be closed, and readers that keep the write end open may wait *)
(* for each other: then nothing more happens.                                *)
Next ==
  \E p \in Procs : \/ pipewrite(p) \/ piperead(p) \/ close(p)
                   \/ pipeclose_w(p) \/ pipeclose_r(p) \/ kill(p)

Spec == Init /\ [][Next]_vars
-----------------------------------------------------------------------------
Queue == [k \in 1 .. Count |-> data[(nread + k - 1) % PIPESIZE]]

BS == INSTANCE ByteStream WITH Capacity <- PIPESIZE, queue <- Queue, ropen <- readopen,
                               wopen <- writeopen, eof <- sawEOF

(* Across wrap-around of the ring and of the counters, with any number of   *)
(* readers and writers, kills and faults, pipewrite() and piperead() act on *)
(* one bounded queue of bytes, and read() reports end of file only when the *)
(* last writer is gone and the queue is empty.                              *)
IsByteStream == BS!BSSpec

(* One process at a time is between acquire() and release() of pi->lock.    *)
LockHolder == \A p \in Procs : pc[p] \in LockPCs <=> lock = p

(* fileclose() and pipeclose(): a call that is using the pipe still holds   *)
(* an end of it; an end is open as long as somebody holds it or is about to *)
(* close it, which one process does once.                                   *)
EndsHeld ==
  /\ \A p \in Procs : /\ pc[p] \in WritePCs => p \in wfile
                      /\ pc[p] \in ReadPCs => p \in rfile
  /\ readopen <=> rfile # {} \/ \E p \in Procs : pc[p] = "close_r"
  /\ writeopen <=> wfile # {} \/ \E p \in Procs : pc[p] = "close_w"
  /\ \A p \in Procs : /\ pc[p] = "close_r" => rfile = {}
                      /\ pc[p] = "close_w" => wfile = {}
  /\ \A p, q \in Procs : pc[p] = pc[q] /\ pc[p] \in {"close_r", "close_w"} => p = q
  /\ freed <=> ~readopen /\ ~writeopen

(* What pipewrite() and piperead() have found out still holds while they    *)
(* act on it: they have not released pi->lock since.                        *)
StillSo ==
  /\ Count <= PIPESIZE
  /\ \A p \in Procs :
       /\ n[p] > 0 <=> pc[p] \in WritePCs \cup ReadPCs
       /\ pc[p] = "write_put" => i[p] < n[p] /\ readopen
       /\ pc[p] = "write_sleep" => Full /\ readopen /\ \A q \in Procs : pc[q] # "read_asleep"
       /\ pc[p] \in {"read_check", "read_sleep"} => MustWait
       /\ pc[p] = "read_copy" /\ i[p] = 0 => ~MustWait

(* Who sleeps has to wait, or somebody who has pi->lock will wake it: a     *)
(* writer is woken by the reader that makes room ...                        *)
WritersWait ==
  \A p \in Procs :
    pc[p] = "write_asleep" => readopen /\ (Full \/ \E q \in Procs : pc[q] = "read_copy")

(* ... and a reader by the writer that puts bytes in, unless that one is    *)
(* killed.                                                                  *)
ReadersWait ==
  killed = {} =>
    \A p \in Procs :
      pc[p] = "read_asleep" =>
        writeopen /\ (Empty \/ \E q \in Procs : pc[q] \in {"write_loop", "write_put"})

(* Not everyone waits for everyone: no reader and writer of the pipe are    *)
(* asleep in it together, however many there are and whoever is killed.     *)
NotBothAsleep == ~ \E p, q \in Procs : pc[p] = "read_asleep" /\ pc[q] = "write_asleep"

(* A call that is using the pipe still holds an end of it, so pipeclose()   *)
(* does not free the page under it.                                         *)
NotUsedAfterFree == freed => \A p \in Procs : pc[p] = "user"

(* sleep() and wakeup() in pipewrite() and piperead(): whenever pi->lock is *)
(* free, a writer sleeps only if the pipe is full and somebody can still    *)
(* read it.                                                                 *)
WriterSleepsOnFull ==
  lock = NoProc => \A p \in Procs : pc[p] = "write_asleep" => Full /\ readopen

(* pipe.c:113, "pipe-empty": whenever pi->lock is free, a reader sleeps     *)
(* only if the pipe is empty and somebody can still write to it.            *)
ReaderSleepsOnEmpty ==
  lock = NoProc => \A p \in Procs : pc[p] = "read_asleep" => Empty /\ writeopen

(* The same as long as nobody was killed: a reader left asleep on a pipe    *)
(* with bytes, or on one that nobody can write, is always the doing of the  *)
(* killed(pr) return in the middle of pipewrite().                          *)
ReaderSleepsOnEmptyUnlessKill == killed = {} => ReaderSleepsOnEmpty

(* The inductive invariant of module PipeProofs. *)
IInv ==
  /\ TypeOK /\ LockHolder /\ EndsHeld /\ StillSo
  /\ WritersWait /\ ReadersWait /\ NotBothAsleep

(* The invariants above together: the page of a pipe is not used after      *)
(* pipeclose() has freed it, and pipewrite() and piperead() sleep only      *)
(* while they have to wait, except beside what a killed writer has written. *)
PipeInv ==
  IInv /\ NotUsedAfterFree /\ WriterSleepsOnFull /\ ReaderSleepsOnEmptyUnlessKill
=============================================================================
