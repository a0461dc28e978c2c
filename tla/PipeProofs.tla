----------------------------- MODULE PipeProofs -----------------------------
(***************************************************************************)
(* Proofs about a pipe, for any number of processes, size of the ring and  *)
(* width of the counters: its inductive invariant, and that it implements  *)
(* ByteStream.                                                             *)
(***************************************************************************)
EXTENDS Pipe, SequenceTheorems, TLAPS

USE PipeAssumption DEF PipeAssumption
-----------------------------------------------------------------------------
(* Counters. *)

(* Division with remainder, for the ring index nwrite % PIPESIZE and the    *)
(* counters.                                                                *)
LEMMA DivMod ==
  ASSUME NEW w \in Int, w > 0, NEW x \in Int
  PROVE  x \div w \in Int /\ x % w \in 0 .. w - 1 /\ x = w * (x \div w) + (x % w)
<1>1. x = w * (x \div w) + (x % w)
  BY SMTT(60)
<1>2. x \div w \in Int /\ x % w \in 0 .. w - 1
  OBVIOUS
<1> QED
  BY Zenon, <1>1, <1>2

(* The remainder is unique. *)
LEMMA ModIs ==
  ASSUME NEW w \in Int, w > 0, NEW q \in Int, NEW r \in 0 .. w - 1, NEW x, x = w * q + r
  PROVE  x % w = r
OBVIOUS

(* x++ wraps at Word. *)
LEMMA BumpIs ==
  ASSUME NEW x \in 0 .. Word - 1
  PROVE  Bump(x) = (IF x = Word - 1 THEN 0 ELSE x + 1) /\ Bump(x) \in 0 .. Word - 1
BY DEF Bump

(* w - r on unsigned numbers. *)
LEMMA DiffIs ==
  ASSUME NEW w \in 0 .. Word - 1, NEW r \in 0 .. Word - 1
  PROVE  (w - r) % Word = IF w >= r THEN w - r ELSE w - r + Word
<1>1. CASE w >= r
  <2>1. w - r \in 0 .. Word - 1
    BY <1>1
  <2> QED
    BY <1>1, <2>1
<1>2. CASE ~(w >= r)
  <2>1. w - r + Word \in 0 .. Word - 1
    BY <1>2
  <2>2. w - r = Word * (-1) + (w - r + Word)
    OBVIOUS
  <2> QED
    BY <1>2, <2>1, <2>2, ModIs
<1> QED
  BY Zenon, <1>1, <1>2

(* The number of bytes in the pipe. *)
LEMMA CountIs ==
  ASSUME TypeOK
  PROVE  /\ Count = IF nwrite >= nread THEN nwrite - nread ELSE nwrite - nread + Word
         /\ Count \in 0 .. Word - 1
         /\ Full <=> Count = PIPESIZE
         /\ Empty <=> Count = 0
<1>1. nwrite \in 0 .. Word - 1 /\ nread \in 0 .. Word - 1
  BY Zenon DEF TypeOK
<1>2. Count = IF nwrite >= nread THEN nwrite - nread ELSE nwrite - nread + Word
  BY Zenon, <1>1, DiffIs DEF Count
<1>3. (nread + PIPESIZE) % Word =
        IF nread + PIPESIZE >= Word THEN nread + PIPESIZE - Word ELSE nread + PIPESIZE
  BY <1>1
<1> QED
  BY <1>1, <1>2, <1>3 DEF Full, Empty

(* nwrite++ and nread++ make it one more and one less. *)
LEMMA PutCount ==
  ASSUME TypeOK, Count < PIPESIZE, nwrite' = Bump(nwrite), nread' = nread
  PROVE  Count' = Count + 1 /\ nwrite' \in 0 .. Word - 1
<1>1. nwrite \in 0 .. Word - 1 /\ nread \in 0 .. Word - 1
  BY Zenon DEF TypeOK
<1>2. nwrite' = (IF nwrite = Word - 1 THEN 0 ELSE nwrite + 1) /\ nwrite' \in 0 .. Word - 1
  BY Zenon, <1>1, BumpIs
<1>3. Count' = IF nwrite' >= nread THEN nwrite' - nread ELSE nwrite' - nread + Word
  BY Zenon, <1>1, <1>2, DiffIs DEF Count
<1> QED
  BY <1>1, <1>2, <1>3, CountIs

(* piperead() takes a byte: there is one fewer. *)
LEMMA TakeCount ==
  ASSUME TypeOK, ~Empty, nread' = Bump(nread), nwrite' = nwrite
  PROVE  Count' = Count - 1 /\ nread' \in 0 .. Word - 1
<1>1. nwrite \in 0 .. Word - 1 /\ nread \in 0 .. Word - 1
  BY Zenon DEF TypeOK
<1>2. nread' = (IF nread = Word - 1 THEN 0 ELSE nread + 1) /\ nread' \in 0 .. Word - 1
  BY Zenon, <1>1, BumpIs
<1>3. Count' = IF nwrite >= nread' THEN nwrite - nread' ELSE nwrite - nread' + Word
  BY ZenonT(60), <1>1, <1>2, DiffIs DEF Count
<1> QED
  BY <1>1, <1>2, <1>3, CountIs
-----------------------------------------------------------------------------
(* Each step keeps the invariant. *)

(* f is pc after the wakeup() that p calls before it returns. *)
Woken(p, f) ==
  /\ f \in [Procs -> PCs]
  /\ \A q \in Procs : \/ f[q] = pc[q]
                      \/ pc[q] = "read_asleep" /\ f[q] = "read"
                      \/ pc[q] = "write_asleep" /\ f[q] = "write"
  /\ pc[p] = "read_copy" => \A q \in Procs : f[q] # "write_asleep"
  /\ pc[p] \in {"write_loop", "write_put"} /\ killed = {} =>
       \A q \in Procs : f[q] # "read_asleep"

(* release(&pi->lock) and return, with a byte more read or not. *)
LEMMA ReturnInv ==
  ASSUME IInv, NEW p \in Procs, NEW f, Woken(p, f), pc[p] \in LockPCs, Return(p, f),
         UNCHANGED <<data, nwrite, readopen, writeopen, freed, files, killed>>,
         nread' \in 0 .. Word - 1, Count' <= PIPESIZE,
         nread' = nread \/ (pc[p] = "read_copy" /\ ~Empty),
         sawEOF' \subseteq Procs
  PROVE  IInv'
<1> USE DEF IInv, Return, files, Woken
<1>0. /\ pc'[p] = "user" /\ pc[p] \in WritePCs \cup ReadPCs
      /\ \A q \in Procs \ {p} : pc'[q] = f[q] /\ n'[q] = n[q] /\ i'[q] = i[q]
      /\ n'[p] = 0 /\ i'[p] = 0 /\ lock' = NoProc /\ lock = p
      /\ \A q \in Procs \ {p} : pc[q] \notin LockPCs /\ pc'[q] \notin LockPCs
  BY ZenonT(60) DEF TypeOK, LockHolder, LockPCs, WritePCs, ReadPCs
<1>1. TypeOK'
  BY DEF TypeOK, PCs, WritePCs, ReadPCs
<1>2. LockHolder'
  BY <1>0 DEF TypeOK, LockHolder, LockPCs
<1>3. EndsHeld'
  <2>1. \A q \in Procs : /\ pc'[q] = "close_r" <=> pc[q] = "close_r"
                         /\ pc'[q] = "close_w" <=> pc[q] = "close_w"
                         /\ pc'[q] \in WritePCs => pc[q] \in WritePCs
                         /\ pc'[q] \in ReadPCs => pc[q] \in ReadPCs
    BY ZenonT(60), <1>0 DEF WritePCs, ReadPCs
  <2>2. \A q \in Procs : pc[q] \in {"close_r", "close_w"} => pc'[q] = pc[q]
    BY Zenon, <2>1
  <2> QED
    BY <2>1, <2>2 DEF EndsHeld
<1>4. StillSo'
  BY <1>0 DEF StillSo, WritePCs, ReadPCs, LockPCs
<1>5. WritersWait'
  BY <1>0 DEF WritersWait, Full, LockPCs
<1>6. ReadersWait'
  BY <1>0 DEF ReadersWait, Empty, LockPCs
<1>7. NotBothAsleep'
  BY <1>0 DEF NotBothAsleep
<1> QED
  BY Zenon, <1>1, <1>2, <1>3, <1>4, <1>5, <1>6, <1>7 DEF IInv

(* A step that leaves the pipe alone. *)
LEMMA SamePipe ==
  ASSUME UNCHANGED <<nread, nwrite, writeopen>>
  PROVE  Count' = Count /\ Full' = Full /\ Empty' = Empty /\ MustWait' = MustWait
BY Zenon DEF Count, Full, Empty, MustWait

(* pipewrite() begins. *)
LEMMA WriteCallInv ==
  ASSUME IInv, NEW p \in Procs, write_call(p)
  PROVE  IInv'
<1> USE DEF IInv, write_call, Goto, wakeup_nread, wakeup_nwrite, pipe, files
<1>1. TypeOK'
  <2>1. PICK k \in 1 .. MaxN : n' = [n EXCEPT ![p] = k]
    BY ZenonT(60)
  <2>2. /\ pc[p] \notin WritePCs \cup ReadPCs
        /\ n[p] \in Nat /\ i[p] \in Nat /\ i[p] <= n[p]
    BY DEF TypeOK, WritePCs, ReadPCs
  <2>3. i[p] = 0
    <3> HIDE DEF write_call, read_call
    <3> QED
      BY <2>2 DEF StillSo
  <2> QED
    BY <2>1, <2>3 DEF TypeOK, PCs, WritePCs, ReadPCs
<1>2. LockHolder'
  BY Zenon DEF TypeOK, LockHolder, LockPCs
<1>3. EndsHeld'
  BY ZenonT(60) DEF TypeOK, EndsHeld, WritePCs, ReadPCs
<1>4. StillSo'
  BY DEF TypeOK, LockHolder, LockPCs, StillSo, WritePCs, ReadPCs, Count, Full, Empty, MustWait
<1>5. WritersWait'
  BY DEF TypeOK, LockHolder, LockPCs, EndsHeld, WritePCs, ReadPCs, StillSo, WritersWait, Full
<1>6. ReadersWait'
  BY DEF TypeOK, LockHolder, LockPCs, EndsHeld, WritePCs, ReadPCs, StillSo, ReadersWait, Empty, MustWait
<1>7. NotBothAsleep'
  BY Zenon DEF TypeOK, NotBothAsleep
<1> QED
  BY Zenon, <1>1, <1>2, <1>3, <1>4, <1>5, <1>6, <1>7 DEF IInv

(* pipewrite() takes the lock, first or on the way out of sleep(). *)
LEMMA WriteLockInv ==
  ASSUME IInv, NEW p \in Procs, write_lock(p)
  PROVE  IInv'
<1> USE DEF IInv, write_lock, Goto, wakeup_nread, wakeup_nwrite, pipe, files
<1>1. TypeOK'
  BY Zenon DEF TypeOK, PCs, WritePCs, ReadPCs
<1>2. LockHolder'
  BY Zenon DEF TypeOK, LockHolder, LockPCs
<1>3. EndsHeld'
  BY ZenonT(60) DEF TypeOK, EndsHeld, WritePCs, ReadPCs
<1>4. StillSo'
  BY ZenonT(60) DEF TypeOK, LockHolder, LockPCs, StillSo, WritePCs, ReadPCs, Count, Full, Empty, MustWait
<1>5. WritersWait'
  BY DEF TypeOK, LockHolder, LockPCs, EndsHeld, WritePCs, ReadPCs, StillSo, WritersWait, Full
<1>6. ReadersWait'
  BY DEF TypeOK, LockHolder, LockPCs, EndsHeld, WritePCs, ReadPCs, StillSo, ReadersWait, Empty, MustWait
<1>7. NotBothAsleep'
  BY Zenon DEF TypeOK, NotBothAsleep
<1> QED
  BY Zenon, <1>1, <1>2, <1>3, <1>4, <1>5, <1>6, <1>7 DEF IInv

(* pipewrite() sleeps and releases the lock. *)
LEMMA WriteSleepInv ==
  ASSUME IInv, NEW p \in Procs, write_sleep(p)
  PROVE  IInv'
<1> USE DEF IInv, write_sleep, Goto, wakeup_nread, wakeup_nwrite, pipe, files
<1>1. TypeOK'
  BY Zenon DEF TypeOK, PCs, WritePCs, ReadPCs
<1>2. LockHolder'
  BY Zenon DEF TypeOK, LockHolder, LockPCs
<1>3. EndsHeld'
  BY ZenonT(60) DEF TypeOK, EndsHeld, WritePCs, ReadPCs
<1>4. StillSo'
  BY DEF TypeOK, LockHolder, LockPCs, StillSo, WritePCs, ReadPCs, Count, Full, Empty, MustWait
<1>5. WritersWait'
  BY Zenon DEF TypeOK, LockHolder, LockPCs, EndsHeld, WritePCs, ReadPCs, StillSo, WritersWait, Full
<1>6. ReadersWait'
  BY DEF TypeOK, LockHolder, LockPCs, EndsHeld, WritePCs, ReadPCs, StillSo, ReadersWait, Empty, MustWait
<1>7. NotBothAsleep'
  BY Zenon DEF TypeOK, NotBothAsleep, StillSo
<1> QED
  BY Zenon, <1>1, <1>2, <1>3, <1>4, <1>5, <1>6, <1>7 DEF IInv

(* piperead() begins. *)
LEMMA ReadCallInv ==
  ASSUME IInv, NEW p \in Procs, read_call(p)
  PROVE  IInv'
<1> USE DEF IInv, read_call, Goto, wakeup_nread, wakeup_nwrite, pipe, files
<1>1. TypeOK'
  <2>1. PICK k \in 1 .. MaxN : n' = [n EXCEPT ![p] = k]
    BY ZenonT(60)
  <2>2. /\ pc[p] \notin WritePCs \cup ReadPCs
        /\ n[p] \in Nat /\ i[p] \in Nat /\ i[p] <= n[p]
    BY DEF TypeOK, WritePCs, ReadPCs
  <2>3. i[p] = 0
    <3> HIDE DEF write_call, read_call
    <3> QED
      BY <2>2 DEF StillSo
  <2> QED
    BY <2>1, <2>3 DEF TypeOK, PCs, WritePCs, ReadPCs
<1>2. LockHolder'
  BY Zenon DEF TypeOK, LockHolder, LockPCs
<1>3. EndsHeld'
  BY ZenonT(60) DEF TypeOK, EndsHeld, WritePCs, ReadPCs
<1>4. StillSo'
  BY DEF TypeOK, LockHolder, LockPCs, StillSo, WritePCs, ReadPCs, Count, Full, Empty, MustWait
<1>5. WritersWait'
  BY DEF TypeOK, LockHolder, LockPCs, EndsHeld, WritePCs, ReadPCs, StillSo, WritersWait, Full
<1>6. ReadersWait'
  BY DEF TypeOK, LockHolder, LockPCs, EndsHeld, WritePCs, ReadPCs, StillSo, ReadersWait, Empty, MustWait
<1>7. NotBothAsleep'
  BY Zenon DEF TypeOK, NotBothAsleep
<1> QED
  BY Zenon, <1>1, <1>2, <1>3, <1>4, <1>5, <1>6, <1>7 DEF IInv

(* piperead() takes the lock, first or on the way out of sleep(). *)
LEMMA ReadLockInv ==
  ASSUME IInv, NEW p \in Procs, read_lock(p)
  PROVE  IInv'
<1> USE DEF IInv, read_lock, Goto, wakeup_nread, wakeup_nwrite, pipe, files
<1>1. TypeOK'
  BY Zenon DEF TypeOK, PCs, WritePCs, ReadPCs
<1>2. LockHolder'
  BY Zenon DEF TypeOK, LockHolder, LockPCs
<1>3. EndsHeld'
  BY ZenonT(60) DEF TypeOK, EndsHeld, WritePCs, ReadPCs
<1>4. StillSo'
  BY ZenonT(60) DEF TypeOK, LockHolder, LockPCs, StillSo, WritePCs, ReadPCs, Count, Full, Empty, MustWait
<1>5. WritersWait'
  BY ZenonT(60) DEF TypeOK, LockHolder, LockPCs, EndsHeld, WritePCs, ReadPCs, StillSo, WritersWait, Full
<1>6. ReadersWait'
  BY DEF TypeOK, LockHolder, LockPCs, EndsHeld, WritePCs, ReadPCs, StillSo, ReadersWait, Empty, MustWait
<1>7. NotBothAsleep'
  BY Zenon DEF TypeOK, NotBothAsleep
<1> QED
  BY Zenon, <1>1, <1>2, <1>3, <1>4, <1>5, <1>6, <1>7 DEF IInv

(* piperead() tests whether it has to wait. *)
LEMMA ReadWaitInv ==
  ASSUME IInv, NEW p \in Procs, read_wait(p)
  PROVE  IInv'
<1> USE DEF IInv, read_wait, Goto, wakeup_nread, wakeup_nwrite, pipe, files
<1>1. TypeOK'
  BY Zenon DEF TypeOK, PCs, WritePCs, ReadPCs
<1>2. LockHolder'
  BY Zenon DEF TypeOK, LockHolder, LockPCs
<1>3. EndsHeld'
  BY ZenonT(60) DEF TypeOK, EndsHeld, WritePCs, ReadPCs
<1>4. StillSo'
  BY DEF TypeOK, LockHolder, LockPCs, StillSo, WritePCs, ReadPCs, Count, Full, Empty, MustWait
<1>5. WritersWait'
  BY ZenonT(60) DEF TypeOK, LockHolder, LockPCs, EndsHeld, WritePCs, ReadPCs, StillSo, WritersWait, Full
<1>6. ReadersWait'
  BY ZenonT(60) DEF TypeOK, LockHolder, LockPCs, EndsHeld, WritePCs, ReadPCs, StillSo, ReadersWait, Empty, MustWait
<1>7. NotBothAsleep'
  BY Zenon DEF TypeOK, NotBothAsleep
<1> QED
  BY Zenon, <1>1, <1>2, <1>3, <1>4, <1>5, <1>6, <1>7 DEF IInv

(* piperead() sleeps and releases the lock. *)
LEMMA ReadSleepInv ==
  ASSUME IInv, NEW p \in Procs, read_sleep(p)
  PROVE  IInv'
<1> USE DEF IInv, read_sleep, Goto, wakeup_nread, wakeup_nwrite, pipe, files
<1>1. TypeOK'
  BY Zenon DEF TypeOK, PCs, WritePCs, ReadPCs
<1>2. LockHolder'
  BY Zenon DEF TypeOK, LockHolder, LockPCs
<1>3. EndsHeld'
  BY ZenonT(60) DEF TypeOK, EndsHeld, WritePCs, ReadPCs
<1>4. StillSo'
  BY ZenonT(60) DEF TypeOK, LockHolder, LockPCs, StillSo, WritePCs, ReadPCs, Count, Full, Empty, MustWait
<1>5. WritersWait'
  BY ZenonT(60) DEF TypeOK, LockHolder, LockPCs, EndsHeld, WritePCs, ReadPCs, StillSo, WritersWait, Full
<1>6. ReadersWait'
  BY Zenon DEF TypeOK, LockHolder, LockPCs, EndsHeld, WritePCs, ReadPCs, StillSo, ReadersWait, Empty, MustWait
<1>7. NotBothAsleep'
  <2>1. Empty /\ ~Full
    BY Zenon, CountIs DEF StillSo, MustWait
  <2>2. \A q \in Procs : pc[q] # "read_copy"
    BY Zenon DEF LockHolder, LockPCs
  <2>3. \A q \in Procs : pc[q] # "write_asleep"
    BY Zenon, <2>1, <2>2 DEF WritersWait
  <2> QED
    BY Zenon, <2>3 DEF TypeOK, NotBothAsleep
<1> QED
  BY Zenon, <1>1, <1>2, <1>3, <1>4, <1>5, <1>6, <1>7 DEF IInv

(* piperead() tests killed(). *)
LEMMA ReadCheckInv ==
  ASSUME IInv, NEW p \in Procs, read_check(p)
  PROVE  IInv'
<1>1. CASE Return(p, pc)
  <2>1. Count' = Count /\ Count <= PIPESIZE
    BY Zenon DEF read_check, pipe, Count, IInv, StillSo
  <2>0. PICK f : f = pc
    OBVIOUS
  <2>2. /\ Woken(p, f) /\ Return(p, f) /\ pc[p] \in LockPCs
        /\ UNCHANGED <<pipe, files, killed, sawEOF>>
        /\ nread \in 0 .. Word - 1 /\ sawEOF \subseteq Procs
    BY Zenon, <1>1, <2>0 DEF read_check, IInv, TypeOK, LockPCs, Woken, Return
  <2>3. UNCHANGED <<data, nwrite, readopen, writeopen, freed, files, killed, nread, sawEOF>>
    BY Zenon, <2>2 DEF pipe
  <2> QED
    BY Zenon, <1>1, <2>1, <2>2, <2>3, ReturnInv
<1>2. CASE Goto(p, "read_sleep") /\ UNCHANGED <<lock, n, i>>
  <2> USE <1>2 DEF IInv, read_check, Goto, pipe, files
  <2>1. TypeOK'
    BY Zenon DEF TypeOK, PCs, WritePCs, ReadPCs
  <2>2. LockHolder'
    BY Zenon DEF TypeOK, LockHolder, LockPCs
  <2>3. EndsHeld'
    BY ZenonT(60) DEF TypeOK, EndsHeld, WritePCs, ReadPCs
  <2>4. StillSo'
    BY ZenonT(60) DEF TypeOK, LockHolder, LockPCs, StillSo, WritePCs, ReadPCs, Count, Full, Empty, MustWait
  <2>5. WritersWait'
    BY ZenonT(60) DEF TypeOK, LockHolder, LockPCs, EndsHeld, WritePCs, ReadPCs, StillSo, WritersWait, Full
  <2>6. ReadersWait'
    BY Zenon DEF TypeOK, LockHolder, LockPCs, EndsHeld, WritePCs, ReadPCs, StillSo, ReadersWait, Empty, MustWait
  <2>7. NotBothAsleep'
    BY Zenon DEF TypeOK, NotBothAsleep
  <2> QED
    BY Zenon, <2>1, <2>2, <2>3, <2>4, <2>5, <2>6, <2>7 DEF IInv
<1> QED
  BY Zenon, <1>1, <1>2 DEF read_check

(* The head of the loop in pipewrite(). *)
LEMMA WriteLoopInv ==
  ASSUME IInv, NEW p \in Procs, write_loop(p)
  PROVE  IInv'
<1>1. Count' = Count /\ Count <= PIPESIZE
  BY Zenon DEF write_loop, pipe, Count, IInv, StillSo
<1>2. /\ pc[p] = "write_loop" /\ pc[p] \in LockPCs
      /\ UNCHANGED <<pipe, files, killed, sawEOF>>
      /\ nread \in 0 .. Word - 1 /\ sawEOF \subseteq Procs
  BY Zenon DEF write_loop, IInv, TypeOK, LockPCs
<1>3. UNCHANGED <<data, nwrite, readopen, writeopen, freed, files, killed, nread, sawEOF>>
  BY Zenon, <1>2 DEF pipe
<1>4. CASE i[p] = n[p] /\ Return(p, wakeup_nread(pc))
  <2>1. PICK f : f = wakeup_nread(pc)
    OBVIOUS
  <2>2. Woken(p, f)
    BY Zenon, <1>2, <2>1 DEF Woken, wakeup_nread, IInv, TypeOK, PCs, ReadPCs
  <2>3. Return(p, f)
    BY Zenon, <1>4, <2>1 DEF Return
  <2> QED
    BY Zenon, <1>1, <1>2, <1>3, <2>2, <2>3, ReturnInv
<1>5. CASE i[p] < n[p] /\ (~readopen \/ p \in killed) /\ Return(p, pc)
  <2>1. killed = {} => \A q \in Procs : pc[q] # "read_asleep"
    BY Zenon, <1>5 DEF IInv, EndsHeld, ReadPCs
  <2>2. PICK f : f = pc
    OBVIOUS
  <2>3. Woken(p, f)
    BY Zenon, <1>2, <2>1, <2>2 DEF Woken, IInv, TypeOK
  <2>4. Return(p, f)
    BY Zenon, <1>5, <2>2 DEF Return
  <2> QED
    BY Zenon, <1>1, <1>2, <1>3, <2>3, <2>4, ReturnInv
<1>6. CASE i[p] < n[p] /\ readopen /\ Goto(p, "write_put") /\ UNCHANGED <<lock, n, i>>
  <2> USE <1>3, <1>6 DEF IInv, write_loop, Goto, files
  <2>1. TypeOK'
    BY Zenon DEF TypeOK, PCs, WritePCs, ReadPCs
  <2>2. LockHolder'
    BY ZenonT(60) DEF TypeOK, LockHolder, LockPCs
  <2>3. EndsHeld'
    BY ZenonT(60) DEF TypeOK, EndsHeld, WritePCs, ReadPCs
  <2>4. StillSo'
    BY ZenonT(60) DEF TypeOK, LockHolder, LockPCs, StillSo, WritePCs, ReadPCs, Count, Full, Empty, MustWait
  <2>5. WritersWait'
    BY ZenonT(60) DEF TypeOK, LockHolder, LockPCs, EndsHeld, WritePCs, ReadPCs, StillSo, WritersWait, Full
  <2>6. ReadersWait'
    BY ZenonT(60) DEF TypeOK, LockHolder, LockPCs, EndsHeld, WritePCs, ReadPCs, StillSo, ReadersWait, Empty, MustWait
  <2>7. NotBothAsleep'
    BY Zenon DEF TypeOK, NotBothAsleep
  <2> QED
    BY Zenon, <2>1, <2>2, <2>3, <2>4, <2>5, <2>6, <2>7 DEF IInv
<1> QED
  BY Zenon, <1>4, <1>5, <1>6 DEF write_loop

(* pipewrite() finds the pipe full: it wakes the readers before it sleeps. *)
LEMMA WriteFullInv ==
  ASSUME IInv, NEW p \in Procs, pc[p] = "write_put", Full, write_full(p),
         UNCHANGED <<pipe, lock, n, i, files, killed, sawEOF>>
  PROVE  IInv'
<1> USE DEF IInv, write_full, wakeup_nread, pipe, files
<1>1. TypeOK'
  BY Zenon DEF TypeOK, PCs, WritePCs, ReadPCs
<1>2. LockHolder'
  BY Zenon DEF TypeOK, LockHolder, LockPCs
<1>3. EndsHeld'
  BY ZenonT(60) DEF TypeOK, EndsHeld, WritePCs, ReadPCs
<1>4. StillSo'
  BY ZenonT(60) DEF TypeOK, LockHolder, LockPCs, StillSo, WritePCs, ReadPCs, Count, Full, Empty, MustWait
<1>5. WritersWait'
  BY Zenon DEF TypeOK, LockHolder, LockPCs, EndsHeld, WritePCs, ReadPCs, StillSo, WritersWait, Full
<1>6. ReadersWait'
  BY Zenon DEF TypeOK, LockHolder, LockPCs, EndsHeld, WritePCs, ReadPCs, StillSo, ReadersWait, Empty, MustWait
<1>7. NotBothAsleep'
  BY Zenon DEF TypeOK, NotBothAsleep
<1> QED
  BY Zenon, <1>1, <1>2, <1>3, <1>4, <1>5, <1>6, <1>7 DEF IInv

(* A byte is copied in. *)
LEMMA PutInv ==
  ASSUME IInv, NEW p \in Procs, NEW ch \in Bytes, pc[p] = "write_put", ~Full,
         data' = [data EXCEPT ![nwrite % PIPESIZE] = ch], nwrite' = Bump(nwrite),
         i' = [i EXCEPT ![p] = @ + 1], Goto(p, "write_loop"),
         UNCHANGED <<nread, readopen, writeopen, freed, lock, n, files, killed, sawEOF>>
  PROVE  IInv'
<1> USE DEF IInv, Goto, files
<1>1. Count < PIPESIZE /\ Count \in Int
  BY CountIs DEF StillSo
<1>2. Count' = Count + 1 /\ nwrite' \in 0 .. Word - 1
  BY Zenon, <1>1, PutCount
<1>3. /\ \A q \in Procs \ {p} : pc[q] \notin LockPCs /\ pc'[q] = pc[q] /\ i'[q] = i[q]
      /\ pc'[p] = "write_loop" /\ i'[p] = i[p] + 1
  BY DEF TypeOK, LockHolder, LockPCs
<1>4. TypeOK'
  <2>1. data' \in [0 .. PIPESIZE - 1 -> Bytes]
    BY Zenon, <1>2 DEF TypeOK
  <2>2. i[p] < n[p] /\ i[p] \in 0 .. MaxN /\ n[p] \in 0 .. MaxN
    BY Zenon DEF TypeOK, StillSo
  <2>3. i' \in [Procs -> 0 .. MaxN] /\ \A q \in Procs : i'[q] <= n[q]
    BY <2>2 DEF TypeOK
  <2> QED
    BY Zenon, <1>2, <2>1, <2>3 DEF TypeOK, PCs, WritePCs
<1>5. LockHolder' /\ EndsHeld'
  BY <1>3 DEF LockHolder, LockPCs, EndsHeld, WritePCs, ReadPCs
<1>6. StillSo'
  <2>1. Count' <= PIPESIZE
    BY <1>1, <1>2
  <2> QED
    BY <1>3, <2>1 DEF StillSo, LockPCs, WritePCs, ReadPCs
<1>7. WritersWait'
  BY Zenon, <1>3 DEF WritersWait, LockPCs
<1>8. ReadersWait' /\ NotBothAsleep'
  BY ZenonT(60), <1>3 DEF ReadersWait, NotBothAsleep
<1> QED
  BY Zenon, <1>4, <1>5, <1>6, <1>7, <1>8

(* pipewrite() sleeps, or a byte is copied in, or copyin() fails. *)
LEMMA WritePutInv ==
  ASSUME IInv, NEW p \in Procs, write_put(p)
  PROVE  IInv'
<1>1. CASE Full /\ write_full(p) /\ UNCHANGED <<pipe, lock, n, i>>
  BY Zenon, <1>1, WriteFullInv DEF write_put
<1>2. ASSUME NEW ch \in Bytes, ~Full, data' = [data EXCEPT ![nwrite % PIPESIZE] = ch],
             nwrite' = Bump(nwrite), i' = [i EXCEPT ![p] = @ + 1], Goto(p, "write_loop"),
             UNCHANGED <<nread, readopen, writeopen, freed, lock, n>>
      PROVE  IInv'
  BY Zenon, <1>2, PutInv DEF write_put
<1>3. CASE Return(p, wakeup_nread(pc)) /\ UNCHANGED pipe
  <2>1. Count' = Count /\ Count <= PIPESIZE
    BY Zenon, <1>3 DEF pipe, Count, IInv, StillSo
  <2>2. /\ pc[p] = "write_put" /\ pc[p] \in LockPCs
        /\ nread \in 0 .. Word - 1 /\ sawEOF \subseteq Procs
    BY Zenon DEF write_put, IInv, TypeOK, LockPCs
  <2>3. UNCHANGED <<data, nwrite, readopen, writeopen, freed, files, killed, nread, sawEOF>>
    BY Zenon, <1>3 DEF write_put, pipe
  <2>4. PICK f : f = wakeup_nread(pc)
    OBVIOUS
  <2>5. Woken(p, f)
    BY Zenon, <2>2, <2>4 DEF Woken, wakeup_nread, IInv, TypeOK, PCs, ReadPCs
  <2>6. Return(p, f)
    BY Zenon, <1>3, <2>4 DEF Return
  <2> QED
    BY Zenon, <2>1, <2>2, <2>3, <2>5, <2>6, ReturnInv
<1> QED
  BY Zenon, <1>1, <1>2, <1>3 DEF write_put

(* A byte is copied out and piperead() goes on. *)
LEMMA TakeInv ==
  ASSUME IInv, NEW p \in Procs, pc[p] = "read_copy", i[p] < n[p], ~Empty,
         nread' = Bump(nread), i' = [i EXCEPT ![p] = @ + 1],
         UNCHANGED <<data, nwrite, readopen, writeopen, freed, files, killed, lock, pc, n, sawEOF>>
  PROVE  IInv'
<1> USE DEF IInv, files
<1>1. Count' = Count - 1 /\ nread' \in 0 .. Word - 1 /\ Count \in Int
  BY TakeCount, CountIs
<1>2. /\ \A q \in Procs \ {p} : pc[q] \notin LockPCs /\ i'[q] = i[q]
      /\ i'[p] = i[p] + 1
  BY DEF TypeOK, LockHolder, LockPCs
<1>3. TypeOK'
  <2>1. i' \in [Procs -> 0 .. MaxN] /\ \A q \in Procs : i'[q] <= n[q]
    BY DEF TypeOK
  <2> QED
    BY Zenon, <1>1, <2>1 DEF TypeOK
<1>4. LockHolder' /\ EndsHeld'
  BY Zenon DEF LockHolder, EndsHeld
<1>5. StillSo'
  <2>1. Count' <= PIPESIZE /\ i'[p] # 0
    BY <1>1, <1>2 DEF StillSo, TypeOK
  <2> QED
    BY ZenonT(60), <1>2, <2>1 DEF StillSo, LockPCs
<1>6. WritersWait' /\ NotBothAsleep'
  BY Zenon DEF WritersWait, NotBothAsleep
<1>7. ReadersWait'
  BY Zenon, <1>2 DEF ReadersWait, LockPCs
<1> QED
  BY Zenon, <1>3, <1>4, <1>5, <1>6, <1>7

(* piperead() copies a byte out, or returns with or without one more. *)
LEMMA ReadCopyInv ==
  ASSUME IInv, NEW p \in Procs, read_copy(p)
  PROVE  IInv'
<1>1. /\ pc[p] = "read_copy" /\ pc[p] \in LockPCs
      /\ UNCHANGED <<data, nwrite, readopen, writeopen, freed, files, killed>>
      /\ sawEOF' \subseteq Procs
  BY Zenon DEF read_copy, LockPCs, IInv, TypeOK
<1>2. /\ nread' \in 0 .. Word - 1 /\ Count' <= PIPESIZE
      /\ nread' = nread \/ ~Empty
  <2>1. CASE UNCHANGED nread
    BY ZenonT(60), <1>1, <2>1 DEF IInv, TypeOK, StillSo, Count
  <2>2. CASE ~Empty /\ nread' = Bump(nread)
    BY <1>1, <2>2, TakeCount, CountIs DEF IInv, StillSo
  <2> QED
    BY Zenon, <2>1, <2>2 DEF read_copy
<1>3. CASE read_done(p)
  <2>1. PICK f : f = wakeup_nwrite(pc)
    OBVIOUS
  <2>2. Woken(p, f)
    BY Zenon, <1>1, <2>1 DEF Woken, wakeup_nwrite, IInv, TypeOK, PCs, WritePCs
  <2>3. Return(p, f)
    BY Zenon, <1>3, <2>1 DEF Return, read_done
  <2> QED
    BY Zenon, <1>1, <1>2, <2>2, <2>3, ReturnInv
<1>4. CASE ~read_done(p)
  BY Zenon, <1>1, <1>4, TakeInv DEF read_copy
<1> QED
  BY Zenon, <1>3, <1>4

(* fileclose(): the last reference to an end is about to close it. *)
LEMMA CloseInv ==
  ASSUME IInv, NEW p \in Procs, close(p)
  PROVE  IInv'
<1>1. /\ pc[p] = "user" /\ UNCHANGED <<pipe, lock, killed, n, i, sawEOF>>
      /\ \A q \in Procs \ {p} : pc'[q] = pc[q]
      /\ pc'[p] \in {"user", "close_r", "close_w"}
  BY Zenon DEF close, IInv, TypeOK
<1>0. EndsHeld
  BY Zenon DEF IInv
<1>2. TypeOK'
  BY ZenonT(60), <1>1 DEF close, pipe, IInv, TypeOK, PCs
<1>3. EndsHeld'
  <2>1. CASE p \in rfile /\ rfile' = rfile \ {p} /\ UNCHANGED wfile
             /\ pc' = IF rfile = {p} THEN [pc EXCEPT ![p] = "close_r"] ELSE pc
    <3>1. IF rfile = {p} THEN pc'[p] = "close_r" ELSE pc'[p] = "user"
      BY Zenon, <1>1, <2>1 DEF IInv, TypeOK
    <3>2. /\ rfile' = {} <=> rfile = {p}
          /\ rfile # {} /\ wfile' = wfile /\ (wfile' = {} <=> wfile = {})
          /\ UNCHANGED <<readopen, writeopen, freed>>
      BY Zenon, <1>1, <2>1 DEF pipe
    <3> QED
      BY <1>0, <1>1, <2>1, <3>1, <3>2 DEF EndsHeld, WritePCs, ReadPCs
  <2>2. CASE p \in wfile /\ wfile' = wfile \ {p} /\ UNCHANGED rfile
             /\ pc' = IF wfile = {p} THEN [pc EXCEPT ![p] = "close_w"] ELSE pc
    <3>1. IF wfile = {p} THEN pc'[p] = "close_w" ELSE pc'[p] = "user"
      BY Zenon, <1>1, <2>2 DEF IInv, TypeOK
    <3>2. /\ wfile' = {} <=> wfile = {p}
          /\ wfile # {} /\ rfile' = rfile /\ (rfile' = {} <=> rfile = {})
          /\ UNCHANGED <<readopen, writeopen, freed>>
      BY Zenon, <1>1, <2>2 DEF pipe
    <3> QED
      BY <1>0, <1>1, <2>2, <3>1, <3>2 DEF EndsHeld, WritePCs, ReadPCs
  <2> QED
    BY Zenon, <2>1, <2>2 DEF close
<1>4. LockHolder'
  BY Zenon, <1>1 DEF IInv, LockHolder, LockPCs
<1>5. Count' = Count /\ Full' = Full /\ Empty' = Empty /\ MustWait' = MustWait
      /\ UNCHANGED <<readopen, writeopen>>
  BY Zenon, <1>1, SamePipe DEF pipe
<1>6. StillSo'
  BY ZenonT(60), <1>1, <1>5 DEF IInv, StillSo, WritePCs, ReadPCs
<1>7. WritersWait' /\ ReadersWait' /\ NotBothAsleep'
  BY ZenonT(60), <1>1, <1>5 DEF IInv, WritersWait, ReadersWait, NotBothAsleep
<1> QED
  BY Zenon, <1>2, <1>3, <1>4, <1>6, <1>7 DEF IInv

(* pipeclose(pi, 1). *)
LEMMA PipecloseWInv ==
  ASSUME IInv, NEW p \in Procs, pipeclose_w(p)
  PROVE  IInv'
<1> USE DEF IInv, pipeclose_w, Goto, wakeup_nread, wakeup_nwrite, pipe, files
<1>1. TypeOK'
  BY Zenon DEF TypeOK, PCs, WritePCs, ReadPCs
<1>2. LockHolder'
  BY Zenon DEF TypeOK, LockHolder, LockPCs
<1>3. EndsHeld'
  BY ZenonT(60) DEF TypeOK, EndsHeld, WritePCs, ReadPCs
<1>4. StillSo'
  BY ZenonT(60) DEF TypeOK, LockHolder, LockPCs, StillSo, WritePCs, ReadPCs, Count, Full, Empty, MustWait
<1>5. WritersWait'
  BY Zenon DEF TypeOK, LockHolder, LockPCs, EndsHeld, WritePCs, ReadPCs, StillSo, WritersWait, Full
<1>6. ReadersWait'
  BY Zenon DEF TypeOK, LockHolder, LockPCs, EndsHeld, WritePCs, ReadPCs, StillSo, ReadersWait, Empty, MustWait
<1>7. NotBothAsleep'
  BY Zenon DEF TypeOK, NotBothAsleep
<1> QED
  BY Zenon, <1>1, <1>2, <1>3, <1>4, <1>5, <1>6, <1>7 DEF IInv

(* pipeclose(pi, 0). *)
LEMMA PipecloseRInv ==
  ASSUME IInv, NEW p \in Procs, pipeclose_r(p)
  PROVE  IInv'
<1> USE DEF IInv, pipeclose_r, Goto, wakeup_nread, wakeup_nwrite, pipe, files
<1>1. TypeOK'
  BY Zenon DEF TypeOK, PCs, WritePCs, ReadPCs
<1>2. LockHolder'
  BY Zenon DEF TypeOK, LockHolder, LockPCs
<1>3. EndsHeld'
  BY ZenonT(60) DEF TypeOK, EndsHeld, WritePCs, ReadPCs
<1>4. StillSo'
  <2>1. Count' = Count /\ (Full' <=> Full) /\ (MustWait' <=> MustWait) /\ UNCHANGED <<n, i>>
    BY Zenon DEF Count, Full, Empty, MustWait
  <2>2. pc'[p] = "user" /\ pc[p] = "close_r"
    BY Zenon DEF TypeOK
  <2>3. \A q \in Procs \ {p} : pc'[q] = IF pc[q] = "write_asleep" THEN "write" ELSE pc[q]
    BY Zenon DEF TypeOK
  <2>4. \A q \in Procs : pc[q] # "write_put" /\ pc[q] # "write_sleep"
    BY Zenon DEF LockHolder, LockPCs
  <2> HIDE DEF pipeclose_r, pipe, files
  <2> QED
    BY ZenonT(60), <2>1, <2>2, <2>3, <2>4 DEF StillSo, WritePCs, ReadPCs
<1>5. WritersWait'
  BY ZenonT(60) DEF TypeOK, LockHolder, LockPCs, EndsHeld, WritePCs, ReadPCs, StillSo, WritersWait, Full
<1>6. ReadersWait'
  BY ZenonT(60) DEF TypeOK, LockHolder, LockPCs, EndsHeld, WritePCs, ReadPCs, StillSo, ReadersWait, Empty, MustWait
<1>7. NotBothAsleep'
  BY Zenon DEF TypeOK, NotBothAsleep
<1> QED
  BY Zenon, <1>1, <1>2, <1>3, <1>4, <1>5, <1>6, <1>7 DEF IInv

(* kill() of a process that may be asleep in the pipe. *)
LEMMA KillInv ==
  ASSUME IInv, NEW p \in Procs, kill(p)
  PROVE  IInv'
<1> USE DEF IInv, kill, Goto, wakeup_nread, wakeup_nwrite, pipe, files
<1>1. TypeOK'
  BY Zenon DEF TypeOK, PCs, WritePCs, ReadPCs
<1>2. LockHolder'
  BY Zenon DEF TypeOK, LockHolder, LockPCs
<1> HIDE DEF kill, pipe, files
<1>0. \A q \in Procs : \/ pc'[q] = pc[q]
                       \/ pc[q] = "read_asleep" /\ pc'[q] = "read"
                       \/ pc[q] = "write_asleep" /\ pc'[q] = "write"
  BY ZenonT(60) DEF kill, Goto, TypeOK
<1>3. EndsHeld'
  <2>1. UNCHANGED <<rfile, wfile, readopen, writeopen, freed>>
    BY Zenon DEF kill, pipe, files
  <2>2. \A q \in Procs : /\ pc'[q] = "close_r" <=> pc[q] = "close_r"
                         /\ pc'[q] = "close_w" <=> pc[q] = "close_w"
                         /\ pc'[q] \in WritePCs <=> pc[q] \in WritePCs
                         /\ pc'[q] \in ReadPCs <=> pc[q] \in ReadPCs
    BY Zenon, <1>0 DEF WritePCs, ReadPCs
  <2> QED
    BY ZenonT(60), <2>1, <2>2 DEF EndsHeld
<1>4. StillSo'
  <2>1. Count' = Count /\ (Full' <=> Full) /\ (MustWait' <=> MustWait) /\ UNCHANGED <<n, i, readopen>>
    BY Zenon DEF kill, pipe, Count, Full, Empty, MustWait
  <2> QED
    BY ZenonT(60), <1>0, <2>1 DEF StillSo, WritePCs, ReadPCs
<1> USE DEF kill, pipe, files
<1>5. WritersWait'
  BY ZenonT(60) DEF TypeOK, LockHolder, LockPCs, EndsHeld, WritePCs, ReadPCs, StillSo, WritersWait, Full
<1>6. ReadersWait'
  BY Zenon DEF TypeOK, LockHolder, LockPCs, EndsHeld, WritePCs, ReadPCs, StillSo, ReadersWait, Empty, MustWait
<1>7. NotBothAsleep'
  BY Zenon DEF TypeOK, NotBothAsleep
<1> QED
  BY Zenon, <1>1, <1>2, <1>3, <1>4, <1>5, <1>6, <1>7 DEF IInv

(* pipealloc() *)
LEMMA InitInv == Init => IInv
<1> SUFFICES ASSUME Init PROVE IInv
  OBVIOUS
<1>1. TypeOK
  <2>1. i = [p \in Procs |-> 0] /\ n = [p \in Procs |-> 0]
    BY Zenon DEF Init
  <2>2. n \in [Procs -> 0 .. MaxN] /\ i \in [Procs -> 0 .. MaxN] /\ \A p \in Procs : i[p] <= n[p]
    BY <2>1
  <2>3. nread \in 0 .. Word - 1 /\ nwrite \in 0 .. Word - 1
    BY DEF Init
  <2> QED
    BY Zenon, <2>2, <2>3 DEF Init, TypeOK, PCs
<1>2. LockHolder /\ EndsHeld
  BY Zenon DEF Init, LockHolder, LockPCs, EndsHeld, WritePCs, ReadPCs
<1>3. Count = 0
  BY <1>1, CountIs DEF Init
<1>4. StillSo
  BY <1>3 DEF Init, StillSo, WritePCs, ReadPCs
<1>5. WritersWait /\ ReadersWait /\ NotBothAsleep
  BY Zenon DEF Init, WritersWait, ReadersWait, NotBothAsleep
<1> QED
  BY Zenon, <1>1, <1>2, <1>4, <1>5 DEF IInv

(* A step outside the pipe. *)
LEMMA StutterInv == IInv /\ UNCHANGED vars => IInv'
<1> SUFFICES ASSUME IInv, UNCHANGED vars PROVE IInv'
  OBVIOUS
<1> USE DEF IInv, vars, pipe, files
<1>1. TypeOK' /\ LockHolder'
  BY Zenon DEF TypeOK, LockHolder
<1>2. EndsHeld'
  BY Zenon DEF EndsHeld
<1>3. StillSo'
  BY Zenon DEF StillSo, Count, Full, MustWait, Empty
<1>4. WritersWait' /\ ReadersWait' /\ NotBothAsleep'
  BY Zenon DEF WritersWait, ReadersWait, NotBothAsleep, Full, Empty
<1> QED
  BY Zenon, <1>1, <1>2, <1>3, <1>4

(* Every step keeps the invariant. *)
LEMMA NextInv == IInv /\ [Next]_vars => IInv'
BY ZenonT(60), WriteCallInv, WriteLockInv, WriteLoopInv, WritePutInv, WriteSleepInv, ReadCallInv, ReadLockInv,
   ReadWaitInv, ReadCheckInv, ReadSleepInv, ReadCopyInv, CloseInv, PipecloseWInv, PipecloseRInv,
   KillInv, StutterInv DEF Next, pipewrite, piperead

(* The inductive invariant implies what it is for. *)
LEMMA IInvImplies == IInv => PipeInv
<1> SUFFICES ASSUME IInv PROVE PipeInv
  OBVIOUS
<1>1. NotUsedAfterFree
  BY Zenon DEF IInv, TypeOK, EndsHeld, PCs, NotUsedAfterFree
<1>2. WriterSleepsOnFull
  BY Zenon DEF IInv, LockHolder, LockPCs, WritersWait, WriterSleepsOnFull
<1>3. ReaderSleepsOnEmptyUnlessKill
  BY Zenon DEF IInv, LockHolder, LockPCs, ReadersWait, ReaderSleepsOnEmptyUnlessKill, ReaderSleepsOnEmpty
<1> QED
  BY Zenon, <1>1, <1>2, <1>3 DEF PipeInv

(* PipeInv is an invariant: pipeclose() frees the page when nobody uses it, *)
(* and no wakeup() in pipewrite() or piperead() is missed, but for the one  *)
(* that a killed writer leaves out.                                         *)
THEOREM PipeInvariant == Spec => []PipeInv
<1>1. Spec => []IInv
  BY InitInv, NextInv, PTL DEF Spec
<1> QED
  BY <1>1, IInvImplies, PTL
-----------------------------------------------------------------------------
(* The pipe implements ByteStream. *)

(* The ring has the same index for a counter before and after it wraps. *)
LEMMA SameSlot ==
  ASSUME NEW x \in Int
  PROVE  (x + Word) % PIPESIZE = x % PIPESIZE /\ (x - Word) % PIPESIZE = x % PIPESIZE
<1>0. PIPESIZE \in Int /\ PIPESIZE > 0
  OBVIOUS
<1>1. PICK m \in Int : Word = PIPESIZE * m
  BY DivMod
<1>2. PICK q \in Int, r \in 0 .. PIPESIZE - 1 : x = PIPESIZE * q + r /\ r = x % PIPESIZE
  BY DivMod
<1>3. ASSUME NEW y \in Int, NEW k \in Int, y = PIPESIZE * k + r PROVE y % PIPESIZE = r
  BY <1>0, <1>3, ModIs
<1>4. /\ q + m \in Int /\ x + Word = PIPESIZE * (q + m) + r
      /\ q - m \in Int /\ x - Word = PIPESIZE * (q - m) + r
  BY <1>1, <1>2
<1>5. x + Word \in Int /\ x - Word \in Int
  OBVIOUS
<1>6. (x + Word) % PIPESIZE = r /\ (x - Word) % PIPESIZE = r
  BY <1>3, <1>4, <1>5, Zenon
<1> QED
  BY Zenon, <1>2, <1>6

(* Positions less than PIPESIZE apart have different indices. *)
LEMMA OtherSlot ==
  ASSUME NEW x \in Int, NEW d \in 1 .. PIPESIZE - 1
  PROVE  (x + d) % PIPESIZE # x % PIPESIZE
<1>0. PIPESIZE \in Int /\ PIPESIZE > 0
  OBVIOUS
<1>1. PICK q \in Int, r \in 0 .. PIPESIZE - 1 : x = PIPESIZE * q + r /\ r = x % PIPESIZE
  BY DivMod
<1>2. ASSUME NEW y \in Int, NEW k \in Int, NEW e \in 0 .. PIPESIZE - 1, y = PIPESIZE * k + e
      PROVE  y % PIPESIZE = e
  BY <1>0, <1>2, ModIs
<1>3. CASE r + d < PIPESIZE
  <2>1. /\ x + d \in Int /\ r + d \in 0 .. PIPESIZE - 1
        /\ x + d = PIPESIZE * q + (r + d)
    BY <1>1, <1>3
  <2>2. (x + d) % PIPESIZE = r + d
    BY <1>2, <2>1, Zenon
  <2> QED
    BY <1>1, <2>2
<1>4. CASE ~(r + d < PIPESIZE)
  <2>1. /\ x + d \in Int /\ q + 1 \in Int /\ r + d - PIPESIZE \in 0 .. PIPESIZE - 1
        /\ x + d = PIPESIZE * (q + 1) + (r + d - PIPESIZE)
    BY <1>1, <1>4
  <2>2. (x + d) % PIPESIZE = r + d - PIPESIZE
    BY <1>2, <2>1, Zenon
  <2> QED
    BY <1>1, <2>2
<1> QED
  BY Zenon, <1>3, <1>4

(* The byte that nwrite is at comes after the last one of the queue. *)
LEMMA WriteSlot ==
  ASSUME TypeOK
  PROVE  nwrite % PIPESIZE = (nread + Count) % PIPESIZE
<1>1. nread \in Int /\ nwrite \in Int /\ Count \in Int
  BY CountIs DEF TypeOK
<1>2. nread + Count = nwrite \/ nread + Count = nwrite + Word
  BY <1>1, CountIs
<1> QED
  BY Zenon, <1>1, <1>2, SameSlot

(* What the queue is. *)
QueueOK ==
  /\ Queue \in Seq(Bytes) /\ Len(Queue) = Count /\ Count \in Nat
  /\ \A k \in 1 .. Count : Queue[k] = data[(nread + k - 1) % PIPESIZE]

(* The bytes in the pipe, as piperead() will find them. *)
LEMMA QueueIs == IInv => QueueOK
<1> SUFFICES ASSUME IInv PROVE QueueOK
  OBVIOUS
<1>1. Count \in Nat /\ nread \in Int
  BY CountIs DEF IInv, TypeOK
<1>2. \A k \in 1 .. Count : (nread + k - 1) % PIPESIZE \in 0 .. PIPESIZE - 1
  BY <1>1
<1>3. Queue \in [1 .. Count -> Bytes]
  BY Zenon, <1>1, <1>2 DEF IInv, TypeOK, Queue
<1>4. Queue \in Seq(Bytes) /\ Len(Queue) = Count
  BY <1>1, <1>3
<1> QED
  BY Zenon, <1>1, <1>4 DEF QueueOK, Queue

(* The same after the step. *)
LEMMA QueueIsNext == IInv' => QueueOK'
BY QueueIs, PTL

(* pipewrite() puts a byte at the end of the queue. *)
LEMMA PutAppends ==
  ASSUME IInv, IInv', Count < PIPESIZE, NEW ch \in Bytes,
         data' = [data EXCEPT ![nwrite % PIPESIZE] = ch], nwrite' = Bump(nwrite), nread' = nread
  PROVE  Queue' = Append(Queue, ch) /\ Len(Queue) < PIPESIZE
<1>1. /\ Queue \in Seq(Bytes) /\ Len(Queue) = Count /\ Count \in Nat
      /\ \A k \in 1 .. Count : Queue[k] = data[(nread + k - 1) % PIPESIZE]
      /\ Queue' \in Seq(Bytes) /\ Len(Queue') = Count'
      /\ \A k \in 1 .. Count' : Queue'[k] = data'[(nread + k - 1) % PIPESIZE]
  BY Zenon, QueueIs, QueueIsNext DEF QueueOK
<1>2. Count' = Count + 1
  BY Zenon, PutCount DEF IInv
<1>3. nread \in Int /\ nwrite \in Int /\ nwrite % PIPESIZE \in 0 .. PIPESIZE - 1
  BY DEF IInv, TypeOK
<1>4. nwrite % PIPESIZE = (nread + Count) % PIPESIZE
  BY Zenon, WriteSlot DEF IInv
<1>5. ASSUME NEW k \in 1 .. Count PROVE Queue'[k] = Queue[k]
  <2>0. Count \in Nat /\ nread \in Int /\ k \in Int /\ k <= Count /\ k >= 1
    BY <1>1, <1>3
  <2>1. /\ nread + k - 1 \in Int /\ Count - k + 1 \in 1 .. PIPESIZE - 1
        /\ nread + Count = (nread + k - 1) + (Count - k + 1)
    BY <2>0
  <2>2. (nread + k - 1) % PIPESIZE # nwrite % PIPESIZE
    BY <1>4, <2>1, OtherSlot, ZenonT(60)
  <2>3. data'[(nread + k - 1) % PIPESIZE] = data[(nread + k - 1) % PIPESIZE]
    BY <2>1, <2>2 DEF IInv, TypeOK
  <2>4. k \in 1 .. Count'
    BY <1>2, <2>0
  <2> QED
    BY Zenon, <1>1, <2>3, <2>4
<1>6. Queue'[Count + 1] = ch
  <2>1. nread + (Count + 1) - 1 = nread + Count
    BY <1>1, <1>3
  <2>2. data'[(nread + Count) % PIPESIZE] = ch
    BY ZenonT(60), <1>3, <1>4 DEF IInv, TypeOK
  <2> QED
    BY <1>1, <1>2, <2>1, <2>2
<1>7. Append(Queue, ch) \in Seq(Bytes) /\ Len(Append(Queue, ch)) = Count + 1
      /\ \A k \in 1 .. Count + 1 : Append(Queue, ch)[k] = IF k = Count + 1 THEN ch ELSE Queue[k]
  BY <1>1
<1>8. \A k \in 1 .. Len(Queue') : Queue'[k] = Append(Queue, ch)[k]
  BY <1>1, <1>2, <1>5, <1>6, <1>7
<1> QED
  BY Zenon, <1>1, <1>2, <1>7, <1>8, SeqEqual

(* piperead() takes the first byte. *)
LEMMA TakeTails ==
  ASSUME IInv, IInv', ~Empty, nread' = Bump(nread), UNCHANGED <<data, nwrite>>
  PROVE  Queue # <<>> /\ Queue' = Tail(Queue)
<1>1. /\ Queue \in Seq(Bytes) /\ Len(Queue) = Count /\ Count \in Nat
      /\ \A k \in 1 .. Count : Queue[k] = data[(nread + k - 1) % PIPESIZE]
      /\ Queue' \in Seq(Bytes) /\ Len(Queue') = Count'
      /\ \A k \in 1 .. Count' : Queue'[k] = data[(nread' + k - 1) % PIPESIZE]
  BY Zenon, QueueIs, QueueIsNext DEF QueueOK
<1>2. Count' = Count - 1 /\ Count # 0
  BY Zenon, TakeCount, CountIs DEF IInv
<1>3. Queue # <<>>
  BY <1>1, <1>2
<1>4. /\ Tail(Queue) \in Seq(Bytes) /\ Len(Tail(Queue)) = Count - 1
      /\ \A k \in 1 .. Count - 1 : Tail(Queue)[k] = Queue[k + 1]
  BY <1>1, <1>3, HeadTailProperties
<1>5. nread \in 0 .. Word - 1 /\ nread' = IF nread = Word - 1 THEN 0 ELSE nread + 1
  BY Zenon, BumpIs DEF IInv, TypeOK
<1>6. ASSUME NEW k \in 1 .. Count - 1 PROVE Queue'[k] = Queue[k + 1]
  <2>1. nread + (k + 1) - 1 \in Int /\ k + 1 \in 1 .. Count
    BY <1>1, <1>5
  <2>2. \/ nread' + k - 1 = nread + (k + 1) - 1
        \/ nread' + k - 1 = nread + (k + 1) - 1 - Word
    BY <1>5
  <2>3. (nread' + k - 1) % PIPESIZE = (nread + (k + 1) - 1) % PIPESIZE
    <3>1. \A x \in Int : (x - Word) % PIPESIZE = x % PIPESIZE
      BY Zenon, SameSlot
    <3>2. PICK x \in Int : x = nread + (k + 1) - 1
      BY Zenon, <2>1
    <3>3. nread' + k - 1 = x \/ nread' + k - 1 = x - Word
      BY <1>5, <3>2
    <3>4. (nread' + k - 1) % PIPESIZE = x % PIPESIZE
      BY <3>1, <3>3, Zenon
    <3> QED
      BY Zenon, <3>2, <3>4
  <2>4. Queue'[k] = data[(nread' + k - 1) % PIPESIZE]
    BY Zenon, <1>1, <1>2
  <2>5. Queue[k + 1] = data[(nread + (k + 1) - 1) % PIPESIZE]
    BY <1>1, <2>1, Zenon
  <2> QED
    BY <2>3, <2>4, <2>5, Zenon
<1> QED
  <2>1. Len(Queue') = Len(Tail(Queue)) /\ \A k \in 1 .. Len(Queue') : Queue'[k] = Tail(Queue)[k]
    <3>1. Len(Queue') = Count - 1
      BY Zenon, <1>1, <1>2
    <3>2. \A k \in 1 .. Count - 1 : Queue'[k] = Tail(Queue)[k]
      BY Zenon, <1>4, <1>6
    <3> QED
      BY Zenon, <1>4, <3>1, <3>2
  <2> QED
    BY Zenon, <1>1, <1>3, <1>4, <2>1, SeqEqual

(* A step that does not touch the bytes or the counters keeps the queue. *)
LEMMA QueueSame ==
  ASSUME UNCHANGED <<data, nread, nwrite>>
  PROVE  UNCHANGED Queue
BY Zenon DEF Queue, Count

(* write_put() puts a byte or changes nothing that can be seen. *)
LEMMA WritePutSteps ==
  ASSUME IInv, IInv', NEW p \in Procs, write_put(p)
  PROVE  [BS!BSNext]_(BS!bsvars)
<1>1. CASE UNCHANGED pipe
  BY Zenon, <1>1, QueueSame DEF write_put, pipe, BS!bsvars
<1>2. ASSUME NEW ch \in Bytes, ~Full, data' = [data EXCEPT ![nwrite % PIPESIZE] = ch],
             nwrite' = Bump(nwrite), UNCHANGED <<nread, readopen, writeopen>>
      PROVE  BS!Put(ch)
  <2>1. Count < PIPESIZE
    BY <1>2, CountIs DEF IInv, StillSo
  <2>2. Queue' = Append(Queue, ch) /\ Len(Queue) < PIPESIZE
    BY Zenon, <1>2, <2>1, PutAppends
  <2>3. readopen /\ UNCHANGED sawEOF
    BY Zenon DEF write_put, IInv, StillSo
  <2> QED
    BY ZenonT(60), <1>2, <2>2, <2>3 DEF BS!Put
<1> QED
  BY Zenon, <1>1, <1>2 DEF write_put, BS!BSNext

(* read_copy() takes a byte, or reports the end of the file, or returns. *)
LEMMA ReadCopySteps ==
  ASSUME IInv, IInv', NEW p \in Procs, read_copy(p)
  PROVE  [BS!BSNext]_(BS!bsvars)
<1>1. UNCHANGED <<data, nwrite, readopen, writeopen>> /\ pc[p] = "read_copy"
  BY Zenon DEF read_copy
<1>2. CASE ~Empty /\ nread' = Bump(nread) /\ UNCHANGED sawEOF
  BY Zenon, <1>1, <1>2, TakeTails DEF BS!Take, BS!BSNext
<1>3. CASE (i[p] = n[p] \/ Empty) /\ i[p] = 0 /\ sawEOF' = sawEOF \cup {p} /\ UNCHANGED nread
  <2>1. n[p] > 0 /\ n[p] \in Nat /\ ~MustWait
    BY <1>1, <1>3 DEF IInv, TypeOK, StillSo, ReadPCs
  <2>2. Empty /\ ~writeopen
    BY <1>3, <2>1 DEF MustWait
  <2>3. Queue = <<>>
    BY <2>2, QueueIs, CountIs DEF IInv, QueueOK
  <2>4. BS!EndOfFile(p)
    BY Zenon, <1>1, <1>3, <2>2, <2>3, QueueSame DEF BS!EndOfFile
  <2> QED
    BY ZenonT(60), <2>4 DEF BS!BSNext
<1>4. CASE UNCHANGED <<nread, sawEOF>>
  BY Zenon, <1>1, <1>4, QueueSame DEF BS!bsvars
<1> QED
  BY Zenon, <1>2, <1>3, <1>4 DEF read_copy

(* Every behaviour of a pipe is one of a bounded queue of bytes: the ring,  *)
(* the counters that wrap, and the sleeping and waking cannot be seen.      *)
THEOREM IsByteStreamHolds == Spec => IsByteStream
<1>1. Init => BS!BSInit
  <2> SUFFICES ASSUME Init PROVE BS!BSInit
    OBVIOUS
  <2>1. Count = 0
    BY InitInv, CountIs DEF IInv, Init
  <2>2. Queue = <<>>
    BY <2>1, InitInv, QueueIs DEF QueueOK
  <2> QED
    BY Zenon, <2>2 DEF Init, BS!BSInit
<1>2. ASSUME IInv, IInv', [Next]_vars PROVE [BS!BSNext]_(BS!bsvars)
  <2>1. CASE UNCHANGED <<data, nread, nwrite, readopen, writeopen, sawEOF>>
    BY Zenon, <2>1, QueueSame DEF BS!bsvars
  <2>2. ASSUME NEW p \in Procs, write_put(p) \/ read_copy(p) PROVE [BS!BSNext]_(BS!bsvars)
    BY Zenon, <1>2, <2>2, WritePutSteps, ReadCopySteps
  <2>3. ASSUME NEW p \in Procs, read_call(p) PROVE BS!Read(p)
    BY Zenon, <2>3, QueueSame DEF read_call, pipe, BS!Read
  <2>4. ASSUME NEW p \in Procs, pipeclose_r(p) PROVE BS!CloseRead
    BY ZenonT(60), <1>2, <2>4, QueueSame DEF pipeclose_r, BS!CloseRead, IInv, EndsHeld
  <2>5. ASSUME NEW p \in Procs, pipeclose_w(p) PROVE BS!CloseWrite
    BY ZenonT(60), <1>2, <2>5, QueueSame DEF pipeclose_w, BS!CloseWrite, IInv, EndsHeld
  <2>6. ASSUME NEW p \in Procs,
               \/ write_call(p) \/ write_lock(p) \/ write_loop(p) \/ write_sleep(p) \/ read_lock(p)
               \/ read_wait(p) \/ read_check(p) \/ read_sleep(p) \/ close(p) \/ kill(p)
        PROVE  UNCHANGED <<data, nread, nwrite, readopen, writeopen, sawEOF>>
    BY Zenon, <2>6 DEF write_call, write_lock, write_loop, write_sleep, read_lock, read_wait, read_check,
                read_sleep, close, kill, pipe
  <2> QED
    BY Zenon, <1>2, <2>1, <2>2, <2>3, <2>4, <2>5, <2>6
    DEF Next, pipewrite, piperead, vars, pipe, BS!BSNext
<1>3. Spec => []IInv
  BY InitInv, NextInv, PTL DEF Spec
<1> QED
  BY <1>1, <1>2, <1>3, PTL DEF Spec, IsByteStream, BS!BSSpec
=============================================================================
