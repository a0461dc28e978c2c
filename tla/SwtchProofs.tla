---------------------------- MODULE SwtchProofs -----------------------------
(***************************************************************************)
(* Proofs about the scheduler, for any number of slots and CPUs: swtch()   *)
(* is safe, and fork() keeps its child.                                    *)
(***************************************************************************)
EXTENDS Proc, TLAPS

USE ProcAssumption DEF ProcAssumption, None, initproc

(* What every step keeps. *)
SInv == TypeOK /\ ThreadsParked /\ CpusRun /\ LocksHeld /\ ForksOwnChild

(* Slot 1 is the first process of userinit(), and 0 is the null pointer. *)
LEMMA OneSlot == 1 \in Slots /\ 0 \notin Slots /\ Slots \subseteq Int
BY DEF Slots

(* The scheduler's next slot. *)
LEMMA NextSlot == \A p \in Slots : (p % NPROC) + 1 \in Slots
BY DEF Slots

(* A loop over the table is at a slot, or past the last one. *)
LEMMA LoopSlot ==
  /\ \A n \in 1 .. NPROC + 1 : n <= NPROC => n \in Slots
  /\ \A n \in 1 .. NPROC + 1 : ~ (n <= NPROC) <=> n > NPROC
  /\ \A n \in Slots : n + 1 \in 1 .. NPROC + 1
  /\ 1 \in 1 .. NPROC + 1
BY DEF Slots
-----------------------------------------------------------------------------
(* Each step keeps the invariant. *)

(* A running thread that moves on, and may wake sleepers, leaves the other  *)
(* threads parked, the CPUs busy and every fork() with its child.           *)
LEMMA MovesOn ==
  ASSUME SInv, NEW c \in CPUs, NEW p \in Slots, cproc[c] = p, cpc[c] = "running",
         NEW s, s \notin {"dead", "yield_end", "fork_parent", "fork_run"},
         Goto(p, s), s = "wakeup" => resume'[p] \in {"reparent", "zombie"},
         \A q \in Slots : q # p => resume'[q] = resume[q] /\ chan'[q] = chan[q] /\ arg'[q] = arg[q],
         \A q \in Slots : \/ state'[q] = state[q]
                          \/ state[q] = "SLEEPING" /\ state'[q] = "RUNNABLE",
         UNCHANGED <<cproc, cpc>>
  PROVE  ThreadsParked' /\ CpusRun' /\ ForksOwnChild'
<1>0. ThreadsParked /\ CpusRun /\ ForksOwnChild /\ cproc \in [CPUs -> Slots \cup {None}]
  BY Zenon DEF SInv, TypeOK
<1> pc'[p] = s /\ \A q \in Slots : q # p => pc'[q] = pc[q]
  BY ZenonT(60) DEF SInv, TypeOK, Goto
<1>1. state[p] = "RUNNING" /\ state'[p] = "RUNNING"
  BY <1>0 DEF CpusRun
<1>2. \A d \in CPUs : cproc[d] = p => d = c
  BY <1>0, OneSlot DEF CpusRun
<1>3. ThreadsParked'
  <2>1. ASSUME NEW q \in Slots, q # p
        PROVE  /\ state'[q] = "UNUSED"   => pc'[q] \in {"forkret", "dead"}
               /\ state'[q] = "USED"     => pc'[q] = "forkret"
               /\ state'[q] = "SLEEPING" => pc'[q] = "sleep_end" /\ chan'[q] = q
               /\ state'[q] = "RUNNABLE" => pc'[q] \in {"forkret", "yield_end", "sleep_end"}
               /\ state'[q] = "ZOMBIE"   => pc'[q] = "dead"
               /\ pc'[q] = "yield_end"   => resume'[q] \in OpenPCs
               /\ pc'[q] = "wakeup"      => resume'[q] \in {"reparent", "zombie"}
    BY <1>0, <2>1 DEF ThreadsParked
  <2>2. ASSUME NEW q \in Slots, q # p, state'[q] = "RUNNING"
        PROVE  pc'[q] # "dead" /\ \E d \in CPUs : cpc'[d] = "running" /\ cproc'[d] = q
    BY <1>0, <2>2 DEF ThreadsParked
  <2> QED
    BY <1>1, <2>1, <2>2 DEF ThreadsParked
<1>4. CpusRun'
  <2>1. ASSUME NEW d \in CPUs, cpc[d] = "running" PROVE state'[cproc[d]] = "RUNNING"
    <3>1. cproc[d] \in Slots /\ state[cproc[d]] = "RUNNING"
      BY <1>0, <2>1 DEF CpusRun
    <3> QED
      BY Zenon, <3>1
  <2>2. ASSUME NEW d \in CPUs, cpc[d] = "leaving"
        PROVE  state'[cproc[d]] # "UNUSED" /\ pc'[cproc[d]] \in {"yield_end", "sleep_end", "dead"}
    <3>1. cproc[d] \in Slots /\ cproc[d] # p
      BY <1>0, <1>2, <2>2 DEF CpusRun
    <3> QED
      BY <1>0, <2>2, <3>1 DEF CpusRun
  <2> QED
    BY <1>0, <2>1, <2>2 DEF CpusRun
<1>5. ForksOwnChild'
  <2>1. \A q \in Slots : InFork(q)' => q # p /\ InFork(q)
    BY DEF InFork, Where
  <2>2. \A q \in Slots : InFork(q) => state'[arg[q]] = "USED"
    BY <1>0 DEF ForksOwnChild
  <2> QED
    BY <1>0, <2>1, <2>2 DEF ForksOwnChild
<1> QED
  BY Zenon, <1>3, <1>4, <1>5

(* A thread that moves within the section of a lock, or outside of all. *)
LEMMA KeepsLocks ==
  ASSUME SInv, NEW p \in Slots, NEW s, Goto(p, s), UNCHANGED <<locks, cproc>>,
         s \in OwnLockPCs <=> pc[p] \in OwnLockPCs,
         s \in WaitLockPCs \cup {"release_lk"} <=> pc[p] \in WaitLockPCs \cup {"release_lk"}
  PROVE  LocksHeld'
<1>0. LocksHeld /\ cproc \in [CPUs -> Slots \cup {None}]
  BY Zenon DEF SInv, TypeOK
<1>1. \A q \in Slots :
        /\ pc'[q] \in OwnLockPCs <=> pc[q] \in OwnLockPCs
        /\ pc'[q] \in WaitLockPCs \cup {"release_lk"} <=> pc[q] \in WaitLockPCs \cup {"release_lk"}
  <2>1. pc'[p] = s /\ \A q \in Slots : q # p => pc'[q] = pc[q]
    BY Zenon DEF SInv, TypeOK, Goto
  <2> QED
    BY <2>1
<1>2. \A d \in CPUs : cproc[d] # None => cproc[d] \in Slots
  BY Zenon, <1>0
<1> QED
  BY ZenonT(60), <1>0, <1>1, <1>2 DEF LocksHeld, locks

(* A step that changes only where the scheduler looks. *)
LEMMA SameProcs ==
  ASSUME SInv, UNCHANGED <<pvars, locks, cproc, cpc, tvars>>, scan' \in [CPUs -> Slots]
  PROVE  SInv'
<1>0. TypeOK /\ ThreadsParked /\ CpusRun /\ LocksHeld /\ ForksOwnChild
  BY Zenon DEF SInv
<1> USE <1>0 DEF pvars, locks, tvars
<1>1. TypeOK'
  BY Zenon DEF TypeOK
<1>2. ThreadsParked' /\ CpusRun'
  BY DEF ThreadsParked, CpusRun
<1>3. LocksHeld' /\ ForksOwnChild'
  BY DEF LocksHeld, ForksOwnChild, InFork, Where
<1> QED
  BY Zenon, <1>1, <1>2, <1>3 DEF SInv

(* scheduler() finds a RUNNABLE process, which is on no CPU. *)
LEMMA SchedulerRunInv ==
  ASSUME SInv, NEW c \in CPUs, NEW p \in Slots, cpc[c] = "scan", Free(p), state[p] = "RUNNABLE",
         plock' = [plock EXCEPT ![p] = c],
         state' = [state EXCEPT ![p] = "RUNNING"],
         cproc' = [cproc EXCEPT ![c] = p],
         cpc' = [cpc EXCEPT ![c] = "running"],
         UNCHANGED <<scan, parent, chan, killed, pid, nextpid, wait_lock, tvars>>
  PROVE  SInv'
<1>0. TypeOK /\ ThreadsParked /\ CpusRun /\ LocksHeld /\ ForksOwnChild
  BY Zenon DEF SInv
<1> USE <1>0 DEF Free, tvars
<1>1. /\ pc[p] \in {"forkret", "yield_end", "sleep_end"} /\ cproc[c] = None /\ 1 \in Slots /\ 0 \notin Slots
      /\ \A d \in CPUs : plock[p] # d
  BY ZenonT(60), OneSlot DEF ThreadsParked, CpusRun
<1>2. \A d \in CPUs : cproc[d] # p
  BY <1>1 DEF LocksHeld, OwnLockPCs
<1> USE <1>1, <1>2
<1>3. TypeOK'
  BY Zenon DEF TypeOK, States, CpuPCs
<1>4. ThreadsParked'
  BY DEF TypeOK, ThreadsParked
<1>5. CpusRun'
  BY DEF TypeOK, CpusRun
<1>6. LocksHeld'
  BY DEF TypeOK, LocksHeld, WaitLockPCs, OwnLockPCs
<1>7. ForksOwnChild'
  BY DEF ForksOwnChild, InFork, Where
<1> QED
  BY Zenon, <1>3, <1>4, <1>5, <1>6, <1>7 DEF SInv

(* scheduler() looks at one slot. *)
LEMMA SchedulerInv ==
  ASSUME SInv, NEW c \in CPUs, scheduler(c)
  PROVE  SInv'
<1>1. PICK p \in Slots : p = scan[c]
  BY Zenon DEF SInv, TypeOK
<1>2. CASE state[p] = "RUNNABLE"
  BY Zenon, <1>1, <1>2, SchedulerRunInv DEF scheduler, acquire_plock
<1>3. CASE state[p] # "RUNNABLE"
  <2>1. /\ scan' = [scan EXCEPT ![c] = (p % NPROC) + 1]
        /\ UNCHANGED <<pvars, locks, cproc, cpc, tvars>>
    BY Zenon, <1>1, <1>3 DEF scheduler, pvars, locks
  <2>2. scan' \in [CPUs -> Slots]
    BY Zenon, <2>1, NextSlot DEF SInv, TypeOK
  <2> QED
    BY Zenon, <2>1, <2>2, SameProcs
<1> QED
  BY Zenon, <1>2, <1>3

(* scheduler() goes on after swtch(). *)
LEMMA SchedulerReturnInv ==
  ASSUME SInv, NEW c \in CPUs, NEW p \in Slots, cproc[c] = p, scheduler_return(c)
  PROVE  SInv'
<1>0. TypeOK /\ ThreadsParked /\ CpusRun /\ LocksHeld /\ ForksOwnChild
  BY Zenon DEF SInv
<1> USE <1>0 DEF pvars, tvars
<1>1. /\ plock' = [plock EXCEPT ![p] = NoCPU]
      /\ cproc' = [cproc EXCEPT ![c] = None]
      /\ cpc' = [cpc EXCEPT ![c] = "scan"]
      /\ scan' = [scan EXCEPT ![c] = (scan[c] % NPROC) + 1]
      /\ UNCHANGED <<pvars, wait_lock, tvars>>
      /\ cpc[c] = "leaving" /\ 1 \in Slots
  BY Zenon, OneSlot DEF scheduler_return, release_plock
<1>2. scan' \in [CPUs -> Slots]
  BY Zenon, <1>1, NextSlot DEF TypeOK
<1>3. 0 \notin Slots
  BY Zenon, OneSlot
<1>4. \A d \in CPUs : cproc[d] = p => d = c
  BY Zenon, <1>3 DEF CpusRun
<1> USE <1>1, <1>2, <1>3, <1>4
<1>5. TypeOK'
  BY Zenon DEF TypeOK, CpuPCs
<1>6. ThreadsParked'
  BY DEF ThreadsParked
<1>7. CpusRun'
  BY DEF TypeOK, CpusRun
<1>8. LocksHeld'
  <2>1. \A q \in Slots, d \in CPUs : plock'[q] = d <=> cproc'[d] = q /\ pc'[q] \in OwnLockPCs
    BY DEF TypeOK, LocksHeld
  <2>2. \A d \in CPUs : wait_lock' = d <=>
          cproc'[d] # None /\ pc'[cproc'[d]] \in WaitLockPCs \cup {"release_lk"}
    <3>1. wait_lock # c
      BY DEF CpusRun, LocksHeld, WaitLockPCs
    <3> QED
      BY <3>1 DEF TypeOK, LocksHeld
  <2> QED
    BY Zenon, <2>1, <2>2 DEF LocksHeld
<1>9. ForksOwnChild'
  BY DEF ForksOwnChild, InFork, Where
<1> QED
  BY Zenon, <1>5, <1>6, <1>7, <1>8, <1>9 DEF SInv

(* A timer interrupt in a process that holds no lock. *)
LEMMA YieldInv ==
  ASSUME SInv, NEW c \in CPUs, NEW p \in Slots, cproc[c] = p, yield(c)
  PROVE  SInv'
<1>0. TypeOK /\ ThreadsParked /\ CpusRun /\ LocksHeld /\ ForksOwnChild
  BY Zenon DEF SInv
<1> USE <1>0 DEF yield, Free, Goto, acquire_plock, Leave
<1>1. 1 \in Slots /\ 0 \notin Slots
  BY Zenon, OneSlot
<1> USE <1>1
<1>2. TypeOK'
  BY Zenon DEF TypeOK, States, CpuPCs, PCs, OwnLockPCs
<1>3. ThreadsParked'
  BY ZenonT(60) DEF TypeOK, ThreadsParked
<1>4. CpusRun'
  BY DEF TypeOK, CpusRun
<1>5. LocksHeld'
  <2>1. \A q \in Slots, d \in CPUs : plock'[q] = d <=> cproc'[d] = q /\ pc'[q] \in OwnLockPCs
    BY DEF TypeOK, CpusRun, LocksHeld, OwnLockPCs
  <2>2. \A d \in CPUs : wait_lock' = d <=>
          cproc'[d] # None /\ pc'[cproc'[d]] \in WaitLockPCs \cup {"release_lk"}
    BY DEF TypeOK, LocksHeld, OpenPCs, WaitLockPCs
  <2> QED
    BY Zenon, <2>1, <2>2 DEF LocksHeld
<1>6. ForksOwnChild'
  BY DEF TypeOK, CpusRun, ForksOwnChild, InFork, Where
<1> QED
  BY Zenon, <1>2, <1>3, <1>4, <1>5, <1>6 DEF SInv

(* yield() returns. *)
LEMMA YieldEndInv ==
  ASSUME SInv, NEW c \in CPUs, NEW p \in Slots, cproc[c] = p, yield_end(c)
  PROVE  SInv'
<1>0. TypeOK /\ ThreadsParked /\ CpusRun /\ LocksHeld /\ ForksOwnChild
  BY Zenon DEF SInv
<1> USE <1>0 DEF yield_end, At, Goto, release_plock, pvars, cvars
<1>1. 1 \in Slots /\ 0 \notin Slots
  BY Zenon, OneSlot
<1>2. resume[p] \in OpenPCs /\ pc[p] \in OwnLockPCs
  BY Zenon DEF ThreadsParked, OwnLockPCs
<1> USE <1>1, <1>2
<1>3. TypeOK'
  BY Zenon DEF TypeOK, PCs, OpenPCs
<1>4. ThreadsParked'
  BY DEF ThreadsParked, CpusRun, OpenPCs
<1>5. CpusRun'
  BY DEF CpusRun
<1>6. LocksHeld'
  BY DEF TypeOK, CpusRun, LocksHeld, OpenPCs, WaitLockPCs, OwnLockPCs
<1>7. ForksOwnChild'
  BY DEF ForksOwnChild, InFork, Where
<1> QED
  BY Zenon, <1>3, <1>4, <1>5, <1>6, <1>7 DEF SInv

(* A new process begins. *)
LEMMA ForkretInv ==
  ASSUME SInv, NEW c \in CPUs, NEW p \in Slots, cproc[c] = p, forkret(c)
  PROVE  SInv'
<1>0. /\ cpc[c] = "running" /\ pc[p] = "forkret" /\ plock' = [plock EXCEPT ![p] = NoCPU]
      /\ Goto(p, "user")
      /\ UNCHANGED <<pvars, wait_lock, cvars, resume, i, w, arg, wchan, havekids>>
  BY Zenon DEF forkret, At, release_plock
<1>1. TypeOK'
  BY Zenon, <1>0 DEF Goto, SInv, TypeOK, PCs, OpenPCs, pvars, cvars
<1>2. ThreadsParked' /\ CpusRun' /\ ForksOwnChild'
  BY Zenon, <1>0, MovesOn DEF pvars, cvars
<1>3. LocksHeld'
  BY <1>0, OneSlot DEF Goto, cvars, SInv, TypeOK, LocksHeld, WaitLockPCs, OwnLockPCs
<1> QED
  BY Zenon, <1>1, <1>2, <1>3 DEF SInv

(* A system call begins, or a killed process exits. *)
LEMMA UsertrapInv ==
  ASSUME SInv, NEW c \in CPUs, NEW p \in Slots, cproc[c] = p, usertrap(c)
  PROVE  SInv'
<1>0. /\ cpc[c] = "running" /\ pc[p] = "user" /\ i' = Reset(i, p)
      /\ UNCHANGED <<pvars, locks, cvars, resume, w, wchan, havekids>>
  BY Zenon DEF usertrap, At
<1>1. PICK call \in {"alloc", "wait", "kill", "exit"} :
        Goto(p, call) /\ \E k \in KillPids \cup {arg[p]} : arg' = [arg EXCEPT ![p] = k]
  <2>1. arg = [arg EXCEPT ![p] = arg[p]]
    BY Zenon DEF SInv, TypeOK
  <2> QED
    BY Zenon, <2>1 DEF usertrap, Calls
<1>2. TypeOK'
  <2>1. pc' \in [Slots -> PCs]
    BY Zenon, <1>1 DEF Goto, SInv, TypeOK, PCs, OpenPCs
  <2>2. i' \in [Slots -> 1 .. NPROC + 1]
    BY Zenon, <1>0, LoopSlot DEF Reset, SInv, TypeOK
  <2>3. arg' \in [Slots -> Int]
    BY <1>1 DEF SInv, TypeOK
  <2> QED
    BY Zenon, <1>0, <2>1, <2>2, <2>3 DEF SInv, TypeOK, pvars, locks, cvars
<1>3. ThreadsParked' /\ CpusRun' /\ ForksOwnChild'
  <2>1. \A q \in Slots : q # p => arg'[q] = arg[q]
    BY ZenonT(60), <1>1 DEF SInv, TypeOK
  <2>2. call \notin {"dead", "yield_end", "fork_parent", "fork_run"} /\ call # "wakeup"
    BY Zenon, <1>1
  <2> QED
    BY ZenonT(60), <1>0, <1>1, <2>1, <2>2, MovesOn DEF pvars, cvars
<1>4. LocksHeld'
  BY Zenon, <1>0, <1>1, KeepsLocks DEF cvars, WaitLockPCs, OwnLockPCs
<1> QED
  BY Zenon, <1>2, <1>3, <1>4 DEF SInv

(* A system call returns. *)
LEMMA UsertrapEndInv ==
  ASSUME SInv, NEW c \in CPUs, NEW p \in Slots, cproc[c] = p, usertrap_end(c)
  PROVE  SInv'
<1>1. TypeOK'
  <2>1. pc' \in [Slots -> PCs]
    BY Zenon DEF usertrap_end, Goto, SInv, TypeOK, PCs, OpenPCs
  <2>2. i' \in [Slots -> 1 .. NPROC + 1]
    BY Zenon, LoopSlot DEF usertrap_end, Reset, SInv, TypeOK
  <2>3. arg' \in [Slots -> Int]
    BY DEF usertrap_end, SInv, TypeOK
  <2> QED
    BY Zenon, <2>1, <2>2, <2>3 DEF usertrap_end, SInv, TypeOK, pvars, locks, cvars
<1>2. ThreadsParked' /\ CpusRun' /\ ForksOwnChild'
  <2>1. /\ cpc[c] = "running" /\ UNCHANGED <<state, chan, resume, cproc, cpc>>
        /\ \A q \in Slots : q # p => arg'[q] = arg[q]
    BY Zenon DEF usertrap_end, At, SInv, TypeOK, pvars, cvars
  <2>2. Goto(p, "exit") \/ Goto(p, "user")
    BY Zenon DEF usertrap_end
  <2> QED
    BY Zenon, <2>1, <2>2, MovesOn
<1>3. LocksHeld'
  <2>1. pc[p] = "ret" /\ UNCHANGED <<locks, cproc>> /\ (Goto(p, "exit") \/ Goto(p, "user"))
    BY Zenon DEF usertrap_end, At, cvars
  <2> QED
    BY Zenon, <2>1, KeepsLocks DEF WaitLockPCs, OwnLockPCs
<1> QED
  BY Zenon, <1>1, <1>2, <1>3 DEF SInv

(* allocproc() takes an UNUSED slot. *)
LEMMA AllocTakenInv ==
  ASSUME SInv, NEW c \in CPUs, NEW p \in Slots, cproc[c] = p, cpc[c] = "running",
         pc[p] = "alloc", NEW np \in Slots, Free(np), state[np] = "UNUSED",
         nextpid' = nextpid + 1,
         state' = [state EXCEPT ![np] = "USED"],
         pid' = [pid EXCEPT ![np] = nextpid],
         pc' = [pc EXCEPT ![p] = "fork_parent", ![np] = "forkret"],
         arg' = [arg EXCEPT ![p] = np],
         UNCHANGED <<parent, chan, killed, i, locks, cvars, resume, w, wchan, havekids>>
  PROVE  SInv'
<1>0. TypeOK /\ ThreadsParked /\ CpusRun /\ LocksHeld /\ ForksOwnChild
  BY Zenon DEF SInv
<1> USE <1>0 DEF Goto, Free, Step, Reset, pvars, locks, cvars, tvars
<1>1. 1 \in Slots /\ 0 \notin Slots /\ state[p] = "RUNNING"
  BY Zenon, OneSlot DEF CpusRun
<1> USE <1>1
<1>2. TypeOK'
  <2>1. pc' \in [Slots -> PCs] /\ state' \in [Slots -> States]
    BY Zenon DEF TypeOK, PCs, OpenPCs, OwnLockPCs, States
  <2>2. arg' \in [Slots -> Int] /\ pid' \in [Slots -> Nat] /\ nextpid' \in Nat
    BY OneSlot DEF TypeOK
  <2> QED
    BY Zenon, <2>1, <2>2 DEF TypeOK
<1>3. ThreadsParked'
  BY DEF TypeOK, ThreadsParked
<1>4. CpusRun'
  BY DEF TypeOK, CpusRun
<1>5. LocksHeld'
  <2>1. \A q \in Slots, d \in CPUs : plock'[q] = d <=> cproc'[d] = q /\ pc'[q] \in OwnLockPCs
    BY DEF TypeOK, ThreadsParked, LocksHeld, OwnLockPCs
  <2>2. \A d \in CPUs : wait_lock' = d <=>
          cproc'[d] # None /\ pc'[cproc'[d]] \in WaitLockPCs \cup {"release_lk"}
    BY DEF TypeOK, ThreadsParked, LocksHeld, WaitLockPCs
  <2> QED
    BY Zenon, <2>1, <2>2 DEF LocksHeld
<1>6. ForksOwnChild'
  <2>1. \A q \in Slots : InFork(q) => q # p /\ q # np /\ arg[q] # np
    BY ZenonT(60) DEF ForksOwnChild, InFork, Where, ThreadsParked
  <2>2. \A q \in Slots \ {p} : InFork(q)' => InFork(q) /\ arg'[q] = arg[q]
    BY ZenonT(60) DEF TypeOK, InFork, Where
  <2>3. arg'[p] = np /\ state'[np] = "USED"
    BY Zenon DEF TypeOK
  <2> QED
    BY <2>1, <2>2, <2>3 DEF TypeOK, ForksOwnChild
<1> QED
  BY Zenon, <1>2, <1>3, <1>4, <1>5, <1>6 DEF SInv

(* allocproc() frees the slot again when memory runs out. *)
LEMMA AllocFailedInv ==
  ASSUME SInv, NEW c \in CPUs, NEW p \in Slots, cproc[c] = p, cpc[c] = "running",
         pc[p] = "alloc", NEW np \in Slots, Free(np), state[np] = "UNUSED",
         nextpid' = nextpid + 1, freeproc(np), Goto(p, "ret"),
         UNCHANGED <<i, arg, locks, cvars, resume, w, wchan, havekids>>
  PROVE  SInv'
<1>0. TypeOK /\ ThreadsParked /\ CpusRun /\ LocksHeld /\ ForksOwnChild
  BY Zenon DEF SInv
<1> USE <1>0 DEF freeproc, Goto, Free, Step, Reset, pvars, locks, cvars, tvars
<1>1. 1 \in Slots /\ 0 \notin Slots /\ state[p] = "RUNNING"
  BY Zenon, OneSlot DEF CpusRun
<1> USE <1>1
<1>2. TypeOK'
  BY DEF TypeOK, PCs, OpenPCs
<1>3. ThreadsParked'
  BY DEF ThreadsParked
<1>4. CpusRun'
  BY DEF CpusRun
<1>5. LocksHeld'
  BY DEF LocksHeld, WaitLockPCs, OwnLockPCs
<1>6. ForksOwnChild'
  BY DEF ForksOwnChild, InFork, Where
<1> QED
  BY Zenon, <1>2, <1>3, <1>4, <1>5, <1>6 DEF SInv

(* allocproc() goes to the next slot, or gives up. *)
LEMMA AllocOnInv ==
  ASSUME SInv, NEW c \in CPUs, NEW p \in Slots, cproc[c] = p, cpc[c] = "running",
         pc[p] = "alloc",
         \/ Goto(p, "ret") /\ UNCHANGED i
         \/ i[p] <= NPROC /\ i' = Step(i, p) /\ UNCHANGED pc,
         UNCHANGED <<pvars, arg, locks, cvars, resume, w, wchan, havekids>>
  PROVE  SInv'
<1>0. \E s \in {"ret", pc[p]} : Goto(p, s)
  BY Zenon DEF Goto, SInv, TypeOK
<1>1. TypeOK'
  <2>1. i[p] <= NPROC => i[p] + 1 \in 1 .. NPROC + 1
    BY Zenon, LoopSlot DEF SInv, TypeOK
  <2>2. i' \in [Slots -> 1 .. NPROC + 1]
    BY ZenonT(60), <2>1 DEF Step, SInv, TypeOK
  <2> QED
    BY Zenon, <1>0, <2>2 DEF Goto, SInv, TypeOK, PCs, OpenPCs, pvars, locks, cvars
<1>2. ThreadsParked' /\ CpusRun' /\ ForksOwnChild'
  BY Zenon, <1>0, MovesOn DEF pvars, cvars
<1>3. LocksHeld'
  BY Zenon, <1>0, KeepsLocks DEF cvars, WaitLockPCs, OwnLockPCs
<1> QED
  BY Zenon, <1>1, <1>2, <1>3 DEF SInv

(* allocproc(), and fork() up to its first release(&np->lock). *)
LEMMA AllocprocInv ==
  ASSUME SInv, NEW c \in CPUs, NEW p \in Slots, cproc[c] = p, allocproc(c)
  PROVE  SInv'
<1>1. /\ pc[p] = "alloc" /\ cpc[c] = "running" /\ i[p] \in 1 .. NPROC + 1
      /\ UNCHANGED <<locks, cvars, resume, w, wchan, havekids>>
  BY Zenon DEF allocproc, At, SInv, TypeOK
<1>2. CASE \/ Goto(p, "ret") /\ UNCHANGED <<pvars, i, arg>>
           \/ i[p] <= NPROC /\ i' = Step(i, p) /\ UNCHANGED <<pvars, pc, arg>>
  BY Zenon, <1>1, <1>2, AllocOnInv
<1>3. CASE ~ \/ Goto(p, "ret") /\ UNCHANGED <<pvars, i, arg>>
             \/ i[p] <= NPROC /\ i' = Step(i, p) /\ UNCHANGED <<pvars, pc, arg>>
  <2>1. i[p] <= NPROC
    BY Zenon, <1>3 DEF allocproc
  <2>2. PICK np \in Slots : np = i[p]
    BY Zenon, <1>1, <2>1, LoopSlot
  <2>3. /\ Free(np) /\ state[np] = "UNUSED" /\ nextpid' = nextpid + 1 /\ UNCHANGED i
        /\ \/ /\ state' = [state EXCEPT ![np] = "USED"]
              /\ pid' = [pid EXCEPT ![np] = nextpid]
              /\ pc' = [pc EXCEPT ![p] = "fork_parent", ![np] = "forkret"]
              /\ arg' = [arg EXCEPT ![p] = np]
              /\ UNCHANGED <<parent, chan, killed>>
           \/ freeproc(np) /\ Goto(p, "ret") /\ UNCHANGED arg
    BY Zenon, <1>3, <2>2 DEF allocproc, allocpid, freeproc
  <2> QED
    BY ZenonT(60), <1>1, <2>3, AllocTakenInv, AllocFailedInv
<1> QED
  BY Zenon, <1>2, <1>3

(* A process in fork() has a child of its own, which no CPU runs. *)
LEMMA ForkedChild ==
  ASSUME SInv, NEW p \in Slots, pc[p] \in {"fork_parent", "fork_run"}
  PROVE  \E np \in Slots :
           /\ np = arg[p] /\ np # p /\ state[np] = "USED" /\ pc[np] = "forkret"
           /\ \A q \in Slots : InFork(q) /\ arg[q] = np => q = p
BY DEF SInv, ForksOwnChild, InFork, Where, ThreadsParked

(* fork() records the parent, who holds no lock but wait_lock. *)
LEMMA ForkParentInv ==
  ASSUME SInv, NEW c \in CPUs, NEW p \in Slots, cproc[c] = p, fork_parent(c)
  PROVE  SInv'
<1>0. TypeOK /\ ThreadsParked /\ CpusRun /\ LocksHeld /\ ForksOwnChild
  BY Zenon DEF SInv
<1> USE <1>0 DEF Goto, locks, cvars
<1>1. pc[p] = "fork_parent" /\ cpc[c] = "running" /\ state[p] = "RUNNING" /\ 1 \in Slots /\ 0 \notin Slots
  BY Zenon, OneSlot DEF fork_parent, At, CpusRun
<1>2. PICK np \in Slots :
        /\ np = arg[p] /\ np # p /\ state[np] = "USED" /\ pc[np] = "forkret"
        /\ \A q \in Slots : InFork(q) /\ arg[q] = np => q = p
  BY Zenon, <1>1, ForkedChild
<1>3. /\ wait_lock = NoCPU
      /\ parent' = [parent EXCEPT ![np] = p]
      /\ Goto(p, "fork_run")
      /\ UNCHANGED <<state, chan, killed, pid, nextpid, locks, cvars, resume, i, w, arg,
                     wchan, havekids>>
  BY Zenon, <1>2 DEF fork_parent, Free
<1> USE <1>1, <1>2, <1>3
<1>4. TypeOK'
  BY Zenon DEF TypeOK, PCs, OpenPCs
<1>5. ThreadsParked'
  BY DEF ThreadsParked
<1>6. CpusRun'
  BY DEF CpusRun
<1>7. LocksHeld'
  BY DEF LocksHeld, WaitLockPCs, OwnLockPCs
<1>8. ForksOwnChild'
  BY DEF ForksOwnChild, InFork, Where
<1> QED
  BY Zenon, <1>4, <1>5, <1>6, <1>7, <1>8 DEF SInv

(* fork() makes the child RUNNABLE. *)
LEMMA ForkRunInv ==
  ASSUME SInv, NEW c \in CPUs, NEW p \in Slots, cproc[c] = p, fork_run(c)
  PROVE  SInv'
<1>0. TypeOK /\ ThreadsParked /\ CpusRun /\ LocksHeld /\ ForksOwnChild
  BY Zenon DEF SInv
<1> USE <1>0 DEF Goto, locks, cvars
<1>1. pc[p] = "fork_run" /\ cpc[c] = "running" /\ state[p] = "RUNNING" /\ 1 \in Slots /\ 0 \notin Slots
  BY Zenon, OneSlot DEF fork_run, At, CpusRun
<1>2. PICK np \in Slots :
        /\ np = arg[p] /\ np # p /\ state[np] = "USED" /\ pc[np] = "forkret"
        /\ \A q \in Slots : InFork(q) /\ arg[q] = np => q = p
  BY Zenon, <1>1, ForkedChild
<1>3. /\ plock[np] = NoCPU
      /\ state' = [state EXCEPT ![np] = "RUNNABLE"]
      /\ Goto(p, "ret")
      /\ UNCHANGED <<parent, chan, killed, pid, nextpid, locks, cvars, resume, i, w, arg,
                     wchan, havekids>>
  BY Zenon, <1>2 DEF fork_run, Free
<1> USE <1>1, <1>2, <1>3
<1>4. TypeOK'
  BY ZenonT(60) DEF TypeOK, States, PCs, OpenPCs
<1>5. ThreadsParked'
  BY DEF ThreadsParked
<1>6. CpusRun'
  BY DEF CpusRun
<1>7. LocksHeld'
  BY DEF LocksHeld, WaitLockPCs, OwnLockPCs
<1>8. ForksOwnChild'
  BY DEF TypeOK, ForksOwnChild, InFork, Where
<1> QED
  BY Zenon, <1>4, <1>5, <1>6, <1>7, <1>8 DEF SInv

(* Who is in a section of wait_lock is alone there. *)
LEMMA AloneInWaitLock ==
  ASSUME SInv, NEW p \in Slots, NEW q \in Slots,
         pc[p] \in WaitLockPCs \cup {"release_lk"}, pc[q] \in WaitLockPCs \cup {"release_lk"}
  PROVE  p = q
<1>1. \A r \in Slots : pc[r] \in WaitLockPCs \cup {"release_lk"} => \E c \in CPUs : cproc[c] = r
  BY ZenonT(60) DEF SInv, TypeOK, States, ThreadsParked, WaitLockPCs
<1>2. PICK c \in CPUs : cproc[c] = p
  BY Zenon, <1>1
<1>3. PICK d \in CPUs : cproc[d] = q
  BY Zenon, <1>1
<1> QED
  BY <1>2, <1>3, OneSlot DEF SInv, LocksHeld

(* While wait_lock is free, nobody is in a section of it. *)
LEMMA NoneInWaitLock ==
  ASSUME SInv, wait_lock = NoCPU, NEW q \in Slots
  PROVE  pc[q] \notin WaitLockPCs \cup {"release_lk"}
<1>1. pc[q] \in WaitLockPCs \cup {"release_lk"} => \E c \in CPUs : cproc[c] = q
  BY Zenon DEF SInv, TypeOK, States, ThreadsParked, WaitLockPCs
<1> QED
  BY <1>1, OneSlot DEF SInv, LocksHeld

(* sleep() takes p->lock while it still holds wait_lock. *)
LEMMA SleepInv ==
  ASSUME SInv, NEW c \in CPUs, NEW p \in Slots, cproc[c] = p, sleep(c)
  PROVE  SInv'
<1>0. /\ cpc[c] = "running" /\ pc[p] = "sleep" /\ plock[p] = NoCPU /\ plock' = [plock EXCEPT ![p] = c]
      /\ Goto(p, "release_lk")
      /\ UNCHANGED <<pvars, wait_lock, cvars, resume, i, w, arg, wchan, havekids>>
  BY Zenon DEF sleep, At, acquire_plock, Free
<1>1. TypeOK'
  BY Zenon, <1>0 DEF Goto, SInv, TypeOK, PCs, OwnLockPCs, pvars, cvars
<1>2. ThreadsParked' /\ CpusRun' /\ ForksOwnChild'
  BY Zenon, <1>0, MovesOn DEF pvars, cvars
<1>3. LocksHeld'
  <2>1. \A q \in Slots : pc[q] \in WaitLockPCs \cup {"release_lk"} => q = p
    BY Zenon, <1>0, AloneInWaitLock DEF WaitLockPCs
  <2> QED
    BY <1>0, <2>1, OneSlot DEF Goto, cvars, SInv, TypeOK, LocksHeld, WaitLockPCs, OwnLockPCs
<1> QED
  BY Zenon, <1>1, <1>2, <1>3 DEF SInv

(* sleep() gives up wait_lock, marks itself SLEEPING and leaves the CPU. *)
LEMMA SleepSchedInv ==
  ASSUME SInv, NEW c \in CPUs, NEW p \in Slots, cproc[c] = p, sleep_sched(c)
  PROVE  SInv'
<1>0. TypeOK /\ ThreadsParked /\ CpusRun /\ LocksHeld /\ ForksOwnChild
  BY Zenon DEF SInv
<1> USE <1>0 DEF sleep_sched, At, Goto, Leave
<1>1. 1 \in Slots /\ 0 \notin Slots
  BY Zenon, OneSlot
<1>2. \A q \in Slots : pc[q] \in WaitLockPCs \cup {"release_lk"} => q = p
  BY Zenon, AloneInWaitLock DEF WaitLockPCs
<1> USE <1>1, <1>2
<1>3. TypeOK'
  BY Zenon DEF TypeOK, States, CpuPCs, PCs, OwnLockPCs
<1>4. ThreadsParked'
  BY DEF TypeOK, ThreadsParked, Where, OpenPCs
<1>5. CpusRun'
  BY DEF TypeOK, CpusRun
<1>6. LocksHeld'
  BY DEF TypeOK, LocksHeld, WaitLockPCs, OwnLockPCs
<1>7. ForksOwnChild'
  BY DEF ThreadsParked, ForksOwnChild, InFork, Where
<1> QED
  BY Zenon, <1>3, <1>4, <1>5, <1>6, <1>7 DEF SInv

(* sleep() returns to wait(). *)
LEMMA SleepEndInv ==
  ASSUME SInv, NEW c \in CPUs, NEW p \in Slots, cproc[c] = p, sleep_end(c)
  PROVE  SInv'
<1>0. /\ cpc[c] = "running" /\ pc[p] = "sleep_end" /\ plock' = [plock EXCEPT ![p] = NoCPU]
      /\ chan' = [chan EXCEPT ![p] = None] /\ Goto(p, "wait")
      /\ UNCHANGED <<state, parent, killed, pid, nextpid, wait_lock, cvars, resume, i, w, arg, wchan,
                     havekids>>
  BY Zenon DEF sleep_end, At, release_plock
<1>1. TypeOK'
  BY Zenon, <1>0 DEF Goto, SInv, TypeOK, PCs, OpenPCs, cvars
<1>2. ThreadsParked' /\ CpusRun' /\ ForksOwnChild'
  <2>1. \A q \in Slots : q # p => chan'[q] = chan[q]
    BY Zenon, <1>0 DEF SInv, TypeOK
  <2> QED
    BY ZenonT(60), <1>0, <2>1, MovesOn DEF cvars
<1>3. LocksHeld'
  BY <1>0, OneSlot DEF Goto, cvars, SInv, TypeOK, LocksHeld, WaitLockPCs, OwnLockPCs
<1> QED
  BY Zenon, <1>1, <1>2, <1>3 DEF SInv

(* wakeup() has gone through the table. *)
LEMMA WakeupEndInv ==
  ASSUME SInv, NEW c \in CPUs, NEW p \in Slots, cproc[c] = p, cpc[c] = "running",
         pc[p] = "wakeup", w[p] > NPROC, Goto(p, resume[p]),
         resume' = [resume EXCEPT ![p] = "user"], w' = Reset(w, p),
         wchan' = [wchan EXCEPT ![p] = None],
         UNCHANGED <<pvars, locks, cvars, i, arg, havekids>>
  PROVE  SInv'
<1>0. resume[p] \in {"reparent", "zombie"} /\ \A q \in Slots : q # p => resume'[q] = resume[q]
  BY ZenonT(60) DEF SInv, TypeOK, ThreadsParked
<1>1. TypeOK'
  BY Zenon, LoopSlot DEF Goto, Reset, SInv, TypeOK, PCs, OpenPCs, pvars, locks, cvars
<1>2. ThreadsParked' /\ CpusRun' /\ ForksOwnChild'
  BY ZenonT(60), <1>0, MovesOn DEF pvars, cvars
<1>3. LocksHeld'
  BY Zenon, <1>0, KeepsLocks DEF cvars, WaitLockPCs, OwnLockPCs
<1> QED
  BY Zenon, <1>1, <1>2, <1>3 DEF SInv

(* wakeup() looks at one slot. *)
LEMMA WakeupSlotInv ==
  ASSUME SInv, NEW c \in CPUs, NEW p \in Slots, cproc[c] = p, cpc[c] = "running",
         pc[p] = "wakeup", NEW q \in Slots, q = w[p], q # p => Free(q), w' = Step(w, p),
         state' = IF q # p /\ state[q] = "SLEEPING" /\ chan[q] = wchan[p]
                  THEN [state EXCEPT ![q] = "RUNNABLE"] ELSE state,
         UNCHANGED <<parent, chan, killed, pid, nextpid, locks, cvars, pc, resume, i, arg, wchan,
                     havekids>>
  PROVE  SInv'
<1>1. state \in [Slots -> States] /\ pc \in [Slots -> PCs] /\ resume[p] \in {"reparent", "zombie"}
  BY DEF SInv, TypeOK, ThreadsParked
<1>2. \/ state[q] = "SLEEPING" /\ state' = [state EXCEPT ![q] = "RUNNABLE"]
      \/ state' = state
  BY Zenon
<1>3. Goto(p, "wakeup")
  BY Zenon, <1>1 DEF Goto
<1>4. \A r \in Slots : \/ state'[r] = state[r]
                       \/ state[r] = "SLEEPING" /\ state'[r] = "RUNNABLE"
  BY Zenon, <1>1, <1>2
<1>5. TypeOK'
  <2>1. state' \in [Slots -> States] /\ w' \in [Slots -> 1 .. NPROC + 1]
    BY Zenon, LoopSlot DEF Step, SInv, TypeOK, States
  <2> QED
    BY Zenon, <2>1 DEF SInv, TypeOK, locks, cvars
<1>6. ThreadsParked' /\ CpusRun' /\ ForksOwnChild'
  BY Zenon, <1>1, <1>3, <1>4, MovesOn DEF cvars
<1>7. LocksHeld'
  BY Zenon, <1>3, KeepsLocks DEF cvars
<1> QED
  BY Zenon, <1>5, <1>6, <1>7 DEF SInv

(* wakeup() does one slot, or returns. *)
LEMMA WakeupInv ==
  ASSUME SInv, NEW c \in CPUs, NEW p \in Slots, cproc[c] = p, wakeup(c)
  PROVE  SInv'
<1>1. /\ pc[p] = "wakeup" /\ cpc[c] = "running" /\ w[p] \in 1 .. NPROC + 1
      /\ UNCHANGED <<parent, chan, killed, pid, nextpid, locks, cvars, i, arg, havekids>>
  BY Zenon DEF wakeup, At, SInv, TypeOK
<1>2. CASE w[p] > NPROC
  <2>1. /\ Goto(p, resume[p]) /\ resume' = [resume EXCEPT ![p] = "user"] /\ w' = Reset(w, p)
        /\ wchan' = [wchan EXCEPT ![p] = None] /\ UNCHANGED state
    BY Zenon, <1>1, <1>2, LoopSlot DEF wakeup
  <2> QED
    BY ZenonT(60), <1>1, <1>2, <2>1, WakeupEndInv DEF pvars
<1>3. CASE w[p] <= NPROC
  <2>1. PICK q \in Slots : q = w[p]
    BY Zenon, <1>1, <1>3, LoopSlot
  <2>2. /\ q # p => Free(q)
        /\ w' = Step(w, p)
        /\ state' = IF q # p /\ state[q] = "SLEEPING" /\ chan[q] = wchan[p]
                    THEN [state EXCEPT ![q] = "RUNNABLE"] ELSE state
        /\ UNCHANGED <<pc, resume, wchan>>
    BY Zenon, <1>1, <1>3, <2>1, LoopSlot DEF wakeup
  <2> QED
    BY Zenon, <1>1, <2>1, <2>2, WakeupSlotInv
<1> QED
  BY Zenon, LoopSlot, <1>1, <1>2, <1>3

(* wait() takes wait_lock and begins its scan. *)
LEMMA WaitInv ==
  ASSUME SInv, NEW c \in CPUs, NEW p \in Slots, cproc[c] = p, wait(c)
  PROVE  SInv'
<1>1. /\ cpc[c] = "running" /\ pc[p] = "wait" /\ wait_lock = NoCPU /\ wait_lock' = c
      /\ Goto(p, "wait_scan")
      /\ UNCHANGED <<pvars, plock, cvars, resume, i, w, arg, wchan, havekids>>
  BY Zenon DEF wait, At
<1>2. TypeOK'
  BY Zenon, <1>1 DEF Goto, SInv, TypeOK, PCs, WaitLockPCs, pvars, cvars
<1>3. ThreadsParked' /\ CpusRun' /\ ForksOwnChild'
  BY Zenon, <1>1, MovesOn DEF pvars, cvars
<1>4. LocksHeld'
  BY <1>1, OneSlot DEF Goto, pvars, cvars, SInv, TypeOK, CpusRun, LocksHeld, WaitLockPCs, OwnLockPCs
<1> QED
  BY Zenon, <1>2, <1>3, <1>4 DEF SInv

(* wait() has looked at all its children. *)
LEMMA ScanOverInv ==
  ASSUME SInv, NEW c \in CPUs, NEW p \in Slots, cproc[c] = p, cpc[c] = "running",
         pc[p] = "wait_scan", \A q \in Slots : q >= i[p] => parent[q] # p, Goto(p, "wait_done"),
         UNCHANGED <<pvars, locks, cvars, resume, i, w, arg, wchan, havekids>>
  PROVE  SInv'
<1>1. TypeOK'
  BY Zenon DEF Goto, SInv, TypeOK, PCs, WaitLockPCs, pvars, locks, cvars
<1>2. ThreadsParked' /\ CpusRun' /\ ForksOwnChild'
  BY Zenon, MovesOn DEF pvars, cvars
<1>3. LocksHeld'
  BY Zenon, KeepsLocks DEF cvars, WaitLockPCs, OwnLockPCs
<1> QED
  BY Zenon, <1>1, <1>2, <1>3 DEF SInv

(* wait() passes a child that is no zombie. *)
LEMMA ScanOnInv ==
  ASSUME SInv, NEW c \in CPUs, NEW p \in Slots, cproc[c] = p, cpc[c] = "running",
         pc[p] = "wait_scan", NEW q \in Slots, parent[q] = p, state[q] # "ZOMBIE",
         \A r \in Slots : r >= i[p] /\ parent[r] = p => q <= r,
         i' = [i EXCEPT ![p] = q + 1], havekids' = [havekids EXCEPT ![p] = TRUE],
         UNCHANGED <<pvars, locks, cvars, pc, resume, w, arg, wchan>>
  PROVE  SInv'
<1>0. Goto(p, "wait_scan")
  BY Zenon DEF Goto, SInv, TypeOK
<1>1. TypeOK'
  BY Zenon, LoopSlot DEF SInv, TypeOK, pvars, locks, cvars
<1>2. ThreadsParked' /\ CpusRun' /\ ForksOwnChild'
  BY Zenon, <1>0, MovesOn DEF pvars, cvars
<1>3. LocksHeld'
  BY Zenon, <1>0, KeepsLocks DEF cvars
<1> QED
  BY Zenon, <1>1, <1>2, <1>3 DEF SInv

(* wait() cannot copy the exit status out and leaves the zombie. *)
LEMMA ReapFailsInv ==
  ASSUME SInv, NEW c \in CPUs, NEW p \in Slots, cproc[c] = p, cpc[c] = "running",
         pc[p] = "wait_scan", wait_lock' = NoCPU, Goto(p, "ret"),
         UNCHANGED <<pvars, plock, cvars, resume, i, w, arg, wchan, havekids>>
  PROVE  SInv'
<1>1. TypeOK'
  BY Zenon DEF Goto, SInv, TypeOK, PCs, OpenPCs, pvars, cvars
<1>2. ThreadsParked' /\ CpusRun' /\ ForksOwnChild'
  BY Zenon, MovesOn DEF pvars, cvars
<1>3. LocksHeld'
  <2>1. \A r \in Slots : pc[r] \in WaitLockPCs \cup {"release_lk"} => r = p
    BY Zenon, AloneInWaitLock DEF WaitLockPCs
  <2> QED
    BY <2>1, OneSlot DEF Goto, cvars, SInv, TypeOK, LocksHeld, WaitLockPCs, OwnLockPCs
<1> QED
  BY Zenon, <1>1, <1>2, <1>3 DEF SInv

(* wait() frees a zombie that has left its CPU and has no children. *)
LEMMA ReapInv ==
  ASSUME SInv, NEW c \in CPUs, NEW p \in Slots, cproc[c] = p, cpc[c] = "running",
         pc[p] = "wait_scan", NEW q \in Slots, parent[q] = p, state[q] = "ZOMBIE", Free(q),
         freeproc(q), wait_lock' = NoCPU, Goto(p, "ret"),
         UNCHANGED <<nextpid, plock, cvars, resume, i, w, arg, wchan, havekids>>
  PROVE  SInv'
<1>0. TypeOK /\ ThreadsParked /\ CpusRun /\ LocksHeld /\ ForksOwnChild
  BY Zenon DEF SInv
<1> USE <1>0 DEF Goto, Free, cvars
<1>1. 1 \in Slots /\ 0 \notin Slots /\ state[p] = "RUNNING"
  BY Zenon, OneSlot DEF CpusRun
<1>2. \A r \in Slots : pc[r] \in WaitLockPCs \cup {"release_lk"} => r = p
  BY Zenon, AloneInWaitLock DEF WaitLockPCs
<1>3. q # p /\ pc[q] = "dead"
  BY Zenon, <1>1 DEF ThreadsParked
<1> USE <1>1, <1>2, <1>3
<1>4. TypeOK'
  BY Zenon DEF freeproc, TypeOK, States, PCs, OpenPCs
<1>5. /\ state' = [state EXCEPT ![q] = "UNUSED"] /\ chan' = [chan EXCEPT ![q] = None]
      /\ cproc' = cproc /\ cpc' = cpc
  BY ZenonT(60) DEF freeproc
<1> USE <1>5
<1>6. ThreadsParked'
  BY DEF TypeOK, ThreadsParked
<1>7. CpusRun'
  <2>1. \A d \in CPUs : cproc[d] # q
    BY DEF LocksHeld, OwnLockPCs
  <2> QED
    BY <2>1 DEF TypeOK, CpusRun
<1>8. LocksHeld'
  BY DEF TypeOK, LocksHeld, WaitLockPCs, OwnLockPCs
<1>9. ForksOwnChild'
  <2>1. \A r \in Slots : InFork(r)' => InFork(r)
    BY Zenon DEF TypeOK, InFork, Where
  <2>2. \A r \in Slots : InFork(r) => state'[arg'[r]] = "USED"
    BY Zenon DEF TypeOK, ForksOwnChild
  <2> QED
    BY Zenon, <2>1, <2>2 DEF ForksOwnChild
<1> QED
  BY Zenon, <1>4, <1>6, <1>7, <1>8, <1>9 DEF SInv

(* wait() looks at its next child. *)
LEMMA WaitScanInv ==
  ASSUME SInv, NEW c \in CPUs, NEW p \in Slots, cproc[c] = p, wait_scan(c)
  PROVE  SInv'
<1>1. /\ pc[p] = "wait_scan" /\ cpc[c] = "running"
      /\ UNCHANGED <<plock, cvars, resume, w, arg, wchan>>
  BY Zenon DEF wait_scan, At
<1>2. CASE /\ {q \in Slots : q >= i[p] /\ parent[q] = p} = {}
           /\ Goto(p, "wait_done") /\ UNCHANGED <<pvars, wait_lock, i, havekids>>
  <2>1. \A q \in Slots : q >= i[p] => parent[q] # p
    BY Zenon, <1>2
  <2> QED
    BY Zenon, <1>1, <1>2, <2>1, ScanOverInv DEF locks
<1>3. ASSUME NEW q \in Slots, q >= i[p], parent[q] = p, Free(q),
             \A r \in Slots : r >= i[p] /\ parent[r] = p => q <= r,
             state[q] # "ZOMBIE", i' = [i EXCEPT ![p] = q + 1],
             havekids' = [havekids EXCEPT ![p] = TRUE], UNCHANGED <<pvars, wait_lock, pc>>
      PROVE  SInv'
  BY ZenonT(60), <1>1, <1>3, ScanOnInv DEF locks
<1>4. ASSUME NEW q \in Slots, parent[q] = p, Free(q), state[q] = "ZOMBIE",
             freeproc(q) \/ UNCHANGED <<state, parent, chan, killed, pid>>,
             wait_lock' = NoCPU, Goto(p, "ret"), UNCHANGED <<nextpid, i, havekids>>
      PROVE  SInv'
  <2>1. CASE freeproc(q)
    BY Zenon, <1>1, <1>4, <2>1, ReapInv
  <2>2. CASE UNCHANGED <<state, parent, chan, killed, pid>>
    BY Zenon, <1>1, <1>4, <2>2, ReapFailsInv DEF pvars
  <2> QED
    BY Zenon, <1>4, <2>1, <2>2
<1> QED
  BY Zenon, <1>2, <1>3, <1>4 DEF wait_scan, ChildQuiet

(* wait() fails, or goes to sleep with wait_lock held. *)
LEMMA WaitDoneInv ==
  ASSUME SInv, NEW c \in CPUs, NEW p \in Slots, cproc[c] = p, wait_done(c)
  PROVE  SInv'
<1>0. /\ cpc[c] = "running" /\ pc[p] = "wait_done"
      /\ \/ wait_lock' = NoCPU /\ Goto(p, "ret")
         \/ UNCHANGED wait_lock /\ Goto(p, "sleep")
      /\ i' = [i EXCEPT ![p] = 1] /\ havekids' = [havekids EXCEPT ![p] = FALSE]
      /\ UNCHANGED <<pvars, plock, cvars, resume, w, arg, wchan>>
  BY Zenon DEF wait_done, At, Reset
<1>1. TypeOK'
  <2>1. pc' \in [Slots -> PCs] /\ wait_lock' \in CPUs \cup {NoCPU}
    BY Zenon, <1>0 DEF Goto, SInv, TypeOK, PCs, OpenPCs, WaitLockPCs
  <2>2. i' \in [Slots -> 1 .. NPROC + 1]
    BY Zenon, <1>0, LoopSlot DEF SInv, TypeOK
  <2> QED
    BY Zenon, <1>0, <2>1, <2>2 DEF SInv, TypeOK, pvars, cvars
<1>2. ThreadsParked' /\ CpusRun' /\ ForksOwnChild'
  BY Zenon, <1>0, MovesOn DEF pvars, cvars
<1>3. LocksHeld'
  <2>1. CASE wait_lock' = NoCPU /\ Goto(p, "ret")
    <3>1. \A q \in Slots : pc[q] \in WaitLockPCs \cup {"release_lk"} => q = p
      BY Zenon, <1>0, AloneInWaitLock DEF WaitLockPCs
    <3> QED
      BY <1>0, <2>1, <3>1, OneSlot DEF Goto, cvars, SInv, TypeOK, LocksHeld, WaitLockPCs, OwnLockPCs
  <2>2. CASE UNCHANGED wait_lock /\ Goto(p, "sleep")
    BY Zenon, <1>0, <2>2, KeepsLocks DEF locks, cvars, WaitLockPCs, OwnLockPCs
  <2> QED
    BY Zenon, <1>0, <2>1, <2>2
<1> QED
  BY Zenon, <1>1, <1>2, <1>3 DEF SInv

(* exit() of init is a panic, the others take wait_lock. *)
LEMMA ExitInv ==
  ASSUME SInv, NEW c \in CPUs, NEW p \in Slots, cproc[c] = p, exit(c)
  PROVE  SInv'
<1>0. /\ cpc[c] = "running" /\ pc[p] = "exit"
      /\ \/ Goto(p, "panic") /\ UNCHANGED wait_lock
         \/ wait_lock = NoCPU /\ wait_lock' = c /\ Goto(p, "reparent")
      /\ UNCHANGED <<pvars, plock, cvars, resume, i, w, arg, wchan, havekids>>
  BY Zenon DEF exit, At
<1>1. TypeOK'
  BY Zenon, <1>0 DEF Goto, SInv, TypeOK, PCs, OpenPCs, WaitLockPCs, pvars, cvars
<1>2. ThreadsParked' /\ CpusRun' /\ ForksOwnChild'
  BY Zenon, <1>0, MovesOn DEF pvars, cvars
<1>3. LocksHeld'
  <2>1. CASE Goto(p, "panic") /\ UNCHANGED wait_lock
    BY Zenon, <1>0, <2>1, KeepsLocks DEF locks, cvars, WaitLockPCs, OwnLockPCs
  <2>2. CASE wait_lock = NoCPU /\ wait_lock' = c /\ Goto(p, "reparent")
    BY <1>0, <2>2, OneSlot DEF Goto, cvars, SInv, TypeOK, CpusRun, LocksHeld, WaitLockPCs, OwnLockPCs
  <2> QED
    BY Zenon, <1>0, <2>1, <2>2
<1> QED
  BY Zenon, <1>1, <1>2, <1>3 DEF SInv

(* reparent() is done, and exit() calls wakeup(p->parent). *)
LEMMA ReparentedInv ==
  ASSUME SInv, NEW c \in CPUs, NEW p \in Slots, cproc[c] = p, cpc[c] = "running",
         pc[p] = "reparent", \A q \in Slots : parent[q] # p, call_wakeup(p, parent[p], "zombie"),
         UNCHANGED <<pvars, locks, cvars, i, w, arg, havekids>>
  PROVE  SInv'
<1>1. TypeOK'
  BY Zenon DEF call_wakeup, SInv, TypeOK, PCs, WaitLockPCs, pvars, locks, cvars
<1>2. ThreadsParked' /\ CpusRun' /\ ForksOwnChild'
  <2>1. /\ Goto(p, "wakeup") /\ resume'[p] = "zombie"
        /\ \A q \in Slots : q # p => resume'[q] = resume[q]
    BY Zenon DEF call_wakeup, Goto, SInv, TypeOK
  <2> QED
    BY Zenon, <2>1, MovesOn DEF pvars, cvars
<1>3. LocksHeld'
  <2>1. Goto(p, "wakeup")
    BY Zenon DEF call_wakeup, Goto
  <2> QED
    BY Zenon, <2>1, KeepsLocks DEF cvars, WaitLockPCs, OwnLockPCs
<1> QED
  BY Zenon, <1>1, <1>2, <1>3 DEF SInv

(* reparent() gives a child to init and calls wakeup(initproc). *)
LEMMA GiveChildInv ==
  ASSUME SInv, NEW c \in CPUs, NEW p \in Slots, cproc[c] = p, cpc[c] = "running",
         pc[p] = "reparent", NEW q \in Slots, parent[q] = p,
         parent' = [parent EXCEPT ![q] = initproc], call_wakeup(p, initproc, "reparent"),
         UNCHANGED <<state, chan, killed, pid, nextpid, locks, cvars, i, w, arg, havekids>>
  PROVE  SInv'
<1>1. TypeOK'
  BY Zenon, OneSlot DEF call_wakeup, SInv, TypeOK, PCs, WaitLockPCs, locks, cvars
<1>2. ThreadsParked' /\ CpusRun' /\ ForksOwnChild'
  <2>1. /\ Goto(p, "wakeup") /\ resume'[p] = "reparent"
        /\ \A r \in Slots : r # p => resume'[r] = resume[r]
    BY Zenon DEF call_wakeup, Goto, SInv, TypeOK
  <2> QED
    BY Zenon, <2>1, MovesOn DEF cvars
<1>3. LocksHeld'
  <2>1. Goto(p, "wakeup")
    BY Zenon DEF call_wakeup, Goto
  <2> QED
    BY Zenon, <2>1, KeepsLocks DEF cvars, WaitLockPCs, OwnLockPCs
<1> QED
  BY Zenon, <1>1, <1>2, <1>3 DEF SInv

(* reparent() looks for the next child. *)
LEMMA ReparentInv ==
  ASSUME SInv, NEW c \in CPUs, NEW p \in Slots, cproc[c] = p, reparent(c)
  PROVE  SInv'
<1>1. /\ pc[p] = "reparent" /\ cpc[c] = "running"
      /\ UNCHANGED <<state, chan, killed, pid, nextpid, locks, cvars, i, w, arg, havekids>>
  BY Zenon DEF reparent, At
<1>2. CASE /\ {q \in Slots : parent[q] = p} = {}
           /\ call_wakeup(p, parent[p], "zombie") /\ UNCHANGED parent
  <2>1. \A q \in Slots : parent[q] # p
    BY Zenon, <1>2
  <2> QED
    BY Zenon, <1>1, <1>2, <2>1, ReparentedInv DEF pvars
<1>3. ASSUME NEW q \in Slots, parent[q] = p, parent' = [parent EXCEPT ![q] = initproc],
             call_wakeup(p, initproc, "reparent")
      PROVE  SInv'
  BY Zenon, <1>1, <1>3, GiveChildInv
<1> QED
  BY Zenon, <1>2, <1>3 DEF reparent, call_wakeup

(* exit() becomes a zombie that its parent will see. *)
LEMMA ExitZombieInv ==
  ASSUME SInv, NEW c \in CPUs, NEW p \in Slots, cproc[c] = p, exit_zombie(c)
  PROVE  SInv'
<1>0. TypeOK /\ ThreadsParked /\ CpusRun /\ LocksHeld /\ ForksOwnChild
  BY Zenon DEF SInv
<1> USE <1>0 DEF exit_zombie, Free, At, Goto, acquire_plock, Leave
<1>1. 1 \in Slots /\ 0 \notin Slots
  BY Zenon, OneSlot
<1>2. \A q \in Slots : pc[q] \in WaitLockPCs \cup {"release_lk"} => q = p
  BY Zenon, AloneInWaitLock DEF WaitLockPCs
<1> USE <1>1, <1>2
<1>3. TypeOK'
  BY ZenonT(60) DEF TypeOK, States, CpuPCs, PCs, OwnLockPCs
<1>4. ThreadsParked'
  BY DEF TypeOK, ThreadsParked
<1>5. CpusRun'
  BY DEF TypeOK, CpusRun
<1>6. LocksHeld'
  BY DEF TypeOK, LocksHeld, WaitLockPCs, OwnLockPCs
<1>7. ForksOwnChild'
  BY DEF ThreadsParked, ForksOwnChild, InFork, Where
<1> QED
  BY Zenon, <1>3, <1>4, <1>5, <1>6, <1>7 DEF SInv

(* kill() marks a process and wakes it. *)
LEMMA KillHitInv ==
  ASSUME SInv, NEW c \in CPUs, NEW p \in Slots, cproc[c] = p, cpc[c] = "running",
         pc[p] = "kill", NEW q \in Slots, Free(q), killed' = [killed EXCEPT ![q] = TRUE],
         kill_wakes(q), Goto(p, "ret"),
         UNCHANGED <<parent, chan, pid, nextpid, locks, cvars, resume, i, w, arg, wchan, havekids>>
  PROVE  SInv'
<1>0. \A r \in Slots : \/ state'[r] = state[r]
                       \/ state[r] = "SLEEPING" /\ state'[r] = "RUNNABLE"
  BY Zenon DEF kill_wakes, SInv, TypeOK
<1>1. TypeOK'
  <2>1. state' \in [Slots -> States]
    BY Zenon DEF kill_wakes, SInv, TypeOK, States
  <2> QED
    BY Zenon, <2>1 DEF Goto, SInv, TypeOK, PCs, OpenPCs, locks, cvars
<1>2. ThreadsParked' /\ CpusRun' /\ ForksOwnChild'
  BY Zenon, <1>0, MovesOn DEF cvars
<1>3. LocksHeld'
  BY Zenon, KeepsLocks DEF cvars, WaitLockPCs, OwnLockPCs
<1> QED
  BY Zenon, <1>1, <1>2, <1>3 DEF SInv

(* kill() goes to the next slot, or gives up. *)
LEMMA KillOnInv ==
  ASSUME SInv, NEW c \in CPUs, NEW p \in Slots, cproc[c] = p, cpc[c] = "running",
         pc[p] = "kill",
         \/ Goto(p, "ret") /\ UNCHANGED i
         \/ i[p] <= NPROC /\ i' = Step(i, p) /\ UNCHANGED pc,
         UNCHANGED <<pvars, arg, locks, cvars, resume, w, wchan, havekids>>
  PROVE  SInv'
<1>0. \E s \in {"ret", pc[p]} : Goto(p, s)
  BY Zenon DEF Goto, SInv, TypeOK
<1>1. TypeOK'
  <2>1. i[p] <= NPROC => i[p] + 1 \in 1 .. NPROC + 1
    BY Zenon, LoopSlot DEF SInv, TypeOK
  <2>2. i' \in [Slots -> 1 .. NPROC + 1]
    BY ZenonT(60), <2>1 DEF Step, SInv, TypeOK
  <2> QED
    BY Zenon, <1>0, <2>2 DEF Goto, SInv, TypeOK, PCs, OpenPCs, pvars, locks, cvars
<1>2. ThreadsParked' /\ CpusRun' /\ ForksOwnChild'
  BY Zenon, <1>0, MovesOn DEF pvars, cvars
<1>3. LocksHeld'
  BY Zenon, <1>0, KeepsLocks DEF cvars, WaitLockPCs, OwnLockPCs
<1> QED
  BY Zenon, <1>1, <1>2, <1>3 DEF SInv

(* kill() looks at one slot. *)
LEMMA KillInv ==
  ASSUME SInv, NEW c \in CPUs, NEW p \in Slots, cproc[c] = p, kill(c)
  PROVE  SInv'
<1>1. /\ pc[p] = "kill" /\ cpc[c] = "running" /\ i[p] \in 1 .. NPROC + 1
      /\ UNCHANGED <<parent, chan, pid, nextpid, locks, cvars, resume, w, arg, wchan, havekids>>
  BY Zenon DEF kill, At, SInv, TypeOK
<1>2. CASE \/ Goto(p, "ret") /\ UNCHANGED <<state, killed, i>>
           \/ i[p] <= NPROC /\ i' = Step(i, p) /\ UNCHANGED <<state, killed, pc>>
  BY Zenon, <1>1, <1>2, KillOnInv DEF pvars
<1>3. CASE ~ \/ Goto(p, "ret") /\ UNCHANGED <<state, killed, i>>
             \/ i[p] <= NPROC /\ i' = Step(i, p) /\ UNCHANGED <<state, killed, pc>>
  <2>1. i[p] <= NPROC
    BY ZenonT(60), <1>3 DEF kill
  <2>2. PICK q \in Slots : q = i[p]
    BY Zenon, <1>1, <2>1, LoopSlot
  <2>3. /\ Free(q) /\ killed' = [killed EXCEPT ![q] = TRUE] /\ kill_wakes(q) /\ Goto(p, "ret")
        /\ UNCHANGED i
    BY Zenon, <1>3, <2>2 DEF kill, kill_wakes
  <2> QED
    BY Zenon, <1>1, <2>3, KillHitInv
<1> QED
  BY Zenon, <1>2, <1>3
-----------------------------------------------------------------------------
(* userinit() leaves the table in such a state. *)
LEMMA InitInv == Init => SInv
<1> SUFFICES ASSUME Init PROVE SInv
  OBVIOUS
<1> USE DEF Init
<1>1. 1 \in Slots /\ 0 \notin Slots /\ 1 \in 1 .. NPROC + 1
  BY OneSlot
<1>2. TypeOK
  BY <1>1 DEF TypeOK, States, CpuPCs, PCs, OpenPCs, OwnLockPCs
<1>3. ThreadsParked /\ CpusRun
  BY Zenon DEF ThreadsParked, CpusRun
<1>4. LocksHeld
  BY Zenon, <1>1 DEF LocksHeld
<1>5. ForksOwnChild
  BY Zenon, <1>1 DEF ForksOwnChild, InFork, Where
<1> QED
  BY Zenon, <1>2, <1>3, <1>4, <1>5 DEF SInv

(* Who takes a step of a process is on a CPU. *)
LEMMA RunsOne ==
  ASSUME SInv, NEW c \in CPUs, Run(c) \/ usertrap(c) \/ yield(c), ~ scheduler(c)
  PROVE  \E p \in Slots : cproc[c] = p
<1>1. cpc[c] # "scan"
  BY Zenon DEF Run, scheduler_return, yield_end, forkret, usertrap_end, allocproc, fork_parent,
    fork_run, sleep, sleep_sched, sleep_end, wakeup, wait, wait_scan, wait_done, exit,
    reparent, exit_zombie, kill, usertrap, yield, At
<1> QED
  BY <1>1 DEF SInv, TypeOK, CpusRun

(* A step of any CPU, or of none. *)
LEMMA NextInv == SInv /\ [Next]_vars => SInv'
<1>1. ASSUME SInv, UNCHANGED vars
      PROVE  SInv'
  BY Zenon, <1>1, SameProcs DEF vars, cvars, SInv, TypeOK
<1>2. ASSUME SInv, NEW c \in CPUs, Run(c) \/ usertrap(c) \/ yield(c), ~ scheduler(c)
      PROVE  SInv'
  <2>1. PICK p \in Slots : cproc[c] = p
    BY Zenon, <1>2, RunsOne
  <2> QED
    BY ZenonT(60), <1>2, <2>1, SchedulerReturnInv, YieldInv, YieldEndInv, ForkretInv, UsertrapInv,
       UsertrapEndInv, AllocprocInv, ForkParentInv, ForkRunInv, SleepInv, SleepSchedInv,
       SleepEndInv, WakeupInv, WaitInv, WaitScanInv, WaitDoneInv, ExitInv, ReparentInv,
       ExitZombieInv, KillInv DEF Run
<1> QED
  BY Zenon, <1>1, <1>2, SchedulerInv DEF Next

(* What the locks and the threads agree on makes swtch() safe. *)
LEMMA InvSwtchSafe == SInv => SwtchSafe
<1> SUFFICES ASSUME SInv PROVE SwtchSafe
  OBVIOUS
<1>1. StackExclusive
  <2>1. ASSUME NEW c \in CPUs, cproc[c] # None PROVE state[cproc[c]] \notin {"UNUSED", "USED"}
    <3>1. cproc[c] \in Slots /\ cpc[c] \in {"running", "leaving"}
      BY <2>1 DEF SInv, TypeOK, CpusRun, CpuPCs
    <3>2. CASE cpc[c] = "running"
      BY Zenon, <3>2 DEF SInv, CpusRun
    <3>3. CASE cpc[c] = "leaving"
      BY Zenon, <3>1, <3>3 DEF SInv, CpusRun, ThreadsParked
    <3> QED
      BY ZenonT(60), <3>1, <3>2, <3>3
  <2> QED
    BY Zenon, <2>1 DEF SInv, CpusRun, StackExclusive
<1>2. SchedLocks
  <2> SUFFICES ASSUME NEW c \in CPUs, cpc[c] = "leaving"
               PROVE  /\ plock[cproc[c]] = c /\ wait_lock # c
                      /\ \A p \in Slots : plock[p] = c => p = cproc[c]
                      /\ state[cproc[c]] # "RUNNING"
    BY Zenon DEF SchedLocks
  <2>1. cproc[c] \in Slots /\ pc[cproc[c]] \in {"yield_end", "sleep_end", "dead"}
    BY DEF SInv, TypeOK, CpusRun
  <2>2. plock[cproc[c]] = c /\ wait_lock # c
    BY <2>1 DEF SInv, LocksHeld, WaitLockPCs, OwnLockPCs
  <2>3. \A p \in Slots : plock[p] = c => p = cproc[c]
    BY Zenon DEF SInv, LocksHeld
  <2>4. state[cproc[c]] # "RUNNING"
    BY ZenonT(60), <2>1 DEF SInv, ThreadsParked, CpusRun
  <2> QED
    BY Zenon, <2>2, <2>3, <2>4
<1> QED
  BY Zenon, <1>1, <1>2 DEF SInv, SwtchSafe

(* Every state agrees on what the threads, the CPUs and the locks do. *)
LEMMA SwtchInvariant == Spec => []SInv
BY InitInv, NextInv, PTL DEF Spec

(* scheduler(), sched(), sleep(), yield() and wait() pass p->lock through   *)
(* swtch() safely, for any number of slots, CPUs and processes: a kernel    *)
(* stack is in use on one CPU at most and never after its process is freed, *)
(* and sched() never panics.                                                *)
THEOREM SwtchSafeHolds == Spec => []SwtchSafe
BY SwtchInvariant, InvSwtchSafe, PTL

=============================================================================
