---------------------------- MODULE ParentProofs ----------------------------
(***************************************************************************)
(* Proofs about fork(), exit(), wait() and reparent(), for any number of   *)
(* slots and CPUs: a process has a parent that will see it exit.  They     *)
(* rest on what SwtchProofs shows of the scheduler and the locks.          *)
(***************************************************************************)
EXTENDS SwtchProofs

USE ProcAssumption DEF ProcAssumption, None, initproc

(* What every step keeps. *)
PInv == ParentsLive /\ ScanHolds /\ ExitWakes /\ ZombieWakes

-----------------------------------------------------------------------------
(* Each step keeps the invariant. *)

(* The order of the slots. *)
LEMMA Ordered ==
  /\ \A q \in Slots, n \in 1 .. NPROC + 1 : q >= n \/ q < n
  /\ \A q, r \in Slots : r < q + 1 /\ q <= r => r = q
BY DEF Slots

(* No slot comes before the first, or after the last. *)
LEMMA FirstSlot ==
  /\ \A q \in Slots : ~ (q < 1) /\ 1 <= q
  /\ \A n \in 1 .. NPROC + 1 : n > NPROC => \A q \in Slots : ~ (n <= q)
  /\ \A q, r \in Slots : q <= r /\ q # r => q + 1 <= r
BY DEF Slots

(* A running thread that moves on outside of reparent() and wakeup(), with  *)
(* its scan of wait() in order, and may wake sleepers.                      *)
LEMMA MovesOnParents ==
  ASSUME SInv, PInv, NEW c \in CPUs, NEW p \in Slots, cproc[c] = p, cpc[c] = "running",
         pc[p] # "wakeup", NEW s, s \notin {"wakeup", "zombie", "yield_end"},
         s = "reparent" => p # initproc, Goto(p, s),
         s \in {"wait", "sleep", "release_lk", "sleep_end"} => i'[p] = 1,
         s = "wait_scan" => \A q \in Slots : q < i'[p] /\ parent[q] = p => state[q] # "ZOMBIE",
         s \in {"wait_done", "sleep", "release_lk"} =>
           \A q \in Slots : parent[q] = p => state[q] # "ZOMBIE",
         \A q \in Slots : q # p => i'[q] = i[q],
         \A q \in Slots : \/ state'[q] = state[q]
                          \/ state[q] = "SLEEPING" /\ state'[q] = "RUNNABLE",
         UNCHANGED <<parent, resume, w, wchan>>
  PROVE  PInv'
<1>0. ParentsLive /\ ScanHolds /\ ExitWakes /\ ZombieWakes /\ parent \in [Slots -> Slots \cup {None}]
  BY Zenon DEF SInv, PInv, TypeOK
<1>1. pc'[p] = s /\ \A q \in Slots : q # p => pc'[q] = pc[q]
  BY Zenon DEF SInv, TypeOK, Goto
<1>2. \A q \in Slots : parent[q] # None => parent[q] \in Slots
  BY ZenonT(60), <1>0
<1>3. ParentsLive'
  <2>1. \A q \in Slots : Alive(q) => Alive(q)'
    BY DEF Alive
  <2>2. \A q \in Slots : parent[q] # None => /\ state'[q] # "UNUSED"
                                             /\ Alive(parent[q])' /\ parent[q] # q
    BY <1>0, <1>2, <2>1 DEF ParentsLive
  <2>3. Alive(initproc)' /\ pc'[initproc] \notin {"reparent", "wakeup", "zombie"}
    BY <1>0, <1>1, <2>1, OneSlot DEF ParentsLive
  <2>4. \A q \in Slots : pc'[q] = "zombie" \/ (pc'[q] = "wakeup" /\ resume[q] = "zombie") => HasNoKids(q)
    BY <1>0, <1>1 DEF ParentsLive
  <2> QED
    BY <1>0, <2>2, <2>3, <2>4 DEF ParentsLive, Alive, HasNoKids
<1>4. ScanHolds'
  <2>1. \A q \in Slots : state'[q] = "ZOMBIE" => state[q] = "ZOMBIE"
    OBVIOUS
  <2>2. ASSUME NEW r \in Slots, r # p
        PROVE  /\ pc'[r] # "wakeup" => w[r] = 1
               /\ Where(r)' \in {"wait", "sleep", "release_lk", "sleep_end"} => i'[r] = 1
               /\ pc'[r] = "wait_scan" =>
                    \A q \in Slots : q < i'[r] /\ parent[q] = r => state'[q] # "ZOMBIE"
               /\ pc'[r] \in {"wait_done", "sleep", "release_lk"} =>
                    \A q \in Slots : parent[q] = r => state'[q] # "ZOMBIE"
    BY <1>0, <1>1, <2>1, <2>2 DEF ScanHolds, Where
  <2>3. /\ w[p] = 1
        /\ Where(p)' \in {"wait", "sleep", "release_lk", "sleep_end"} => i'[p] = 1
        /\ pc'[p] = "wait_scan" =>
             \A q \in Slots : q < i'[p] /\ parent[q] = p => state'[q] # "ZOMBIE"
        /\ pc'[p] \in {"wait_done", "sleep", "release_lk"} =>
             \A q \in Slots : parent[q] = p => state'[q] # "ZOMBIE"
    BY <1>0, <1>1, <2>1 DEF ScanHolds, Where
  <2> QED
    BY <2>2, <2>3 DEF ScanHolds
<1>5. ExitWakes'
  BY <1>0, <1>1, <1>2 DEF ExitWakes
<1>6. ZombieWakes'
  BY <1>0, <1>1, <1>2 DEF ZombieWakes
<1> QED
  BY Zenon, <1>3, <1>4, <1>5, <1>6 DEF PInv

(* A step that changes only where the scheduler looks. *)
LEMMA SameParents ==
  ASSUME PInv, UNCHANGED <<pvars, locks, cproc, cpc, tvars>>
  PROVE  PInv'
<1> USE DEF PInv, pvars, locks, tvars
<1>1. ParentsLive' /\ ScanHolds'
  BY ZenonT(60) DEF ParentsLive, Alive, HasNoKids, ScanHolds, Where
<1>2. ExitWakes' /\ ZombieWakes'
  BY Zenon DEF ExitWakes, ZombieWakes
<1> QED
  BY Zenon, <1>1, <1>2

(* scheduler() finds a RUNNABLE process, which is on no CPU. *)
LEMMA SchedulerRunParents ==
  ASSUME SInv, PInv, NEW c \in CPUs, NEW p \in Slots, cpc[c] = "scan", Free(p), state[p] = "RUNNABLE",
         plock' = [plock EXCEPT ![p] = c],
         state' = [state EXCEPT ![p] = "RUNNING"],
         cproc' = [cproc EXCEPT ![c] = p],
         cpc' = [cpc EXCEPT ![c] = "running"],
         UNCHANGED <<scan, parent, chan, killed, pid, nextpid, wait_lock, tvars>>
  PROVE  PInv'
<1>0. /\ TypeOK /\ ThreadsParked /\ CpusRun /\ LocksHeld /\ ForksOwnChild
      /\ ParentsLive /\ ScanHolds /\ ExitWakes /\ ZombieWakes
  BY Zenon DEF SInv, PInv
<1> USE <1>0 DEF Free, tvars
<1>1. /\ pc[p] \in {"forkret", "yield_end", "sleep_end"} /\ cproc[c] = None /\ 1 \in Slots /\ 0 \notin Slots
      /\ \A d \in CPUs : plock[p] # d
  BY ZenonT(60), OneSlot DEF ThreadsParked, CpusRun
<1>2. \A d \in CPUs : cproc[d] # p
  BY <1>1 DEF LocksHeld, OwnLockPCs
<1> USE <1>1, <1>2
<1>3. ParentsLive'
  BY DEF ParentsLive, Alive, HasNoKids
<1>4. ScanHolds'
  BY DEF Where, ScanHolds
<1>5. ExitWakes'
  BY DEF ExitWakes
<1>6. ZombieWakes'
  BY DEF ZombieWakes
<1> QED
  BY Zenon, <1>3, <1>4, <1>5, <1>6 DEF PInv

(* scheduler() looks at one slot. *)
LEMMA SchedulerParents ==
  ASSUME SInv, PInv, NEW c \in CPUs, scheduler(c)
  PROVE  PInv'
<1>1. PICK p \in Slots : p = scan[c]
  BY Zenon DEF SInv, TypeOK
<1>2. CASE state[p] = "RUNNABLE"
  BY Zenon, <1>1, <1>2, SchedulerRunParents DEF scheduler, acquire_plock
<1>3. CASE state[p] # "RUNNABLE"
  <2>1. UNCHANGED <<pvars, locks, cproc, cpc, tvars>>
    BY Zenon, <1>1, <1>3 DEF scheduler, pvars, locks
  <2> QED
    BY Zenon, <2>1, SameParents
<1> QED
  BY Zenon, <1>2, <1>3

(* scheduler() goes on after swtch(). *)
LEMMA SchedulerReturnParents ==
  ASSUME SInv, PInv, NEW c \in CPUs, NEW p \in Slots, cproc[c] = p, scheduler_return(c)
  PROVE  PInv'
<1>0. /\ TypeOK /\ ThreadsParked /\ CpusRun /\ LocksHeld /\ ForksOwnChild
      /\ ParentsLive /\ ScanHolds /\ ExitWakes /\ ZombieWakes
  BY Zenon DEF SInv, PInv
<1> USE <1>0 DEF pvars, tvars
<1>1. /\ plock' = [plock EXCEPT ![p] = NoCPU]
      /\ cproc' = [cproc EXCEPT ![c] = None]
      /\ cpc' = [cpc EXCEPT ![c] = "scan"]
      /\ scan' = [scan EXCEPT ![c] = (scan[c] % NPROC) + 1]
      /\ UNCHANGED <<pvars, wait_lock, tvars>>
      /\ cpc[c] = "leaving" /\ 1 \in Slots
  BY Zenon, OneSlot DEF scheduler_return, release_plock
<1>2. scan' \in [CPUs -> Slots]
  BY Zenon, <1>1, NextSlot DEF TypeOK
<1>3. 0 \notin Slots
  BY Zenon, OneSlot
<1>4. \A d \in CPUs : cproc[d] = p => d = c
  BY Zenon, <1>3 DEF CpusRun
<1> USE <1>1, <1>2, <1>3, <1>4
<1>5. ParentsLive'
  BY ZenonT(60) DEF ParentsLive, Alive, HasNoKids
<1>6. ScanHolds'
  BY ZenonT(60) DEF Where, ScanHolds
<1>7. ExitWakes'
  BY Zenon DEF ExitWakes
<1>8. ZombieWakes'
  BY Zenon DEF ZombieWakes
<1> QED
  BY Zenon, <1>5, <1>6, <1>7, <1>8 DEF PInv

(* A timer interrupt in a process that holds no lock. *)
LEMMA YieldParents ==
  ASSUME SInv, PInv, NEW c \in CPUs, NEW p \in Slots, cproc[c] = p, yield(c)
  PROVE  PInv'
<1>0. /\ TypeOK /\ ThreadsParked /\ CpusRun /\ LocksHeld /\ ForksOwnChild
      /\ ParentsLive /\ ScanHolds /\ ExitWakes /\ ZombieWakes
  BY Zenon DEF SInv, PInv
<1> USE <1>0 DEF yield, Free, Goto, acquire_plock, Leave
<1>1. 1 \in Slots /\ 0 \notin Slots
  BY Zenon, OneSlot
<1> USE <1>1
<1>2. ParentsLive'
  BY DEF ParentsLive, Alive, HasNoKids
<1>3. ScanHolds'
  BY DEF TypeOK, Where, ScanHolds, OpenPCs
<1>4. ExitWakes'
  BY DEF ExitWakes
<1>5. ZombieWakes'
  BY DEF ZombieWakes, OpenPCs
<1> QED
  BY Zenon, <1>2, <1>3, <1>4, <1>5 DEF PInv

(* yield() returns. *)
LEMMA YieldEndParents ==
  ASSUME SInv, PInv, NEW c \in CPUs, NEW p \in Slots, cproc[c] = p, yield_end(c)
  PROVE  PInv'
<1>0. /\ TypeOK /\ ThreadsParked /\ CpusRun /\ LocksHeld /\ ForksOwnChild
      /\ ParentsLive /\ ScanHolds /\ ExitWakes /\ ZombieWakes
  BY Zenon DEF SInv, PInv
<1> USE <1>0 DEF yield_end, At, Goto, release_plock, pvars, cvars
<1>1. 1 \in Slots /\ 0 \notin Slots
  BY Zenon, OneSlot
<1> USE <1>1
<1>2. ParentsLive'
  BY DEF ThreadsParked, ParentsLive, Alive, HasNoKids, OpenPCs
<1>3. ScanHolds'
  BY DEF ThreadsParked, Where, ScanHolds, OpenPCs
<1>4. ExitWakes'
  BY DEF ThreadsParked, ExitWakes, OpenPCs
<1>5. ZombieWakes'
  BY DEF ZombieWakes
<1> QED
  BY Zenon, <1>2, <1>3, <1>4, <1>5 DEF PInv

(* A new process begins. *)
LEMMA ForkretParents ==
  ASSUME SInv, PInv, NEW c \in CPUs, NEW p \in Slots, cproc[c] = p, forkret(c)
  PROVE  PInv'
<1>1. /\ cpc[c] = "running" /\ pc[p] = "forkret" /\ Goto(p, "user")
      /\ UNCHANGED <<pvars, resume, i, w, wchan>>
  BY Zenon DEF forkret, At
<1> QED
  BY Zenon, <1>1, MovesOnParents DEF pvars

(* A system call begins, or a killed process exits. *)
LEMMA UsertrapParents ==
  ASSUME SInv, PInv, NEW c \in CPUs, NEW p \in Slots, cproc[c] = p, usertrap(c)
  PROVE  PInv'
<1>1. cpc[c] = "running" /\ pc[p] = "user" /\ i' = Reset(i, p) /\ UNCHANGED <<pvars, resume, w, wchan>>
  BY Zenon DEF usertrap, At
<1>2. PICK call \in {"alloc", "wait", "kill", "exit"} : Goto(p, call)
  BY Zenon DEF usertrap, Calls
<1>3. i'[p] = 1 /\ \A q \in Slots : q # p => i'[q] = i[q]
  BY Zenon, <1>1 DEF Reset, SInv, TypeOK
<1>4. call \notin {"reparent", "wakeup", "zombie", "yield_end", "wait_scan", "wait_done", "sleep", "release_lk"}
  BY Zenon, <1>2
<1> QED
  BY Zenon, <1>1, <1>2, <1>3, <1>4, MovesOnParents DEF pvars

(* A system call returns. *)
LEMMA UsertrapEndParents ==
  ASSUME SInv, PInv, NEW c \in CPUs, NEW p \in Slots, cproc[c] = p, usertrap_end(c)
  PROVE  PInv'
<1>1. /\ cpc[c] = "running" /\ pc[p] = "ret" /\ i' = Reset(i, p)
      /\ UNCHANGED <<pvars, resume, w, wchan>> /\ (Goto(p, "exit") \/ Goto(p, "user"))
  BY Zenon DEF usertrap_end, At
<1>2. \A q \in Slots : q # p => i'[q] = i[q]
  BY Zenon, <1>1 DEF Reset, SInv, TypeOK
<1> QED
  BY Zenon, <1>1, <1>2, MovesOnParents DEF pvars

(* allocproc() takes an UNUSED slot. *)
LEMMA AllocTakenParents ==
  ASSUME SInv, PInv, NEW c \in CPUs, NEW p \in Slots, cproc[c] = p, cpc[c] = "running",
         pc[p] = "alloc", NEW np \in Slots, Free(np), state[np] = "UNUSED",
         nextpid' = nextpid + 1,
         state' = [state EXCEPT ![np] = "USED"],
         pid' = [pid EXCEPT ![np] = nextpid],
         pc' = [pc EXCEPT ![p] = "fork_parent", ![np] = "forkret"],
         arg' = [arg EXCEPT ![p] = np],
         UNCHANGED <<parent, chan, killed, i, locks, cvars, resume, w, wchan, havekids>>
  PROVE  PInv'
<1>0. /\ TypeOK /\ ThreadsParked /\ CpusRun /\ LocksHeld /\ ForksOwnChild
      /\ ParentsLive /\ ScanHolds /\ ExitWakes /\ ZombieWakes
  BY Zenon DEF SInv, PInv
<1> USE <1>0 DEF Goto, Free, Step, Reset, pvars, locks, cvars, tvars
<1>1. 1 \in Slots /\ 0 \notin Slots /\ state[p] = "RUNNING"
  BY Zenon, OneSlot DEF CpusRun
<1> USE <1>1
<1>2. ParentsLive'
  BY DEF TypeOK, ParentsLive, Alive, HasNoKids
<1>3. ScanHolds'
  BY DEF TypeOK, ThreadsParked, Where, ScanHolds
<1>4. ExitWakes'
  BY DEF TypeOK, ExitWakes
<1>5. ZombieWakes'
  <2> SUFFICES ASSUME NEW x \in Slots, state'[x] = "ZOMBIE", parent'[x] # None,
                      state'[parent'[x]] = "SLEEPING"
               PROVE  \E r \in Slots : /\ pc'[r] = "wakeup" /\ wchan'[r] = parent'[x]
                                       /\ w'[r] <= parent'[x]
    BY Zenon DEF ZombieWakes
  <2>1. state[x] = "ZOMBIE" /\ parent'[x] = parent[x] /\ parent[x] \in Slots
    BY ZenonT(60) DEF TypeOK
  <2>2. state[parent[x]] = "SLEEPING"
    BY ZenonT(60), <2>1 DEF TypeOK
  <2>3. PICK r \in Slots : pc[r] = "wakeup" /\ wchan[r] = parent[x] /\ w[r] <= parent[x]
    BY ZenonT(60), <2>1, <2>2 DEF ZombieWakes
  <2>4. r # p /\ r # np
    BY ZenonT(60), <2>3 DEF ThreadsParked
  <2>5. pc'[r] = "wakeup"
    BY ZenonT(60), <2>3, <2>4 DEF TypeOK
  <2> QED
    BY Zenon, <2>1, <2>3, <2>5
<1> QED
  BY Zenon, <1>2, <1>3, <1>4, <1>5 DEF PInv

(* allocproc() frees the slot again when memory runs out. *)
LEMMA AllocFailedParents ==
  ASSUME SInv, PInv, NEW c \in CPUs, NEW p \in Slots, cproc[c] = p, cpc[c] = "running",
         pc[p] = "alloc", NEW np \in Slots, Free(np), state[np] = "UNUSED",
         nextpid' = nextpid + 1, freeproc(np), Goto(p, "ret"),
         UNCHANGED <<i, arg, locks, cvars, resume, w, wchan, havekids>>
  PROVE  PInv'
<1>0. /\ TypeOK /\ ThreadsParked /\ CpusRun /\ LocksHeld /\ ForksOwnChild
      /\ ParentsLive /\ ScanHolds /\ ExitWakes /\ ZombieWakes
  BY Zenon DEF SInv, PInv
<1> USE <1>0 DEF freeproc, Goto, Free, Step, Reset, pvars, locks, cvars, tvars
<1>1. 1 \in Slots /\ 0 \notin Slots /\ state[p] = "RUNNING"
  BY ZenonT(60), OneSlot DEF CpusRun
<1> USE <1>1
<1>2. ParentsLive'
  BY DEF ParentsLive, Alive, HasNoKids
<1>3. ScanHolds'
  BY DEF Where, ScanHolds
<1>4. ExitWakes'
  BY DEF ExitWakes
<1>5. ZombieWakes'
  BY DEF ZombieWakes
<1> QED
  BY Zenon, <1>2, <1>3, <1>4, <1>5 DEF PInv

(* allocproc() goes to the next slot, or gives up. *)
LEMMA AllocOnParents ==
  ASSUME SInv, PInv, NEW c \in CPUs, NEW p \in Slots, cproc[c] = p, cpc[c] = "running",
         pc[p] = "alloc",
         \/ Goto(p, "ret") /\ UNCHANGED i
         \/ i[p] <= NPROC /\ i' = Step(i, p) /\ UNCHANGED pc,
         UNCHANGED <<pvars, arg, locks, cvars, resume, w, wchan, havekids>>
  PROVE  PInv'
<1>1. Goto(p, "ret") \/ Goto(p, "alloc")
  BY ZenonT(60) DEF Goto, SInv, TypeOK
<1>2. \A q \in Slots : q # p => i'[q] = i[q]
  BY ZenonT(60) DEF Step, SInv, TypeOK
<1> QED
  BY Zenon, <1>1, <1>2, MovesOnParents DEF pvars

(* allocproc(), and fork() up to its first release(&np->lock). *)
LEMMA AllocprocParents ==
  ASSUME SInv, PInv, NEW c \in CPUs, NEW p \in Slots, cproc[c] = p, allocproc(c)
  PROVE  PInv'
<1>1. /\ pc[p] = "alloc" /\ cpc[c] = "running" /\ i[p] \in 1 .. NPROC + 1
      /\ UNCHANGED <<locks, cvars, resume, w, wchan, havekids>>
  BY Zenon DEF allocproc, At, SInv, TypeOK
<1>2. CASE \/ Goto(p, "ret") /\ UNCHANGED <<pvars, i, arg>>
           \/ i[p] <= NPROC /\ i' = Step(i, p) /\ UNCHANGED <<pvars, pc, arg>>
  BY Zenon, <1>1, <1>2, AllocOnParents
<1>3. CASE ~ \/ Goto(p, "ret") /\ UNCHANGED <<pvars, i, arg>>
             \/ i[p] <= NPROC /\ i' = Step(i, p) /\ UNCHANGED <<pvars, pc, arg>>
  <2>1. i[p] <= NPROC
    BY Zenon, <1>3 DEF allocproc
  <2>2. PICK np \in Slots : np = i[p]
    BY Zenon, <1>1, <2>1, LoopSlot
  <2>3. /\ Free(np) /\ state[np] = "UNUSED" /\ nextpid' = nextpid + 1 /\ UNCHANGED i
        /\ \/ /\ state' = [state EXCEPT ![np] = "USED"]
              /\ pid' = [pid EXCEPT ![np] = nextpid]
              /\ pc' = [pc EXCEPT ![p] = "fork_parent", ![np] = "forkret"]
              /\ arg' = [arg EXCEPT ![p] = np]
              /\ UNCHANGED <<parent, chan, killed>>
           \/ freeproc(np) /\ Goto(p, "ret") /\ UNCHANGED arg
    BY Zenon, <1>3, <2>2 DEF allocproc, allocpid, freeproc
  <2> QED
    BY ZenonT(60), <1>1, <2>3, AllocTakenParents, AllocFailedParents
<1> QED
  BY Zenon, <1>2, <1>3

(* fork() records the parent, who holds no lock but wait_lock. *)
LEMMA ForkParentParents ==
  ASSUME SInv, PInv, NEW c \in CPUs, NEW p \in Slots, cproc[c] = p, fork_parent(c)
  PROVE  PInv'
<1>0. /\ TypeOK /\ ThreadsParked /\ CpusRun /\ LocksHeld /\ ForksOwnChild
      /\ ParentsLive /\ ScanHolds /\ ExitWakes /\ ZombieWakes
  BY Zenon DEF SInv, PInv
<1> USE <1>0 DEF Goto, locks, cvars
<1>1. pc[p] = "fork_parent" /\ cpc[c] = "running" /\ state[p] = "RUNNING" /\ 1 \in Slots /\ 0 \notin Slots
  BY Zenon, OneSlot DEF fork_parent, At, CpusRun
<1>2. PICK np \in Slots :
        /\ np = arg[p] /\ np # p /\ state[np] = "USED" /\ pc[np] = "forkret"
        /\ \A q \in Slots : InFork(q) /\ arg[q] = np => q = p
  BY Zenon, <1>1, ForkedChild
<1>3. /\ wait_lock = NoCPU
      /\ parent' = [parent EXCEPT ![np] = p]
      /\ Goto(p, "fork_run")
      /\ UNCHANGED <<state, chan, killed, pid, nextpid, locks, cvars, resume, i, w, arg,
                     wchan, havekids>>
  BY ZenonT(60), <1>2 DEF fork_parent, Free
<1> USE <1>1, <1>2, <1>3
<1>4. ParentsLive'
  BY DEF ParentsLive, Alive, HasNoKids
<1>5. ScanHolds'
  BY DEF Where, ScanHolds
<1>6. ExitWakes'
  BY DEF ExitWakes
<1>7. ZombieWakes'
  BY DEF ZombieWakes, OwnLockPCs
<1> QED
  BY Zenon, <1>4, <1>5, <1>6, <1>7 DEF PInv

(* fork() makes the child RUNNABLE. *)
LEMMA ForkRunParents ==
  ASSUME SInv, PInv, NEW c \in CPUs, NEW p \in Slots, cproc[c] = p, fork_run(c)
  PROVE  PInv'
<1>0. /\ TypeOK /\ ThreadsParked /\ CpusRun /\ LocksHeld /\ ForksOwnChild
      /\ ParentsLive /\ ScanHolds /\ ExitWakes /\ ZombieWakes
  BY Zenon DEF SInv, PInv
<1> USE <1>0 DEF Goto, locks, cvars
<1>1. pc[p] = "fork_run" /\ cpc[c] = "running" /\ state[p] = "RUNNING" /\ 1 \in Slots /\ 0 \notin Slots
  BY Zenon, OneSlot DEF fork_run, At, CpusRun
<1>2. PICK np \in Slots :
        /\ np = arg[p] /\ np # p /\ state[np] = "USED" /\ pc[np] = "forkret"
        /\ \A q \in Slots : InFork(q) /\ arg[q] = np => q = p
  BY Zenon, <1>1, ForkedChild
<1>3. /\ plock[np] = NoCPU
      /\ state' = [state EXCEPT ![np] = "RUNNABLE"]
      /\ Goto(p, "ret")
      /\ UNCHANGED <<parent, chan, killed, pid, nextpid, locks, cvars, resume, i, w, arg,
                     wchan, havekids>>
  BY ZenonT(60), <1>2 DEF fork_run, Free
<1> USE <1>1, <1>2, <1>3
<1>4. ParentsLive'
  BY DEF ParentsLive, Alive, HasNoKids
<1>5. ScanHolds'
  BY DEF Where, ScanHolds
<1>6. ExitWakes'
  BY DEF ExitWakes
<1>7. ZombieWakes'
  BY DEF ZombieWakes
<1> QED
  BY Zenon, <1>4, <1>5, <1>6, <1>7 DEF PInv

(* sleep() takes p->lock while it still holds wait_lock. *)
LEMMA SleepParents ==
  ASSUME SInv, PInv, NEW c \in CPUs, NEW p \in Slots, cproc[c] = p, sleep(c)
  PROVE  PInv'
<1>1. cpc[c] = "running" /\ pc[p] = "sleep" /\ Goto(p, "release_lk") /\ UNCHANGED <<pvars, resume, i, w, wchan>>
  BY Zenon DEF sleep, At
<1>2. i[p] = 1 /\ \A q \in Slots : parent[q] = p => state[q] # "ZOMBIE"
  BY Zenon, <1>1 DEF PInv, ScanHolds, Where
<1> QED
  BY Zenon, <1>1, <1>2, MovesOnParents DEF pvars

(* sleep() gives up wait_lock, marks itself SLEEPING and leaves the CPU. *)
LEMMA SleepSchedParents ==
  ASSUME SInv, PInv, NEW c \in CPUs, NEW p \in Slots, cproc[c] = p, sleep_sched(c)
  PROVE  PInv'
<1>0. /\ TypeOK /\ ThreadsParked /\ CpusRun /\ LocksHeld /\ ForksOwnChild
      /\ ParentsLive /\ ScanHolds /\ ExitWakes /\ ZombieWakes
  BY Zenon DEF SInv, PInv
<1> USE <1>0 DEF sleep_sched, At, Goto, Leave
<1>1. 1 \in Slots /\ 0 \notin Slots
  BY Zenon, OneSlot
<1>2. \A q \in Slots : pc[q] \in WaitLockPCs \cup {"release_lk"} => q = p
  BY Zenon, AloneInWaitLock DEF WaitLockPCs
<1> USE <1>1, <1>2
<1>3. ParentsLive'
  BY DEF ParentsLive, Alive, HasNoKids
<1>4. ScanHolds'
  BY DEF Where, ScanHolds
<1>5. ExitWakes'
  BY DEF ExitWakes, WaitLockPCs
<1>6. ZombieWakes'
  BY DEF ScanHolds, ZombieWakes
<1> QED
  BY Zenon, <1>3, <1>4, <1>5, <1>6 DEF PInv

(* sleep() returns to wait(). *)
LEMMA SleepEndParents ==
  ASSUME SInv, PInv, NEW c \in CPUs, NEW p \in Slots, cproc[c] = p, sleep_end(c)
  PROVE  PInv'
<1>1. /\ cpc[c] = "running" /\ pc[p] = "sleep_end" /\ Goto(p, "wait")
      /\ UNCHANGED <<state, parent, resume, i, w, wchan>>
  BY Zenon DEF sleep_end, At
<1>2. i[p] = 1
  BY Zenon, <1>1 DEF PInv, ScanHolds, Where
<1> QED
  BY Zenon, <1>1, <1>2, MovesOnParents

(* wakeup() has gone through the table. *)
LEMMA WakeupEndParents ==
  ASSUME SInv, PInv, NEW c \in CPUs, NEW p \in Slots, cproc[c] = p, cpc[c] = "running",
         pc[p] = "wakeup", w[p] > NPROC, Goto(p, resume[p]),
         resume' = [resume EXCEPT ![p] = "user"], w' = Reset(w, p),
         wchan' = [wchan EXCEPT ![p] = None],
         UNCHANGED <<pvars, locks, cvars, i, arg, havekids>>
  PROVE  PInv'
<1>0. /\ TypeOK /\ ThreadsParked /\ CpusRun /\ LocksHeld /\ ForksOwnChild
      /\ ParentsLive /\ ScanHolds /\ ExitWakes /\ ZombieWakes
  BY Zenon DEF SInv, PInv
<1> USE <1>0 DEF Goto, Free, Step, Reset, freeproc, call_wakeup, pvars, locks, cvars, tvars
<1>1. 1 \in Slots /\ 0 \notin Slots /\ state[p] = "RUNNING"
  BY Zenon, OneSlot DEF CpusRun
<1>2. \A r \in Slots : pc[r] \in WaitLockPCs \cup {"release_lk"} => r = p
  BY Zenon, AloneInWaitLock DEF WaitLockPCs
<1>3. \A q \in Slots : ~ (w[p] <= q)
  BY Zenon, FirstSlot DEF TypeOK
<1> USE <1>1, <1>2
<1>4. ParentsLive'
  BY DEF ParentsLive, Alive, HasNoKids
<1>5. ScanHolds'
  BY DEF TypeOK, ThreadsParked, Where, ScanHolds, OpenPCs
<1>6. ExitWakes'
  <2>1. parent[p] # None /\ state[parent[p]] = "SLEEPING" => resume[p] = "reparent"
    BY <1>3 DEF TypeOK, ThreadsParked, ExitWakes
  <2> QED
    BY <2>1 DEF TypeOK, ThreadsParked, WaitLockPCs, ExitWakes
<1>7. ZombieWakes'
  <2>1. \A q, z \in Slots : ~ (state[q] = "SLEEPING" /\ state[z] = "ZOMBIE" /\ parent[z] = q)
    <3> SUFFICES ASSUME NEW q \in Slots, NEW z \in Slots,
                        state[q] = "SLEEPING", state[z] = "ZOMBIE", parent[z] = q
                 PROVE  FALSE
      OBVIOUS
    <3>1. PICK r \in Slots : pc[r] = "wakeup" /\ wchan[r] = q /\ w[r] <= q
      BY Zenon DEF ZombieWakes
    <3>2. r = p
      BY Zenon, <3>1 DEF WaitLockPCs
    <3> QED
      BY Zenon, <1>3, <3>1, <3>2
  <2> QED
    BY <2>1 DEF TypeOK, ZombieWakes
<1> QED
  BY Zenon, <1>4, <1>5, <1>6, <1>7 DEF PInv

(* wakeup() looks at one slot. *)
LEMMA WakeupSlotParents ==
  ASSUME SInv, PInv, NEW c \in CPUs, NEW p \in Slots, cproc[c] = p, cpc[c] = "running",
         pc[p] = "wakeup", NEW q \in Slots, q = w[p], q # p => Free(q), w' = Step(w, p),
         state' = IF q # p /\ state[q] = "SLEEPING" /\ chan[q] = wchan[p]
                  THEN [state EXCEPT ![q] = "RUNNABLE"] ELSE state,
         UNCHANGED <<parent, chan, killed, pid, nextpid, locks, cvars, pc, resume, i, arg, wchan,
                     havekids>>
  PROVE  PInv'
<1>0. /\ TypeOK /\ ThreadsParked /\ CpusRun /\ LocksHeld /\ ForksOwnChild
      /\ ParentsLive /\ ScanHolds /\ ExitWakes /\ ZombieWakes
  BY Zenon DEF SInv, PInv
<1> USE <1>0 DEF Goto, Free, Step, Reset, freeproc, call_wakeup, pvars, locks, cvars, tvars
<1>1. 1 \in Slots /\ 0 \notin Slots /\ state[p] = "RUNNING"
  BY Zenon, OneSlot DEF CpusRun
<1>2. \A r \in Slots : pc[r] \in WaitLockPCs \cup {"release_lk"} => r = p
  BY Zenon, AloneInWaitLock DEF WaitLockPCs
<1> USE <1>1, <1>2
<1>3. ParentsLive'
  BY DEF ParentsLive, Alive, HasNoKids
<1>4. ScanHolds'
  BY DEF Where, ScanHolds
<1>5. ExitWakes'
  <2> SUFFICES ASSUME NEW r \in Slots, parent'[r] # None, state'[parent'[r]] = "SLEEPING"
               PROVE  /\ pc'[r] # "zombie"
                      /\ pc'[r] = "wakeup" /\ resume'[r] = "zombie" =>
                           wchan'[r] = parent'[r] /\ w'[r] <= parent'[r]
    BY Zenon DEF ExitWakes
  <2>1. parent[r] \in Slots /\ state[parent[r]] = "SLEEPING"
    BY ZenonT(60) DEF TypeOK
  <2>2. /\ pc[r] # "zombie"
        /\ pc[r] = "wakeup" /\ resume[r] = "zombie" => wchan[r] = parent[r] /\ w[r] <= parent[r]
    BY Zenon, <2>1 DEF ExitWakes
  <2>3. r = p /\ wchan[p] = parent[r] => q # parent[r]
    BY <2>1 DEF TypeOK, ThreadsParked
  <2>4. pc[r] = "wakeup" => r = p
    BY Zenon DEF WaitLockPCs
  <2> QED
    BY <2>1, <2>2, <2>3, <2>4 DEF TypeOK, Slots
<1>6. ZombieWakes'
  <2> SUFFICES ASSUME NEW z \in Slots, state'[z] = "ZOMBIE", parent'[z] # None,
                      state'[parent'[z]] = "SLEEPING"
               PROVE  \E r \in Slots :
                        pc'[r] = "wakeup" /\ wchan'[r] = parent'[z] /\ w'[r] <= parent'[z]
    BY Zenon DEF ZombieWakes
  <2>0. PICK s \in Slots : s = parent[z]
    BY ZenonT(60) DEF TypeOK
  <2>1. state[s] = "SLEEPING" /\ state[z] = "ZOMBIE"
    BY Zenon, <2>0 DEF TypeOK
  <2>2. wchan[p] = s /\ w[p] <= s
    <3>1. PICK r \in Slots : pc[r] = "wakeup" /\ wchan[r] = s /\ w[r] <= s
      BY Zenon, <2>0, <2>1 DEF ZombieWakes
    <3>2. r = p
      BY ZenonT(60), <3>1 DEF WaitLockPCs
    <3> QED
      BY Zenon, <3>1, <3>2
  <2>3. q # s
    BY <2>0, <2>1, <2>2 DEF TypeOK, ThreadsParked
  <2>4. w'[p] = w[p] + 1 /\ pc'[p] = "wakeup" /\ wchan'[p] = s /\ parent'[z] = s
    BY ZenonT(60), <2>0, <2>2 DEF TypeOK
  <2>5. w[p] + 1 <= s
    BY Zenon, <2>2, <2>3, FirstSlot
  <2> QED
    BY Zenon, <2>4, <2>5
<1> QED
  BY Zenon, <1>3, <1>4, <1>5, <1>6 DEF PInv

(* wakeup() does one slot, or returns. *)
LEMMA WakeupParents ==
  ASSUME SInv, PInv, NEW c \in CPUs, NEW p \in Slots, cproc[c] = p, wakeup(c)
  PROVE  PInv'
<1>1. /\ pc[p] = "wakeup" /\ cpc[c] = "running" /\ w[p] \in 1 .. NPROC + 1
      /\ UNCHANGED <<parent, chan, killed, pid, nextpid, locks, cvars, i, arg, havekids>>
  BY Zenon DEF wakeup, At, SInv, TypeOK
<1>2. CASE w[p] > NPROC
  <2>1. /\ Goto(p, resume[p]) /\ resume' = [resume EXCEPT ![p] = "user"] /\ w' = Reset(w, p)
        /\ wchan' = [wchan EXCEPT ![p] = None] /\ UNCHANGED state
    BY Zenon, <1>1, <1>2, LoopSlot DEF wakeup
  <2> QED
    BY ZenonT(60), <1>1, <1>2, <2>1, WakeupEndParents DEF pvars
<1>3. CASE w[p] <= NPROC
  <2>1. PICK q \in Slots : q = w[p]
    BY Zenon, <1>1, <1>3, LoopSlot
  <2>2. /\ q # p => Free(q)
        /\ w' = Step(w, p)
        /\ state' = IF q # p /\ state[q] = "SLEEPING" /\ chan[q] = wchan[p]
                    THEN [state EXCEPT ![q] = "RUNNABLE"] ELSE state
        /\ UNCHANGED <<pc, resume, wchan>>
    BY Zenon, <1>1, <1>3, <2>1, LoopSlot DEF wakeup
  <2> QED
    BY Zenon, <1>1, <2>1, <2>2, WakeupSlotParents
<1> QED
  BY Zenon, LoopSlot, <1>1, <1>2, <1>3

(* wait() takes wait_lock and begins its scan. *)
LEMMA WaitParents ==
  ASSUME SInv, PInv, NEW c \in CPUs, NEW p \in Slots, cproc[c] = p, wait(c)
  PROVE  PInv'
<1>1. cpc[c] = "running" /\ pc[p] = "wait" /\ Goto(p, "wait_scan") /\ UNCHANGED <<pvars, resume, i, w, wchan>>
  BY Zenon DEF wait, At
<1>2. i[p] = 1 /\ \A q \in Slots : ~ (q < 1)
  BY Zenon, <1>1, FirstSlot DEF PInv, ScanHolds, Where
<1> QED
  BY Zenon, <1>1, <1>2, MovesOnParents DEF pvars

(* wait() has looked at all its children. *)
LEMMA ScanOverParents ==
  ASSUME SInv, PInv, NEW c \in CPUs, NEW p \in Slots, cproc[c] = p, cpc[c] = "running",
         pc[p] = "wait_scan", \A q \in Slots : q >= i[p] => parent[q] # p, Goto(p, "wait_done"),
         UNCHANGED <<pvars, locks, cvars, resume, i, w, arg, wchan, havekids>>
  PROVE  PInv'
<1>1. \A q \in Slots : parent[q] = p => q < i[p]
  BY Zenon, Ordered DEF SInv, TypeOK
<1>2. \A q \in Slots : parent[q] = p => state[q] # "ZOMBIE"
  BY Zenon, <1>1 DEF PInv, ScanHolds
<1> QED
  BY Zenon, <1>2, MovesOnParents DEF pvars

(* wait() passes a child that is no zombie. *)
LEMMA ScanOnParents ==
  ASSUME SInv, PInv, NEW c \in CPUs, NEW p \in Slots, cproc[c] = p, cpc[c] = "running",
         pc[p] = "wait_scan", NEW q \in Slots, parent[q] = p, state[q] # "ZOMBIE",
         \A r \in Slots : r >= i[p] /\ parent[r] = p => q <= r,
         i' = [i EXCEPT ![p] = q + 1], havekids' = [havekids EXCEPT ![p] = TRUE],
         UNCHANGED <<pvars, locks, cvars, pc, resume, w, arg, wchan>>
  PROVE  PInv'
<1>1. ASSUME NEW r \in Slots, r < q + 1, parent[r] = p
      PROVE  state[r] # "ZOMBIE"
  <2>1. r >= i[p] \/ r < i[p]
    BY Zenon, Ordered DEF SInv, TypeOK
  <2>2. r < i[p] \/ r = q
    BY Zenon, <1>1, <2>1, Ordered
  <2> QED
    BY Zenon, <1>1, <2>2 DEF PInv, ScanHolds
<1>2. i'[p] = q + 1 /\ (\A r \in Slots : r # p => i'[r] = i[r]) /\ Goto(p, "wait_scan")
  BY ZenonT(60) DEF Goto, SInv, TypeOK
<1> QED
  BY ZenonT(60), <1>1, <1>2, MovesOnParents DEF pvars

(* wait() cannot copy the exit status out and leaves the zombie. *)
LEMMA ReapFailsParents ==
  ASSUME SInv, PInv, NEW c \in CPUs, NEW p \in Slots, cproc[c] = p, cpc[c] = "running",
         pc[p] = "wait_scan", wait_lock' = NoCPU, Goto(p, "ret"),
         UNCHANGED <<pvars, plock, cvars, resume, i, w, arg, wchan, havekids>>
  PROVE  PInv'
BY Zenon, MovesOnParents DEF pvars

(* wait() frees a zombie that has left its CPU and has no children. *)
LEMMA ReapParents ==
  ASSUME SInv, PInv, NEW c \in CPUs, NEW p \in Slots, cproc[c] = p, cpc[c] = "running",
         pc[p] = "wait_scan", NEW q \in Slots, parent[q] = p, state[q] = "ZOMBIE", Free(q),
         freeproc(q), wait_lock' = NoCPU, Goto(p, "ret"),
         UNCHANGED <<nextpid, plock, cvars, resume, i, w, arg, wchan, havekids>>
  PROVE  PInv'
<1>0. /\ TypeOK /\ ThreadsParked /\ CpusRun /\ LocksHeld /\ ForksOwnChild
      /\ ParentsLive /\ ScanHolds /\ ExitWakes /\ ZombieWakes
  BY Zenon DEF SInv, PInv
<1> USE <1>0 DEF Goto
<1>1. 1 \in Slots /\ 0 \notin Slots /\ state[p] = "RUNNING"
  BY Zenon, OneSlot DEF CpusRun
<1>2. \A r \in Slots : pc[r] \in WaitLockPCs \cup {"release_lk"} => r = p
  BY ZenonT(60), AloneInWaitLock DEF WaitLockPCs
<1>3. q # p /\ q # 1 /\ pc[q] = "dead" /\ (\A r \in Slots : parent[r] # q)
  BY <1>1 DEF ParentsLive, Alive, ThreadsParked
<1>4. /\ state' = [state EXCEPT ![q] = "UNUSED"] /\ parent' = [parent EXCEPT ![q] = None]
      /\ resume' = resume /\ i' = i /\ w' = w /\ wchan' = wchan
  BY ZenonT(60) DEF freeproc
<1> USE <1>1, <1>2, <1>3, <1>4
<1>5. ParentsLive'
  BY DEF TypeOK, ParentsLive, Alive, HasNoKids
<1>6. ScanHolds'
  BY DEF TypeOK, Where, ScanHolds
<1>7. ExitWakes'
  BY DEF TypeOK, ExitWakes
<1>8. ZombieWakes'
  <2> SUFFICES ASSUME NEW x \in Slots, state'[x] = "ZOMBIE", parent'[x] # None,
                      state'[parent'[x]] = "SLEEPING"
               PROVE  \E r \in Slots : /\ pc'[r] = "wakeup" /\ wchan'[r] = parent'[x]
                                       /\ w'[r] <= parent'[x]
    BY Zenon DEF ZombieWakes
  <2>1. x # q /\ state[x] = "ZOMBIE" /\ parent'[x] = parent[x] /\ parent[x] \in Slots
    BY ZenonT(60) DEF TypeOK
  <2>2. state[parent[x]] = "SLEEPING"
    BY ZenonT(60), <2>1 DEF TypeOK
  <2>3. PICK r \in Slots : pc[r] = "wakeup" /\ wchan[r] = parent[x] /\ w[r] <= parent[x]
    BY ZenonT(60), <2>1, <2>2 DEF ZombieWakes
  <2>4. pc'[r] = "wakeup"
    BY ZenonT(60), <2>3 DEF TypeOK
  <2> QED
    BY Zenon, <2>1, <2>3, <2>4
<1> QED
  BY Zenon, <1>5, <1>6, <1>7, <1>8 DEF PInv

(* wait() looks at its next child. *)
LEMMA WaitScanParents ==
  ASSUME SInv, PInv, NEW c \in CPUs, NEW p \in Slots, cproc[c] = p, wait_scan(c)
  PROVE  PInv'
<1>1. /\ pc[p] = "wait_scan" /\ cpc[c] = "running"
      /\ UNCHANGED <<plock, cvars, resume, w, arg, wchan>>
  BY Zenon DEF wait_scan, At
<1>2. CASE /\ {q \in Slots : q >= i[p] /\ parent[q] = p} = {}
           /\ Goto(p, "wait_done") /\ UNCHANGED <<pvars, wait_lock, i, havekids>>
  <2>1. \A q \in Slots : q >= i[p] => parent[q] # p
    BY Zenon, <1>2
  <2> QED
    BY Zenon, <1>1, <1>2, <2>1, ScanOverParents DEF locks
<1>3. ASSUME NEW q \in Slots, q >= i[p], parent[q] = p, Free(q),
             \A r \in Slots : r >= i[p] /\ parent[r] = p => q <= r,
             state[q] # "ZOMBIE", i' = [i EXCEPT ![p] = q + 1],
             havekids' = [havekids EXCEPT ![p] = TRUE], UNCHANGED <<pvars, wait_lock, pc>>
      PROVE  PInv'
  BY ZenonT(60), <1>1, <1>3, ScanOnParents DEF locks
<1>4. ASSUME NEW q \in Slots, parent[q] = p, Free(q), state[q] = "ZOMBIE",
             freeproc(q) \/ UNCHANGED <<state, parent, chan, killed, pid>>,
             wait_lock' = NoCPU, Goto(p, "ret"), UNCHANGED <<nextpid, i, havekids>>
      PROVE  PInv'
  <2>1. CASE freeproc(q)
    BY Zenon, <1>1, <1>4, <2>1, ReapParents
  <2>2. CASE UNCHANGED <<state, parent, chan, killed, pid>>
    BY Zenon, <1>1, <1>4, <2>2, ReapFailsParents DEF pvars
  <2> QED
    BY Zenon, <1>4, <2>1, <2>2
<1> QED
  BY Zenon, <1>2, <1>3, <1>4 DEF wait_scan, ChildQuiet

(* wait() fails, or goes to sleep with wait_lock held. *)
LEMMA WaitDoneParents ==
  ASSUME SInv, PInv, NEW c \in CPUs, NEW p \in Slots, cproc[c] = p, wait_done(c)
  PROVE  PInv'
<1>1. /\ cpc[c] = "running" /\ pc[p] = "wait_done" /\ (Goto(p, "ret") \/ Goto(p, "sleep"))
      /\ i' = [i EXCEPT ![p] = 1] /\ UNCHANGED <<pvars, resume, w, wchan>>
  BY Zenon DEF wait_done, At, Reset
<1>2. i'[p] = 1 /\ \A q \in Slots : q # p => i'[q] = i[q]
  BY Zenon, <1>1 DEF SInv, TypeOK
<1>3. \A q \in Slots : parent[q] = p => state[q] # "ZOMBIE"
  BY Zenon, <1>1 DEF PInv, ScanHolds
<1> QED
  BY ZenonT(60), <1>1, <1>2, <1>3, MovesOnParents DEF pvars

(* exit() of init is a panic, the others take wait_lock. *)
LEMMA ExitParents ==
  ASSUME SInv, PInv, NEW c \in CPUs, NEW p \in Slots, cproc[c] = p, exit(c)
  PROVE  PInv'
<1>1. /\ cpc[c] = "running" /\ pc[p] = "exit"
      /\ Goto(p, "panic") \/ (Goto(p, "reparent") /\ p # initproc)
      /\ UNCHANGED <<pvars, resume, i, w, wchan>>
  BY Zenon DEF exit, At
<1> QED
  BY Zenon, <1>1, MovesOnParents DEF pvars

(* reparent() is done, and exit() calls wakeup(p->parent). *)
LEMMA ReparentedParents ==
  ASSUME SInv, PInv, NEW c \in CPUs, NEW p \in Slots, cproc[c] = p, cpc[c] = "running",
         pc[p] = "reparent", \A q \in Slots : parent[q] # p, call_wakeup(p, parent[p], "zombie"),
         UNCHANGED <<pvars, locks, cvars, i, w, arg, havekids>>
  PROVE  PInv'
<1>0. /\ TypeOK /\ ThreadsParked /\ CpusRun /\ LocksHeld /\ ForksOwnChild
      /\ ParentsLive /\ ScanHolds /\ ExitWakes /\ ZombieWakes
  BY Zenon DEF SInv, PInv
<1> USE <1>0 DEF call_wakeup, pvars
<1>1. 1 \in Slots /\ 0 \notin Slots /\ state[p] = "RUNNING"
  BY Zenon, OneSlot DEF CpusRun
<1>2. \A r \in Slots : pc[r] \in WaitLockPCs \cup {"release_lk"} => r = p
  BY ZenonT(60), AloneInWaitLock DEF WaitLockPCs
<1> USE <1>1, <1>2
<1>3. ParentsLive'
  <2>1. p # 1
    BY ZenonT(60) DEF ParentsLive
  <2> QED
    BY <2>1 DEF TypeOK, ParentsLive, Alive, HasNoKids
<1>4. ScanHolds'
  BY DEF Where, ScanHolds
<1>5. ExitWakes'
  <2>1. w[p] = 1 /\ (parent[p] # None => 1 <= parent[p])
    <3>1. w[p] = 1
      BY Zenon DEF ScanHolds
    <3>2. parent[p] # None => parent[p] \in Slots
      BY ZenonT(60) DEF TypeOK
    <3> QED
      BY Zenon, <3>1, <3>2, FirstSlot
  <2> QED
    BY <2>1 DEF TypeOK, ExitWakes, WaitLockPCs
<1>6. ZombieWakes'
  BY DEF ZombieWakes
<1> QED
  BY Zenon, <1>3, <1>4, <1>5, <1>6 DEF PInv

(* reparent() gives a child to init and calls wakeup(initproc). *)
LEMMA GiveChildParents ==
  ASSUME SInv, PInv, NEW c \in CPUs, NEW p \in Slots, cproc[c] = p, cpc[c] = "running",
         pc[p] = "reparent", NEW q \in Slots, parent[q] = p,
         parent' = [parent EXCEPT ![q] = initproc], call_wakeup(p, initproc, "reparent"),
         UNCHANGED <<state, chan, killed, pid, nextpid, locks, cvars, i, w, arg, havekids>>
  PROVE  PInv'
<1>0. /\ TypeOK /\ ThreadsParked /\ CpusRun /\ LocksHeld /\ ForksOwnChild
      /\ ParentsLive /\ ScanHolds /\ ExitWakes /\ ZombieWakes
  BY Zenon DEF SInv, PInv
<1> USE <1>0 DEF call_wakeup
<1>1. 1 \in Slots /\ 0 \notin Slots /\ state[p] = "RUNNING"
  BY Zenon, OneSlot DEF CpusRun
<1>2. \A r \in Slots : pc[r] \in WaitLockPCs \cup {"release_lk"} => r = p
  BY Zenon, AloneInWaitLock DEF WaitLockPCs
<1>3. p # 1 /\ q # 1 /\ w[p] = 1
  BY ZenonT(60), <1>1 DEF ParentsLive, ScanHolds
<1> USE <1>1, <1>2, <1>3
<1>4. ParentsLive'
  <2>1. \A r \in Slots : pc'[r] \in {"zombie", "wakeup"} => r = p /\ resume'[r] = "reparent"
    BY DEF TypeOK, WaitLockPCs
  <2> QED
    BY <2>1 DEF TypeOK, ParentsLive, Alive
<1>5. ScanHolds'
  BY DEF Where, ScanHolds, WaitLockPCs
<1>6. ExitWakes'
  BY DEF TypeOK, ExitWakes, WaitLockPCs
<1>7. ZombieWakes'
  <2> SUFFICES ASSUME NEW s \in Slots, NEW z \in Slots,
                      state'[s] = "SLEEPING", state'[z] = "ZOMBIE", parent'[z] = s
               PROVE  \E r \in Slots : pc'[r] = "wakeup" /\ wchan'[r] = s /\ w'[r] <= s
    BY DEF ZombieWakes
  <2>1. s = 1
    BY ZenonT(60) DEF TypeOK, ZombieWakes, WaitLockPCs
  <2> QED
    BY <2>1 DEF TypeOK
<1> QED
  BY Zenon, <1>4, <1>5, <1>6, <1>7 DEF PInv

(* reparent() looks for the next child. *)
LEMMA ReparentParents ==
  ASSUME SInv, PInv, NEW c \in CPUs, NEW p \in Slots, cproc[c] = p, reparent(c)
  PROVE  PInv'
<1>1. /\ pc[p] = "reparent" /\ cpc[c] = "running"
      /\ UNCHANGED <<state, chan, killed, pid, nextpid, locks, cvars, i, w, arg, havekids>>
  BY Zenon DEF reparent, At
<1>2. CASE /\ {q \in Slots : parent[q] = p} = {}
           /\ call_wakeup(p, parent[p], "zombie") /\ UNCHANGED parent
  <2>1. \A q \in Slots : parent[q] # p
    BY Zenon, <1>2
  <2> QED
    BY Zenon, <1>1, <1>2, <2>1, ReparentedParents DEF pvars
<1>3. ASSUME NEW q \in Slots, parent[q] = p, parent' = [parent EXCEPT ![q] = initproc],
             call_wakeup(p, initproc, "reparent")
      PROVE  PInv'
  BY Zenon, <1>1, <1>3, GiveChildParents
<1> QED
  BY Zenon, <1>2, <1>3 DEF reparent, call_wakeup

(* exit() becomes a zombie that its parent will see. *)
LEMMA ExitZombieParents ==
  ASSUME SInv, PInv, NEW c \in CPUs, NEW p \in Slots, cproc[c] = p, exit_zombie(c)
  PROVE  PInv'
<1>0. /\ TypeOK /\ ThreadsParked /\ CpusRun /\ LocksHeld /\ ForksOwnChild
      /\ ParentsLive /\ ScanHolds /\ ExitWakes /\ ZombieWakes
  BY Zenon DEF SInv, PInv
<1> USE <1>0 DEF exit_zombie, Free, At, Goto, acquire_plock, Leave
<1>1. 1 \in Slots /\ 0 \notin Slots
  BY Zenon, OneSlot
<1>2. \A q \in Slots : pc[q] \in WaitLockPCs \cup {"release_lk"} => q = p
  BY ZenonT(60), AloneInWaitLock DEF WaitLockPCs
<1> USE <1>1, <1>2
<1>3. ParentsLive'
  BY DEF ParentsLive, Alive, HasNoKids
<1>4. ScanHolds'
  BY DEF Where, ScanHolds, WaitLockPCs
<1>5. ExitWakes'
  BY DEF ExitWakes
<1>6. ZombieWakes'
  BY DEF ExitWakes, ZombieWakes
<1> QED
  BY ZenonT(60), <1>3, <1>4, <1>5, <1>6 DEF PInv

(* kill() marks a process and wakes it. *)
LEMMA KillHitParents ==
  ASSUME SInv, PInv, NEW c \in CPUs, NEW p \in Slots, cproc[c] = p, cpc[c] = "running",
         pc[p] = "kill", NEW q \in Slots, Free(q), killed' = [killed EXCEPT ![q] = TRUE],
         kill_wakes(q), Goto(p, "ret"),
         UNCHANGED <<parent, chan, pid, nextpid, locks, cvars, resume, i, w, arg, wchan, havekids>>
  PROVE  PInv'
<1>1. \A r \in Slots : \/ state'[r] = state[r]
                       \/ state[r] = "SLEEPING" /\ state'[r] = "RUNNABLE"
  BY Zenon DEF kill_wakes, SInv, TypeOK
<1> QED
  BY Zenon, <1>1, MovesOnParents

(* kill() goes to the next slot, or gives up. *)
LEMMA KillOnParents ==
  ASSUME SInv, PInv, NEW c \in CPUs, NEW p \in Slots, cproc[c] = p, cpc[c] = "running",
         pc[p] = "kill",
         \/ Goto(p, "ret") /\ UNCHANGED i
         \/ i[p] <= NPROC /\ i' = Step(i, p) /\ UNCHANGED pc,
         UNCHANGED <<pvars, arg, locks, cvars, resume, w, wchan, havekids>>
  PROVE  PInv'
<1>1. Goto(p, "ret") \/ Goto(p, "kill")
  BY ZenonT(60) DEF Goto, SInv, TypeOK
<1>2. \A q \in Slots : q # p => i'[q] = i[q]
  BY Zenon DEF Step, SInv, TypeOK
<1> QED
  BY Zenon, <1>1, <1>2, MovesOnParents DEF pvars

(* kill() looks at one slot. *)
LEMMA KillParents ==
  ASSUME SInv, PInv, NEW c \in CPUs, NEW p \in Slots, cproc[c] = p, kill(c)
  PROVE  PInv'
<1>1. /\ pc[p] = "kill" /\ cpc[c] = "running" /\ i[p] \in 1 .. NPROC + 1
      /\ UNCHANGED <<parent, chan, pid, nextpid, locks, cvars, resume, w, arg, wchan, havekids>>
  BY Zenon DEF kill, At, SInv, TypeOK
<1>2. CASE \/ Goto(p, "ret") /\ UNCHANGED <<state, killed, i>>
           \/ i[p] <= NPROC /\ i' = Step(i, p) /\ UNCHANGED <<state, killed, pc>>
  BY Zenon, <1>1, <1>2, KillOnParents DEF pvars
<1>3. CASE ~ \/ Goto(p, "ret") /\ UNCHANGED <<state, killed, i>>
             \/ i[p] <= NPROC /\ i' = Step(i, p) /\ UNCHANGED <<state, killed, pc>>
  <2>1. i[p] <= NPROC
    BY ZenonT(60), <1>3 DEF kill
  <2>2. PICK q \in Slots : q = i[p]
    BY Zenon, <1>1, <2>1, LoopSlot
  <2>3. /\ Free(q) /\ killed' = [killed EXCEPT ![q] = TRUE] /\ kill_wakes(q) /\ Goto(p, "ret")
        /\ UNCHANGED i
    BY Zenon, <1>3, <2>2 DEF kill, kill_wakes
  <2> QED
    BY Zenon, <1>1, <2>3, KillHitParents
<1> QED
  BY Zenon, <1>2, <1>3
-----------------------------------------------------------------------------
(* userinit() leaves the table in such a state. *)
LEMMA InitParents == Init => PInv
<1> SUFFICES ASSUME Init PROVE PInv
  OBVIOUS
<1> USE DEF Init
<1>1. ParentsLive
  BY Zenon, OneSlot DEF ParentsLive, Alive
<1>2. ScanHolds /\ ExitWakes /\ ZombieWakes
  BY Zenon DEF ScanHolds, Where, ExitWakes, ZombieWakes
<1> QED
  BY Zenon, <1>1, <1>2 DEF PInv

(* A step of any CPU, or of none. *)
LEMMA NextParents == SInv /\ PInv /\ [Next]_vars => PInv'
<1>1. ASSUME PInv, UNCHANGED vars
      PROVE  PInv'
  BY Zenon, <1>1, SameParents DEF vars, cvars
<1>2. ASSUME SInv, PInv, NEW c \in CPUs, Run(c) \/ usertrap(c) \/ yield(c), ~ scheduler(c)
      PROVE  PInv'
  <2>1. PICK p \in Slots : cproc[c] = p
    BY Zenon, <1>2, RunsOne
  <2> QED
    BY ZenonT(60), <1>2, <2>1, SchedulerReturnParents, YieldParents, YieldEndParents, ForkretParents,
       UsertrapParents, UsertrapEndParents, AllocprocParents, ForkParentParents,
       ForkRunParents, SleepParents, SleepSchedParents, SleepEndParents, WakeupParents,
       WaitParents, WaitScanParents, WaitDoneParents, ExitParents, ReparentParents,
       ExitZombieParents, KillParents DEF Run
<1> QED
  BY Zenon, <1>1, <1>2, SchedulerParents DEF Next

(* With wait_lock free no exit() and no wait() is half done. *)
LEMMA InvParentsWait == SInv /\ PInv => ParentsWait
<1> SUFFICES ASSUME SInv, PInv PROVE ParentsWait
  OBVIOUS
<1>1. NoMissedZombie
  BY Zenon, NoneInWaitLock DEF PInv, ZombieWakes, NoMissedZombie, WaitLockPCs
<1>2. ParentAlive
  BY Zenon DEF PInv, ParentsLive, Alive, ParentAlive
<1> QED
  BY Zenon, <1>1, <1>2 DEF SInv, PInv, ParentsWait

(* exit() and wait() meet, for any number of slots and CPUs: no wakeup is   *)
(* lost between a scan and the sleep, nor when orphans are handed to init,  *)
(* and every process has a parent that can wait for it.                     *)
THEOREM ParentsWaitHolds == Spec => []ParentsWait
<1>1. Spec => []PInv
  BY SwtchInvariant, InitParents, NextParents, PTL DEF Spec
<1> QED
  BY <1>1, SwtchInvariant, InvParentsWait, PTL
=============================================================================
