-------------------------------- MODULE Proc --------------------------------
(***************************************************************************)
(* Processes of kernel/proc.c on several CPUs: the scheduler threads,      *)
(* fork, exit, wait and kill, and the sleep/wakeup they rest on.           *)
(*                                                                         *)
(* A step is what a CPU does between taking a spin lock and giving it up,  *)
(* except where the code holds p->lock or wait_lock across other steps:    *)
(* p->lock is handed from one kernel thread to another through swtch(),    *)
(* and wait_lock is held through the scans of wait() and exit().  Loops    *)
(* over the process table go one slot at a time, because the slots' locks  *)
(* are taken one at a time.                                                *)
(***************************************************************************)
EXTENDS Integers, FiniteSets

CONSTANTS
  NPROC,     \* slots of the process table; slot 1 is initproc
  CPUs,
  MaxPid,    \* bound: fork() is not called when nextpid would exceed it
  KillPids   \* the arguments user programs pass to kill()

None     == 0
Slots    == 1 .. NPROC
initproc == 1
NoCPU    == "no cpu"

ASSUME ProcAssumption ==
  NPROC \in Nat \ {0} /\ NoCPU \notin CPUs /\ MaxPid \in Nat /\ KillPids \subseteq Int

VARIABLES
  state, parent, chan, killed, pid,   \* struct proc
  nextpid,
  plock,      \* CPU that holds each p->lock, or NoCPU
  wait_lock,  \* CPU that holds wait_lock, or NoCPU
  cproc,      \* c->proc
  cpc,        \* what each CPU runs: its scheduler, c->proc, or the way back
  scan,       \* the scheduler's position in the process table
  pc,         \* where each process's kernel thread is
  resume,     \* where it goes on after yield() or wakeup()
  i,          \* its loop index over the table
  w,          \* the loop index of wakeup()
  arg,        \* fork: the child's slot; kill: the pid
  wchan,      \* the argument of wakeup()
  havekids    \* wait()'s local

pvars == <<state, parent, chan, killed, pid, nextpid>>
locks == <<plock, wait_lock>>
cvars == <<cproc, cpc, scan>>
tvars == <<pc, resume, i, w, arg, wchan, havekids>>
vars  == <<pvars, locks, cvars, tvars>>

States == {"UNUSED", "USED", "SLEEPING", "RUNNABLE", "RUNNING", "ZOMBIE"}
CpuPCs == {"scan", "running", "leaving"}

(* Where no lock is held, a timer interrupt may come. *)
OpenPCs == {"user", "alloc", "fork_parent", "fork_run", "wait", "kill", "ret", "exit",
            "panic"}
(* Where the thread holds wait_lock. *)
WaitLockPCs == {"wait_scan", "wait_done", "sleep", "reparent", "wakeup", "zombie"}
(* Where the thread holds its own p->lock. *)
OwnLockPCs == {"release_lk", "sleep_end", "yield_end", "forkret", "dead"}
PCs == OpenPCs \cup WaitLockPCs \cup OwnLockPCs

(* struct proc, struct cpu and the threads: scheduler() stays in the table  *)
(* and a lock has one holder.                                               *)
TypeOK ==
  /\ state \in [Slots -> States]
  /\ parent \in [Slots -> Slots \cup {None}]
  /\ chan \in [Slots -> Slots \cup {None}]
  /\ killed \in [Slots -> BOOLEAN]
  /\ pid \in [Slots -> Nat]
  /\ nextpid \in Nat
  /\ plock \in [Slots -> CPUs \cup {NoCPU}]
  /\ wait_lock \in CPUs \cup {NoCPU}
  /\ cproc \in [CPUs -> Slots \cup {None}]
  /\ cpc \in [CPUs -> CpuPCs]
  /\ scan \in [CPUs -> Slots]
  /\ pc \in [Slots -> PCs]
  /\ resume \in [Slots -> PCs]
  /\ i \in [Slots -> 1 .. NPROC + 1]
  /\ w \in [Slots -> 1 .. NPROC + 1]
  /\ arg \in [Slots -> Int]
  /\ wchan \in [Slots -> Slots \cup {None}]
  /\ havekids \in [Slots -> BOOLEAN]

(* After userinit(): the first process is RUNNABLE and will enter forkret. *)
Init ==
  /\ state = [p \in Slots |-> IF p = initproc THEN "RUNNABLE" ELSE "UNUSED"]
  /\ parent = [p \in Slots |-> None]
  /\ chan = [p \in Slots |-> None]
  /\ killed = [p \in Slots |-> FALSE]
  /\ pid = [p \in Slots |-> IF p = initproc THEN 1 ELSE 0]
  /\ nextpid = 2
  /\ plock = [p \in Slots |-> NoCPU]
  /\ wait_lock = NoCPU
  /\ cproc = [c \in CPUs |-> None]
  /\ cpc = [c \in CPUs |-> "scan"]
  /\ scan = [c \in CPUs |-> 1]
  /\ pc = [p \in Slots |-> "forkret"]
  /\ resume = [p \in Slots |-> "user"]
  /\ i = [p \in Slots |-> 1]
  /\ w = [p \in Slots |-> 1]
  /\ arg = [p \in Slots |-> 0]
  /\ wchan = [p \in Slots |-> None]
  /\ havekids = [p \in Slots |-> FALSE]
-----------------------------------------------------------------------------
At(c, s) == cpc[c] = "running" /\ pc[cproc[c]] = s
Goto(p, s) == pc' = [pc EXCEPT ![p] = s]
Free(p) == plock[p] = NoCPU
acquire_plock(p, c) == Free(p) /\ plock' = [plock EXCEPT ![p] = c]
release_plock(p) == plock' = [plock EXCEPT ![p] = NoCPU]
Step(f, p) == [f EXCEPT ![p] = @ + 1]
Reset(f, p) == [f EXCEPT ![p] = 1]
Leave(c) == cpc' = [cpc EXCEPT ![c] = "leaving"]   \* swtch() to the scheduler

(* scheduler(): look at one slot; run it if it is RUNNABLE. *)
scheduler(c) ==
  LET p == scan[c]
  IN /\ cpc[c] = "scan"
     /\ Free(p)
     /\ \/ /\ state[p] = "RUNNABLE"
           /\ acquire_plock(p, c)
           /\ state' = [state EXCEPT ![p] = "RUNNING"]
           /\ cproc' = [cproc EXCEPT ![c] = p]
           /\ cpc' = [cpc EXCEPT ![c] = "running"]
           /\ UNCHANGED scan
        \/ /\ state[p] # "RUNNABLE"
           /\ scan' = [scan EXCEPT ![c] = (p % NPROC) + 1]
           /\ UNCHANGED <<plock, state, cproc, cpc>>
     /\ UNCHANGED <<parent, chan, killed, pid, nextpid, wait_lock, tvars>>

(* Mutant: after a process has run, the scan starts again at the first slot. *)
scheduler_return_first(c) ==
  /\ cpc[c] = "leaving"
  /\ release_plock(cproc[c])
  /\ cproc' = [cproc EXCEPT ![c] = None]
  /\ cpc' = [cpc EXCEPT ![c] = "scan"]
  /\ scan' = [scan EXCEPT ![c] = 1]
  /\ UNCHANGED <<pvars, wait_lock, tvars>>

(* Back in scheduler() after swtch(): c->proc = 0, p->lock is released. *)
scheduler_return(c) ==
  /\ cpc[c] = "leaving"
  /\ release_plock(cproc[c])
  /\ cproc' = [cproc EXCEPT ![c] = None]
  /\ cpc' = [cpc EXCEPT ![c] = "scan"]
  /\ scan' = [scan EXCEPT ![c] = (@ % NPROC) + 1]
  /\ UNCHANGED <<pvars, wait_lock, tvars>>

(* A timer interrupt, in user mode or where the kernel holds no lock:      *)
(* usertrap() or kerneltrap() calls yield(), which calls sched().  In user *)
(* mode a killed process exits instead, see usertrap.                      *)
yield(c) ==
  LET p == cproc[c]
  IN /\ cpc[c] = "running" /\ pc[p] \in OpenPCs
     /\ pc[p] = "user" => ~killed[p]
     /\ acquire_plock(p, c)
     /\ state' = [state EXCEPT ![p] = "RUNNABLE"]
     /\ Goto(p, "yield_end")
     /\ resume' = [resume EXCEPT ![p] = pc[p]]
     /\ Leave(c)
     /\ UNCHANGED <<parent, chan, killed, pid, nextpid, wait_lock, cproc, scan, i, w, arg,
                    wchan, havekids>>

(* The rest of yield() once the process runs again. *)
yield_end(c) ==
  LET p == cproc[c]
  IN /\ At(c, "yield_end")
     /\ release_plock(p)
     /\ Goto(p, resume[p])
     /\ resume' = [resume EXCEPT ![p] = "user"]
     /\ UNCHANGED <<pvars, wait_lock, cvars, i, w, arg, wchan, havekids>>

(* The first thing a new process does; fsinit() is in module Log. *)
forkret(c) ==
  LET p == cproc[c]
  IN /\ At(c, "forkret")
     /\ release_plock(p)
     /\ Goto(p, "user")
     /\ UNCHANGED <<pvars, wait_lock, cvars, resume, i, w, arg, wchan, havekids>>
-----------------------------------------------------------------------------
(* Into the kernel and out again. *)

(* init.c only forks and waits. *)
Calls(p) == IF p = initproc THEN {"alloc", "wait"} ELSE {"alloc", "wait", "kill", "exit"}

(* usertrap(): a killed process exits before the call is made. *)
usertrap(c) ==
  LET p == cproc[c]
  IN /\ At(c, "user")
     /\ Free(p)
     /\ \/ killed[p] /\ Goto(p, "exit") /\ UNCHANGED arg
        \/ /\ ~killed[p]
           /\ \E call \in Calls(p) :
                /\ call = "alloc" => nextpid <= MaxPid
                /\ Goto(p, call)
                /\ IF call = "kill" THEN \E k \in KillPids : arg' = [arg EXCEPT ![p] = k]
                                    ELSE UNCHANGED arg
     /\ i' = Reset(i, p)
     /\ UNCHANGED <<pvars, locks, cvars, resume, w, wchan, havekids>>

(* usertrap() after syscall(): a killed process exits instead of returning. *)
usertrap_end(c) ==
  LET p == cproc[c]
  IN /\ At(c, "ret")
     /\ Free(p)
     /\ Goto(p, IF killed[p] THEN "exit" ELSE "user")
     /\ i' = Reset(i, p)
     /\ arg' = [arg EXCEPT ![p] = 0]
     /\ havekids' = [havekids EXCEPT ![p] = FALSE]
     /\ UNCHANGED <<pvars, locks, cvars, resume, w, wchan>>
-----------------------------------------------------------------------------
(* fork() *)

freeproc(p) ==
  /\ state' = [state EXCEPT ![p] = "UNUSED"]
  /\ parent' = [parent EXCEPT ![p] = None]
  /\ chan' = [chan EXCEPT ![p] = None]
  /\ killed' = [killed EXCEPT ![p] = FALSE]
  /\ pid' = [pid EXCEPT ![p] = 0]

allocpid == nextpid' = nextpid + 1

(* allocproc() and fork() up to its first release(&np->lock): look at one  *)
(* slot.  When it is UNUSED it is taken, or, when memory for the trapframe,*)
(* the page table or the copy of user memory runs out, taken and freed     *)
(* again; the pid is spent in either case.                                 *)
allocproc(c) ==
  LET p == cproc[c]
      np == i[p]
  IN /\ At(c, "alloc")
     /\ \/ /\ np > NPROC
           /\ Goto(p, "ret")
           /\ UNCHANGED <<pvars, i, arg>>
        \/ /\ np <= NPROC /\ Free(np) /\ state[np] # "UNUSED"
           /\ i' = Step(i, p)
           /\ UNCHANGED <<pvars, pc, arg>>
        \/ /\ np <= NPROC /\ Free(np) /\ state[np] = "UNUSED"
           /\ allocpid
           /\ \/ /\ state' = [state EXCEPT ![np] = "USED"]
                 /\ pid' = [pid EXCEPT ![np] = nextpid]
                 /\ pc' = [pc EXCEPT ![p] = "fork_parent", ![np] = "forkret"]
                 /\ arg' = [arg EXCEPT ![p] = np]
                 /\ UNCHANGED <<parent, chan, killed>>
              \/ /\ freeproc(np)
                 /\ Goto(p, "ret")
                 /\ UNCHANGED arg
           /\ UNCHANGED i
     /\ UNCHANGED <<locks, cvars, resume, w, wchan, havekids>>

(* acquire(&wait_lock); np->parent = p; release(&wait_lock) *)
fork_parent(c) ==
  LET p == cproc[c]
  IN /\ At(c, "fork_parent")
     /\ wait_lock = NoCPU
     /\ parent' = [parent EXCEPT ![arg[p]] = p]
     /\ Goto(p, "fork_run")
     /\ UNCHANGED <<state, chan, killed, pid, nextpid, locks, cvars, resume, i, w, arg,
                    wchan, havekids>>

fork_run(c) ==
  LET p == cproc[c]
  IN /\ At(c, "fork_run")
     /\ Free(arg[p])
     /\ state' = [state EXCEPT ![arg[p]] = "RUNNABLE"]
     /\ Goto(p, "ret")
     /\ UNCHANGED <<parent, chan, killed, pid, nextpid, locks, cvars, resume, i, w, arg,
                    wchan, havekids>>
-----------------------------------------------------------------------------
(* sleep() and wakeup().  In this module the channel is a process and the  *)
(* condition lock is wait_lock.                                            *)

(* sleep(): p->lock is taken before lk is released. *)
sleep(c) ==
  LET p == cproc[c]
  IN /\ At(c, "sleep")
     /\ acquire_plock(p, c)
     /\ Goto(p, "release_lk")
     /\ UNCHANGED <<pvars, wait_lock, cvars, resume, i, w, arg, wchan, havekids>>

(* release(lk), p->chan and p->state, sched(). *)
sleep_sched(c) ==
  LET p == cproc[c]
  IN /\ At(c, "release_lk")
     /\ wait_lock' = NoCPU
     /\ chan' = [chan EXCEPT ![p] = p]
     /\ state' = [state EXCEPT ![p] = "SLEEPING"]
     /\ Goto(p, "sleep_end")
     /\ Leave(c)
     /\ UNCHANGED <<parent, killed, pid, nextpid, plock, cproc, scan, resume, i, w, arg,
                    wchan, havekids>>

(* The rest of sleep(): then wait() takes wait_lock again and rescans. *)
sleep_end(c) ==
  LET p == cproc[c]
  IN /\ At(c, "sleep_end")
     /\ chan' = [chan EXCEPT ![p] = None]
     /\ release_plock(p)
     /\ Goto(p, "wait")
     /\ UNCHANGED <<state, parent, killed, pid, nextpid, wait_lock, cvars, resume, i, w, arg,
                    wchan, havekids>>

(* wakeup(wchan): one slot, then back to resume. *)
wakeup(c) ==
  LET p == cproc[c]
      q == w[p]
  IN /\ At(c, "wakeup")
     /\ \/ /\ q > NPROC
           /\ Goto(p, resume[p])
           /\ resume' = [resume EXCEPT ![p] = "user"]
           /\ w' = Reset(w, p)
           /\ wchan' = [wchan EXCEPT ![p] = None]
           /\ UNCHANGED state
        \/ /\ q <= NPROC
           /\ q # p => Free(q)
           /\ w' = Step(w, p)
           /\ state' = IF q # p /\ state[q] = "SLEEPING" /\ chan[q] = wchan[p]
                       THEN [state EXCEPT ![q] = "RUNNABLE"] ELSE state
           /\ UNCHANGED <<pc, resume, wchan>>
     /\ UNCHANGED <<parent, chan, killed, pid, nextpid, locks, cvars, i, arg, havekids>>

call_wakeup(p, ch, back) ==
  /\ pc' = [pc EXCEPT ![p] = "wakeup"]
  /\ wchan' = [wchan EXCEPT ![p] = ch]
  /\ resume' = [resume EXCEPT ![p] = back]
-----------------------------------------------------------------------------
(* wait() *)

wait(c) ==
  LET p == cproc[c]
  IN /\ At(c, "wait")
     /\ wait_lock = NoCPU /\ wait_lock' = c
     /\ Goto(p, "wait_scan")
     /\ UNCHANGED <<pvars, plock, cvars, resume, i, w, arg, wchan, havekids>>

(* Mutant: the parent does not wait for the child's lock. *)
ChildQuiet_unchecked(q) == TRUE

(* The child's lock is free: it is no longer in exit() or swtch(). *)
ChildQuiet(q) == Free(q)

(* The scan's next child.  A zombie is freed, unless its exit status cannot *)
(* be copied out: then wait() fails and the zombie stays.                   *)
wait_scan(c) ==
  LET p == cproc[c]
      kids == {q \in Slots : q >= i[p] /\ parent[q] = p}
  IN /\ At(c, "wait_scan")
     /\ \/ /\ kids = {}
           /\ Goto(p, "wait_done")
           /\ UNCHANGED <<pvars, wait_lock, i, havekids>>
        \/ \E q \in kids :
             /\ \A r \in kids : q <= r
             /\ ChildQuiet(q)
             /\ \/ /\ state[q] # "ZOMBIE"
                   /\ i' = [i EXCEPT ![p] = q + 1]
                   /\ havekids' = [havekids EXCEPT ![p] = TRUE]
                   /\ UNCHANGED <<pvars, wait_lock, pc>>
                \/ /\ state[q] = "ZOMBIE"
                   /\ freeproc(q) \/ UNCHANGED <<state, parent, chan, killed, pid>>
                   /\ wait_lock' = NoCPU
                   /\ Goto(p, "ret")
                   /\ UNCHANGED <<nextpid, i, havekids>>
     /\ UNCHANGED <<plock, cvars, resume, w, arg, wchan>>

(* Mutant: wait_lock is given up before sleep() is called. *)
wait_done_unlocked(c) ==
  LET p == cproc[c]
  IN /\ At(c, "wait_done")
     /\ Free(p)
     /\ wait_lock' = NoCPU
     /\ Goto(p, IF ~havekids[p] \/ killed[p] THEN "ret" ELSE "sleep")
     /\ UNCHANGED <<pvars, plock, cvars, resume, i, w, arg, wchan, havekids>>

(* The scan is over: fail, or sleep(p, &wait_lock). *)
wait_done(c) ==
  LET p == cproc[c]
  IN /\ At(c, "wait_done")
     /\ Free(p)
     /\ \/ /\ ~havekids[p] \/ killed[p]
           /\ wait_lock' = NoCPU
           /\ Goto(p, "ret")
        \/ /\ havekids[p] /\ ~killed[p]
           /\ Goto(p, "sleep")
           /\ UNCHANGED wait_lock
     /\ i' = Reset(i, p)
     /\ havekids' = [havekids EXCEPT ![p] = FALSE]
     /\ UNCHANGED <<pvars, plock, cvars, resume, w, arg, wchan>>
-----------------------------------------------------------------------------
(* exit() *)

(* init exiting is a panic; the others take wait_lock. *)
exit(c) ==
  LET p == cproc[c]
  IN /\ At(c, "exit")
     /\ \/ p = initproc /\ Goto(p, "panic") /\ UNCHANGED wait_lock
        \/ p # initproc /\ wait_lock = NoCPU /\ wait_lock' = c /\ Goto(p, "reparent")
     /\ UNCHANGED <<pvars, plock, cvars, resume, i, w, arg, wchan, havekids>>

(* Mutant: exit() does not wake its parent. *)
reparent_quiet(c) ==
  LET p == cproc[c]
  IN /\ At(c, "reparent")
     /\ parent' = [q \in Slots |-> IF parent[q] = p THEN initproc ELSE parent[q]]
     /\ Goto(p, "zombie")
     /\ UNCHANGED <<state, chan, killed, pid, nextpid, locks, cvars, resume, i, w, arg, wchan,
                    havekids>>

(* reparent(): give the next child to init and wake init; after the last   *)
(* one exit() wakes the parent.                                            *)
reparent(c) ==
  LET p == cproc[c]
      kids == {q \in Slots : parent[q] = p}
  IN /\ At(c, "reparent")
     /\ \/ /\ kids = {}
           /\ call_wakeup(p, parent[p], "zombie")
           /\ UNCHANGED parent
        \/ \E q \in kids :
             /\ \A r \in kids : q <= r
             /\ parent' = [parent EXCEPT ![q] = initproc]
             /\ call_wakeup(p, initproc, "reparent")
     /\ UNCHANGED <<state, chan, killed, pid, nextpid, locks, cvars, i, w, arg, havekids>>

(* acquire(&p->lock); p->state = ZOMBIE; release(&wait_lock); sched() *)
exit_zombie(c) ==
  LET p == cproc[c]
  IN /\ At(c, "zombie")
     /\ acquire_plock(p, c)
     /\ state' = [state EXCEPT ![p] = "ZOMBIE"]
     /\ wait_lock' = NoCPU
     /\ Goto(p, "dead")
     /\ Leave(c)
     /\ UNCHANGED <<parent, chan, killed, pid, nextpid, cproc, scan, resume, i, w, arg,
                    wchan, havekids>>

(* Mutant: a sleeping victim is not woken. *)
kill_wakes_not(q) == UNCHANGED state

kill_wakes(q) ==
  state' = IF state[q] = "SLEEPING" THEN [state EXCEPT ![q] = "RUNNABLE"] ELSE state

(* kill(): one slot of the search for the pid. *)
kill(c) ==
  LET p == cproc[c]
      q == i[p]
  IN /\ At(c, "kill")
     /\ \/ /\ q > NPROC
           /\ Goto(p, "ret")
           /\ UNCHANGED <<state, killed, i>>
        \/ /\ q <= NPROC /\ Free(q) /\ pid[q] # arg[p]
           /\ i' = Step(i, p)
           /\ UNCHANGED <<state, killed, pc>>
        \/ /\ q <= NPROC /\ Free(q) /\ pid[q] = arg[p]
           /\ killed' = [killed EXCEPT ![q] = TRUE]
           /\ kill_wakes(q)
           /\ Goto(p, "ret")
           /\ UNCHANGED i
     /\ UNCHANGED <<parent, chan, pid, nextpid, locks, cvars, resume, w, arg, wchan,
                    havekids>>
-----------------------------------------------------------------------------
(* What a CPU does next, other than take a timer interrupt. *)
Run(c) ==
  \/ scheduler(c) \/ scheduler_return(c) \/ yield_end(c) \/ forkret(c)
  \/ usertrap_end(c)
  \/ allocproc(c) \/ fork_parent(c) \/ fork_run(c)
  \/ sleep(c) \/ sleep_sched(c) \/ sleep_end(c) \/ wakeup(c)
  \/ wait(c) \/ wait_scan(c) \/ wait_done(c)
  \/ exit(c) \/ reparent(c) \/ exit_zombie(c) \/ kill(c)

Next == \E c \in CPUs : Run(c) \/ usertrap(c) \/ yield(c)

Spec == Init /\ [][Next]_vars

(* A timer interrupt, taken: a killed process exits, any other yields. *)
Tick(c) == yield(c) \/ (At(c, "user") /\ killed[cproc[c]] /\ usertrap(c))

(* A process on a CPU gets on with its call. *)
Advance(p) ==
  \E c \in CPUs : cproc[c] = p /\ pc[p] \in OpenPCs \ {"user"} /\ Run(c)

(* A CPU executes its instructions.  A timer interrupt that comes while     *)
(* interrupts are off stays pending, so one that could be taken again and   *)
(* again is taken; and a time slice is long enough for a process that is    *)
(* given one again and again to get a step of its call done.  User programs *)
(* need not make any call.  These suffice for one CPU, where no lock is     *)
(* ever contended; on several, the winner of a spin lock is up to the       *)
(* hardware, and no liveness is claimed.                                    *)
FairSpec ==
  /\ Spec
  /\ \A c \in CPUs : WF_vars(Run(c)) /\ SF_vars(Tick(c))
  /\ \A p \in Slots : SF_vars(Advance(p))
-----------------------------------------------------------------------------
(* scheduler(), sched(), yield() and wait() pass p->lock through swtch() so *)
(* that a kernel stack is used by one CPU at a time, and never after wait() *)
(* has freed the process: RUNNING processes are on a CPU, and a process     *)
(* that a CPU runs or is leaving is on no other CPU, not free and not being *)
(* made.                                                                    *)
StackExclusive ==
  /\ \A c, d \in CPUs : cproc[c] # None /\ cproc[c] = cproc[d] => c = d
  /\ \A c \in CPUs : cproc[c] # None => state[cproc[c]] \notin {"UNUSED", "USED"}
  /\ \A c \in CPUs : cpc[c] = "running" => state[cproc[c]] = "RUNNING"

(* The conditions sched() panics on: at swtch() the CPU holds p->lock, no   *)
(* other lock, and the process is not RUNNING.                              *)
SchedLocks ==
  \A c \in CPUs : cpc[c] = "leaving" =>
    /\ plock[cproc[c]] = c /\ wait_lock # c
    /\ \A p \in Slots : plock[p] = c => p = cproc[c]
    /\ state[cproc[c]] # "RUNNING"

(* sleep(), wakeup(), exit() and reparent(): whenever wait_lock is free, no *)
(* process sleeps in wait() while it has a zombie child.  No wakeup is lost *)
(* between the scan and the sleep, nor when orphans are handed to init.     *)
NoMissedZombie ==
  wait_lock = NoCPU =>
    \A q \in Slots : state[q] = "ZOMBIE" /\ parent[q] # None => state[parent[q]] # "SLEEPING"

(* exit() and reparent(): whenever wait_lock is free, the parent of a       *)
(* process is a process that can still call wait(), never a zombie or a     *)
(* free slot.                                                               *)
ParentAlive ==
  wait_lock = NoCPU =>
    \A q \in Slots : parent[q] # None =>
      /\ state[parent[q]] \notin {"UNUSED", "USED", "ZOMBIE"}
      /\ state[q] # "UNUSED"

(* sched(): where a process that is not running left its kernel thread, and *)
(* where that goes on.                                                      *)
ThreadsParked ==
  \A p \in Slots :
    /\ state[p] = "UNUSED"   => pc[p] \in {"forkret", "dead"}
    /\ state[p] = "USED"     => pc[p] = "forkret"
    /\ state[p] = "SLEEPING" => pc[p] = "sleep_end" /\ chan[p] = p
    /\ state[p] = "RUNNABLE" => pc[p] \in {"forkret", "yield_end", "sleep_end"}
    /\ state[p] = "RUNNING"  => pc[p] # "dead" /\ \E c \in CPUs : cpc[c] = "running" /\ cproc[c] = p
    /\ state[p] = "ZOMBIE"   => pc[p] = "dead"
    /\ pc[p] = "yield_end"   => resume[p] \in OpenPCs
    /\ pc[p] = "wakeup"      => resume[p] \in {"reparent", "zombie"}

(* scheduler() and sched(): c->proc is the process that the CPU runs or is  *)
(* leaving, which nobody frees meanwhile.                                   *)
CpusRun ==
  /\ \A c \in CPUs : cpc[c] = "scan" <=> cproc[c] = None
  /\ \A c, d \in CPUs : cproc[c] # None /\ cproc[c] = cproc[d] => c = d
  /\ \A c \in CPUs : cpc[c] = "running" => state[cproc[c]] = "RUNNING"
  /\ \A c \in CPUs : cpc[c] = "leaving" =>
       state[cproc[c]] # "UNUSED" /\ pc[cproc[c]] \in {"yield_end", "sleep_end", "dead"}

(* acquire() and release() of p->lock and wait_lock, and the p->lock that   *)
(* goes through swtch(): who holds a lock follows from where threads are.   *)
LocksHeld ==
  /\ \A p \in Slots, c \in CPUs : plock[p] = c <=> cproc[c] = p /\ pc[p] \in OwnLockPCs
  /\ \A c \in CPUs :
       wait_lock = c <=> cproc[c] # None /\ pc[cproc[c]] \in WaitLockPCs \cup {"release_lk"}

(* swtch() is safe: StackExclusive and SchedLocks, with the types of the    *)
(* process table and what the CPUs, the locks and the threads agree on.     *)
SwtchSafe ==
  /\ TypeOK /\ ThreadsParked /\ CpusRun /\ LocksHeld
  /\ StackExclusive /\ SchedLocks

(* Where a thread is, or was when a timer interrupt came. *)
Where(p) == IF pc[p] = "yield_end" THEN resume[p] ELSE pc[p]
InFork(p) == Where(p) \in {"fork_parent", "fork_run"}

(* fork() releases the child's lock twice before the child is RUNNABLE: the *)
(* slot stays its own all the while.                                        *)
ForksOwnChild ==
  \A p \in Slots : InFork(p) =>
    /\ arg[p] \in Slots /\ state[arg[p]] = "USED"
    /\ \A q \in Slots : arg[q] = arg[p] /\ InFork(q) => q = p

Alive(p) == state[p] \in {"SLEEPING", "RUNNABLE", "RUNNING"}
HasNoKids(p) == \A q \in Slots : parent[q] # p

(* exit() and reparent(): a process gives its children away before it       *)
(* becomes a zombie, and init, who gets them, never does.                   *)
ParentsLive ==
  /\ \A q \in Slots : parent[q] # None => /\ state[q] # "UNUSED"
                                          /\ Alive(parent[q]) /\ parent[q] # q
  /\ Alive(initproc) /\ parent[initproc] = None
  /\ pc[initproc] \notin {"reparent", "wakeup", "zombie"}
  /\ \A p \in Slots :
       pc[p] = "zombie" \/ (pc[p] = "wakeup" /\ resume[p] = "zombie") => HasNoKids(p)

(* wait(): the children the scan has passed are no zombies, up to sleep()   *)
(* giving up wait_lock; and a scan or a wakeup() begins at the first slot.  *)
ScanHolds ==
  \A p \in Slots :
    /\ pc[p] # "wakeup" => w[p] = 1
    /\ Where(p) \in {"wait", "sleep", "release_lk", "sleep_end"} => i[p] = 1
    /\ pc[p] = "wait_scan" => \A q \in Slots : q < i[p] /\ parent[q] = p => state[q] # "ZOMBIE"
    /\ pc[p] \in {"wait_done", "sleep", "release_lk"} =>
         \A q \in Slots : parent[q] = p => state[q] # "ZOMBIE"

(* exit(): the parent is awake when the process becomes a zombie ...        *)
ExitWakes ==
  \A p \in Slots : parent[p] # None /\ state[parent[p]] = "SLEEPING" =>
    /\ pc[p] # "zombie"
    /\ pc[p] = "wakeup" /\ resume[p] = "zombie" => wchan[p] = parent[p] /\ w[p] <= parent[p]

(* ... and one that sleeps beside a zombie is about to be woken.            *)
ZombieWakes ==
  \A q \in Slots : state[q] = "ZOMBIE" /\ parent[q] # None /\ state[parent[q]] = "SLEEPING" =>
    \E r \in Slots : pc[r] = "wakeup" /\ wchan[r] = parent[q] /\ w[r] <= parent[q]

(* exit() and wait() meet: whenever wait_lock is free, every process has a  *)
(* parent that can still call wait(), and that does not sleep in wait()     *)
(* beside a zombie child.                                                   *)
ParentsWait ==
  /\ ForksOwnChild /\ ParentsLive /\ ScanHolds /\ ExitWakes /\ ZombieWakes
  /\ NoMissedZombie /\ ParentAlive

(* scheduler() goes round the whole table: a RUNNABLE process runs again.   *)
RunnableRuns == \A p \in Slots : state[p] = "RUNNABLE" ~> state[p] = "RUNNING"

(* wait() returns if there is a zombie child, even one that init inherits   *)
(* while it sleeps.                                                         *)
WaitReturns ==
  \A p \in Slots :
    (pc[p] \in {"wait", "wait_scan", "sleep", "sleep_end"}
       /\ \E q \in Slots : parent[q] = p /\ state[q] = "ZOMBIE")
    ~> pc[p] \in {"ret", "user", "exit"}

(* A killed process, running, waiting or asleep, becomes a zombie and so    *)
(* can be waited for (kill, usertrap, exit); init is never killed here.     *)
KilledExits ==
  \A p \in Slots \ {initproc} :
    (killed[p] /\ state[p] \notin {"UNUSED", "USED"}) ~> state[p] \in {"ZOMBIE", "UNUSED"}
=============================================================================
