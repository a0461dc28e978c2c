-------------------------------- MODULE Clock --------------------------------
(***************************************************************************)
(* The sleep() system call, sys_sleep() of kernel/sysproc.c, against the   *)
(* timer's interrupt, clockintr() of kernel/trap.c.                        *)
(***************************************************************************)
EXTENDS Integers

CONSTANTS
  Sleepers,   \* processes that call sleep()
  TICKS,      \* bound: uint ticks wraps here
  Naps        \* bound: the arguments of sleep()

(* An int is less than the 2^32 at which ticks wraps. *)
ClockAssumption == TICKS \in Nat /\ TICKS > 1 /\ Naps \subseteq Int /\ \A n \in Naps : n < TICKS

VARIABLES
  ticks,
  nap,       \* of each process: where it is in sys_sleep(), n, ticks0
  doomed,    \* p->killed
  passed     \* history: the ticks since the call began, up to n

clockvars == <<ticks, nap, doomed, passed>>

ClockTypeOK ==
  /\ ticks \in 0 .. TICKS - 1
  /\ nap \in [Sleepers -> [pc : {"user", "loop", "sleep", "asleep"}, n : 0 .. TICKS - 1,
                           ticks0 : 0 .. TICKS - 1, ret : {-1, 0}]]
  /\ doomed \in [Sleepers -> BOOLEAN]
  /\ passed \in [Sleepers -> Nat]

ClockInit ==
  /\ ticks = TICKS - 2
  /\ nap = [p \in Sleepers |-> [pc |-> "user", n |-> 0, ticks0 |-> 0, ret |-> 0]]
  /\ doomed = [p \in Sleepers |-> FALSE]
  /\ passed = [p \in Sleepers |-> 0]

(* tickslock: from the loop's test to sleep() no tick passes. *)
Unlocked == \A p \in Sleepers : nap[p].pc # "sleep"

WakeAll == [p \in Sleepers |-> IF nap[p].pc = "asleep" THEN [nap[p] EXCEPT !.pc = "loop"] ELSE nap[p]]

Passing == [p \in Sleepers |-> IF nap[p].pc # "user" /\ passed[p] < nap[p].n THEN passed[p] + 1
                               ELSE passed[p]]

(* Bound: no process that has been woken waits for a CPU until ticks has    *)
(* gone all the way round, 2^32 ticks.                                      *)
InTime == \A p \in Sleepers : nap[p].pc = "loop" => (ticks + 1 - nap[p].ticks0) % TICKS # 0

clockintr ==
  /\ Unlocked /\ InTime
  /\ ticks' = (ticks + 1) % TICKS
  /\ nap' = WakeAll
  /\ passed' = Passing
  /\ UNCHANGED doomed

(* sys_sleep(n): a negative n counts as 0. *)
sys_sleep(p) ==
  /\ nap[p].pc = "user" /\ ~doomed[p] /\ Unlocked
  /\ \E n \in Naps :
       nap' = [nap EXCEPT ![p] = [pc |-> "loop", n |-> IF n < 0 THEN 0 ELSE n, ticks0 |-> ticks,
                                  ret |-> 0]]
  /\ passed' = [passed EXCEPT ![p] = 0]
  /\ UNCHANGED <<ticks, doomed>>

(* Mutant: the time of waking is compared instead of the time that passed. *)
Early_wrap(p) == ticks < (nap[p].ticks0 + nap[p].n) % TICKS

Elapsed(p) == (ticks - nap[p].ticks0) % TICKS
Early(p)   == Elapsed(p) < nap[p].n

sleep_loop(p) ==
  /\ nap[p].pc = "loop" /\ Unlocked
  /\ nap' = [nap EXCEPT ![p].pc = IF Early(p) /\ ~doomed[p] THEN "sleep" ELSE "user",
                        ![p].ret = IF Early(p) /\ doomed[p] THEN -1 ELSE 0]
  /\ UNCHANGED <<ticks, doomed, passed>>

(* sleep(&ticks, &tickslock) *)
sleep_ticks(p) ==
  /\ nap[p].pc = "sleep"
  /\ nap' = [nap EXCEPT ![p].pc = "asleep"]
  /\ UNCHANGED <<ticks, doomed, passed>>

kill_sleeper(p) ==
  /\ ~doomed[p]
  /\ doomed' = [doomed EXCEPT ![p] = TRUE]
  /\ nap' = [nap EXCEPT ![p].pc = IF @ = "asleep" THEN "loop" ELSE @]
  /\ UNCHANGED <<ticks, passed>>

ClockNext ==
  clockintr \/ \E p \in Sleepers : sys_sleep(p) \/ sleep_loop(p) \/ sleep_ticks(p) \/ kill_sleeper(p)

ClockSpec == ClockInit /\ [][ClockNext]_clockvars
-----------------------------------------------------------------------------
(* sleep(n) does not return 0 before n ticks have passed, also when ticks   *)
(* wraps around meanwhile, unless its process was killed.                   *)
SleptEnough == \A p \in Sleepers : nap[p].pc = "user" /\ nap[p].ret = 0 => passed[p] = nap[p].n

(* What sys_sleep()'s loop sees of the time: exactly the ticks that passed, *)
(* up to n; from then on it is awake, and sees no fewer than n.             *)
SeesTime ==
  \A p \in Sleepers : nap[p].pc # "user" =>
    \/ passed[p] < nap[p].n /\ Elapsed(p) = passed[p]
    \/ passed[p] = nap[p].n /\ Elapsed(p) >= nap[p].n /\ nap[p].pc = "loop"

(* Nobody is asleep whose time is up: every tick wakes every sleeper, and   *)
(* none falls between the loop's test and sleep().                          *)
NoOversleep ==
  SeesTime /\ \A p \in Sleepers : nap[p].pc = "asleep" => passed[p] < nap[p].n
=============================================================================
