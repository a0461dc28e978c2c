---------------------------- MODULE ConsoleProofs ----------------------------
(***************************************************************************)
(* Proofs about the clock and the console, for any number of processes and *)
(* any sizes.                                                              *)
(***************************************************************************)
EXTENDS Clock, Console, SequenceTheorems, WellFoundedInduction, TLAPS

(* An unsigned number goes up by one, and wraps. *)
LEMMA IncIs ==
  ASSUME NEW w \in Nat, w > 1, NEW x \in 0 .. w - 1
  PROVE  (x + 1) % w = IF x = w - 1 THEN 0 ELSE x + 1
OBVIOUS

(* The difference of two unsigned numbers. *)
LEMMA DiffIs ==
  ASSUME NEW w \in Nat, w > 1, NEW x \in 0 .. w - 1, NEW y \in 0 .. w - 1
  PROVE  (x - y) % w = IF x >= y THEN x - y ELSE x - y + w
<1>1. CASE x >= y
  <2>1. x - y \in 0 .. w - 1
    BY <1>1
  <2> QED
    BY <1>1, <2>1
<1>2. CASE ~(x >= y)
  <2>1. x - y + w \in 0 .. w - 1
    BY <1>2
  <2>2. x - y = w * (-1) + (x - y + w)
    OBVIOUS
  <2> QED
    BY <1>2, <2>1, <2>2
<1> QED
  BY Zenon, <1>1, <1>2

(* The difference after one more tick. *)
LEMMA NextDiffIs ==
  ASSUME NEW w \in Nat, w > 1, NEW x \in 0 .. w - 1, NEW y \in 0 .. w - 1
  PROVE  (x + 1 - y) % w = IF x + 1 - y = w THEN 0
                           ELSE IF x + 1 >= y THEN x + 1 - y ELSE x + 1 - y + w
<1>1. CASE x + 1 - y = w
  <2>1. w = w * 1 + 0
    OBVIOUS
  <2> QED
    BY <1>1, <2>1
<1>2. CASE x + 1 - y # w /\ x + 1 >= y
  <2>1. x + 1 - y \in 0 .. w - 1
    BY <1>2
  <2> QED
    BY <1>2, <2>1
<1>3. CASE ~(x + 1 >= y)
  <2>1. x + 1 - y + w \in 0 .. w - 1
    BY <1>3
  <2>2. x + 1 - y = w * (-1) + (x + 1 - y + w)
    OBVIOUS
  <2> QED
    BY <1>3, <2>1, <2>2
<1> QED
  BY Zenon, <1>1, <1>2, <1>3
-----------------------------------------------------------------------------
(* The clock. *)

ClockIInv == ClockTypeOK /\ SeesTime /\ SleptEnough

(* The subtraction in sys_sleep()'s test. *)
LEMMA ElapsedIs ==
  ASSUME ClockAssumption, ClockTypeOK, NEW p \in Sleepers
  PROVE  /\ nap[p].ticks0 \in 0 .. TICKS - 1 /\ ticks \in 0 .. TICKS - 1
         /\ Elapsed(p) = IF ticks >= nap[p].ticks0 THEN ticks - nap[p].ticks0
                                                  ELSE ticks - nap[p].ticks0 + TICKS
<1>1. nap[p].ticks0 \in 0 .. TICKS - 1 /\ ticks \in 0 .. TICKS - 1 /\ TICKS \in Nat /\ TICKS > 1
  BY Zenon DEF ClockTypeOK, ClockAssumption
<1> QED
  BY Zenon, <1>1, DiffIs DEF Elapsed

(* Nobody has called sleep() yet. *)
LEMMA ClockInitInv == ASSUME ClockAssumption, ClockInit PROVE ClockIInv
<1>1. ClockTypeOK
  BY DEF ClockAssumption, ClockInit, ClockTypeOK
<1> QED
  BY Zenon, <1>1 DEF ClockInit, ClockIInv, SeesTime, SleptEnough

(* clockintr(): one more tick passes, and every sleeper wakes. *)
LEMMA ClockintrInv ==
  ASSUME ClockAssumption, ClockIInv, clockintr
  PROVE  ClockIInv'
<1> USE DEF ClockIInv
<1>1. TICKS \in Nat /\ TICKS > 1 /\ ticks \in 0 .. TICKS - 1
  BY Zenon DEF ClockAssumption, ClockTypeOK
<1>2. ticks' = (IF ticks = TICKS - 1 THEN 0 ELSE ticks + 1) /\ ticks' \in 0 .. TICKS - 1
  BY <1>1, IncIs DEF clockintr
<1>3. ClockTypeOK'
  <2>1. nap' \in [Sleepers -> [pc : {"user", "loop", "sleep", "asleep"}, n : 0 .. TICKS - 1,
                               ticks0 : 0 .. TICKS - 1, ret : {-1, 0}]]
    BY ZenonT(60) DEF clockintr, WakeAll, ClockTypeOK
  <2>2. passed' \in [Sleepers -> Nat]
    BY DEF clockintr, Passing, ClockTypeOK
  <2> QED
    BY Zenon, <1>2, <2>1, <2>2 DEF clockintr, ClockTypeOK
<1>4. ASSUME NEW p \in Sleepers
      PROVE  /\ nap'[p].n = nap[p].n /\ nap'[p].ticks0 = nap[p].ticks0 /\ nap'[p].ret = nap[p].ret
             /\ nap'[p].pc = IF nap[p].pc = "asleep" THEN "loop" ELSE nap[p].pc
             /\ passed'[p] = IF nap[p].pc # "user" /\ passed[p] < nap[p].n THEN passed[p] + 1
                             ELSE passed[p]
             /\ nap[p].pc \in {"user", "loop", "asleep"}
  BY ZenonT(60) DEF clockintr, WakeAll, Passing, Unlocked, ClockTypeOK
<1>5. SeesTime'
  <2> SUFFICES ASSUME NEW p \in Sleepers, nap'[p].pc # "user"
               PROVE  \/ passed'[p] < nap'[p].n /\ Elapsed(p)' = passed'[p]
                      \/ passed'[p] = nap'[p].n /\ Elapsed(p)' >= nap'[p].n /\ nap'[p].pc = "loop"
    BY Zenon DEF SeesTime
  <2>1. /\ nap[p].n \in 0 .. TICKS - 1 /\ nap[p].ticks0 \in 0 .. TICKS - 1 /\ passed[p] \in Nat
        /\ Elapsed(p) = IF ticks >= nap[p].ticks0 THEN ticks - nap[p].ticks0
                                                  ELSE ticks - nap[p].ticks0 + TICKS
    BY Zenon, ElapsedIs DEF ClockTypeOK
  <2>2. Elapsed(p)' = IF ticks' >= nap[p].ticks0 THEN ticks' - nap[p].ticks0
                                                 ELSE ticks' - nap[p].ticks0 + TICKS
    <3>1. Elapsed(p)' = (ticks' - nap[p].ticks0) % TICKS
      BY Zenon, <1>4 DEF Elapsed
    <3> QED
      BY Zenon, <1>1, <1>2, <2>1, <3>1, DiffIs
  <2>3. Elapsed(p)' = Elapsed(p) + 1 \/ (Elapsed(p) = TICKS - 1 /\ Elapsed(p)' = 0)
    BY <1>1, <1>2, <2>1, <2>2
  <2>4. nap[p].pc = "loop" => Elapsed(p)' # 0
    <3>1. (ticks + 1 - nap[p].ticks0) % TICKS = Elapsed(p)'
      <4>1. (ticks + 1 - nap[p].ticks0) % TICKS =
              IF ticks + 1 - nap[p].ticks0 = TICKS THEN 0
              ELSE IF ticks + 1 >= nap[p].ticks0 THEN ticks + 1 - nap[p].ticks0
                   ELSE ticks + 1 - nap[p].ticks0 + TICKS
        BY ZenonT(60), <1>1, <2>1, NextDiffIs
      <4> QED
        BY <1>1, <1>2, <2>1, <2>2, <4>1
    <3> QED
      BY Zenon, <3>1 DEF clockintr, InTime
  <2>5. nap[p].pc \in {"loop", "asleep"}
    BY Zenon, <1>4
  <2>6. \/ passed[p] < nap[p].n /\ Elapsed(p) = passed[p]
        \/ passed[p] = nap[p].n /\ Elapsed(p) >= nap[p].n /\ nap[p].pc = "loop"
    BY Zenon, <2>5 DEF SeesTime
  <2> QED
    BY <1>1, <1>4, <2>1, <2>3, <2>4, <2>5, <2>6
<1>6. SleptEnough'
  BY ZenonT(60), <1>4 DEF SleptEnough
<1> QED
  BY Zenon, <1>3, <1>5, <1>6

(* A step of one process, at an unchanged time. *)
LEMMA SleeperInv ==
  ASSUME ClockAssumption, ClockIInv, NEW p \in Sleepers,
         sys_sleep(p) \/ sleep_loop(p) \/ sleep_ticks(p) \/ kill_sleeper(p)
  PROVE  ClockIInv'
<1> USE DEF ClockIInv
<1>1. ClockTypeOK'
  <2> USE DEF ClockTypeOK
  <2>1. CASE sys_sleep(p)
    <3>1. \A n \in Naps : (IF n < 0 THEN 0 ELSE n) \in 0 .. TICKS - 1
      BY DEF ClockAssumption
    <3> QED
      BY <2>1, <3>1 DEF sys_sleep
  <2>2. CASE sleep_loop(p)
    <3>1. PICK s \in {"user", "sleep"}, k \in {-1, 0} :
            nap' = [nap EXCEPT ![p].pc = s, ![p].ret = k]
      BY Zenon, <2>2 DEF sleep_loop
    <3>2. UNCHANGED <<ticks, doomed, passed>>
      BY Zenon, <2>2 DEF sleep_loop
    <3>3. nap' \in [Sleepers -> [pc : {"user", "loop", "sleep", "asleep"}, n : 0 .. TICKS - 1,
                                 ticks0 : 0 .. TICKS - 1, ret : {-1, 0}]]
      <4> DEFINE R == [pc : {"user", "loop", "sleep", "asleep"}, n : 0 .. TICKS - 1,
                       ticks0 : 0 .. TICKS - 1, ret : {-1, 0}]
                 x == [nap[p] EXCEPT !.pc = s, !.ret = k]
      <4>1. nap \in [Sleepers -> R] /\ nap[p] \in R
        BY Zenon
      <4> HIDE DEF ClockIInv, ClockTypeOK
      <4>2. x \in R
        BY Zenon, <4>1
      <4>3. nap' = [nap EXCEPT ![p] = x]
        BY Zenon, <3>1, <4>1
      <4> HIDE DEF R, x
      <4>4. nap' \in [Sleepers -> R]
        BY Zenon, <4>1, <4>2, <4>3
      <4> QED
        BY Zenon, <4>4 DEF R
    <3> QED
      BY Zenon, <3>2, <3>3
  <2>3. CASE sleep_ticks(p)
    BY ZenonT(60), <2>3 DEF sleep_ticks
  <2>4. CASE kill_sleeper(p)
    BY <2>4 DEF kill_sleeper
  <2> QED
    BY Zenon, <2>1, <2>2, <2>3, <2>4
<1>2. /\ ticks' = ticks
      /\ \A q \in Sleepers \ {p} : nap'[q] = nap[q] /\ passed'[q] = passed[q]
  BY Zenon DEF ClockTypeOK, sys_sleep, sleep_loop, sleep_ticks, kill_sleeper
<1>3. \A q \in Sleepers \ {p} : Elapsed(q)' = Elapsed(q)
  BY Zenon, <1>2 DEF Elapsed
<1>4. nap[p].n \in Nat /\ passed[p] \in Nat /\ Elapsed(p) \in Int
  BY ElapsedIs DEF ClockTypeOK, ClockAssumption
<1>5. CASE sys_sleep(p)
  <2>1. /\ nap'[p].pc = "loop" /\ nap'[p].ticks0 = ticks /\ passed'[p] = 0
        /\ nap'[p].n \in 0 .. TICKS - 1
    BY <1>1, <1>5 DEF sys_sleep, ClockTypeOK
  <2>2. Elapsed(p)' = 0
    <3>1. ticks - ticks = 0 /\ 0 % TICKS = 0
      BY DEF ClockAssumption, ClockTypeOK
    <3> QED
      BY Zenon, <1>2, <2>1, <3>1 DEF Elapsed
  <2> QED
    BY <1>1, <1>2, <1>3, <2>1, <2>2 DEF SeesTime, SleptEnough
<1>6. CASE sleep_loop(p)
  <2>1. /\ nap[p].pc = "loop" /\ nap'[p].n = nap[p].n /\ nap'[p].ticks0 = nap[p].ticks0
        /\ nap'[p].pc = IF Early(p) /\ ~doomed[p] THEN "sleep" ELSE "user"
        /\ nap'[p].ret = IF Early(p) /\ doomed[p] THEN -1 ELSE 0
        /\ passed' = passed
    BY <1>6 DEF sleep_loop, ClockTypeOK
  <2>2. Elapsed(p)' = Elapsed(p)
    BY Zenon, <1>2, <2>1 DEF Elapsed
  <2>3. Early(p) <=> passed[p] < nap[p].n
    <3>1. \/ passed[p] < nap[p].n /\ Elapsed(p) = passed[p]
          \/ passed[p] = nap[p].n /\ Elapsed(p) >= nap[p].n
      BY Zenon, <2>1 DEF SeesTime
    <3> QED
      BY <1>4, <3>1 DEF Early
  <2>4. nap'[p].pc = "user" /\ nap'[p].ret = 0 => passed'[p] = nap'[p].n
    BY <2>1, <2>3 DEF SeesTime
  <2>5. SleptEnough'
    BY Zenon, <1>2, <2>4 DEF SleptEnough
  <2>6. SeesTime'
    <3>1. nap'[p].pc # "user" => passed[p] < nap[p].n /\ Elapsed(p) = passed[p]
      BY <1>4, <2>1, <2>3 DEF SeesTime
    <3>2. nap'[p].pc # "user" => passed'[p] < nap'[p].n /\ Elapsed(p)' = passed'[p]
      BY Zenon, <2>1, <2>2, <3>1
    <3> QED
      BY ZenonT(60), <1>2, <1>3, <3>2 DEF SeesTime
  <2> QED
    BY Zenon, <1>1, <2>5, <2>6
<1>7. CASE sleep_ticks(p)
  <2>1. /\ nap[p].pc = "sleep" /\ nap'[p].n = nap[p].n /\ nap'[p].ticks0 = nap[p].ticks0
        /\ nap'[p].pc = "asleep" /\ passed' = passed
    BY Zenon, <1>7 DEF sleep_ticks, ClockTypeOK
  <2>2. Elapsed(p)' = Elapsed(p)
    BY Zenon, <1>2, <2>1 DEF Elapsed
  <2> QED
    BY ZenonT(60), <1>1, <1>2, <1>3, <2>1, <2>2 DEF SeesTime, SleptEnough
<1>8. CASE kill_sleeper(p)
  <2>1. /\ nap'[p].n = nap[p].n /\ nap'[p].ticks0 = nap[p].ticks0 /\ nap'[p].ret = nap[p].ret
        /\ nap'[p].pc = (IF nap[p].pc = "asleep" THEN "loop" ELSE nap[p].pc) /\ passed' = passed
    BY <1>8 DEF kill_sleeper, ClockTypeOK
  <2>2. Elapsed(p)' = Elapsed(p)
    BY Zenon, <1>2, <2>1 DEF Elapsed
  <2> QED
    BY <1>1, <1>2, <1>3, <2>1, <2>2 DEF SeesTime, SleptEnough
<1> QED
  BY Zenon, <1>5, <1>6, <1>7, <1>8

(* Every step of the clock and of the processes that sleep. *)
LEMMA ClockNextInv ==
  ASSUME ClockAssumption
  PROVE  ClockIInv /\ [ClockNext]_clockvars => ClockIInv'
<1> SUFFICES ASSUME ClockIInv, [ClockNext]_clockvars PROVE ClockIInv'
  OBVIOUS
<1>1. CASE UNCHANGED clockvars
  BY Zenon, <1>1 DEF clockvars, ClockIInv, ClockTypeOK, SeesTime, Elapsed, SleptEnough
<1> QED
  BY Zenon, <1>1, ClockintrInv, SleeperInv DEF ClockNext

(* sys_sleep(n) returns 0 only after n ticks, wherever ticks wraps around,  *)
(* for any number of processes and any arguments.                           *)
THEOREM SleptEnoughHolds ==
  ASSUME ClockAssumption
  PROVE  ClockSpec => []SleptEnough
<1>1. ClockInit => ClockIInv
  BY Zenon, ClockInitInv
<1>2. ClockIInv => SleptEnough
  BY Zenon DEF ClockIInv
<1> QED
  BY <1>1, <1>2, ClockNextInv, PTL DEF ClockSpec

(* clockintr() wakes every sleeper in time: nobody is asleep in sys_sleep() *)
(* when its time is up.                                                     *)
THEOREM NoOversleepHolds ==
  ASSUME ClockAssumption
  PROVE  ClockSpec => []NoOversleep
<1>1. ClockInit => ClockIInv
  BY Zenon, ClockInitInv
<1>2. ClockIInv => NoOversleep
  BY Zenon DEF ClockIInv, SeesTime, NoOversleep
<1> QED
  BY <1>1, <1>2, ClockNextInv, PTL DEF ClockSpec
-----------------------------------------------------------------------------
(* The console's indices: unsigned numbers that go round in Word. *)

Index == 0 .. Word - 1

Dist(from, to) == (to - from) % Word

(* Word is at least 2. *)
LEMMA WordIs ==
  ASSUME ConsoleAssumption
  PROVE  Word \in Nat /\ Word > 1 /\ Word = 2 * INPUT_BUF_SIZE /\ INPUT_BUF_SIZE \in Nat \ {0}
BY DEF ConsoleAssumption, Word

(* cons.e - cons.r and its like. *)
LEMMA DistIs ==
  ASSUME ConsoleAssumption, NEW a \in Index, NEW b \in Index
  PROVE  /\ Dist(a, b) \in Index
         /\ Dist(a, b) = IF b >= a THEN b - a ELSE b - a + Word
         /\ Dist(a, b) = 0 <=> a = b
<1>1. Dist(a, b) = IF b >= a THEN b - a ELSE b - a + Word
  BY Zenon, WordIs, DiffIs DEF Dist, Index
<1> QED
  BY <1>1, WordIs DEF Index

(* cons.e++ and cons.r++. *)
LEMMA IncIndex ==
  ASSUME ConsoleAssumption, NEW a \in Index
  PROVE  Inc(a) \in Index /\ Inc(a) = IF a = Word - 1 THEN 0 ELSE a + 1
<1>1. Inc(a) = IF a = Word - 1 THEN 0 ELSE a + 1
  BY Zenon, WordIs, IncIs DEF Inc, Index
<1> QED
  BY <1>1, WordIs DEF Index

(* The far end moves on by one. *)
LEMMA IncFar ==
  ASSUME ConsoleAssumption, NEW a \in Index, NEW b \in Index, Dist(a, b) <= INPUT_BUF_SIZE
  PROVE  Dist(a, b) < INPUT_BUF_SIZE => Dist(a, Inc(b)) = Dist(a, b) + 1
<1>1. Inc(b) \in Index /\ Inc(b) = IF b = Word - 1 THEN 0 ELSE b + 1
  BY Zenon, IncIndex
<1>2. Dist(a, b) = IF b >= a THEN b - a ELSE b - a + Word
  BY Zenon, DistIs
<1>3. Dist(a, Inc(b)) = IF Inc(b) >= a THEN Inc(b) - a ELSE Inc(b) - a + Word
  BY Zenon, <1>1, DistIs
<1> QED
  BY <1>1, <1>2, <1>3, WordIs DEF Index

(* The near end moves on by one. *)
LEMMA IncNear ==
  ASSUME ConsoleAssumption, NEW a \in Index, NEW b \in Index, a # b
  PROVE  Dist(Inc(a), b) = Dist(a, b) - 1
<1>1. Inc(a) \in Index /\ Inc(a) = IF a = Word - 1 THEN 0 ELSE a + 1
  BY Zenon, IncIndex
<1>2. Dist(a, b) = IF b >= a THEN b - a ELSE b - a + Word
  BY Zenon, DistIs
<1>3. Dist(Inc(a), b) = IF b >= Inc(a) THEN b - Inc(a) ELSE b - Inc(a) + Word
  BY Zenon, <1>1, DistIs
<1> QED
  BY <1>1, <1>2, <1>3, WordIs DEF Index

(* The far end moves back by k. *)
LEMMA BackFar ==
  ASSUME ConsoleAssumption, NEW a \in Index, NEW b \in Index, NEW k \in 0 .. Dist(a, b)
  PROVE  (b - k) % Word \in Index /\ Dist(a, (b - k) % Word) = Dist(a, b) - k
<1>1. k \in Index
  BY DistIs, WordIs DEF Index
<1>2. (b - k) % Word \in Index /\ (b - k) % Word = IF b >= k THEN b - k ELSE b - k + Word
  BY Zenon, <1>1, DistIs DEF Dist
<1>3. PICK x \in Index : x = (b - k) % Word /\ x = IF b >= k THEN b - k ELSE b - k + Word
  BY Zenon, <1>2
<1>4. x = IF b >= k THEN b - k ELSE b - k + Word
  BY Zenon, <1>3
<1>5. Dist(a, b) = IF b >= a THEN b - a ELSE b - a + Word
  BY Zenon, DistIs
<1>6. Dist(a, x) = IF x >= a THEN x - a ELSE x - a + Word
  BY Zenon, DistIs
<1>7. Dist(a, x) = Dist(a, b) - k
  BY <1>1, <1>4, <1>5, <1>6, WordIs DEF Index
<1> QED
  BY Zenon, <1>3, <1>7

(* Three indices in order. *)
LEMMA DistVia ==
  ASSUME ConsoleAssumption, NEW a \in Index, NEW b \in Index, NEW c \in Index,
         Dist(a, b) <= Dist(a, c)
  PROVE  Dist(b, c) = Dist(a, c) - Dist(a, b)
<1>1. Dist(a, b) = IF b >= a THEN b - a ELSE b - a + Word
  BY Zenon, DistIs
<1>2. Dist(a, c) = IF c >= a THEN c - a ELSE c - a + Word
  BY Zenon, DistIs
<1>3. Dist(b, c) = IF c >= b THEN c - b ELSE c - b + Word
  BY Zenon, DistIs
<1> QED
  BY <1>1, <1>2, <1>3, WordIs DEF Index

(* ^U: the test of its loop fails at some first k. *)
LEMMA LeastNat ==
  ASSUME NEW T, T \subseteq Nat, T # {}
  PROVE  \E k \in T : \A j \in T : k <= j
<1>1. PICK k \in T : \A j \in T : ~(<<j, k>> \in OpToRel(<, Nat))
  BY Zenon, NatLessThanWellFounded, WFMin
<1>2. \A j \in T : ~(j < k)
  BY Zenon, <1>1 DEF OpToRel
<1> QED
  BY <1>2

(* ^U moves e back, no further than w. *)
LEMMA KillLineIs ==
  ASSUME ConsoleAssumption, ConsTypeOK
  PROVE  \E k \in 0 .. Dist(cons.w, cons.e) : KillLine = (cons.e - k) % Word
<1> DEFINE size == (cons.e - cons.w) % Word
           stop == {k \in 0 .. size : k = size \/ Char((cons.e - k - 1) % Word) = "nl"}
<1>1. cons.w \in Index /\ cons.e \in Index
  BY Zenon DEF ConsTypeOK, Index
<1>2. size \in Nat /\ size = Dist(cons.w, cons.e)
  <2>1. size = Dist(cons.w, cons.e)
    BY Zenon DEF Dist
  <2>2. Dist(cons.w, cons.e) \in 0 .. Word - 1
    BY Zenon, <1>1, DistIs DEF Index
  <2> QED
    BY <2>1, <2>2, WordIs
<1>3. size \in stop /\ stop \subseteq Nat
  BY <1>2
<1>4. \E k \in stop : \A j \in stop : k <= j
  BY Zenon, <1>3, LeastNat
<1>5. (CHOOSE k \in stop : \A j \in stop : k <= j) \in stop
  BY Zenon, <1>4
<1>6. PICK k \in stop : k = CHOOSE m \in stop : \A j \in stop : m <= j
  BY Zenon, <1>5
<1>7. KillLine = (cons.e - k) % Word
  BY Zenon, <1>6 DEF KillLine
<1> QED
  BY Zenon, <1>2, <1>7

-----------------------------------------------------------------------------
(* The console's invariant. *)

ConsIInv == ConsTypeOK /\ FullIsReadable /\ ReaderSleepsOnEmpty /\ ReadsCounted

Around(r, w, e) ==
  /\ r \in Index /\ w \in Index /\ e \in Index
  /\ Dist(r, w) <= Dist(r, e) /\ Dist(r, e) <= INPUT_BUF_SIZE
  /\ Dist(r, e) = INPUT_BUF_SIZE => w = e

(* FullIsReadable, of the three indices. *)
LEMMA AroundIs ==
  ASSUME ConsTypeOK
  PROVE  FullIsReadable <=> Around(cons.r, cons.w, cons.e)
BY Zenon DEF ConsTypeOK, FullIsReadable, Around, Dist, Index

(* The next state's, likewise. *)
LEMMA AroundIsNext ==
  ASSUME ConsTypeOK'
  PROVE  FullIsReadable' <=> Around(cons'.r, cons'.w, cons'.e)
BY Zenon DEF ConsTypeOK, FullIsReadable, Around, Dist, Index

(* ^H and ^U: e moves back, no further than w. *)
LEMMA EraseAround ==
  ASSUME ConsoleAssumption, NEW r, NEW w, NEW e, Around(r, w, e), NEW k \in 0 .. Dist(w, e)
  PROVE  Around(r, w, (e - k) % Word)
<1>1. r \in Index /\ w \in Index /\ e \in Index
  BY Zenon DEF Around
<1>2. Dist(r, w) \in Nat /\ Dist(r, e) \in Nat /\ Dist(w, e) \in Nat
  BY <1>1, DistIs, WordIs DEF Index
<1>3. Dist(w, e) = Dist(r, e) - Dist(r, w)
  BY Zenon, <1>1, DistVia DEF Around
<1>4. k \in 0 .. Dist(r, e)
  BY <1>2, <1>3
<1>5. PICK x \in Index : x = (e - k) % Word /\ Dist(r, x) = Dist(r, e) - k
                         /\ Dist(w, x) = Dist(w, e) - k
  BY Zenon, <1>1, <1>4, BackFar
<1>6. Dist(r, w) <= Dist(r, x) /\ Dist(r, x) <= INPUT_BUF_SIZE
  BY <1>2, <1>3, <1>5, WordIs DEF Around
<1>7. Dist(r, x) = INPUT_BUF_SIZE => w = x
  <2>1. Dist(r, x) = INPUT_BUF_SIZE => Dist(r, e) = INPUT_BUF_SIZE /\ k = 0
    BY <1>2, <1>5, WordIs DEF Around
  <2>2. Dist(r, x) = INPUT_BUF_SIZE => w = e /\ Dist(w, x) = Dist(w, e)
    BY <1>2, <1>5, <2>1 DEF Around
  <2> QED
    BY <1>1, <2>2, DistIs
<1> QED
  BY Zenon, <1>1, <1>5, <1>6, <1>7 DEF Around

(* A character is stored, and the line goes on. *)
LEMMA StoreAround ==
  ASSUME ConsoleAssumption, NEW r, NEW w, NEW e, Around(r, w, e), Dist(r, e) < INPUT_BUF_SIZE
  PROVE  /\ Around(r, Inc(e), Inc(e))
         /\ Dist(r, Inc(e)) # INPUT_BUF_SIZE => Around(r, w, Inc(e))
<1>1. r \in Index /\ w \in Index /\ e \in Index
  BY Zenon DEF Around
<1>2. Dist(r, w) \in Nat /\ Dist(r, e) \in Nat
  BY <1>1, DistIs, WordIs DEF Index
<1>3. Inc(e) \in Index /\ Dist(r, Inc(e)) = Dist(r, e) + 1
  BY Zenon, <1>1, IncFar, IncIndex DEF Around
<1> QED
  BY <1>1, <1>2, <1>3, WordIs DEF Around

(* A character is taken. *)
LEMMA TakeAround ==
  ASSUME ConsoleAssumption, NEW r, NEW w, NEW e, Around(r, w, e), r # w
  PROVE  Around(Inc(r), w, e)
<1>1. r \in Index /\ w \in Index /\ e \in Index
  BY Zenon DEF Around
<1>2. Dist(r, w) \in Nat /\ Dist(r, e) \in Nat /\ Dist(r, w) # 0
  BY <1>1, DistIs, WordIs DEF Index
<1>3. r # e
  BY <1>1, <1>2, DistIs DEF Around
<1>4. /\ Inc(r) \in Index /\ Dist(Inc(r), w) = Dist(r, w) - 1
      /\ Dist(Inc(r), e) = Dist(r, e) - 1
  BY Zenon, <1>1, <1>3, IncNear, IncIndex
<1> QED
  BY <1>1, <1>2, <1>4, WordIs DEF Around

ConsRec == [buf : [0 .. INPUT_BUF_SIZE - 1 -> Stored], r : Index, w : Index, e : Index]

Reader == [pc : {"user", "acquire", "loop", "sleep", "asleep"}, n : Nat,
           target : {0} \cup Counts, got : Seq(Stored)]

Counted(x) ==
  /\ x.pc = "user" => x = Idle
  /\ Len(x.got) <= x.target
  /\ x.n = IF EndsLine(x.got) THEN 0 ELSE x.target - Len(x.got)

(* Between two reads. *)
LEMMA IdleIs == Idle \in Reader /\ Counted(Idle)
<1>1. <<>> \in Seq(Stored) /\ Len(<<>>) = 0 /\ ~EndsLine(<<>>)
  BY Zenon, EmptySeq DEF EndsLine
<1> QED
  BY <1>1 DEF Idle, Reader, Counted

(* Only where it is changes, but not to or from user space. *)
LEMMA MovedReader ==
  ASSUME NEW x \in Reader, Counted(x), x.pc # "user",
         NEW s \in {"acquire", "loop", "sleep", "asleep"}
  PROVE  /\ [x EXCEPT !.pc = s] \in Reader /\ Counted([x EXCEPT !.pc = s])
         /\ [x EXCEPT !.pc = s].pc = s
BY Zenon DEF Reader, Counted

(* consoleread() adds a byte at the end of what it has. *)
LEMMA AppendEnds ==
  ASSUME NEW s \in Seq(Stored), NEW ch \in Stored
  PROVE  /\ Append(s, ch) \in Seq(Stored) /\ Len(Append(s, ch)) = Len(s) + 1
         /\ Append(s, ch) # <<>> /\ Append(s, ch)[Len(s) + 1] = ch
OBVIOUS

(* A byte more. *)
LEMMA ReaderTakes ==
  ASSUME ConsoleAssumption, NEW x \in Reader, Counted(x), x.n > 0, x.pc # "user", NEW ch \in Stored
  PROVE  LET y == [x EXCEPT !.n = IF ch = "nl" THEN 0 ELSE x.n - 1, !.got = Append(x.got, ch)]
         IN  y \in Reader /\ Counted(y) /\ y.pc = x.pc
<1>1. x.got \in Seq(Stored) /\ Len(x.got) \in Nat /\ x.n \in Nat /\ x.target \in Nat
  <2>1. x.got \in Seq(Stored) /\ x.n \in Nat /\ x.target \in {0} \cup Counts
    BY Zenon DEF Reader
  <2>2. Len(x.got) \in Nat
    BY Zenon, <2>1, LenProperties
  <2>3. \A t \in {0} \cup Counts : t \in Nat
    BY DEF ConsoleAssumption
  <2> QED
    BY Zenon, <2>1, <2>2, <2>3
<1>2. ~EndsLine(x.got) /\ x.n = x.target - Len(x.got)
  BY <1>1 DEF Counted
<1>3. PICK g \in Seq(Stored) : /\ g = Append(x.got, ch) /\ Len(g) = Len(x.got) + 1
                               /\ EndsLine(g) <=> ch = "nl"
  <2>1. PICK g \in Seq(Stored) : /\ g = Append(x.got, ch) /\ Len(g) = Len(x.got) + 1
                                 /\ g # <<>> /\ g[Len(x.got) + 1] = ch
    BY Zenon, <1>1, AppendEnds
  <2> QED
    BY Zenon, <2>1 DEF EndsLine
<1>4. PICK m \in Nat : m = IF ch = "nl" THEN 0 ELSE x.n - 1
  BY <1>1
<1>5. PICK y : y = [x EXCEPT !.n = m, !.got = g]
  OBVIOUS
<1>6. y \in Reader /\ y.n = m /\ y.got = g /\ y.pc = x.pc /\ y.target = x.target
  BY Zenon, <1>5 DEF Reader
<1>7. Counted(y)
  BY <1>1, <1>2, <1>3, <1>4, <1>6 DEF Counted
<1> QED
  BY Zenon, <1>3, <1>4, <1>5, <1>6, <1>7

(* The invariant, reader by reader. *)
LEMMA ReadersIs ==
  /\ ConsTypeOK <=> /\ cons \in ConsRec
                    /\ conslock \in Readers \cup {None}
                    /\ rd \in [Readers -> Reader]
                    /\ killed \in [Readers -> BOOLEAN]
  /\ ReadsCounted <=> \A p \in Readers : Counted(rd[p])
BY Zenon DEF ConsTypeOK, ReadsCounted, Counted, Reader, Index, ConsRec

(* The next state's, likewise. *)
LEMMA ReadersIsNext ==
  /\ ConsTypeOK' <=> /\ cons' \in ConsRec
                     /\ conslock' \in Readers \cup {None}
                     /\ rd' \in [Readers -> Reader]
                     /\ killed' \in [Readers -> BOOLEAN]
  /\ ReadsCounted' <=> \A p \in Readers : Counted(rd'[p])
BY Zenon DEF ConsTypeOK, ReadsCounted, Counted, Reader, Index, ConsRec

(* No process has called read() and nothing has been typed. *)
LEMMA ConsInitInv == ASSUME ConsoleAssumption, ConsInit PROVE ConsIInv
<1>1. rd \in [Readers -> Reader] /\ \A p \in Readers : rd[p] = Idle
  BY Zenon, IdleIs DEF ConsInit
<1>2. ConsTypeOK
  <2>1. 0 \in Index /\ "a" \in Stored
    BY WordIs DEF Index, Stored
  <2> QED
    BY Zenon, <1>1, <2>1, ReadersIs DEF ConsInit, ConsRec
<1>3. ReadsCounted
  BY Zenon, <1>1, IdleIs, ReadersIs
<1>4. Dist(0, 0) = 0 /\ 0 \in Index
  BY DistIs, WordIs DEF Index
<1>5. FullIsReadable
  BY <1>2, <1>4, WordIs, AroundIs DEF Around, ConsInit
<1>6. ReaderSleepsOnEmpty
  BY Zenon, <1>1 DEF ReaderSleepsOnEmpty, ConsInit, Idle, ConsoleAssumption
<1> QED
  BY Zenon, <1>2, <1>3, <1>5, <1>6 DEF ConsIInv

(* read() of the console is called. *)
LEMMA CallReadInv ==
  ASSUME ConsoleAssumption, ConsIInv, NEW p \in Readers, call_read(p) PROVE ConsIInv'
<1> USE DEF ConsIInv
<1>1. rd \in [Readers -> Reader] /\ \A q \in Readers : Counted(rd[q])
  BY Zenon, ReadersIs
<1>2. PICK n \in Counts :
        rd' = [rd EXCEPT ![p] = [pc |-> "acquire", n |-> n, target |-> n, got |-> <<>>]]
  BY Zenon DEF call_read
<1>3. UNCHANGED <<cons, conslock, killed>> /\ rd[p].pc = "user"
  BY Zenon DEF call_read
<1>4. PICK x : x = [pc |-> "acquire", n |-> n, target |-> n, got |-> <<>>]
  BY ZenonT(60)
<1>5. x \in Reader /\ Counted(x)
  <2>1. <<>> \in Seq(Stored) /\ Len(<<>>) = 0 /\ ~EndsLine(<<>>)
    BY Zenon, EmptySeq DEF EndsLine
  <2> QED
    BY <1>4, <2>1 DEF Reader, Counted, ConsoleAssumption
<1>6. rd' = [rd EXCEPT ![p] = x] /\ x.pc = "acquire"
  BY Zenon, <1>2, <1>4
<1>7. ConsTypeOK' /\ ReadsCounted'
  BY Zenon, <1>1, <1>3, <1>5, <1>6, ReadersIs, ReadersIsNext
<1>8. FullIsReadable'
  BY Zenon, <1>3 DEF FullIsReadable
<1>9. ReaderSleepsOnEmpty'
  BY Zenon, <1>1, <1>3, <1>6 DEF ReaderSleepsOnEmpty
<1> QED
  BY Zenon, <1>7, <1>8, <1>9

(* acquire(&cons.lock) *)
LEMMA AcquireConsInv ==
  ASSUME ConsoleAssumption, ConsIInv, NEW p \in Readers, acquire(p) PROVE ConsIInv'
<1> USE DEF ConsIInv
<1>1. rd \in [Readers -> Reader] /\ \A q \in Readers : Counted(rd[q])
  BY Zenon, ReadersIs
<1>2. UNCHANGED <<cons, killed>> /\ rd[p].pc = "acquire" /\ conslock = None /\ conslock' = p
  BY Zenon DEF acquire
<1>3. PICK x : x = [rd[p] EXCEPT !.pc = "loop"]
  BY ZenonT(60)
<1>4. x \in Reader /\ Counted(x) /\ x.pc = "loop"
  BY Zenon, <1>1, <1>2, <1>3, MovedReader
<1>5. rd' = [rd EXCEPT ![p] = x]
  BY Zenon, <1>3 DEF acquire
<1>6. ConsTypeOK' /\ ReadsCounted'
  BY Zenon, <1>1, <1>2, <1>4, <1>5, ReadersIs, ReadersIsNext
<1>7. FullIsReadable'
  BY Zenon, <1>2 DEF FullIsReadable
<1>8. ReaderSleepsOnEmpty'
  BY ZenonT(60), <1>1, <1>2, <1>4, <1>5 DEF ReaderSleepsOnEmpty, ConsoleAssumption
<1> QED
  BY Zenon, <1>6, <1>7, <1>8

(* sleep(&cons.r, &cons.lock) *)
LEMMA SleepConsInv ==
  ASSUME ConsoleAssumption, ConsIInv, NEW p \in Readers, sleep(p) PROVE ConsIInv'
<1> USE DEF ConsIInv
<1>1. rd \in [Readers -> Reader] /\ \A q \in Readers : Counted(rd[q])
  BY Zenon, ReadersIs
<1>2. UNCHANGED <<cons, killed>> /\ rd[p].pc = "sleep" /\ conslock' = None
  BY Zenon DEF sleep
<1>3. PICK x : x = [rd[p] EXCEPT !.pc = "asleep"]
  BY ZenonT(60)
<1>4. x \in Reader /\ Counted(x) /\ x.pc = "asleep"
  BY Zenon, <1>1, <1>2, <1>3, MovedReader
<1>5. rd' = [rd EXCEPT ![p] = x]
  BY Zenon, <1>3 DEF sleep
<1>6. ConsTypeOK' /\ ReadsCounted'
  BY Zenon, <1>1, <1>2, <1>4, <1>5, ReadersIs, ReadersIsNext
<1>7. FullIsReadable'
  BY Zenon, <1>2 DEF FullIsReadable
<1>8. ReaderSleepsOnEmpty'
  BY ZenonT(60), <1>1, <1>2, <1>4, <1>5 DEF ReaderSleepsOnEmpty, ConsoleAssumption
<1> QED
  BY Zenon, <1>6, <1>7, <1>8

(* kill(): a reader that is asleep is woken. *)
LEMMA KillConsInv ==
  ASSUME ConsoleAssumption, ConsIInv, NEW p \in Readers, kill(p) PROVE ConsIInv'
<1> USE DEF ConsIInv
<1>1. rd \in [Readers -> Reader] /\ \A q \in Readers : Counted(rd[q])
  BY Zenon, ReadersIs
<1>2. UNCHANGED <<cons, conslock>> /\ killed' = [killed EXCEPT ![p] = TRUE]
  BY Zenon DEF kill
<1>3. PICK x : x = IF rd[p].pc = "asleep" THEN [rd[p] EXCEPT !.pc = "acquire"] ELSE rd[p]
  BY ZenonT(60)
<1>4. /\ x \in Reader /\ Counted(x)
      /\ x.pc = IF rd[p].pc = "asleep" THEN "acquire" ELSE rd[p].pc
  <2>1. CASE rd[p].pc = "asleep"
    BY ZenonT(60), <1>1, <1>3, <2>1, MovedReader
  <2>2. CASE rd[p].pc # "asleep"
    BY Zenon, <1>1, <1>3, <2>2
  <2> QED
    BY Zenon, <2>1, <2>2
<1>5. rd' = [rd EXCEPT ![p] = x]
  BY Zenon, <1>1, <1>3 DEF kill, Reader
<1>6. ConsTypeOK' /\ ReadsCounted'
  BY ZenonT(60), <1>1, <1>2, <1>4, <1>5, ReadersIs, ReadersIsNext
<1>7. FullIsReadable'
  BY Zenon, <1>2 DEF FullIsReadable
<1>8. ReaderSleepsOnEmpty'
  BY Zenon, <1>1, <1>2, <1>4, <1>5 DEF ReaderSleepsOnEmpty
<1> QED
  BY Zenon, <1>6, <1>7, <1>8

(* release(&cons.lock) and the return of a read, by whoever holds the lock, *)
(* with the indices in order.                                               *)
LEMMA ReturnConsInv ==
  ASSUME ConsoleAssumption, ConsIInv, NEW p \in Readers, rd[p].pc = "loop", Return(p),
         UNCHANGED killed,
         cons' \in ConsRec,
         Around(cons'.r, cons'.w, cons'.e),
         cons.r = cons.w => cons'.r = cons'.w
  PROVE  ConsIInv'
<1> USE DEF ConsIInv
<1>1. rd \in [Readers -> Reader] /\ \A q \in Readers : Counted(rd[q])
  BY Zenon, ReadersIs
<1>2. rd' = [rd EXCEPT ![p] = Idle] /\ conslock' = None /\ Idle.pc = "user"
  BY Zenon DEF Return, Idle
<1>3. ConsTypeOK' /\ ReadsCounted'
  BY Zenon, <1>1, <1>2, IdleIs, ReadersIs, ReadersIsNext
<1>4. FullIsReadable'
  BY Zenon, <1>3, AroundIsNext
<1>5. ReaderSleepsOnEmpty'
  BY Zenon, <1>1, <1>2 DEF ReaderSleepsOnEmpty, ConsoleAssumption
<1> QED
  BY Zenon, <1>3, <1>4, <1>5

(* consoleread() takes the byte at r, which is not w. *)
LEMMA TakesByte ==
  ASSUME ConsoleAssumption, ConsIInv, cons.r # cons.w, cons' = [cons EXCEPT !.r = Inc(@)]
  PROVE  /\ cons' \in ConsRec
         /\ Around(cons'.r, cons'.w, cons'.e)
         /\ Char(cons.r) \in Stored
<1>1. /\ cons \in ConsRec
      /\ Around(cons.r, cons.w, cons.e)
  BY Zenon, ReadersIs, AroundIs DEF ConsIInv
<1>2. Inc(cons.r) \in Index /\ Around(Inc(cons.r), cons.w, cons.e)
  BY Zenon, <1>1, IncIndex, TakeAround DEF ConsRec
<1>3. cons.r % INPUT_BUF_SIZE \in 0 .. INPUT_BUF_SIZE - 1
  BY <1>1, WordIs DEF Index, ConsRec
<1> QED
  BY Zenon, <1>1, <1>2, <1>3 DEF Char, ConsRec

(* One turn of consoleread()'s loop. *)
LEMMA ConsolereadInv ==
  ASSUME ConsoleAssumption, ConsIInv, NEW p \in Readers, consoleread(p) PROVE ConsIInv'
<1>1. /\ cons \in ConsRec
      /\ Around(cons.r, cons.w, cons.e)
      /\ rd \in [Readers -> Reader] /\ \A q \in Readers : Counted(rd[q])
  BY Zenon, ReadersIs, AroundIs DEF ConsIInv
<1>2. rd[p].pc = "loop" /\ UNCHANGED killed
  BY Zenon DEF consoleread
<1>3. CASE Return(p) /\ UNCHANGED cons
  BY Zenon, <1>1, <1>2, <1>3, ReturnConsInv
<1>4. CASE cons.r # cons.w /\ Return(p) /\ cons' = [cons EXCEPT !.r = Inc(@)]
  BY ZenonT(60), <1>2, <1>4, TakesByte, ReturnConsInv
<1>5. CASE /\ cons.r = cons.w /\ UNCHANGED <<cons, conslock>>
           /\ rd' = [rd EXCEPT ![p].pc = "sleep"]
  <2>1. PICK x : x = [rd[p] EXCEPT !.pc = "sleep"]
    BY ZenonT(60)
  <2>2. x \in Reader /\ Counted(x) /\ x.pc = "sleep"
    BY Zenon, <1>1, <1>2, <2>1, MovedReader
  <2>3. rd' = [rd EXCEPT ![p] = x]
    BY Zenon, <1>5, <2>1
  <2>4. ConsTypeOK' /\ ReadsCounted'
    BY Zenon, <1>1, <1>2, <1>5, <2>2, <2>3, ReadersIs, ReadersIsNext DEF ConsIInv
  <2>5. FullIsReadable'
    BY Zenon, <1>5 DEF FullIsReadable, ConsIInv
  <2>6. ReaderSleepsOnEmpty'
    BY Zenon, <1>1, <1>2, <1>5, <2>2, <2>3 DEF ReaderSleepsOnEmpty, ConsIInv
  <2> QED
    BY Zenon, <2>4, <2>5, <2>6 DEF ConsIInv
<1>6. CASE /\ rd[p].n > 0 /\ cons.r # cons.w /\ cons' = [cons EXCEPT !.r = Inc(@)]
           /\ rd' = [rd EXCEPT ![p].n = IF Char(cons.r) = "nl" THEN 0 ELSE @ - 1,
                               ![p].got = Append(@, Char(cons.r))]
           /\ UNCHANGED conslock
  <2>1. PICK ch \in Stored : ch = Char(cons.r)
    BY Zenon, <1>6, TakesByte
  <2>2. PICK x : x = [rd[p] EXCEPT !.n = IF ch = "nl" THEN 0 ELSE rd[p].n - 1,
                                   !.got = Append(rd[p].got, ch)]
    OBVIOUS
  <2>3. x \in Reader /\ Counted(x) /\ x.pc = "loop"
    BY Zenon, <1>1, <1>2, <1>6, <2>2, ReaderTakes
  <2>4. rd' = [rd EXCEPT ![p] = x]
    BY Zenon, <1>6, <2>1, <2>2
  <2>5. ConsTypeOK' /\ ReadsCounted'
    <3>1. rd' \in [Readers -> Reader] /\ \A q \in Readers : Counted(rd'[q])
      BY Zenon, <1>1, <2>3, <2>4
    <3>2. cons' \in ConsRec
      BY Zenon, <1>6, TakesByte
    <3>3. conslock' \in Readers \cup {None} /\ killed' \in [Readers -> BOOLEAN]
      BY Zenon, <1>2, <1>6 DEF ConsIInv, ConsTypeOK
    <3> QED
      BY Zenon, <3>1, <3>2, <3>3, ReadersIsNext
  <2>6. FullIsReadable'
    BY Zenon, <1>6, <2>5, TakesByte, AroundIsNext
  <2>7. ReaderSleepsOnEmpty'
    BY ZenonT(60), <1>1, <1>2, <1>6, <2>3, <2>4 DEF ReaderSleepsOnEmpty, ConsIInv
  <2> QED
    BY Zenon, <2>5, <2>6, <2>7 DEF ConsIInv
<1> QED
  BY Zenon, <1>3, <1>4, <1>5, <1>6 DEF consoleread, eof

(* wakeup(&cons.r): nobody is asleep after it. *)
LEMMA WokenReaders ==
  ASSUME ConsIInv, rd' = Wakeup
  PROVE  /\ rd' \in [Readers -> Reader] /\ \A p \in Readers : Counted(rd'[p])
         /\ \A p \in Readers : rd'[p].pc = IF rd[p].pc = "asleep" THEN "acquire" ELSE rd[p].pc
<1>1. rd \in [Readers -> Reader] /\ \A p \in Readers : Counted(rd[p])
  BY Zenon, ReadersIs DEF ConsIInv
<1>2. \A p \in Readers :
        rd'[p] = IF rd[p].pc = "asleep" THEN [rd[p] EXCEPT !.pc = "acquire"] ELSE rd[p]
  BY Zenon DEF Wakeup
<1>3. ASSUME NEW p \in Readers
      PROVE  /\ rd'[p] \in Reader /\ Counted(rd'[p])
             /\ rd'[p].pc = IF rd[p].pc = "asleep" THEN "acquire" ELSE rd[p].pc
  <2>1. CASE rd[p].pc = "asleep"
    <3>1. PICK x : x = [rd[p] EXCEPT !.pc = "acquire"]
      BY ZenonT(60)
    <3>2. x \in Reader /\ Counted(x) /\ x.pc = "acquire"
      BY Zenon, <1>1, <2>1, <3>1, MovedReader
    <3> QED
      BY Zenon, <1>2, <2>1, <3>1, <3>2
  <2>2. CASE rd[p].pc # "asleep"
    BY Zenon, <1>1, <1>2, <2>2
  <2> QED
    BY Zenon, <2>1, <2>2
<1>4. rd' = [p \in Readers |-> rd'[p]]
  BY Zenon DEF Wakeup
<1> QED
  BY Zenon, <1>3, <1>4

(* consoleintr() leaves the indices in order; it moves w only if it wakes   *)
(* everybody, and it never moves r.                                         *)
LEMMA IntrInv ==
  ASSUME ConsoleAssumption, ConsIInv, NEW c \in Keys, consoleintr(c) PROVE ConsIInv'
<1>1. /\ cons \in ConsRec /\ Around(cons.r, cons.w, cons.e)
      /\ cons.r \in Index /\ cons.w \in Index /\ cons.e \in Index
      /\ rd \in [Readers -> Reader] /\ \A q \in Readers : Counted(rd[q])
  BY Zenon, ReadersIs, AroundIs DEF ConsIInv, ConsRec
<1>2. conslock = None /\ UNCHANGED <<conslock, killed>>
  BY Zenon DEF consoleintr
<1>3. /\ cons' \in ConsRec /\ Around(cons'.r, cons'.w, cons'.e) /\ cons'.r = cons.r
      /\ (cons'.w = cons.w /\ rd' = rd) \/ rd' = Wakeup
  <2>1. CASE UNCHANGED <<cons, rd>>
    BY Zenon, <1>1, <2>1
  <2>2. ASSUME NEW k \in 0 .. Dist(cons.w, cons.e), cons' = [cons EXCEPT !.e = (cons.e - k) % Word],
               UNCHANGED rd
        PROVE  /\ cons' \in ConsRec /\ Around(cons'.r, cons'.w, cons'.e) /\ cons'.r = cons.r
               /\ (cons'.w = cons.w /\ rd' = rd) \/ rd' = Wakeup
    <3>1. Around(cons.r, cons.w, (cons.e - k) % Word)
      BY Zenon, <1>1, EraseAround
    <3>2. PICK x \in Index : x = (cons.e - k) % Word
      BY Zenon, <3>1 DEF Around
    <3> QED
      BY Zenon, <1>1, <2>2, <3>1, <3>2 DEF ConsRec
  <2>3. CASE c = "^U"
    BY Zenon, <2>2, <2>3, KillLineIs DEF consoleintr, ConsIInv, Stored
  <2>4. CASE c = "^H" /\ cons.e # cons.w
    <3>1. 1 \in 0 .. Dist(cons.w, cons.e)
      BY <1>1, <2>4, DistIs, WordIs DEF Index
    <3>2. cons' = [cons EXCEPT !.e = (cons.e - 1) % Word] /\ UNCHANGED rd
      BY Zenon, <2>4 DEF consoleintr, Dec, Stored
    <3> QED
      BY Zenon, <2>2, <3>1, <3>2
  <2>5. CASE c \in Stored \cup {"cr"}
    <3> DEFINE ch == IF c = "cr" THEN "nl" ELSE c
               put == [cons EXCEPT !.buf[cons.e % INPUT_BUF_SIZE] = ch, !.e = Inc(@)]
    <3>1. Dist(cons.r, cons.e) < INPUT_BUF_SIZE
      BY Zenon, <2>5 DEF consoleintr, Stored, Dist
    <3>2. /\ Inc(cons.e) \in Index /\ Around(cons.r, Inc(cons.e), Inc(cons.e))
          /\ Dist(cons.r, Inc(cons.e)) # INPUT_BUF_SIZE => Around(cons.r, cons.w, Inc(cons.e))
      BY Zenon, <1>1, <3>1, IncIndex, StoreAround
    <3>3. ch \in Stored /\ cons.e % INPUT_BUF_SIZE \in 0 .. INPUT_BUF_SIZE - 1
      BY <1>1, <2>5, WordIs DEF Stored, Index
    <3>4. PICK d \in ConsRec : d = put /\ d.r = cons.r /\ d.w = cons.w /\ d.e = Inc(cons.e)
      <4>1. PICK b : b = [cons.buf EXCEPT ![cons.e % INPUT_BUF_SIZE] = ch]
        BY ZenonT(60)
      <4>2. b \in [0 .. INPUT_BUF_SIZE - 1 -> Stored]
        BY Zenon, <1>1, <3>3, <4>1 DEF ConsRec
      <4>3. put = [cons EXCEPT !.buf = b, !.e = Inc(cons.e)]
        BY Zenon, <1>1, <4>1 DEF ConsRec
      <4> QED
        BY Zenon, <1>1, <3>2, <4>2, <4>3 DEF ConsRec
    <3>5. \/ cons' = [d EXCEPT !.w = d.e] /\ rd' = Wakeup
          \/ cons' = d /\ UNCHANGED rd /\ Dist(d.r, d.e) # INPUT_BUF_SIZE
      BY Zenon, <2>5, <3>4 DEF consoleintr, Stored, Dist
    <3> QED
      BY ZenonT(60), <3>2, <3>4, <3>5 DEF ConsRec
  <2> QED
    BY Zenon, <2>1, <2>3, <2>4, <2>5 DEF consoleintr
<1>4. ConsTypeOK' /\ ReadsCounted'
  BY Zenon, <1>1, <1>2, <1>3, WokenReaders, ReadersIs, ReadersIsNext DEF ConsRec, ConsIInv
<1>5. FullIsReadable'
  BY Zenon, <1>3, <1>4, AroundIsNext
<1>6. ReaderSleepsOnEmpty'
  <2>1. CASE cons'.w = cons.w /\ rd' = rd
    BY Zenon, <1>2, <1>3, <2>1 DEF ReaderSleepsOnEmpty, ConsIInv
  <2>2. CASE rd' = Wakeup
    BY ZenonT(60), <1>1, <1>2, <2>2, WokenReaders DEF ReaderSleepsOnEmpty, ConsIInv, ConsoleAssumption
  <2> QED
    BY Zenon, <1>3, <2>1, <2>2
<1> QED
  BY Zenon, <1>4, <1>5, <1>6 DEF ConsIInv

(* Every step keeps the console's invariant. *)
LEMMA ConsNextInv ==
  ASSUME ConsoleAssumption
  PROVE  ConsIInv /\ [ConsNext]_consvars => ConsIInv'
<1> SUFFICES ASSUME ConsIInv, [ConsNext]_consvars PROVE ConsIInv'
  OBVIOUS
<1>1. CASE UNCHANGED consvars
  BY Zenon, <1>1 DEF consvars, ConsIInv, ConsTypeOK, FullIsReadable, ReaderSleepsOnEmpty, ReadsCounted
<1> QED
  BY ZenonT(60), <1>1, IntrInv, CallReadInv, AcquireConsInv, ConsolereadInv, SleepConsInv, KillConsInv
     DEF ConsNext

(* The console loses no wakeup and never jams: no reader sleeps while there *)
(* is something to read, and what fills cons.buf can be read, whoever types *)
(* and reads and whatever the size of the buffer.                           *)
THEOREM ConsoleSafe ==
  ASSUME ConsoleAssumption
  PROVE  ConsSpec => [](ReaderSleepsOnEmpty /\ FullIsReadable /\ ReadsCounted)
<1>1. ConsInit => ConsIInv
  BY Zenon, ConsInitInv
<1>2. ConsIInv => ReaderSleepsOnEmpty /\ FullIsReadable /\ ReadsCounted
  BY Zenon DEF ConsIInv
<1> QED
  BY <1>1, <1>2, ConsNextInv, PTL DEF ConsSpec

-----------------------------------------------------------------------------
(* The console implements LineInput. *)

Pos(a, k) == ((a + k - 1) % Word) % INPUT_BUF_SIZE

Slice(buf, a, n) == [k \in 1 .. n |-> buf[Pos(a, k)]]

Buffers == [0 .. INPUT_BUF_SIZE - 1 -> Stored]

(* The place of the k-th byte from index a, as the two remainders give it.  *)
LEMMA PosIs ==
  ASSUME ConsoleAssumption, NEW a \in Index, NEW k \in 1 .. INPUT_BUF_SIZE + 1
  PROVE  /\ Pos(a, k) \in 0 .. INPUT_BUF_SIZE - 1
         /\ Pos(a, k) = IF a + k - 1 < INPUT_BUF_SIZE THEN a + k - 1
                        ELSE IF a + k - 1 < Word THEN a + k - 1 - INPUT_BUF_SIZE
                        ELSE a + k - 1 - Word
<1>0. /\ Word \in Nat /\ Word > 1 /\ Word = 2 * INPUT_BUF_SIZE /\ INPUT_BUF_SIZE \in Nat \ {0}
      /\ a \in 0 .. Word - 1
  BY Zenon, WordIs DEF Index
<1>1. PICK i \in Index : i = (a + k - 1) % Word /\ i = IF a + k - 1 < Word THEN a + k - 1 ELSE a + k - 1 - Word
  <2>1. CASE a + k - 1 < Word
    <3>1. a + k - 1 \in 0 .. Word - 1
      BY <1>0, <2>1
    <3> QED
      BY <1>0, <2>1, <3>1 DEF Index
  <2>2. CASE ~(a + k - 1 < Word)
    <3>1. a + k - 1 - Word \in 0 .. Word - 1 /\ a + k - 1 = Word * 1 + (a + k - 1 - Word)
      BY <1>0, <2>2
    <3> QED
      BY <1>0, <2>2, <3>1 DEF Index
  <2> QED
    BY Zenon, <2>1, <2>2
<1>2. /\ i % INPUT_BUF_SIZE \in 0 .. INPUT_BUF_SIZE - 1
      /\ i % INPUT_BUF_SIZE = IF i < INPUT_BUF_SIZE THEN i ELSE i - INPUT_BUF_SIZE
  <2>0. i \in 0 .. Word - 1
    BY Zenon DEF Index
  <2>1. CASE i < INPUT_BUF_SIZE
    BY <1>0, <2>0, <2>1
  <2>2. CASE ~(i < INPUT_BUF_SIZE)
    <3>1. /\ i - INPUT_BUF_SIZE \in 0 .. INPUT_BUF_SIZE - 1
          /\ i = INPUT_BUF_SIZE * 1 + (i - INPUT_BUF_SIZE)
      BY <1>0, <2>0, <2>2
    <3> QED
      BY <1>0, <2>2, <3>1
  <2> QED
    BY Zenon, <2>1, <2>2
<1>3. PICK j \in 0 .. INPUT_BUF_SIZE - 1 :
        j = i % INPUT_BUF_SIZE /\ j = IF i < INPUT_BUF_SIZE THEN i ELSE i - INPUT_BUF_SIZE
  BY Zenon, <1>2
<1>4. Pos(a, k) = j
  BY Zenon, <1>1, <1>3 DEF Pos
<1>5. i = (IF a + k - 1 < Word THEN a + k - 1 ELSE a + k - 1 - Word)
      /\ j = IF i < INPUT_BUF_SIZE THEN i ELSE i - INPUT_BUF_SIZE
  BY Zenon, <1>1, <1>3
<1>6. j = IF a + k - 1 < INPUT_BUF_SIZE THEN a + k - 1
          ELSE IF a + k - 1 < Word THEN a + k - 1 - INPUT_BUF_SIZE
          ELSE a + k - 1 - Word
  BY <1>0, <1>5
<1> QED
  BY Zenon, <1>4, <1>6

(* Two of the buffer's bytes have two places. *)
LEMMA PosApart ==
  ASSUME ConsoleAssumption, NEW a \in Index,
         NEW j \in 1 .. INPUT_BUF_SIZE, NEW k \in 1 .. INPUT_BUF_SIZE, j # k
  PROVE  Pos(a, j) # Pos(a, k)
<1>1. Pos(a, j) = IF a + j - 1 < INPUT_BUF_SIZE THEN a + j - 1
                  ELSE IF a + j - 1 < Word THEN a + j - 1 - INPUT_BUF_SIZE ELSE a + j - 1 - Word
  BY WordIs, PosIs
<1>2. Pos(a, k) = IF a + k - 1 < INPUT_BUF_SIZE THEN a + k - 1
                  ELSE IF a + k - 1 < Word THEN a + k - 1 - INPUT_BUF_SIZE ELSE a + k - 1 - Word
  BY WordIs, PosIs
<1> QED
  BY <1>1, <1>2, WordIs DEF Index

(* The k-th byte from b is the one Dist(a, b) further from a. *)
LEMMA PosFrom ==
  ASSUME ConsoleAssumption, NEW a \in Index, NEW b \in Index,
         NEW k \in 1 .. INPUT_BUF_SIZE + 1, Dist(a, b) + k <= INPUT_BUF_SIZE + 1
  PROVE  Pos(b, k) = Pos(a, Dist(a, b) + k) /\ Dist(a, b) + k \in 1 .. INPUT_BUF_SIZE + 1
<1>1. PICK d \in Index : d = Dist(a, b) /\ d = IF b >= a THEN b - a ELSE b - a + Word
  BY Zenon, DistIs
<1>2. d + k \in 1 .. INPUT_BUF_SIZE + 1
  BY <1>1, WordIs DEF Index
<1>3. Pos(b, k) = IF b + k - 1 < INPUT_BUF_SIZE THEN b + k - 1
                  ELSE IF b + k - 1 < Word THEN b + k - 1 - INPUT_BUF_SIZE ELSE b + k - 1 - Word
  BY Zenon, PosIs
<1>4. Pos(a, d + k) = IF a + (d + k) - 1 < INPUT_BUF_SIZE THEN a + (d + k) - 1
                      ELSE IF a + (d + k) - 1 < Word THEN a + (d + k) - 1 - INPUT_BUF_SIZE
                      ELSE a + (d + k) - 1 - Word
  BY Zenon, <1>2, PosIs
<1>5. d = IF b >= a THEN b - a ELSE b - a + Word
  BY Zenon, <1>1
<1>6. Pos(b, k) = Pos(a, d + k)
  BY <1>2, <1>3, <1>4, <1>5, WordIs DEF Index
<1> QED
  BY Zenon, <1>1, <1>2, <1>6

(* What a stretch of the buffer holds. *)
LEMMA SliceIs ==
  ASSUME ConsoleAssumption, NEW buf \in Buffers, NEW a \in Index, NEW n \in 0 .. INPUT_BUF_SIZE
  PROVE  /\ Slice(buf, a, n) \in Seq(Stored) /\ Len(Slice(buf, a, n)) = n
         /\ \A k \in 1 .. n : Slice(buf, a, n)[k] = buf[Pos(a, k)]
<1>1. \A k \in 1 .. n : Pos(a, k) \in 0 .. INPUT_BUF_SIZE - 1
  BY PosIs, WordIs
<1>2. Slice(buf, a, n) \in [1 .. n -> Stored]
  BY Zenon, <1>1 DEF Slice, Buffers
<1> QED
  BY <1>2 DEF Slice

(* The place of the byte at index a. *)
LEMMA PosFirst ==
  ASSUME ConsoleAssumption, NEW a \in Index
  PROVE  Pos(a, 1) = a % INPUT_BUF_SIZE
<1>1. a \in 0 .. Word - 1 /\ Word \in Nat /\ Word > 1
  BY Zenon, WordIs DEF Index
<1>2. a + 1 - 1 = a
  BY <1>1
<1>3. a % Word = a
  BY <1>1
<1> QED
  BY Zenon, <1>2, <1>3 DEF Pos

(* The first byte of a stretch, and the rest. *)
LEMMA SliceTail ==
  ASSUME ConsoleAssumption, NEW buf \in Buffers, NEW a \in Index, NEW n \in 1 .. INPUT_BUF_SIZE
  PROVE  /\ Slice(buf, a, n) # <<>> /\ Head(Slice(buf, a, n)) = buf[a % INPUT_BUF_SIZE]
         /\ Slice(buf, Inc(a), n - 1) = Tail(Slice(buf, a, n))
<1>0. n - 1 \in 0 .. INPUT_BUF_SIZE /\ n \in 0 .. INPUT_BUF_SIZE /\ Inc(a) \in Index
  BY WordIs, IncIndex
<1>1. PICK s \in Seq(Stored) : /\ s = Slice(buf, a, n) /\ Len(s) = n
                               /\ \A k \in 1 .. n : s[k] = buf[Pos(a, k)]
  BY Zenon, <1>0, SliceIs
<1>2. PICK t \in Seq(Stored) : /\ t = Slice(buf, Inc(a), n - 1) /\ Len(t) = n - 1
                               /\ \A k \in 1 .. n - 1 : t[k] = buf[Pos(Inc(a), k)]
  BY ZenonT(60), <1>0, SliceIs
<1>3. s # <<>> /\ Head(s) = s[1]
  BY <1>1
<1>4. Pos(a, 1) = a % INPUT_BUF_SIZE
  BY Zenon, PosFirst
<1>5. /\ Tail(s) \in Seq(Stored) /\ Len(Tail(s)) = n - 1
      /\ \A k \in 1 .. n - 1 : Tail(s)[k] = s[k + 1]
  BY <1>1, <1>3, HeadTailProperties
<1>6. ASSUME NEW k \in 1 .. n - 1 PROVE t[k] = Tail(s)[k]
  <2>1. Dist(a, Inc(a)) = 1
    <3>1. Dist(a, a) = 0
      BY Zenon, DistIs
    <3> QED
      BY <3>1, IncFar, WordIs
  <2>2. k \in 1 .. INPUT_BUF_SIZE + 1 /\ 1 + k <= INPUT_BUF_SIZE + 1 /\ k + 1 = 1 + k
    BY WordIs
  <2>3. Pos(Inc(a), k) = Pos(a, 1 + k)
    BY <1>0, <2>1, <2>2, PosFrom
  <2>4. k + 1 \in 1 .. n
    OBVIOUS
  <2> QED
    BY <1>1, <1>2, <1>5, <2>2, <2>3, <2>4
<1>7. t = Tail(s)
  BY Zenon, <1>2, <1>5, <1>6, SeqEqual
<1> QED
  BY <1>1, <1>2, <1>3, <1>4, <1>7

(* A shorter stretch. *)
LEMMA SliceCut ==
  ASSUME ConsoleAssumption, NEW buf \in Buffers, NEW a \in Index, NEW n \in 0 .. INPUT_BUF_SIZE,
         NEW m \in 0 .. n
  PROVE  Slice(buf, a, m) = SubSeq(Slice(buf, a, n), 1, m)
<1>0. m \in 0 .. INPUT_BUF_SIZE
  BY WordIs
<1>1. PICK s \in Seq(Stored) : /\ s = Slice(buf, a, n) /\ Len(s) = n
                               /\ \A k \in 1 .. n : s[k] = buf[Pos(a, k)]
  BY Zenon, SliceIs
<1>2. PICK t \in Seq(Stored) : /\ t = Slice(buf, a, m) /\ Len(t) = m
                               /\ \A k \in 1 .. m : t[k] = buf[Pos(a, k)]
  BY Zenon, <1>0, SliceIs
<1>3. /\ SubSeq(s, 1, m) \in Seq(Stored) /\ Len(SubSeq(s, 1, m)) = m
      /\ \A k \in 1 .. m : SubSeq(s, 1, m)[k] = s[k]
  BY <1>1
<1>4. t = SubSeq(s, 1, m)
  BY <1>1, <1>2, <1>3, SeqEqual
<1> QED
  BY Zenon, <1>1, <1>2, <1>4

(* A place in the second of two stretches. *)
LEMMA SecondPart ==
  ASSUME NEW d \in Nat, NEW n \in Nat, NEW N \in Nat, d + n <= N, NEW k \in 1 .. d + n, ~(k <= d)
  PROVE  /\ k - d \in 1 .. n /\ k - d \in 1 .. N + 1
         /\ d + (k - d) = k /\ d + (k - d) <= N + 1
OBVIOUS

(* Two stretches one after the other. *)
LEMMA SliceJoin ==
  ASSUME ConsoleAssumption, NEW buf \in Buffers, NEW a \in Index, NEW b \in Index, NEW n \in Nat,
         Dist(a, b) + n <= INPUT_BUF_SIZE
  PROVE  Slice(buf, a, Dist(a, b)) \o Slice(buf, b, n) = Slice(buf, a, Dist(a, b) + n)
<1>0. PICK d \in Nat : d = Dist(a, b)
  BY DistIs, WordIs DEF Index
<1>1. d \in 0 .. INPUT_BUF_SIZE /\ n \in 0 .. INPUT_BUF_SIZE /\ d + n \in 0 .. INPUT_BUF_SIZE
  BY <1>0, WordIs
<1>2. PICK s \in Seq(Stored) : /\ s = Slice(buf, a, d) /\ Len(s) = d
                               /\ \A k \in 1 .. d : s[k] = buf[Pos(a, k)]
  BY Zenon, <1>1, SliceIs
<1>3. PICK t \in Seq(Stored) : /\ t = Slice(buf, b, n) /\ Len(t) = n
                               /\ \A k \in 1 .. n : t[k] = buf[Pos(b, k)]
  BY ZenonT(60), <1>1, SliceIs
<1>4. PICK u \in Seq(Stored) : /\ u = Slice(buf, a, d + n) /\ Len(u) = d + n
                               /\ \A k \in 1 .. d + n : u[k] = buf[Pos(a, k)]
  BY ZenonT(60), <1>1, SliceIs
<1>5. /\ s \o t \in Seq(Stored) /\ Len(s \o t) = d + n
      /\ \A k \in 1 .. d + n : (s \o t)[k] = IF k <= d THEN s[k] ELSE t[k - d]
  <2>1. /\ s \o t \in Seq(Stored) /\ Len(s \o t) = Len(s) + Len(t)
        /\ \A k \in 1 .. Len(s) + Len(t) : (s \o t)[k] = IF k <= Len(s) THEN s[k] ELSE t[k - Len(s)]
    BY ZenonT(60), ConcatProperties
  <2> QED
    BY <1>2, <1>3, <2>1, ZenonT(60)
<1>6. ASSUME NEW k \in 1 .. d + n PROVE (s \o t)[k] = u[k]
  <2>1. CASE k <= d
    <3>1. k \in 1 .. d
      BY <2>1
    <3>2. (s \o t)[k] = s[k] /\ s[k] = buf[Pos(a, k)] /\ u[k] = buf[Pos(a, k)]
      BY ZenonT(60), <1>2, <1>4, <1>5, <2>1, <3>1
    <3> QED
      BY Zenon, <3>2
  <2>2. CASE ~(k <= d)
    <3>1. k - d \in 1 .. n /\ k - d \in 1 .. INPUT_BUF_SIZE + 1 /\ d + (k - d) = k
          /\ d + (k - d) <= INPUT_BUF_SIZE + 1
      BY ZenonT(60), <1>0, <2>2, SecondPart, WordIs
    <3>2. Pos(b, k - d) = Pos(a, k)
      <4>1. Dist(a, b) + (k - d) = k /\ Dist(a, b) + (k - d) <= INPUT_BUF_SIZE + 1
        BY Zenon, <1>0, <3>1
      <4>2. Pos(b, k - d) = Pos(a, Dist(a, b) + (k - d))
        BY Zenon, <3>1, <4>1, PosFrom
      <4> QED
        BY Zenon, <4>1, <4>2
    <3> QED
      BY ZenonT(60), <1>3, <1>4, <1>5, <2>2, <3>1, <3>2
  <2> QED
    BY Zenon, <2>1, <2>2
<1>7. s \o t = u
  BY Zenon, <1>4, <1>5, <1>6, SeqEqual
<1> QED
  BY ZenonT(60), <1>0, <1>2, <1>3, <1>4, <1>7

Put(buf, i, ch) == [buf EXCEPT ![i] = ch]

(* A byte is put after the n bytes from index a. *)
LEMMA SlicePut ==
  ASSUME ConsoleAssumption, NEW buf \in Buffers, NEW a \in Index, NEW n \in 0 .. INPUT_BUF_SIZE - 1,
         NEW ch \in Stored, NEW i, i = Pos(a, n + 1)
  PROVE  /\ Put(buf, i, ch) \in Buffers
         /\ Slice(Put(buf, i, ch), a, n + 1) = Append(Slice(buf, a, n), ch)
         /\ \A m \in 0 .. n : Slice(Put(buf, i, ch), a, m) = Slice(buf, a, m)
<1> DEFINE new == Put(buf, i, ch)
<1> HIDE DEF new
<1>0. n \in 0 .. INPUT_BUF_SIZE /\ n + 1 \in 1 .. INPUT_BUF_SIZE /\ n + 1 \in 0 .. INPUT_BUF_SIZE
  BY WordIs
<1>1. Pos(a, n + 1) \in 0 .. INPUT_BUF_SIZE - 1
  BY <1>0, PosIs, WordIs
<1>2. new \in Buffers /\ new[Pos(a, n + 1)] = ch
  BY Zenon, <1>1 DEF Buffers, Put, new
<1>3. ASSUME NEW k \in 1 .. n PROVE new[Pos(a, k)] = buf[Pos(a, k)]
  <2>1. k \in 1 .. INPUT_BUF_SIZE /\ k # n + 1 /\ k \in 1 .. INPUT_BUF_SIZE + 1
    BY <1>0, WordIs
  <2>2. Pos(a, k) # Pos(a, n + 1) /\ Pos(a, k) \in 0 .. INPUT_BUF_SIZE - 1
    BY ZenonT(60), <1>0, <2>1, PosApart, PosIs
  <2> QED
    BY Zenon, <2>2 DEF Buffers, Put, new
<1>4. ASSUME NEW m \in 0 .. n PROVE Slice(new, a, m) = Slice(buf, a, m)
  BY <1>3 DEF Slice
<1>5. PICK s \in Seq(Stored) : /\ s = Slice(buf, a, n) /\ Len(s) = n
                               /\ \A k \in 1 .. n : s[k] = buf[Pos(a, k)]
  BY Zenon, <1>0, SliceIs
<1>6. PICK t \in Seq(Stored) : /\ t = Slice(new, a, n + 1) /\ Len(t) = n + 1
                               /\ \A k \in 1 .. n + 1 : t[k] = new[Pos(a, k)]
  BY ZenonT(60), <1>0, <1>2, SliceIs
<1>7. /\ Append(s, ch) \in Seq(Stored) /\ Len(Append(s, ch)) = n + 1
      /\ \A k \in 1 .. n : Append(s, ch)[k] = s[k]
      /\ Append(s, ch)[n + 1] = ch
  BY <1>5, AppendProperties
<1>8. ASSUME NEW k \in 1 .. n + 1 PROVE t[k] = Append(s, ch)[k]
  <2>1. CASE k = n + 1
    BY ZenonT(60), <1>2, <1>6, <1>7, <2>1
  <2>2. CASE k # n + 1
    <3>1. k \in 1 .. n
      BY <2>2
    <3> QED
      BY ZenonT(60), <1>3, <1>5, <1>6, <1>7, <3>1
  <2> QED
    BY Zenon, <2>1, <2>2
<1>9. t = Append(s, ch)
  BY ZenonT(60), <1>6, <1>7, <1>8, SeqEqual
<1> QED
  BY ZenonT(60), <1>2, <1>4, <1>5, <1>6, <1>9 DEF new

(* The bytes entered and the line being typed are stretches of the buffer.  *)
LEMMA Stretches ==
  /\ Entered = Slice(cons.buf, cons.r, Dist(cons.r, cons.w))
  /\ Typing = Slice(cons.buf, cons.w, Dist(cons.w, cons.e))
  /\ Entered' = Slice(cons'.buf, cons'.r, Dist(cons'.r, cons'.w))
  /\ Typing' = Slice(cons'.buf, cons'.w, Dist(cons'.w, cons'.e))
BY Zenon DEF Entered, Typing, Bytes, Char, Slice, Pos, Dist

(* Where the indices are, and how far apart. *)
LEMMA Spread ==
  ASSUME ConsoleAssumption, ConsIInv
  PROVE  /\ cons.buf \in Buffers /\ cons.r \in Index /\ cons.w \in Index /\ cons.e \in Index
         /\ Around(cons.r, cons.w, cons.e)
         /\ Dist(cons.r, cons.w) \in 0 .. INPUT_BUF_SIZE
         /\ Dist(cons.r, cons.e) \in 0 .. INPUT_BUF_SIZE
         /\ Dist(cons.w, cons.e) \in 0 .. INPUT_BUF_SIZE
         /\ Dist(cons.r, cons.e) = Dist(cons.r, cons.w) + Dist(cons.w, cons.e)
<1>1. /\ cons.buf \in Buffers /\ cons.r \in Index /\ cons.w \in Index /\ cons.e \in Index
      /\ Around(cons.r, cons.w, cons.e)
  BY Zenon, ReadersIs, AroundIs DEF ConsIInv, ConsRec, Buffers
<1>2. /\ Dist(cons.r, cons.w) \in Nat /\ Dist(cons.r, cons.e) \in Nat
      /\ Dist(cons.w, cons.e) \in Nat
  <2>1. /\ Dist(cons.r, cons.w) \in Index /\ Dist(cons.r, cons.e) \in Index
        /\ Dist(cons.w, cons.e) \in Index
    BY Zenon, <1>1, DistIs
  <2> QED
    BY <2>1, WordIs DEF Index
<1>3. Dist(cons.w, cons.e) = Dist(cons.r, cons.e) - Dist(cons.r, cons.w)
  BY Zenon, <1>1, DistVia DEF Around
<1>4. Dist(cons.r, cons.w) <= Dist(cons.r, cons.e) /\ Dist(cons.r, cons.e) <= INPUT_BUF_SIZE
  BY Zenon, <1>1 DEF Around
<1>5. INPUT_BUF_SIZE \in Nat
  BY Zenon, WordIs
<1>6. \A x, y, z, n \in Nat : z = y - x /\ x <= y /\ y <= n
        => x \in 0 .. n /\ y \in 0 .. n /\ z \in 0 .. n /\ y = x + z
  OBVIOUS
<1> QED
  BY ZenonT(60), <1>1, <1>2, <1>3, <1>4, <1>5, <1>6

(* ^H and ^U shorten the line being typed. *)
LEMMA EraseSteps ==
  ASSUME ConsoleAssumption, ConsIInv, NEW k \in 0 .. Dist(cons.w, cons.e),
         cons' = [cons EXCEPT !.e = (cons.e - k) % Word]
  PROVE  /\ Entered' = Entered
         /\ \E n \in 0 .. Len(Typing) : Typing' = SubSeq(Typing, 1, n)
<1>1. /\ cons.buf \in Buffers /\ cons.r \in Index /\ cons.w \in Index /\ cons.e \in Index
      /\ Dist(cons.w, cons.e) \in 0 .. INPUT_BUF_SIZE
  BY Zenon, Spread
<1>2. cons'.buf = cons.buf /\ cons'.r = cons.r /\ cons'.w = cons.w /\ cons'.e = (cons.e - k) % Word
  BY Zenon, ReadersIs DEF ConsIInv, ConsRec
<1>3. Dist(cons.w, cons'.e) = Dist(cons.w, cons.e) - k
  BY <1>1, <1>2, BackFar
<1>4. PICK n \in 0 .. Dist(cons.w, cons.e) : n = Dist(cons.w, cons.e) - k
  BY <1>1, WordIs
<1>5. Len(Typing) = Dist(cons.w, cons.e)
  BY ZenonT(60), <1>1, SliceIs, Stretches
<1>6. Typing' = SubSeq(Typing, 1, n)
  BY <1>1, <1>2, <1>3, <1>4, SliceCut, Stretches
<1> QED
  BY ZenonT(60), <1>2, <1>4, <1>5, <1>6, Stretches

(* consoleread() takes the first of the bytes entered. *)
LEMMA TakeSteps ==
  ASSUME ConsoleAssumption, ConsIInv, cons.r # cons.w
  PROVE  /\ Entered # <<>> /\ Head(Entered) = Char(cons.r) /\ Entered \in Seq(Stored)
         /\ cons' = [cons EXCEPT !.r = Inc(@)] => Entered' = Tail(Entered) /\ Typing' = Typing
<1>1. /\ cons.buf \in Buffers /\ cons.r \in Index /\ cons.w \in Index
      /\ Dist(cons.r, cons.w) \in 0 .. INPUT_BUF_SIZE
  BY Zenon, Spread
<1>2. Dist(cons.r, cons.w) \in 1 .. INPUT_BUF_SIZE
  BY <1>1, DistIs, WordIs
<1>3. Dist(Inc(cons.r), cons.w) = Dist(cons.r, cons.w) - 1
  BY Zenon, <1>1, IncNear
<1>4. /\ Entered # <<>> /\ Head(Entered) = Char(cons.r)
      /\ Tail(Entered) = Slice(cons.buf, Inc(cons.r), Dist(cons.r, cons.w) - 1)
  BY ZenonT(60), <1>1, <1>2, SliceTail, Stretches DEF Char
<1>5. Entered \in Seq(Stored)
  BY Zenon, <1>1, SliceIs, Stretches
<1>6. ASSUME cons' = [cons EXCEPT !.r = Inc(@)]
      PROVE  Entered' = Tail(Entered) /\ Typing' = Typing
  <2>1. /\ cons'.buf = cons.buf /\ cons'.r = Inc(cons.r) /\ cons'.w = cons.w
        /\ cons'.e = cons.e
    BY Zenon, <1>6, ReadersIs DEF ConsIInv, ConsRec
  <2> QED
    BY Zenon, <1>3, <1>4, <2>1, Stretches
<1> QED
  BY Zenon, <1>4, <1>5, <1>6

(* consoleintr() adds a byte to the line, and enters the line when it ends  *)
(* or the buffer is full.                                                   *)
LEMMA TypeSteps ==
  ASSUME ConsoleAssumption, ConsIInv, NEW ch \in Stored, NEW put,
         Dist(cons.r, cons.e) < INPUT_BUF_SIZE,
         put = [cons EXCEPT !.buf[cons.e % INPUT_BUF_SIZE] = ch, !.e = Inc(@)]
  PROVE  /\ Entered \in Seq(Stored) /\ Typing \in Seq(Stored)
         /\ Len(Entered) + Len(Typing) < INPUT_BUF_SIZE
         /\ Dist(put.r, put.e) = Len(Entered) + Len(Append(Typing, ch))
         /\ cons' = put => Entered' = Entered /\ Typing' = Append(Typing, ch)
         /\ cons' = [put EXCEPT !.w = put.e] =>
              Entered' = Entered \o Append(Typing, ch) /\ Typing' = <<>>
<1>1. /\ cons.buf \in Buffers /\ cons.r \in Index /\ cons.w \in Index /\ cons.e \in Index
      /\ Dist(cons.r, cons.w) \in 0 .. INPUT_BUF_SIZE
      /\ Dist(cons.r, cons.e) \in 0 .. INPUT_BUF_SIZE
      /\ Dist(cons.w, cons.e) \in 0 .. INPUT_BUF_SIZE
      /\ Dist(cons.r, cons.e) = Dist(cons.r, cons.w) + Dist(cons.w, cons.e)
  BY Zenon, Spread
<1>2. PICK r, w, e, i, buf, d, m, u :
        /\ r = cons.r /\ w = cons.w /\ e = cons.e /\ i = Inc(e) /\ buf = cons.buf
        /\ d = Dist(r, w) /\ m = Dist(w, e) /\ u = Dist(r, e)
  OBVIOUS
<1>3. /\ buf \in Buffers /\ r \in Index /\ w \in Index /\ e \in Index /\ i \in Index
      /\ d \in 0 .. INPUT_BUF_SIZE /\ u \in 0 .. INPUT_BUF_SIZE - 1 /\ u = d + m
      /\ m \in 0 .. INPUT_BUF_SIZE - 1
  BY <1>1, <1>2, IncIndex, WordIs
<1>4. Dist(r, i) = u + 1 /\ Dist(w, i) = m + 1
  <2>1. /\ Dist(r, e) <= INPUT_BUF_SIZE /\ Dist(r, e) < INPUT_BUF_SIZE
        /\ Dist(w, e) <= INPUT_BUF_SIZE /\ Dist(w, e) < INPUT_BUF_SIZE
    BY <1>2, <1>3, WordIs
  <2>2. Dist(r, Inc(e)) = Dist(r, e) + 1
    BY Zenon, <1>3, <2>1, IncFar
  <2>3. Dist(w, Inc(e)) = Dist(w, e) + 1
    BY Zenon, <1>3, <2>1, IncFar
  <2> QED
    BY ZenonT(60), <1>2, <2>2, <2>3
<1>5. Pos(r, u + 1) = e % INPUT_BUF_SIZE /\ Pos(w, m + 1) = e % INPUT_BUF_SIZE
  <2>1. 1 \in 1 .. INPUT_BUF_SIZE + 1 /\ u + 1 <= INPUT_BUF_SIZE + 1 /\ m + 1 <= INPUT_BUF_SIZE + 1
    BY <1>3, WordIs
  <2>2. Pos(e, 1) = Pos(r, u + 1) /\ Pos(e, 1) = Pos(w, m + 1)
    BY <1>2, <1>3, <2>1, PosFrom
  <2> QED
    BY Zenon, <1>3, <2>2, PosFirst
<1>6. PICK new : new = Put(buf, e % INPUT_BUF_SIZE, ch)
  OBVIOUS
<1>7. /\ new \in Buffers /\ Slice(new, r, d) = Slice(buf, r, d)
      /\ Slice(new, w, m + 1) = Append(Slice(buf, w, m), ch)
  <2>1. d \in 0 .. u
    BY <1>3, WordIs
  <2> QED
    <3>1. /\ new \in Buffers
          /\ \A k \in 0 .. u : Slice(new, r, k) = Slice(buf, r, k)
      <4>1. PICK at : at = e % INPUT_BUF_SIZE /\ at = Pos(r, u + 1) /\ new = Put(buf, at, ch)
        BY Zenon, <1>5, <1>6
      <4>2. buf \in Buffers /\ r \in Index /\ u \in 0 .. INPUT_BUF_SIZE - 1
        BY Zenon, <1>3
      <4>3. /\ Put(buf, at, ch) \in Buffers
            /\ \A k \in 0 .. u : Slice(Put(buf, at, ch), r, k) = Slice(buf, r, k)
        BY <4>1, <4>2, SlicePut
      <4> QED
        BY Zenon, <4>1, <4>3
    <3>2. Slice(new, w, m + 1) = Append(Slice(buf, w, m), ch)
      <4>1. PICK at : at = e % INPUT_BUF_SIZE /\ at = Pos(w, m + 1) /\ new = Put(buf, at, ch)
        BY Zenon, <1>5, <1>6
      <4>2. buf \in Buffers /\ w \in Index /\ m \in 0 .. INPUT_BUF_SIZE - 1
        BY Zenon, <1>3
      <4>3. Slice(Put(buf, at, ch), w, m + 1) = Append(Slice(buf, w, m), ch)
        BY <4>1, <4>2, SlicePut
      <4> QED
        BY Zenon, <4>1, <4>3
    <3> QED
      BY Zenon, <2>1, <3>1, <3>2
<1>8. Slice(new, r, u + 1) = Slice(new, r, d) \o Slice(new, w, m + 1)
  <2>1. m + 1 \in Nat /\ d + (m + 1) <= INPUT_BUF_SIZE /\ d + (m + 1) = u + 1
    BY <1>3, WordIs
  <2> QED
    <3>1. Dist(r, w) + (m + 1) <= INPUT_BUF_SIZE /\ Dist(r, w) + (m + 1) = u + 1 /\ d = Dist(r, w)
      BY Zenon, <1>2, <2>1
    <3>2. Slice(new, r, Dist(r, w)) \o Slice(new, w, m + 1) = Slice(new, r, Dist(r, w) + (m + 1))
      BY ZenonT(60), <1>3, <1>7, <2>1, <3>1, SliceJoin
    <3> QED
      BY Zenon, <3>1, <3>2
<1>9. put \in ConsRec /\ put.buf = new /\ put.r = r /\ put.w = w /\ put.e = i
  <2>1. cons \in ConsRec
    BY Zenon, ReadersIs DEF ConsIInv
  <2>2. put = [cons EXCEPT !.buf = new, !.e = i]
    BY ZenonT(60), <1>2, <1>6, <2>1 DEF ConsRec, Put
  <2> QED
    BY ZenonT(60), <1>2, <1>3, <1>7, <2>1, <2>2 DEF ConsRec, Buffers
<1>10. /\ Entered \in Seq(Stored) /\ Len(Entered) = d /\ Entered = Slice(buf, r, d)
       /\ Typing \in Seq(Stored) /\ Len(Typing) = m /\ Typing = Slice(buf, w, m)
       /\ Len(Append(Typing, ch)) = m + 1
  <2>1. m \in 0 .. INPUT_BUF_SIZE
    BY <1>3, WordIs
  <2>2. /\ Entered \in Seq(Stored) /\ Len(Entered) = d /\ Entered = Slice(buf, r, d)
        /\ Typing \in Seq(Stored) /\ Len(Typing) = m /\ Typing = Slice(buf, w, m)
    BY <1>2, <1>3, <2>1, SliceIs, Stretches
  <2> QED
    BY ZenonT(60), <2>2, AppendProperties
<1>11. ASSUME cons' = put PROVE Entered' = Entered /\ Typing' = Append(Typing, ch)
  BY ZenonT(60), <1>2, <1>4, <1>7, <1>9, <1>10, <1>11, Stretches
<1>12. ASSUME cons' = [put EXCEPT !.w = put.e]
       PROVE  Entered' = Entered \o Append(Typing, ch) /\ Typing' = <<>>
  <2>1. cons'.buf = new /\ cons'.r = r /\ cons'.w = i /\ cons'.e = i
    BY Zenon, <1>9, <1>12 DEF ConsRec
  <2>2. Entered' = Entered \o Append(Typing, ch)
    BY ZenonT(60), <1>4, <1>7, <1>8, <1>10, <2>1, Stretches
  <2>3. Dist(i, i) = 0 /\ 0 \in 0 .. INPUT_BUF_SIZE
    BY <1>3, DistIs, WordIs
  <2>4. Typing' \in Seq(Stored) /\ Len(Typing') = 0
    BY <1>3, <1>7, <2>1, <2>3, SliceIs, Stretches
  <2> QED
    BY ZenonT(60), <2>2, <2>4, EmptySeq
<1>13. /\ Len(Entered) + Len(Typing) < INPUT_BUF_SIZE
       /\ Dist(put.r, put.e) = Len(Entered) + Len(Append(Typing, ch))
  <2>1. d + m < INPUT_BUF_SIZE /\ u + 1 = d + (m + 1)
    BY <1>3, WordIs
  <2> QED
    BY ZenonT(60), <1>4, <1>9, <1>10, <2>1
<1> QED
  BY ZenonT(60), <1>10, <1>11, <1>12, <1>13

(* A reader that only moves in the kernel reads on as before. *)
LEMMA ReadingSame ==
  ASSUME ConsIInv, rd' \in [Readers -> Reader],
         \A p \in Readers : rd'[p].target = rd[p].target /\ rd'[p].got = rd[p].got
  PROVE  Reading' = Reading
BY Zenon DEF Reading

(* One reader's part changes. *)
LEMMA ReadingOf ==
  ASSUME ConsIInv, NEW p \in Readers, NEW x, rd' = [rd EXCEPT ![p] = x]
  PROVE  /\ Reading' = [Reading EXCEPT ![p] = [n |-> x.target, got |-> x.got]]
         /\ Reading[p] = [n |-> rd[p].target, got |-> rd[p].got]
<1>1. rd \in [Readers -> Reader]
  BY Zenon, ReadersIs DEF ConsIInv
<1> QED
  BY Zenon, <1>1 DEF Reading

(* A byte typed is LineInput's Type, ^H and ^U are its Erase. *)
LEMMA IntrSteps ==
  ASSUME ConsoleAssumption, ConsIInv, NEW c \in Keys, consoleintr(c)
  PROVE  [L!Next]_<<Entered, Typing, Reading>>
<1>1. rd \in [Readers -> Reader]
  BY Zenon, ReadersIs DEF ConsIInv
<1>2. rd' = rd \/ rd' = Wakeup
  BY Zenon DEF consoleintr
<1>3. Reading' = Reading
  <2>1. CASE rd' = rd
    BY Zenon, <2>1 DEF Reading
  <2>2. CASE rd' = Wakeup
    <3>1. \A p \in Readers : rd'[p].target = rd[p].target /\ rd'[p].got = rd[p].got
      BY Zenon, <1>1, <2>2 DEF Wakeup, Reader
    <3> QED
      BY Zenon, <2>2, <3>1, WokenReaders, ReadingSame
  <2> QED
    BY Zenon, <1>2, <2>1, <2>2
<1>4. CASE UNCHANGED cons
  BY Zenon, <1>3, <1>4 DEF Entered, Typing, Bytes, Char
<1>5. ASSUME NEW k \in 0 .. Dist(cons.w, cons.e), cons' = [cons EXCEPT !.e = (cons.e - k) % Word]
      PROVE  L!Next
  BY Zenon, <1>3, <1>5, EraseSteps DEF L!Next, L!Erase
<1>6. CASE c = "^U"
  BY ZenonT(60), <1>5, <1>6, KillLineIs DEF consoleintr, ConsIInv, Stored
<1>7. CASE c = "^H" /\ cons.e # cons.w
  <2>1. 1 \in 0 .. Dist(cons.w, cons.e)
    <3>1. /\ cons.w \in Index /\ cons.e \in Index
          /\ Dist(cons.w, cons.e) \in 0 .. INPUT_BUF_SIZE
      BY Zenon, Spread
    <3>2. Dist(cons.w, cons.e) # 0
      BY ZenonT(60), <1>7, <3>1, DistIs
    <3> QED
      BY <3>1, <3>2, WordIs
  <2>2. cons' = [cons EXCEPT !.e = (cons.e - 1) % Word]
    BY Zenon, <1>7 DEF consoleintr, Dec, Stored
  <2> QED
    BY ZenonT(60), <1>5, <2>1, <2>2
<1>8. CASE c \in Stored \cup {"cr"}
  <2>1. PICK ch \in Stored : ch = IF c = "cr" THEN "nl" ELSE c
    BY Zenon, <1>8 DEF Stored
  <2>2. PICK put : put = [cons EXCEPT !.buf[cons.e % INPUT_BUF_SIZE] = ch, !.e = Inc(@)]
    OBVIOUS
  <2>3. /\ Dist(cons.r, cons.e) < INPUT_BUF_SIZE
        /\ IF ch \in {"nl", "eof"} \/ Dist(put.r, put.e) = INPUT_BUF_SIZE
           THEN cons' = [put EXCEPT !.w = put.e] ELSE cons' = put
    BY ZenonT(60), <1>8, <2>1, <2>2 DEF consoleintr, Stored, Dist
  <2>4. /\ Len(Entered) + Len(Typing) < INPUT_BUF_SIZE
        /\ Dist(put.r, put.e) = Len(Entered) + Len(Append(Typing, ch))
        /\ cons' = put => Entered' = Entered /\ Typing' = Append(Typing, ch)
        /\ cons' = [put EXCEPT !.w = put.e] =>
             Entered' = Entered \o Append(Typing, ch) /\ Typing' = <<>>
    BY ZenonT(60), <2>2, <2>3, TypeSteps
  <2>5. L!Type(ch)
    BY Zenon, <1>3, <2>3, <2>4 DEF L!Type
  <2> QED
    BY Zenon, <2>5 DEF L!Next
<1> QED
  BY ZenonT(60), <1>4, <1>6, <1>7, <1>8 DEF consoleintr

(* A turn of consoleread()'s loop takes a byte, or ends the read. *)
LEMMA ReadSteps ==
  ASSUME ConsoleAssumption, ConsIInv, NEW p \in Readers, consoleread(p)
  PROVE  [L!Next]_<<Entered, Typing, Reading>>
<1>1. rd \in [Readers -> Reader] /\ rd[p] \in Reader /\ Counted(rd[p])
  BY Zenon, ReadersIs DEF ConsIInv
<1>2. PICK n, t, got : n = rd[p].n /\ t = rd[p].target /\ got = rd[p].got
  BY ZenonT(60)
<1>3. /\ got \in Seq(Stored) /\ Len(got) \in Nat /\ n \in Nat /\ t \in Nat /\ Len(got) <= t
      /\ n = IF EndsLine(got) THEN 0 ELSE t - Len(got)
  <2>1. got \in Seq(Stored) /\ n \in Nat /\ t \in {0} \cup Counts
    BY Zenon, <1>1, <1>2 DEF Reader
  <2>2. t \in Nat
    BY <2>1 DEF ConsoleAssumption
  <2>3. Len(got) \in Nat
    BY Zenon, <2>1, LenProperties
  <2> QED
    BY Zenon, <1>1, <1>2, <2>1, <2>2, <2>3 DEF Counted
<1>4. Reading[p] = [n |-> t, got |-> got]
  BY Zenon, <1>2 DEF Reading
<1>5. /\ L!Whole(Reading[p]) <=> n = 0
      /\ n > 0 => t > 0 /\ (got = <<>> <=> ~(n < t))
  <2>1. got = <<>> <=> Len(got) = 0
    BY Zenon, <1>3, EmptySeq
  <2>2. L!Whole(Reading[p]) <=> (Len(got) = t \/ EndsLine(got))
    BY <1>4 DEF L!Whole, EndsLine
  <2> QED
    BY <1>3, <2>1, <2>2 DEF EndsLine
<1>6. UNCHANGED cons => Entered' = Entered /\ Typing' = Typing
  BY Zenon DEF Entered, Typing, Bytes, Char
<1>7. Return(p) => Reading' = [Reading EXCEPT ![p] = L!Done]
  <2>1. Return(p) => rd' = [rd EXCEPT ![p] = Idle]
    BY Zenon DEF Return
  <2>2. Return(p) => Reading' = [Reading EXCEPT ![p] = [n |-> Idle.target, got |-> Idle.got]]
    BY Zenon, <2>1, ReadingOf
  <2> QED
    BY Zenon, <2>2 DEF Idle, L!Done
<1>8. CASE n = 0 /\ Return(p) /\ UNCHANGED cons
  <2>1. CASE t > 0
    BY <1>4, <1>5, <1>6, <1>7, <1>8, <2>1 DEF L!Next, L!Return
  <2>2. CASE t = 0
    <3>1. got = <<>>
      BY <1>3, <2>2, EmptySeq
    <3>2. Reading' = Reading
      BY ZenonT(60), <1>4, <1>7, <1>8, <2>2, <3>1 DEF Reading, L!Done
    <3> QED
      BY ZenonT(60), <1>6, <1>8, <3>2
  <2> QED
    BY <1>3, <2>1, <2>2
<1>9. CASE n > 0 /\ Return(p) /\ UNCHANGED cons /\ cons.r = cons.w
  <2>1. L!Fail(p)
    BY <1>4, <1>5, <1>6, <1>7, <1>9 DEF L!Fail
  <2> QED
    BY Zenon, <2>1 DEF L!Next
<1>10. CASE cons.r = cons.w /\ UNCHANGED cons /\ rd' = [rd EXCEPT ![p].pc = "sleep"]
  <2>1. Reading' = Reading
    BY ZenonT(60), <1>1, <1>10 DEF Reading, Reader
  <2> QED
    BY ZenonT(60), <1>6, <1>10, <2>1
<1>11. CASE n > 0 /\ cons.r # cons.w
  <2>1. /\ Entered # <<>> /\ Head(Entered) = Char(cons.r)
        /\ cons' = [cons EXCEPT !.r = Inc(@)] => Entered' = Tail(Entered) /\ Typing' = Typing
    BY ZenonT(60), <1>11, TakeSteps
  <2>2. CASE Char(cons.r) = "eof" /\ eof(p)
    <3>1. L!Return(p)
      BY <1>2, <1>4, <1>5, <1>6, <1>7, <1>11, <2>1, <2>2 DEF L!Return, eof
    <3> QED
      BY ZenonT(60), <3>1 DEF L!Next
  <2>3. CASE Char(cons.r) # "eof" /\ cons' = [cons EXCEPT !.r = Inc(@)] /\ Return(p)
    <3>1. L!Fail(p)
      BY <1>4, <1>5, <1>7, <1>11, <2>1, <2>3 DEF L!Fail
    <3> QED
      BY Zenon, <3>1 DEF L!Next
  <2>4. CASE /\ Char(cons.r) # "eof" /\ cons' = [cons EXCEPT !.r = Inc(@)]
             /\ rd' = [rd EXCEPT ![p].n = IF Char(cons.r) = "nl" THEN 0 ELSE @ - 1,
                                 ![p].got = Append(@, Char(cons.r))]
    <3>1. PICK x : x = [rd[p] EXCEPT !.n = IF Char(cons.r) = "nl" THEN 0 ELSE n - 1,
                                     !.got = Append(got, Char(cons.r))]
      OBVIOUS
    <3>2. x.target = t /\ x.got = Append(got, Head(Entered))
      BY ZenonT(60), <1>1, <1>2, <2>1, <3>1 DEF Reader
    <3>3. rd' = [rd EXCEPT ![p] = x]
      BY ZenonT(60), <1>2, <2>4, <3>1
    <3>4. Reading' = [Reading EXCEPT ![p].got = Append(@, Head(Entered))]
      <4>1. Reading' = [Reading EXCEPT ![p] = [n |-> x.target, got |-> x.got]]
        BY ZenonT(60), <3>3, ReadingOf
      <4>2. [n |-> x.target, got |-> x.got] = [Reading[p] EXCEPT !.got = Append(got, Head(Entered))]
        <5>1. PICK g : g = Append(got, Head(Entered))
          BY ZenonT(60)
        <5>2. [[n |-> t, got |-> got] EXCEPT !.got = g] = [n |-> t, got |-> g]
          OBVIOUS
        <5> QED
          BY ZenonT(60), <1>4, <3>2, <5>1, <5>2
      <4>3. Reading[p].got = got
        BY <1>4
      <4> QED
        BY ZenonT(60), <4>1, <4>2, <4>3
    <3>5. L!Take(p)
      BY <1>4, <1>5, <1>11, <2>1, <2>4, <3>4 DEF L!Take
    <3> QED
      BY Zenon, <3>5 DEF L!Next
  <2> QED
    BY <1>2, <1>11, <2>2, <2>3, <2>4 DEF consoleread
<1> QED
  BY ZenonT(60), <1>2, <1>3, <1>8, <1>9, <1>10, <1>11 DEF consoleread

(* What a reader does outside the loop is nothing to LineInput, but for the *)
(* beginning of a read.                                                     *)
LEMMA ReaderSteps ==
  ASSUME ConsoleAssumption, ConsIInv, NEW p \in Readers,
         call_read(p) \/ acquire(p) \/ sleep(p) \/ kill(p)
  PROVE  [L!Next]_<<Entered, Typing, Reading>>
<1>1. rd \in [Readers -> Reader] /\ rd[p] \in Reader /\ Counted(rd[p])
  BY Zenon, ReadersIs DEF ConsIInv
<1>2. Entered' = Entered /\ Typing' = Typing
  BY Zenon DEF call_read, acquire, sleep, kill, Entered, Typing, Bytes, Char
<1>3. CASE call_read(p)
  <2>1. PICK n \in Counts :
          rd' = [rd EXCEPT ![p] = [pc |-> "acquire", n |-> n, target |-> n, got |-> <<>>]]
    BY Zenon, <1>3 DEF call_read
  <2>2. Reading' = [Reading EXCEPT ![p] = [n |-> n, got |-> <<>>]]
    <3>1. PICK x : x = [pc |-> "acquire", n |-> n, target |-> n, got |-> <<>>]
      BY ZenonT(60)
    <3>2. x.target = n /\ x.got = <<>> /\ rd' = [rd EXCEPT ![p] = x]
      BY Zenon, <2>1, <3>1
    <3>3. Reading' = [Reading EXCEPT ![p] = [n |-> x.target, got |-> x.got]]
      BY Zenon, <3>2, ReadingOf
    <3> QED
      BY Zenon, <3>2, <3>3
  <2>3. Reading[p].n = 0
    BY <1>1, <1>3 DEF call_read, Counted, Idle, Reading
  <2>4. L!Begin(p)
    BY ZenonT(60), <1>2, <2>2, <2>3 DEF L!Begin
  <2> QED
    BY Zenon, <2>4 DEF L!Next
<1>4. CASE acquire(p) \/ sleep(p) \/ kill(p)
  <2>1. Reading' = Reading
    <3>1. PICK s : rd' = [rd EXCEPT ![p].pc = s]
      BY Zenon, <1>4 DEF acquire, sleep, kill
    <3>2. \A q \in Readers : rd'[q].target = rd[q].target /\ rd'[q].got = rd[q].got
      BY Zenon, <1>1, <3>1 DEF Reader
    <3> QED
      BY Zenon, <3>2 DEF Reading
  <2> QED
    BY Zenon, <1>2, <2>1
<1> QED
  BY Zenon, <1>3, <1>4

(* consoleintr() and consoleread() implement LineInput: what is typed can   *)
(* be edited until its line ends, and is then read in order, each byte      *)
(* once, by at most one reader, whatever the size of the buffer.            *)
THEOREM IsLineInputHolds ==
  ASSUME ConsoleAssumption
  PROVE  ConsSpec => IsLineInput
<1>1. ConsInit => L!Init
  <2> SUFFICES ASSUME ConsInit PROVE L!Init
    OBVIOUS
  <2>1. ConsIInv /\ cons.r = 0 /\ cons.w = 0 /\ cons.e = 0
    BY Zenon, ConsInitInv DEF ConsInit
  <2>2. 0 \in Index /\ Dist(0, 0) = 0 /\ cons.buf \in Buffers /\ 0 \in 0 .. INPUT_BUF_SIZE
    <3>1. 0 \in Index /\ cons.buf \in Buffers
      BY Zenon, <2>1, Spread
    <3>2. Dist(0, 0) = 0
      BY Zenon, <3>1, DistIs
    <3>3. 0 \in 0 .. INPUT_BUF_SIZE
      BY WordIs
    <3> QED
      BY Zenon, <3>1, <3>2, <3>3
  <2>3. PICK s \in Seq(Stored) : s = Slice(cons.buf, 0, 0) /\ Len(s) = 0
    BY ZenonT(60), <2>2, SliceIs
  <2>4. Entered = <<>> /\ Typing = <<>>
    BY Zenon, <2>1, <2>2, <2>3, Stretches, EmptySeq
  <2>5. Reading = [p \in Readers |-> L!Done]
    BY Zenon DEF ConsInit, Reading, Idle, L!Done
  <2> QED
    BY Zenon, <2>4, <2>5 DEF L!Init
<1>2. ConsInit => ConsIInv
  BY Zenon, ConsInitInv
<1>3. ConsIInv /\ [ConsNext]_consvars => [L!Next]_<<Entered, Typing, Reading>>
  <2> SUFFICES ASSUME ConsIInv, [ConsNext]_consvars
               PROVE  [L!Next]_<<Entered, Typing, Reading>>
    OBVIOUS
  <2>1. CASE UNCHANGED consvars
    BY Zenon, <2>1 DEF consvars, Entered, Typing, Reading, Bytes, Char
  <2> QED
    BY ZenonT(60), <2>1, IntrSteps, ReadSteps, ReaderSteps DEF ConsNext
<1> QED
  BY <1>1, <1>2, <1>3, ConsNextInv, PTL DEF ConsSpec, IsLineInput, L!Spec
==============================================================================
