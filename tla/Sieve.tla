-------------------------------- MODULE Sieve --------------------------------
(***************************************************************************)
(* The pipeline of user/primes.c: main() writes 2, 3, ... into a pipe;     *)
(* every process of primes() prints the first number it reads and passes   *)
(* on, through a pipe to a child it forks, those it does not divide.       *)
(*                                                                         *)
(* Process 0 is main(); process k reads pipe k and writes pipe k + 1.  A   *)
(* pipe is the bytes in it and the processes that have its ends open; an   *)
(* int is INT bytes, and read() and write() meet at the level of bytes.    *)
(***************************************************************************)
EXTENDS Integers, Sequences, FiniteSets

CONSTANTS TOT_NUMS, PIPESIZE, INT

Procs == 0 .. TOT_NUMS          \* no more processes than numbers, and main()
Pipes == 1 .. TOT_NUMS + 1

VARIABLES
  stage,     \* of each process: where it is, its prime, the number in hand, bytes of it to write
  pipe,      \* of each pipe: bytes, processes with its write and its read end open
  printed,   \* what has been printed
  short      \* whether a pipe() or fork() has failed

sievevars == <<stage, pipe, printed, short>>

SieveTypeOK ==
  /\ stage \in [Procs -> [pc : {"none", "start", "first", "fork", "read", "write", "close", "wait", "exit"},
                          prime : 0 .. TOT_NUMS, num : 0 .. TOT_NUMS, left : 0 .. INT]]
  /\ \A k \in Pipes : /\ Len(pipe[k].bytes) <= PIPESIZE
                      /\ pipe[k].w \subseteq Procs /\ pipe[k].r \subseteq Procs
  /\ printed \in Seq(2 .. TOT_NUMS)
  /\ short \in BOOLEAN

Idle == [pc |-> "none", prime |-> 0, num |-> 0, left |-> 0]

SieveInit ==
  /\ stage = [k \in Procs |-> IF k = 0 THEN [Idle EXCEPT !.pc = "fork", !.num = 2] ELSE Idle]
  /\ pipe = [k \in Pipes |-> [bytes |-> <<>>, w |-> {}, r |-> {}]]
  /\ printed = <<>> /\ short = FALSE

Goto(k, pc) == stage' = [stage EXCEPT ![k].pc = pc]

(* pipe() and fork() of process k.  The code looks at neither's failure:    *)
(* the parent goes on and closes the read end, and after a failed pipe(),   *)
(* where the descriptors are not set, every use of them is taken to fail.   *)
fork(k) ==
  /\ stage[k].pc = "fork"
  /\ \E piped, forked \in BOOLEAN :
       /\ LET child == IF forked THEN {k + 1} ELSE {}
              ends  == IF piped THEN [bytes |-> <<>>, w |-> {k} \cup child, r |-> child]
                       ELSE pipe[k + 1]
          IN pipe' = [j \in Pipes |-> CASE j = k + 1 -> ends
                                        [] j = k     -> [pipe[j] EXCEPT !.r = @ \cup child]
                                        [] OTHER     -> pipe[j]]
       /\ short' = (short \/ ~piped \/ ~forked)
       /\ stage' = [stage EXCEPT ![k].pc = IF k = 0 THEN "write" ELSE "read",
                                 ![k].left = IF k = 0 THEN INT ELSE 0,
                                 ![k + 1].pc = IF forked THEN "start" ELSE "none"]
  /\ UNCHANGED printed

(* Mutant: the child keeps the write end of its own input open. *)
start_open(k) ==
  /\ stage[k].pc = "start"
  /\ pipe' = [j \in Pipes |-> IF j = k - 1 THEN [pipe[j] EXCEPT !.r = @ \ {k}] ELSE pipe[j]]
  /\ Goto(k, "first")
  /\ UNCHANGED <<printed, short>>

(* The child closes the write end of its input and its parent's input. *)
start(k) ==
  /\ stage[k].pc = "start"
  /\ pipe' = [j \in Pipes |-> CASE j = k     -> [pipe[j] EXCEPT !.w = @ \ {k}]
                                [] j = k - 1 -> [pipe[j] EXCEPT !.r = @ \ {k}]
                                [] OTHER     -> pipe[j]]
  /\ Goto(k, "first")
  /\ UNCHANGED <<printed, short>>

(* read() by process k of an int: piperead() of kernel/pipe.c waits for     *)
(* some bytes or the end, and takes what there is; it fails for the lack of *)
(* a descriptor only, as nobody kills these processes.                      *)
NoPipe(k) == k \notin pipe[k].r
Readable(k) == pipe[k].bytes # <<>> \/ pipe[k].w = {}
Got(k) == SubSeq(pipe[k].bytes, 1, IF Len(pipe[k].bytes) < INT THEN Len(pipe[k].bytes) ELSE INT)
Taken(k) == [pipe EXCEPT ![k].bytes = SubSeq(@, Len(Got(k)) + 1, Len(@))]

(* The number that the bytes read make up. *)
Num(k) == Got(k)[1][1]

(* The read of the prime.  At the end of the input, or when the read fails, *)
(* the process exits.                                                       *)
first(k) ==
  /\ stage[k].pc = "first" /\ (NoPipe(k) \/ Readable(k))
  /\ IF NoPipe(k) \/ Got(k) = <<>>
     THEN /\ pipe' = [pipe EXCEPT ![k].r = @ \ {k}]
          /\ Goto(k, "exit")
          /\ UNCHANGED printed
     ELSE /\ pipe' = Taken(k)
          /\ printed' = Append(printed, Num(k))
          /\ stage' = [stage EXCEPT ![k].pc = "fork", ![k].prime = Num(k)]
  /\ UNCHANGED short

Passes(n, prime) == n % prime # 0

(* The loop's read: pass the number on, drop it, or stop. *)
read(k) ==
  /\ stage[k].pc = "read" /\ Readable(k)
  /\ pipe' = Taken(k)
  /\ stage' = [stage EXCEPT
       ![k] = CASE Got(k) = <<>> -> [@ EXCEPT !.pc = "close"]
                [] Got(k) # <<>> /\ Passes(Num(k), @.prime) ->
                     [@ EXCEPT !.pc = "write", !.num = Num(k), !.left = INT]
                [] OTHER -> @]
  /\ UNCHANGED <<printed, short>>

(* pipewrite() of kernel/pipe.c: as many bytes as there is room for under   *)
(* one hold of the pipe's lock.                                             *)
Room(k) == LET free == PIPESIZE - Len(pipe[k].bytes)
           IN IF free < stage[k - 1].left THEN free ELSE stage[k - 1].left

(* write() of the number in hand into pipe k + 1, of which the code does    *)
(* not look at the result; then on to the next number.                      *)
Written(k) ==
  IF k > 0 THEN [stage[k] EXCEPT !.pc = "read", !.num = 0, !.left = 0]
  ELSE IF stage[0].num < TOT_NUMS THEN [stage[0] EXCEPT !.num = @ + 1, !.left = INT]
  ELSE [stage[0] EXCEPT !.pc = "close", !.num = 0, !.left = 0]

write(k) ==
  /\ stage[k].pc = "write"
  /\ IF pipe[k + 1].r = {}
     THEN stage' = [stage EXCEPT ![k] = Written(k)] /\ UNCHANGED pipe
     ELSE LET n == Room(k + 1)
              done == INT - stage[k].left
          IN /\ n > 0
             /\ pipe' = [pipe EXCEPT ![k + 1].bytes =
                           @ \o [b \in 1 .. n |-> <<stage[k].num, done + b>>]]
             /\ stage' = [stage EXCEPT ![k] = IF n = @.left THEN Written(k)
                                              ELSE [@ EXCEPT !.left = @ - n]]
  /\ UNCHANGED <<printed, short>>

close(k) ==
  /\ stage[k].pc = "close"
  /\ pipe' = [j \in Pipes |-> [pipe[j] EXCEPT !.w = @ \ {k}, !.r = @ \ {k}]]
  /\ Goto(k, "wait")
  /\ UNCHANGED <<printed, short>>

(* wait() of the only child, or of none. *)
wait(k) ==
  /\ stage[k].pc = "wait" /\ stage[k + 1].pc \in {"none", "exit"}
  /\ Goto(k, "exit")
  /\ UNCHANGED <<pipe, printed, short>>

Step(k) == fork(k) \/ start(k) \/ first(k) \/ read(k) \/ write(k) \/ close(k) \/ wait(k)
SieveNext == \E k \in Procs : Step(k)
-----------------------------------------------------------------------------
IsPrime(n) == n > 1 /\ \A d \in 2 .. n - 1 : n % d # 0
Primes(n) == {p \in 2 .. n : IsPrime(p)}

(* What is printed is the primes from the first on, in order; and all of    *)
(* them by the time main() exits, unless a pipe() or fork() failed.         *)
PrintsPrimes ==
  /\ \A i \in DOMAIN printed : Primes(printed[i]) = {printed[j] : j \in 1 .. i}
  /\ \A i, j \in DOMAIN printed : i < j => printed[i] < printed[j]
  /\ stage[0].pc = "exit" /\ ~short => {printed[i] : i \in DOMAIN printed} = Primes(TOT_NUMS)

(* The pipeline comes to an end and has printed the primes.  Every process  *)
(* sees the end of its input, which it does only when all have closed the   *)
(* write end; and read(), whose result the code compares with 0 only, gets  *)
(* whole ints, as PIPESIZE is a multiple of an int.                         *)
SieveEnds == <>(PrintsPrimes /\ \A k \in Procs : stage[k].pc \in {"none", "exit"})
=============================================================================
