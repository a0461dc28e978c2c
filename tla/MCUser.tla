------------------------------- MODULE MCUser -------------------------------
(***************************************************************************)
(* The user programs for TLC: the shell's parser, the shell running what   *)
(* the parser returns, the allocator, primes and grep.  They share no      *)
(* state, so a behaviour runs one of them, and the states add up instead   *)
(* of multiplying.                                                         *)
(***************************************************************************)
EXTENDS Integers, Sequences

VARIABLES part, toks, proc, content, typed, failed, ptr, size, freep, brk, live, foreign, adrift,
          stage, pipe, printed, short, re, file, buf, seen, out, over

P == INSTANCE ShellParser WITH Words <- {"x"}, MAXARGS <- 3, LENGTH <- 5
Q == INSTANCE ShellParser WITH Words <- {"echo", "cat", "x"}, MAXARGS <- 3, LENGTH <- 0

(* Pipelines of three, lists in a pipeline, both redirections, an empty     *)
(* command, a program that is not there; and a pipeline in the background   *)
(* while another command runs.                                              *)
Typing ==
  {<< <<"echo", "|", "cat", "|", "cat">> >>,
   << <<"(", "echo", ";", "echo", ")", "|", "cat", ">", "x">> >>,
   << <<"cat", "|", "x">> >>, << <<"echo", ";">> >>,
   << <<"echo", "|", "cat", "&">>, <<"cat", "<", "x">> >>}

Sessions == {[i \in DOMAIN s |-> Q!parsecmd(s[i]).cmd] : s \in Typing}

S == INSTANCE Shell WITH PROCS <- 9, PIPES <- 4, NOFILE <- 6, PIPESIZE <- 1

(* Requests of nothing, of parts of a unit and of whole ones; of the most   *)
(* that an int can ask for, one byte more, and those at which the int       *)
(* becomes small again, negative and positive.                              *)
A == INSTANCE Umalloc WITH HEAP <- 9, MINUNITS <- 3, HDR <- 2, INT <- 64,
                           Requests <- {0, 3, 9, 28, 29, 60, 63}
V == INSTANCE Sieve WITH TOT_NUMS <- 11, PIPESIZE <- 4, INT <- 2
G == INSTANCE Grep WITH Chars <- {"a", "b"}, BUF <- 3, PATTERN <- 3, FILE <- 3

shellvars == <<proc, content, typed, failed>>
heapvars == <<ptr, size, freep, brk, live, foreign, adrift>>
sievevars == <<stage, pipe, printed, short>>
grepvars == <<re, file, buf, seen, out, over>>
vars == <<part, toks, shellvars, heapvars, sievevars, grepvars>>

MCInit ==
  /\ part \in {"parser", "shell", "malloc", "primes", "grep"}
  /\ P!ParserInit /\ S!ShellInit /\ A!HeapInit /\ V!SieveInit
  /\ part # "shell" => typed = CHOOSE s \in Sessions : TRUE
  /\ IF part = "grep" THEN G!GrepInit
     ELSE re = <<>> /\ file = <<>> /\ buf = <<>> /\ seen = <<>> /\ out = <<>> /\ over = FALSE

MCNext ==
  /\ \/ part = "parser" /\ P!ParserNext /\ UNCHANGED <<shellvars, heapvars, sievevars, grepvars>>
     \/ part = "shell" /\ S!ShellNext /\ UNCHANGED <<toks, heapvars, sievevars, grepvars>>
     \/ part = "malloc" /\ A!HeapNext /\ UNCHANGED <<toks, shellvars, sievevars, grepvars>>
     \/ part = "primes" /\ V!SieveNext /\ UNCHANGED <<toks, shellvars, heapvars, grepvars>>
     \/ part = "grep" /\ G!GrepNext /\ UNCHANGED <<toks, shellvars, heapvars, sievevars>>
  /\ UNCHANGED part

(* Every process of a pipeline goes on when it can: the kernel's scheduler  *)
(* is fair.                                                                 *)
Fairness ==
  /\ \A p \in S!Procs : WF_vars(/\ part = "shell" /\ S!Step(p)
                                /\ UNCHANGED <<part, toks, heapvars, sievevars, grepvars>>)
  /\ \A k \in V!Procs : WF_vars(/\ part = "primes" /\ V!Step(k)
                                /\ UNCHANGED <<part, toks, shellvars, heapvars, grepvars>>)

MCSpec == MCInit /\ [][MCNext]_vars /\ Fairness

(* The types of the five modules' state. *)
TypeOK == P!ParserTypeOK /\ S!ShellTypeOK /\ A!HeapTypeOK /\ V!SieveTypeOK /\ G!GrepTypeOK

(* parsecmd() of sh.c builds the one tree that the grammar gives to a line, *)
(* and panics on lines that have none (module ShellParser).                 *)
ParsesGrammar == P!ParsesGrammar

(* A program that runcmd() executes has its input, its output and the       *)
(* console as descriptors 0, 1 and 2 and no other open, and at sh.c's       *)
(* prompt only background processes still run (module Shell).               *)
ShellRight == TypeOK /\ S!StdioRight /\ S!ForegroundDone

(* The prompt comes back: no process of a pipeline waits for ever for the   *)
(* end of its input (module Shell).                                         *)
PromptReturns == S!PromptReturns

(* malloc() and free() lose no unit of memory and hand out none twice, give *)
(* each request its bytes, and keep the free list in order with neighbours  *)
(* joined, for every request that an int can pass to sbrk() (module         *)
(* Umalloc).                                                                *)
HeapRight == A!EveryUnitOnce /\ A!ListJoined /\ A!AskedInInt

(* The pipeline of primes.c comes to an end, and has printed the primes by  *)
(* then (module Sieve).                                                     *)
SieveEnds == part = "primes" => V!SieveEnds

(* grep.c writes the lines that match, however read() cuts the file         *)
(* (module Grep).                                                           *)
GrepLines == G!GrepLines
=============================================================================
