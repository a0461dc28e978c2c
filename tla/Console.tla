------------------------------- MODULE Console -------------------------------
(***************************************************************************)
(* Input from the console, kernel/console.c: consoleintr(), which the      *)
(* UART's interrupt calls for each character typed, and consoleread(),     *)
(* which processes call and sleep in.  The echo is in module Uart.         *)
(***************************************************************************)
EXTENDS Integers, Sequences

CONSTANTS
  Readers,          \* processes that read the console
  None,
  INPUT_BUF_SIZE,
  Counts            \* bound: how much they read at a time

ConsoleAssumption == INPUT_BUF_SIZE \in Nat \ {0} /\ Counts \subseteq Nat /\ None \notin Readers

Word == 2 * INPUT_BUF_SIZE    \* uint: wraps here
Stored == {"a", "nl", "eof"}  \* a character, a newline, ^D
Keys == Stored \cup {"cr", "^P", "^U", "^H", "nul"}

VARIABLES
  cons,      \* buf, r, w, e
  conslock,  \* cons.lock: the reader that holds it
  rd,        \* of each reader: where it is, what it still wants, the bytes it has
  killed

consvars == <<cons, conslock, rd, killed>>

ConsTypeOK ==
  /\ cons \in [buf : [0 .. INPUT_BUF_SIZE - 1 -> Stored], r : 0 .. Word - 1, w : 0 .. Word - 1,
               e : 0 .. Word - 1]
  /\ conslock \in Readers \cup {None}
  /\ rd \in [Readers -> [pc : {"user", "acquire", "loop", "sleep", "asleep"}, n : Nat,
                         target : {0} \cup Counts, got : Seq(Stored)]]
  /\ killed \in [Readers -> BOOLEAN]

Idle == [pc |-> "user", n |-> 0, target |-> 0, got |-> <<>>]

ConsInit ==
  /\ cons = [buf |-> [k \in 0 .. INPUT_BUF_SIZE - 1 |-> "a"], r |-> 0, w |-> 0, e |-> 0]
  /\ conslock = None
  /\ rd = [p \in Readers |-> Idle]
  /\ killed = [p \in Readers |-> FALSE]

Inc(i) == (i + 1) % Word
Dec(i) == (i - 1) % Word
Char(i) == cons.buf[i % INPUT_BUF_SIZE]
-----------------------------------------------------------------------------
(* ^U: back to the start of the line, e == w or a newline. *)
KillLine ==
  LET size == (cons.e - cons.w) % Word
      stop == {k \in 0 .. size : k = size \/ Char((cons.e - k - 1) % Word) = "nl"}
  IN (cons.e - (CHOOSE k \in stop : \A j \in stop : k <= j)) % Word

(* wakeup(&cons.r) *)
Wakeup == [p \in Readers |-> IF rd[p].pc = "asleep" THEN [rd[p] EXCEPT !.pc = "acquire"] ELSE rd[p]]

consoleintr(c) ==
  /\ conslock = None
  /\ \/ c \in {"^P", "nul"} /\ UNCHANGED <<cons, rd>>
     \/ c = "^U" /\ cons' = [cons EXCEPT !.e = KillLine] /\ UNCHANGED rd
     \/ /\ c = "^H"
        /\ cons' = IF cons.e # cons.w THEN [cons EXCEPT !.e = Dec(@)] ELSE cons
        /\ UNCHANGED rd
     \/ /\ c \in Stored \cup {"cr"}
        /\ (cons.e - cons.r) % Word < INPUT_BUF_SIZE
        /\ LET ch == IF c = "cr" THEN "nl" ELSE c
               put == [cons EXCEPT !.buf[cons.e % INPUT_BUF_SIZE] = ch, !.e = Inc(@)]
           IN IF ch \in {"nl", "eof"} \/ (put.e - put.r) % Word = INPUT_BUF_SIZE
              THEN cons' = [put EXCEPT !.w = put.e] /\ rd' = Wakeup
              ELSE cons' = put /\ UNCHANGED rd
  /\ UNCHANGED <<conslock, killed>>

-----------------------------------------------------------------------------
call_read(p) ==
  /\ rd[p].pc = "user" /\ ~killed[p]
  /\ \E n \in Counts : rd' = [rd EXCEPT ![p] = [pc |-> "acquire", n |-> n, target |-> n, got |-> <<>>]]
  /\ UNCHANGED <<cons, conslock, killed>>

acquire(p) ==
  /\ rd[p].pc = "acquire" /\ conslock = None
  /\ conslock' = p
  /\ rd' = [rd EXCEPT ![p].pc = "loop"]
  /\ UNCHANGED <<cons, killed>>

(* release(&cons.lock) and the return of the read(). *)
Return(p) == rd' = [rd EXCEPT ![p] = Idle] /\ conslock' = None

(* Mutant: ^D is taken away also when it ends a read that has bytes. *)
eof_taken(p) ==
  /\ cons' = [cons EXCEPT !.r = Inc(@)]
  /\ Return(p)

eof(p) ==
  /\ cons' = IF rd[p].n < rd[p].target THEN cons ELSE [cons EXCEPT !.r = Inc(@)]
  /\ Return(p)

(* Mutant: sleep() lets go of cons.lock before the test of cons.r. *)
consoleread_unlocked(p) ==
  /\ rd[p].pc = "loop"
  /\ \/ rd[p].n > 0 /\ cons.r = cons.w /\ conslock' = None /\ rd' = [rd EXCEPT ![p].pc = "sleep"]
     \/ (rd[p].n = 0 \/ cons.r # cons.w) /\ Return(p)
  /\ UNCHANGED <<cons, killed>>

(* One turn of consoleread()'s loop. *)
consoleread(p) ==
  /\ rd[p].pc = "loop"
  /\ \/ rd[p].n = 0 /\ Return(p) /\ UNCHANGED cons
     \/ /\ rd[p].n > 0 /\ cons.r = cons.w
        /\ IF killed[p] THEN Return(p)
           ELSE rd' = [rd EXCEPT ![p].pc = "sleep"] /\ UNCHANGED conslock
        /\ UNCHANGED cons
     \/ /\ rd[p].n > 0 /\ cons.r # cons.w /\ Char(cons.r) = "eof"
        /\ eof(p)
     \/ /\ rd[p].n > 0 /\ cons.r # cons.w /\ Char(cons.r) # "eof"
        /\ cons' = [cons EXCEPT !.r = Inc(@)]
        /\ \/ Return(p)                   \* either_copyout() failed
           \/ /\ rd' = [rd EXCEPT ![p].n = IF Char(cons.r) = "nl" THEN 0 ELSE @ - 1,
                                  ![p].got = Append(@, Char(cons.r))]
              /\ UNCHANGED conslock
  /\ UNCHANGED killed

(* sleep(&cons.r, &cons.lock) *)
sleep(p) ==
  /\ rd[p].pc = "sleep"
  /\ rd' = [rd EXCEPT ![p].pc = "asleep"]
  /\ conslock' = None
  /\ UNCHANGED <<cons, killed>>

kill(p) ==
  /\ ~killed[p]
  /\ killed' = [killed EXCEPT ![p] = TRUE]
  /\ rd' = [rd EXCEPT ![p].pc = IF @ = "asleep" THEN "acquire" ELSE @]
  /\ UNCHANGED <<cons, conslock>>

ConsNext ==
  \/ \E c \in Keys : consoleintr(c)
  \/ \E p \in Readers : call_read(p) \/ acquire(p) \/ consoleread(p) \/ sleep(p) \/ kill(p)

ConsSpec == ConsInit /\ [][ConsNext]_consvars
-----------------------------------------------------------------------------
(* r, w and e follow one another round the buffer, and a full buffer can be *)
(* read: otherwise nothing more could be typed into it and nobody would be  *)
(* woken to empty it, ever.                                                 *)
FullIsReadable ==
  /\ (cons.w - cons.r) % Word <= (cons.e - cons.r) % Word
  /\ (cons.e - cons.r) % Word <= INPUT_BUF_SIZE
  /\ (cons.e - cons.r) % Word = INPUT_BUF_SIZE => cons.w = cons.e

(* No reader sleeps while there is something to read: consoleread() holds   *)
(* cons.lock from its test of cons.r == cons.w until it is asleep.          *)
ReaderSleepsOnEmpty ==
  \A p \in Readers : /\ rd[p].pc \in {"loop", "sleep"} <=> conslock = p
                     /\ rd[p].pc \in {"sleep", "asleep"} => cons.r = cons.w

EndsLine(got) == got # <<>> /\ got[Len(got)] = "nl"

(* A reader has copied out what it asked for less n, or a line, with n      *)
(* none; one that is not in consoleread() asks for nothing.                 *)
ReadsCounted ==
  \A p \in Readers :
    /\ rd[p].pc = "user" => rd[p] = Idle
    /\ Len(rd[p].got) <= rd[p].target
    /\ rd[p].n = IF EndsLine(rd[p].got) THEN 0 ELSE rd[p].target - Len(rd[p].got)

Bytes(from, to) == [k \in 1 .. (to - from) % Word |-> Char((from + k - 1) % Word)]

Entered == Bytes(cons.r, cons.w)
Typing  == Bytes(cons.w, cons.e)
Reading == [p \in Readers |-> [n |-> rd[p].target, got |-> rd[p].got]]

L == INSTANCE LineInput WITH
       Keys <- Stored, Size <- INPUT_BUF_SIZE,
       entered <- Entered, typing <- Typing, reading <- Reading

(* consoleintr() and consoleread() together do what LineInput says, with    *)
(* [r, w) the bytes entered and [w, e) the line being typed.                *)
IsLineInput == L!Spec
=============================================================================
