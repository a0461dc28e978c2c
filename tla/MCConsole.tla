------------------------------ MODULE MCConsole ------------------------------
(***************************************************************************)
(* The console's two halves and the clock for TLC.  They share no state,   *)
(* so a behaviour runs one of them, and the states add up instead of       *)
(* multiplying.                                                            *)
(***************************************************************************)
EXTENDS Console, Clock

CONSTANTS Writers, Printers, Intr

VARIABLES part, tx, txlock, pr, panicked, fifo, thri, rx, line, made, cpu

(* ^P, which prints (0), then a key that echoes one byte. *)
Typed == {<<0, 1>>}

U == INSTANCE Uart WITH UART_TX_BUF_SIZE <- 2, FIFO <- 4, Count <- 2, Message <- 2, Keys <- Typed

ASSUME Bounds == ClockAssumption /\ ConsoleAssumption

(* The arguments of sleep(). *)
SleepFor == {-1, 1, 3}

uartvars == <<tx, txlock, pr, panicked, fifo, thri, rx, line, made, cpu>>
vars == <<part, uartvars, consvars, clockvars>>

MCInit == part \in {"uart", "console", "clock"} /\ U!UartInit /\ ConsInit /\ ClockInit

MCNext ==
  /\ \/ part = "uart" /\ U!UartNext /\ UNCHANGED <<consvars, clockvars>>
     \/ part = "console" /\ ConsNext /\ UNCHANGED <<uartvars, clockvars>>
     \/ part = "clock" /\ ClockNext /\ UNCHANGED <<uartvars, consvars>>
  /\ UNCHANGED part

(* The UART sends and interrupts, and a CPU in the kernel goes on; nobody   *)
(* has to call printf().                                                    *)
Runs(A) == part = "uart" /\ A /\ UNCHANGED <<part, consvars, clockvars>>

Fairness ==
  /\ WF_vars(Runs(U!send)) /\ WF_vars(Runs(U!plic_claim)) /\ WF_vars(Runs(U!uartintr))
  /\ \A a \in U!CPUs : WF_vars(Runs(U!Kernel(a)))

MCSpec == MCInit /\ [][MCNext]_vars /\ Fairness

(* The types of the three modules' state. *)
TypeOK == U!UartTypeOK /\ ConsTypeOK /\ ClockTypeOK

(* Every byte that write(), printf() or the echo gives the UART goes out    *)
(* once and in its source's order, and the messages of two printf()s do not *)
(* mix (module Uart).                                                       *)
OutputInOrder == U!OutputInOrder /\ U!PrintfWhole

(* Nobody sleeps without cause: in uartputc() while the ring has room, in   *)
(* consoleread() while there is input, in sys_sleep() when the time is up;  *)
(* what fills cons.buf can be read, and a read counts what it has got       *)
(* (modules Uart, Console, Clock).                                          *)
ConsoleInv ==
  /\ TypeOK
  /\ U!WriterSleepsOnFull /\ ReaderSleepsOnEmpty /\ FullIsReadable /\ ReadsCounted
  /\ NoOversleep

(* consolewrite() returns and the ring is emptied, unless the kernel        *)
(* panics: the UART interrupts whenever it may have to be given more, also  *)
(* when whoever had the ring's lock found it busy with a byte of printf()'s *)
(* or of the echo.                                                          *)
WritesOut == (part = "uart") ~> (panicked \/ (tx.w = tx.r /\ \A a \in Writers : cpu[a].pc = "user"))

(* Output comes out: consolewrite() returns, the ring is emptied, and the   *)
(* message of a panic() goes out whole.                                     *)
OutputFlows == WritesOut /\ U!PanicHeard
=============================================================================
