-------------------------------- MODULE Uart --------------------------------
(***************************************************************************)
(* Output through the UART, kernel/uart.c, under the three that use it:    *)
(* user write()s by way of the ring and interrupts (consolewrite,          *)
(* uartputc), printf() and panic() of kernel/printf.c, and the echo of     *)
(* typed characters in the interrupt handler, both of which poll           *)
(* (uartputc_sync) without the ring's lock.                                *)
(*                                                                         *)
(* A byte is its source and its number among that source's bytes.          *)
(***************************************************************************)
EXTENDS Integers, Sequences, FiniteSets

CONSTANTS
  Writers,            \* processes in consolewrite()
  Printers,           \* CPUs that call printf() or panic()
  Intr,               \* the CPU that serves the UART's interrupt: the PLIC gives it to one
  None,
  UART_TX_BUF_SIZE,
  FIFO,               \* the UART's transmit FIFO, 16 bytes
  Count, Message,     \* bound: bytes of a write(), characters of a printf()
  Keys                \* bound: what is typed, by the characters that it echoes

Word == 2 * UART_TX_BUF_SIZE    \* uint64: wraps here
CPUs == Writers \cup Printers \cup {Intr}
Ring == "ring"                  \* the source of what comes by the ring
Sources == Printers \cup {Intr, Ring}

VARIABLES
  tx,          \* uart_tx_buf, uart_tx_w, uart_tx_r
  txlock,      \* uart_tx_lock: who holds it
  pr,          \* pr.lock and pr.locking
  panicked,
  fifo, thri,  \* UART: bytes to send, "transmitter empty" interrupt pending
  rx,          \* UART: characters to receive
  line,        \* what has gone out, by source
  made,        \* how many bytes each source has made
  cpu          \* where each CPU is

uartvars == <<tx, txlock, pr, panicked, fifo, thri, rx, line, made, cpu>>

PCs == {"user", "uartputc", "asleep", "woken", "uartstart", "thr", "printf", "acquire", "sync",
        "sync_thr", "printf_end", "uartintr", "spin", "halt"}

UartTypeOK ==
  /\ tx.w \in 0 .. Word - 1 /\ tx.r \in 0 .. Word - 1
  /\ tx.buf \in [0 .. UART_TX_BUF_SIZE - 1 -> Nat]
  /\ txlock \in CPUs \cup {None}
  /\ pr \in [lock : CPUs \cup {None}, locking : BOOLEAN]
  /\ {panicked, thri} \subseteq BOOLEAN
  /\ Len(fifo) <= FIFO
  /\ made \in [Sources -> Nat]
  /\ cpu \in [CPUs -> [pc : PCs, left : Nat, c : Nat, locking : BOOLEAN,
                      call : {"none", "printf", "panic"}]]

UartInit ==
  /\ tx = [buf |-> [k \in 0 .. UART_TX_BUF_SIZE - 1 |-> 0], w |-> 0, r |-> 0]
  /\ txlock = None /\ pr = [lock |-> None, locking |-> TRUE] /\ panicked = FALSE
  /\ fifo = <<>> /\ thri = FALSE
  /\ rx \in Keys
  /\ line = [s \in Sources |-> <<>>] /\ made = [s \in Sources |-> 0]
  /\ cpu = [a \in CPUs |-> [pc |-> IF a \in Writers THEN "uartputc" ELSE "user",
                            left |-> IF a \in Writers THEN Count ELSE 0,
                            c |-> 0, locking |-> FALSE, call |-> "none"]]

At(a, pc)   == cpu[a].pc = pc
Goto(a, pc) == cpu' = [cpu EXCEPT ![a].pc = pc]
-----------------------------------------------------------------------------
(* The UART (external). *)

(* WriteReg(THR, c), which also clears the interrupt. *)
WriteTHR(s, k) ==
  /\ fifo' = IF Len(fifo) < FIFO THEN Append(fifo, <<s, k>>) ELSE fifo
  /\ thri' = FALSE

LSR_TX_IDLE == fifo = <<>>

send ==
  /\ fifo # <<>>
  /\ fifo' = Tail(fifo)
  /\ line' = [line EXCEPT ![Head(fifo)[1]] = Append(@, Head(fifo)[2])]
  /\ thri' = (thri \/ Tail(fifo) = <<>>)
  /\ UNCHANGED <<tx, txlock, pr, panicked, rx, made, cpu>>
-----------------------------------------------------------------------------
(* Mutant: full one byte too late. *)
Full_late == tx.w = (tx.r + UART_TX_BUF_SIZE + 1) % Word

Full == tx.w = (tx.r + UART_TX_BUF_SIZE) % Word

(* The end of consolewrite()'s turn: the next byte, unless reading it fails. *)
NextByte(a, ok) ==
  IF ok /\ cpu[a].left > 1 THEN [cpu[a] EXCEPT !.pc = "uartputc", !.left = @ - 1]
  ELSE [cpu[a] EXCEPT !.pc = "user", !.left = 0]

(* panicked is tested on entry, not again after a sleep(). *)
uartputc(a) ==
  /\ cpu[a].pc \in {"uartputc", "woken"} /\ txlock = None
  /\ \/ /\ At(a, "uartputc") /\ panicked
        /\ txlock' = a
        /\ Goto(a, "spin")
        /\ UNCHANGED <<tx, made>>
     \/ /\ At(a, "woken") \/ ~panicked
        /\ Full
        /\ Goto(a, "asleep")
        /\ UNCHANGED <<tx, txlock, made>>
     \/ /\ At(a, "woken") \/ ~panicked
        /\ ~Full
        /\ tx' = [tx EXCEPT !.buf[tx.w % UART_TX_BUF_SIZE] = made[Ring] + 1, !.w = (@ + 1) % Word]
        /\ made' = [made EXCEPT ![Ring] = @ + 1]
        /\ txlock' = a
        /\ Goto(a, "uartstart")
  /\ UNCHANGED <<pr, panicked, fifo, thri, rx, line>>

(* wakeup(&uart_tx_r) *)
Wakeup(f) == [a \in CPUs |-> IF f[a].pc = "asleep" THEN [f[a] EXCEPT !.pc = "woken"] ELSE f[a]]

(* One turn of uartstart()'s loop, up to the write to THR; or its end, with *)
(* the release of uart_tx_lock and the end of the handler.                  *)
uartstart(a) ==
  /\ At(a, "uartstart")
  /\ \/ /\ tx.w # tx.r /\ LSR_TX_IDLE
        /\ cpu' = Wakeup([cpu EXCEPT ![a].pc = "thr", ![a].c = tx.buf[tx.r % UART_TX_BUF_SIZE]])
        /\ tx' = [tx EXCEPT !.r = (@ + 1) % Word, !.buf[tx.r % UART_TX_BUF_SIZE] = 0]
        /\ UNCHANGED <<txlock, thri>>
     \/ /\ tx.w = tx.r \/ ~LSR_TX_IDLE
        /\ thri' = (thri /\ tx.w # tx.r)     \* ReadReg(ISR) clears it
        /\ txlock' = None
        /\ \E ok \in BOOLEAN : cpu' = [cpu EXCEPT ![a] = NextByte(a, ok)]
        /\ UNCHANGED tx
  /\ UNCHANGED <<pr, panicked, fifo, rx, line, made>>

start_thr(a) ==
  /\ At(a, "thr")
  /\ WriteTHR(Ring, cpu[a].c)
  /\ cpu' = [cpu EXCEPT ![a].pc = "uartstart", ![a].c = 0]
  /\ UNCHANGED <<tx, txlock, pr, panicked, rx, line, made>>
-----------------------------------------------------------------------------
(* uartputc_sync() of cpu[a].left characters. *)
uartputc_sync(a) ==
  /\ At(a, "sync")
  /\ \/ panicked /\ Goto(a, "spin")
     \/ ~panicked /\ LSR_TX_IDLE /\ Goto(a, "sync_thr")
  /\ UNCHANGED <<tx, txlock, pr, panicked, fifo, thri, rx, line, made>>

(* The write of the character; after the last one, out of printf()'s loop  *)
(* or on to the next key.                                                  *)
sync_thr(a) ==
  /\ At(a, "sync_thr")
  /\ WriteTHR(a, made[a] + 1)
  /\ made' = [made EXCEPT ![a] = @ + 1]
  /\ cpu' = [cpu EXCEPT ![a].left = @ - 1,
                        ![a].pc = CASE cpu[a].left > 1 -> "sync"
                                    [] cpu[a].call = "none" -> "uartintr" [] OTHER -> "printf_end"]
  /\ UNCHANGED <<tx, txlock, pr, panicked, rx, line>>

(* A call of printf(), or of panic(), which unlocks printing first; the two *)
(* printf()s of panic(), which then do not lock, are one message.           *)
call_printf(a) ==
  /\ a \in Printers /\ At(a, "user") /\ made[a] = 0
  /\ \E call \in {"printf", "panic"} :
       /\ pr' = [pr EXCEPT !.locking = @ /\ call = "printf"]
       /\ cpu' = [cpu EXCEPT ![a].pc = "printf", ![a].call = call]
  /\ UNCHANGED <<tx, txlock, panicked, fifo, thri, rx, line, made>>

printf(a) ==
  /\ At(a, "printf")
  /\ cpu' = [cpu EXCEPT ![a].locking = pr.locking, ![a].left = Message,
                        ![a].pc = IF pr.locking THEN "acquire" ELSE "sync"]
  /\ UNCHANGED <<tx, txlock, pr, panicked, fifo, thri, rx, line, made>>

(* printf()'s acquire(&pr.lock), although a panic() may have cleared        *)
(* pr.locking since it was read.                                            *)
printf_acquire(a) ==
  /\ At(a, "acquire") /\ pr.lock = None
  /\ pr' = [pr EXCEPT !.lock = a]
  /\ Goto(a, "sync")
  /\ UNCHANGED <<tx, txlock, panicked, fifo, thri, rx, line, made>>

printf_end(a) ==
  /\ At(a, "printf_end")
  /\ pr' = IF cpu[a].locking THEN [pr EXCEPT !.lock = None] ELSE pr
  /\ panicked' = (panicked \/ cpu[a].call = "panic")
  /\ cpu' = [cpu EXCEPT ![a].call = "none", ![a].locking = FALSE,
                        ![a].pc = CASE cpu[a].call = "panic" -> "halt"
                                    [] a = Intr -> "uartintr" [] OTHER -> "user"]
  /\ UNCHANGED <<tx, txlock, fifo, thri, rx, line, made>>
-----------------------------------------------------------------------------
(* devintr(): the PLIC has an interrupt of the UART's. *)
plic_claim ==
  /\ At(Intr, "user") /\ (rx # <<>> \/ thri)
  /\ Goto(Intr, "uartintr")
  /\ UNCHANGED <<tx, txlock, pr, panicked, fifo, thri, rx, line, made>>

(* Mutant: the interrupt handler leaves the ring to the writers. *)
uartintr_input ==
  /\ At(Intr, "uartintr")
  /\ \/ rx # <<>> /\ rx' = Tail(rx) /\ cpu' = [cpu EXCEPT ![Intr].left = 1, ![Intr].pc = "sync"]
     \/ rx = <<>> /\ UNCHANGED rx /\ Goto(Intr, "user")
  /\ UNCHANGED <<tx, txlock, pr, panicked, fifo, thri, line, made>>

(* consoleintr() of each character: ^P prints the processes, others echo.   *)
(* Then the ring, with uart_tx_lock.                                        *)
uartintr ==
  /\ At(Intr, "uartintr")
  /\ \/ /\ rx # <<>>
        /\ rx' = Tail(rx)
        /\ cpu' = [cpu EXCEPT ![Intr].left = Head(rx),
                              ![Intr].call = IF Head(rx) = 0 THEN "printf" ELSE "none",
                              ![Intr].pc = IF Head(rx) = 0 THEN "printf" ELSE "sync"]
        /\ UNCHANGED txlock
     \/ /\ rx = <<>> /\ txlock = None
        /\ txlock' = Intr
        /\ Goto(Intr, "uartstart")
        /\ UNCHANGED rx
  /\ UNCHANGED <<tx, pr, panicked, fifo, thri, line, made>>

Kernel(a) == \/ uartputc(a) \/ uartstart(a) \/ start_thr(a)
             \/ uartputc_sync(a) \/ sync_thr(a)
             \/ printf(a) \/ printf_acquire(a) \/ printf_end(a)

UartNext ==
  \/ send \/ plic_claim \/ uartintr
  \/ \E a \in CPUs : Kernel(a) \/ call_printf(a)
-----------------------------------------------------------------------------
(* The bytes of a source that are out, in the UART, on their way or waiting. *)
InFifo(s) == LET of(b) == b[1] = s
                 mine == SelectSeq(fifo, of)
             IN [k \in DOMAIN mine |-> mine[k][2]]

AtThr == LET a == {a \in CPUs : cpu[a].pc = "thr"}
         IN IF a = {} THEN <<>> ELSE <<cpu[CHOOSE x \in a : TRUE].c>>

Waiting == [k \in 1 .. (tx.w - tx.r) % Word |-> tx.buf[(tx.r + k - 1) % UART_TX_BUF_SIZE]]

(* Every byte of every source goes out once and in its source's order,      *)
(* although uartputc_sync() and uartstart() may both have seen LSR_TX_IDLE  *)
(* before either writes THR: uartinit() turns the FIFO on.                  *)
OutputInOrder ==
  /\ line[Ring] \o InFifo(Ring) \o AtThr \o Waiting = [k \in 1 .. made[Ring] |-> k]
  /\ \A s \in Sources \ {Ring} : line[s] \o InFifo(s) = [k \in 1 .. made[s] |-> k]

(* The messages of two printf()s do not mix ("lock to avoid interleaving    *)
(* concurrent printf's", printf.c:22), except when the kernel panics.       *)
PrintfWhole ==
  LET amid == {a \in CPUs : cpu[a].call = "printf" /\ cpu[a].left \in 1 .. Message - 1}
  IN pr.locking => Cardinality(amid) <= 1

(* A writer sleeps in uartputc() only while the ring is full: the wakeup of *)
(* uartstart() reaches all of them.                                         *)
WriterSleepsOnFull == \A a \in Writers : At(a, "asleep") => Full

(* A panic is heard although another CPU may hold pr.lock: the message of   *)
(* a CPU that panics goes out whole, whatever the others do.                *)
PanicHeard ==
  (\E a \in Printers : cpu[a].call = "panic")
    ~> (\E a \in Printers : At(a, "halt") /\ Len(line[a]) = Message)
=============================================================================
