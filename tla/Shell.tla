-------------------------------- MODULE Shell --------------------------------
(***************************************************************************)
(* How user/sh.c runs a command: main()'s loop and the processes that      *)
(* runcmd() forks, with their descriptors, the pipes between them, and     *)
(* wait().  The commands are trees as the parser, module ShellParser,      *)
(* builds them.  The system calls are those of kernel/sysfile.c, proc.c    *)
(* and pipe.c as these processes see them.                                 *)
(*                                                                         *)
(* Programs are of two kinds: "echo" writes a byte, "cat" copies until the *)
(* end of its input; others cannot be executed.                            *)
(***************************************************************************)
EXTENDS Integers, Sequences, FiniteSets, FiniteSetsExt

CONSTANTS
  Sessions,         \* bound: what may be typed, sequences of commands
  PROCS, PIPES,     \* bounds: processes (the shell is 0) and pipes at a time
  NOFILE, PIPESIZE

Procs == 0 .. PROCS - 1
Pipes == 1 .. PIPES
Nobody == -1        \* init, and whoever reads nothing

VARIABLES
  proc,     \* of each process: where it is, its command, its descriptors, its parent
  content,  \* bytes in each pipe
  typed,    \* the commands still to be typed
  failed    \* whether a fork() or pipe() has failed

shellvars == <<proc, content, typed, failed>>

Null    == [type |-> "NULL"]

Console == [kind |-> "console", pipe |-> 0]
File    == [kind |-> "file", pipe |-> 0]
Closed  == [kind |-> "closed", pipe |-> 0]
R(k)    == [kind |-> "r", pipe |-> k]
W(k)    == [kind |-> "w", pipe |-> k]

FDs == 0 .. NOFILE - 1

(* "in" and "out" say, for the property, where the command's input and      *)
(* output should be; "bg" whether it is in the background.                  *)
Free == [pc |-> "none", cmd |-> Null, fd |-> [i \in FDs |-> Closed], parent |-> Nobody,
         byte |-> 0, in |-> Closed, out |-> Closed, bg |-> FALSE]

PCs == {"none", "zombie", "getcmd", "fork", "wait", "run", "left", "right", "fork2", "pwait2", "pwait1",
        "list", "program"}

ShellTypeOK ==
  /\ \A p \in Procs : /\ proc[p].pc \in PCs
                      /\ proc[p].parent \in Procs \cup {Nobody}
                      /\ \A i \in FDs : proc[p].fd[i].kind \in {"console", "file", "closed", "r", "w"}
                      /\ proc[p].byte \in {0, 1}
  /\ content \in [Pipes -> 0 .. PIPESIZE]
  /\ failed \in BOOLEAN

(* main() has opened the console three times. *)
Stdio == [i \in FDs |-> IF i <= 2 THEN Console ELSE Closed]

ShellInit ==
  /\ proc = [p \in Procs |-> IF p = 0 THEN [Free EXCEPT !.pc = "getcmd", !.fd = Stdio, !.in = Console,
                                                        !.out = Console]
                             ELSE Free]
  /\ content = [k \in Pipes |-> 0]
  /\ typed \in Sessions /\ failed = FALSE
-----------------------------------------------------------------------------
(* System calls.  Descriptors, pipes and processes do not run out below the *)
(* bounds; a pipe() or fork() that fails is the second case of fork1(), as  *)
(* sh.c panics on either.                                                   *)

Open(x)    == \E p \in Procs : \E i \in FDs : proc[p].fd[i] = x
Lowest(fd) == Min({i \in FDs : fd[i] = Closed})
dup(fd, x) == [fd EXCEPT ![Lowest(fd)] = x]
close(fd, S) == [i \in FDs |-> IF i \in S THEN Closed ELSE fd[i]]

NewPipe == Min({k \in Pipes : ~Open(R(k)) /\ ~Open(W(k))})
NewProc == Min({q \in Procs : proc[q].pc = "none"})

(* exit() of p: its children are init's, which waits for them. *)
Exit(procs, p) ==
  [q \in Procs |->
     CASE q = p -> IF procs[p].parent = Nobody THEN Free
                   ELSE [Free EXCEPT !.pc = "zombie", !.parent = procs[p].parent]
       [] q # p /\ procs[q].parent = p ->
            IF procs[q].pc = "zombie" THEN Free ELSE [procs[q] EXCEPT !.parent = Nobody]
       [] OTHER -> procs[q]]

exit(p) == proc' = Exit(proc, p) /\ UNCHANGED <<content, typed, failed>>

(* fork1(): parent and child go on as given; or it fails, and panic() exits. *)
fork1(p, parent, child) ==
  \/ /\ proc' = [q \in Procs |-> CASE q = p -> parent
                                   [] q = NewProc -> [child EXCEPT !.parent = p]
                                   [] OTHER -> proc[q]]
     /\ UNCHANGED failed
  \/ /\ proc' = Exit(proc, p)
     /\ failed' = TRUE
-----------------------------------------------------------------------------
(* main(): a command is typed, or the end of the input. *)
getcmd ==
  /\ proc[0].pc = "getcmd"
  /\ \/ /\ typed # <<>>
        /\ proc' = [proc EXCEPT ![0].pc = "fork", ![0].cmd = Head(typed)]
        /\ typed' = Tail(typed)
     \/ typed = <<>> /\ proc' = Exit(proc, 0) /\ UNCHANGED typed
  /\ UNCHANGED <<content, failed>>

main_fork ==
  /\ proc[0].pc = "fork"
  /\ fork1(0, [proc[0] EXCEPT !.pc = "wait", !.cmd = Null], [proc[0] EXCEPT !.pc = "run"])
  /\ UNCHANGED <<content, typed>>

Running(p, type) == proc[p].pc = "run" /\ proc[p].cmd.type = type
Become(p, r) == proc' = [proc EXCEPT ![p] = r] /\ UNCHANGED <<content, typed, failed>>

run_exec(p) ==
  /\ Running(p, "EXEC")
  /\ IF proc[p].cmd.argv = <<>> \/ Head(proc[p].cmd.argv) \notin {"echo", "cat"} THEN exit(p)
     ELSE Become(p, [proc[p] EXCEPT !.pc = "program",
                                    !.byte = IF Head(proc[p].cmd.argv) = "echo" THEN 1 ELSE 0])

run_redir(p) ==
  /\ Running(p, "REDIR")
  /\ LET cmd == proc[p].cmd IN
     \/ exit(p)                              \* open() fails
     \/ Become(p, [proc[p] EXCEPT !.cmd = cmd.cmd, !.fd = dup(close(@, {cmd.fd}), File),
                                  !.in = IF cmd.fd = 0 THEN File ELSE @,
                                  !.out = IF cmd.fd = 1 THEN File ELSE @])

run_list(p) ==
  /\ Running(p, "LIST")
  /\ fork1(p, [proc[p] EXCEPT !.pc = "list", !.cmd = @.right], [proc[p] EXCEPT !.cmd = @.left])
  /\ UNCHANGED <<content, typed>>

run_back(p) ==
  /\ Running(p, "BACK")
  /\ \/ /\ proc' = Exit([proc EXCEPT ![NewProc] =
                           [proc[p] EXCEPT !.cmd = @.cmd, !.parent = p, !.bg = TRUE]], p)
        /\ UNCHANGED failed
     \/ proc' = Exit(proc, p) /\ failed' = TRUE
  /\ UNCHANGED <<content, typed>>

(* pipe() and the first fork1(): p[0] and p[1] are the lowest descriptors,  *)
(* 3 and 4.                                                                 *)
run_pipe(p) ==
  /\ Running(p, "PIPE")
  /\ LET k == NewPipe
         piped == [proc[p] EXCEPT !.fd = dup(dup(@, R(k)), W(k))]
     IN /\ fork1(p, [piped EXCEPT !.pc = "fork2"],
                    [piped EXCEPT !.pc = "left", !.cmd = @.left, !.out = W(k)])
        /\ content' = [content EXCEPT ![k] = 0]
  /\ UNCHANGED typed

left(p) ==
  /\ proc[p].pc = "left"
  /\ Become(p, [proc[p] EXCEPT !.pc = "run", !.fd = close(dup(close(@, {1}), @[4]), {3, 4})])

right(p) ==
  /\ proc[p].pc = "right"
  /\ Become(p, [proc[p] EXCEPT !.pc = "run", !.fd = close(dup(close(@, {0}), @[3]), {3, 4})])

(* Mutant: the parent keeps the pipe's write end. *)
fork2_open(p) ==
  /\ proc[p].pc = "fork2"
  /\ fork1(p, [proc[p] EXCEPT !.pc = "pwait2", !.cmd = Null, !.fd = close(@, {3})],
              [proc[p] EXCEPT !.pc = "right", !.cmd = @.right, !.in = proc[p].fd[3]])
  /\ UNCHANGED <<content, typed>>

(* The second fork1(), and the parent's closes of both ends. *)
fork2(p) ==
  /\ proc[p].pc = "fork2"
  /\ fork1(p, [proc[p] EXCEPT !.pc = "pwait2", !.cmd = Null, !.fd = close(@, {3, 4})],
              [proc[p] EXCEPT !.pc = "right", !.cmd = @.right, !.in = proc[p].fd[3]])
  /\ UNCHANGED <<content, typed>>

(* Mutant: a pipeline is over when one side of it is. *)
Waited_once(procs, p) ==
  IF procs[p].pc \in {"pwait2", "pwait1"} THEN Exit(procs, p)
  ELSE [procs EXCEPT ![p].pc = IF @ = "list" THEN "run" ELSE "getcmd"]

(* What follows a wait(0). *)
Waited(procs, p) ==
  IF procs[p].pc = "pwait1" THEN Exit(procs, p)
  ELSE [procs EXCEPT ![p].pc = CASE @ = "wait" -> "getcmd" [] @ = "list" -> "run" [] OTHER -> "pwait1"]

wait(p) ==
  /\ proc[p].pc \in {"wait", "list", "pwait2", "pwait1"}
  /\ \E q \in Procs : /\ proc[q].parent = p /\ proc[q].pc = "zombie"
                      /\ proc' = Waited([proc EXCEPT ![q] = Free], p)
  /\ UNCHANGED <<content, typed, failed>>
-----------------------------------------------------------------------------
(* The programs: cat() of descriptor 0, a byte at a time, and the write()s  *)
(* of user/echo.c and user/cat.c to descriptor 1.  The console and files    *)
(* are at their end.                                                        *)

program_read(p) ==
  /\ proc[p].pc = "program" /\ Head(proc[p].cmd.argv) = "cat" /\ proc[p].byte = 0
  /\ LET x == proc[p].fd[0] IN
     \/ /\ x.kind = "r" /\ content[x.pipe] > 0
        /\ content' = [content EXCEPT ![x.pipe] = @ - 1]
        /\ proc' = [proc EXCEPT ![p].byte = 1]
        /\ UNCHANGED <<typed, failed>>
     \/ /\ x.kind = "r" => content[x.pipe] = 0 /\ ~Open(W(x.pipe))
        /\ exit(p)                           \* the end of the input

program_write(p) ==
  /\ proc[p].pc = "program" /\ proc[p].byte = 1
  /\ LET x == proc[p].fd[1]
         done == IF Head(proc[p].cmd.argv) = "cat" THEN [proc EXCEPT ![p].byte = 0] ELSE Exit(proc, p)
     IN IF x.kind # "w" THEN proc' = done /\ UNCHANGED content
        ELSE \/ ~Open(R(x.pipe)) /\ proc' = Exit(proc, p) /\ UNCHANGED content
             \/ /\ Open(R(x.pipe)) /\ content[x.pipe] < PIPESIZE
                /\ content' = [content EXCEPT ![x.pipe] = @ + 1]
                /\ proc' = done
  /\ UNCHANGED <<typed, failed>>

Step(p) ==
  \/ run_exec(p) \/ run_redir(p) \/ run_list(p) \/ run_back(p) \/ run_pipe(p)
  \/ left(p) \/ right(p) \/ fork2(p) \/ wait(p) \/ program_read(p) \/ program_write(p)
  \/ p = 0 /\ main_fork

ShellNext == getcmd \/ \E p \in Procs : Step(p)
-----------------------------------------------------------------------------
(* A program finds its input, its output and the console as descriptors 0,  *)
(* 1 and 2, and nothing else is open: the ends of the pipes are where the   *)
(* command puts them, and no process keeps one that it does not use.        *)
StdioRight ==
  \A p \in Procs : proc[p].pc = "program" =>
    proc[p].fd = [i \in FDs |-> CASE i = 0 -> proc[p].in [] i = 1 -> proc[p].out
                                  [] i = 2 -> Console [] OTHER -> Closed]

(* When the shell asks for the next command, the processes that still run  *)
(* are those in the background, unless a fork() or pipe() failed: every     *)
(* wait() is for the right process.                                         *)
ForegroundDone ==
  proc[0].pc \in {"getcmd", "fork"} /\ ~failed =>
    \A p \in Procs \ {0} : proc[p].pc \in {"none", "zombie"} \/ proc[p].bg

(* The prompt comes back: no process of a pipeline waits for ever for the   *)
(* end of its input, which comes when nobody has the write end open.        *)
PromptReturns == proc[0].pc = "wait" ~> proc[0].pc # "wait"
=============================================================================
