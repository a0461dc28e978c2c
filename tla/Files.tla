-------------------------------- MODULE Files --------------------------------
(***************************************************************************)
(* Open files: the table of kernel/file.c, the descriptors that system     *)
(* calls of kernel/sysfile.c and fork() and exit() put there, and the      *)
(* pipes and inode references that open files own.                         *)
(*                                                                         *)
(* A process changes only its own descriptors (and its unborn child's), so *)
(* a step is one critical section of ftable.lock, of a pipe's lock or of   *)
(* the inode table, with the local steps around it.                        *)
(***************************************************************************)
EXTENDS Integers, Sequences, FiniteSets, FiniteSetsExt

CONSTANTS
  Users, First,     \* the processes, and the one that runs at first
  NFILE, NOFILE,
  NPIPE             \* pages that kalloc() has for pipes

Slots  == 1 .. NFILE
NoSlot == 0                    \* a null struct file *
Fds    == 0 .. NOFILE - 1
NoFd   == NOFILE               \* -1
Pages  == 1 .. NPIPE
NoPage == 0

ASSUME FilesAssumption ==
  IsFiniteSet(Users) /\ First \in Users /\ NFILE \in Nat /\ NOFILE \in Nat /\ NPIPE \in Nat

VARIABLES
  file,    \* ftable.file
  pi,    \* struct pipe of each page
  iref,    \* references to the inode that files are opened on
  ofile,   \* descriptors of each process
  me       \* where each process is: the call's pc and locals

filevars == <<file, pi, iref, ofile, me>>

File   == [ref : 0 .. NOFILE * Cardinality(Users) + 1, type : {"none", "pipe", "inode"},
           page : 0 .. NPIPE, writable : BOOLEAN]
NoFile == [ref |-> 0, type |-> "none", page |-> NoPage, writable |-> FALSE]
NoPipe == [used |-> FALSE, readopen |-> FALSE, writeopen |-> FALSE]

(* pc; the file in use or the descriptor a loop is at; the files that the  *)
(* call has references to; ff of fileclose(); the child of fork().          *)
Thread ==
  [pc : {"unborn", "user", "io", "open", "open_undo", "pipe", "pipe_page", "undo", "fork", "exit"},
   f : 0 .. NFILE, fd : 0 .. NOFILE, refs : UNION {[1 .. n -> Slots] : n \in 0 .. 2}, ff : File, child : Users]
User   == [pc |-> "user", f |-> NoSlot, fd |-> 0, refs |-> <<>>, ff |-> NoFile, child |-> First]
Unborn == [User EXCEPT !.pc = "unborn"]

(* The file table, the pipes and what system calls keep in local variables: *)
(* no count that filedup() and fileclose() keep leaves its range.           *)
FilesTypeOK ==
  /\ file \in [Slots -> File]
  /\ pi \in [Pages -> [used : BOOLEAN, readopen : BOOLEAN, writeopen : BOOLEAN]]
  /\ iref \in 0 .. NFILE + 2 * Cardinality(Users)
  /\ ofile \in [Users -> [Fds -> 0 .. NFILE]]
  /\ me \in [Users -> Thread]

FilesInit ==
  /\ file = [f \in Slots |-> NoFile]
  /\ pi = [g \in Pages |-> NoPipe]
  /\ iref = 0
  /\ ofile = [p \in Users |-> [fd \in Fds |-> NoSlot]]
  /\ me = [p \in Users |-> IF p = First THEN User ELSE Unborn]
-----------------------------------------------------------------------------
Step(p, t) == me' = [me EXCEPT ![p] = t]

(* Nothing of the last fileclose() is left to do. *)
At(p, pc) == me[p].pc = pc /\ me[p].ff = NoFile

(* filealloc(): the first free file, and what it makes of the table. *)
Unused      == {f \in Slots : file[f].ref = 0}
filealloc   == IF Unused = {} THEN NoSlot ELSE Min(Unused)
Alloced(f)  == [file EXCEPT ![f].ref = 1]

(* fdalloc(): the first free descriptors of p. *)
FreeFds(p) == {fd \in Fds : ofile[p][fd] = NoSlot}
fdalloc(p) == IF FreeFds(p) = {} THEN NoFd ELSE Min(FreeFds(p))

filedup(f) == file' = [file EXCEPT ![f].ref = @ + 1]

(* Mutant: every close closes what the file is open on. *)
fileclose_each(p, f, t) ==
  /\ file' = [file EXCEPT ![f] = IF @.ref > 1 THEN [@ EXCEPT !.ref = @ - 1] ELSE NoFile]
  /\ Step(p, [t EXCEPT !.ff = IF file[f].type = "none" THEN NoFile ELSE [file[f] EXCEPT !.ref = 0]])

(* fileclose(f), up to the release of ftable.lock; p goes on with t.  The   *)
(* last reference leaves ff, the file as it was, for close_ff().            *)
fileclose(p, f, t) ==
  IF file[f].ref > 1
  THEN /\ file' = [file EXCEPT ![f].ref = @ - 1]
       /\ Step(p, t)
  ELSE /\ file' = [file EXCEPT ![f] = NoFile]
       /\ Step(p, [t EXCEPT !.ff = IF file[f].type = "none" THEN NoFile ELSE [file[f] EXCEPT !.ref = 0]])

(* pipeclose(): the page is freed with the second end. *)
pipeclose(g, writable) ==
  LET open == [pi[g] EXCEPT !.readopen = @ /\ writable, !.writeopen = @ /\ ~writable]
  IN pi' = [pi EXCEPT ![g] = IF open.readopen \/ open.writeopen THEN open ELSE NoPipe]

(* The rest of fileclose(): what the file was open on. *)
close_ff(p) ==
  /\ me[p].ff # NoFile
  /\ \/ me[p].ff.type = "pipe" /\ pipeclose(me[p].ff.page, me[p].ff.writable) /\ UNCHANGED iref
     \/ me[p].ff.type = "inode" /\ iref' = iref - 1 /\ UNCHANGED pi
  /\ Step(p, [me[p] EXCEPT !.ff = NoFile])
  /\ UNCHANGED <<file, ofile>>
-----------------------------------------------------------------------------
sys_dup(p, fd) ==
  /\ At(p, "user") /\ ofile[p][fd] # NoSlot /\ fdalloc(p) # NoFd
  /\ ofile' = [ofile EXCEPT ![p][fdalloc(p)] = ofile[p][fd]]
  /\ filedup(ofile[p][fd])
  /\ UNCHANGED <<pi, iref, me>>

sys_close(p, fd) ==
  /\ At(p, "user") /\ ofile[p][fd] # NoSlot
  /\ ofile' = [ofile EXCEPT ![p][fd] = NoSlot]
  /\ fileclose(p, ofile[p][fd], User)
  /\ UNCHANGED <<pi, iref>>

(* sys_read(), sys_write() and sys_fstat(): argfd() takes no reference. *)
io(p, fd) ==
  /\ At(p, "user") /\ ofile[p][fd] # NoSlot
  /\ Step(p, [User EXCEPT !.pc = "io", !.f = ofile[p][fd]])
  /\ UNCHANGED <<file, pi, iref, ofile>>

io_end(p) == At(p, "io") /\ Step(p, User) /\ UNCHANGED <<file, pi, iref, ofile>>

(* sys_open(), once namei() or create() has a reference to the inode. *)
sys_open(p) ==
  /\ At(p, "user")
  /\ iref' = iref + 1
  /\ Step(p, [User EXCEPT !.pc = "open"])
  /\ UNCHANGED <<file, pi, ofile>>

(* With a file and a descriptor the file takes over the inode reference. *)
open_file(p) ==
  LET f == filealloc IN
  /\ At(p, "open")
  /\ \/ /\ f = NoSlot
        /\ iref' = iref - 1
        /\ Step(p, User)
        /\ UNCHANGED <<file, ofile>>
     \/ /\ f # NoSlot /\ fdalloc(p) = NoFd
        /\ file' = Alloced(f)
        /\ Step(p, [User EXCEPT !.pc = "open_undo", !.refs = <<f>>])
        /\ UNCHANGED <<iref, ofile>>
     \/ /\ f # NoSlot /\ fdalloc(p) # NoFd
        /\ file' = [file EXCEPT ![f] = [NoFile EXCEPT !.ref = 1, !.type = "inode"]]
        /\ ofile' = [ofile EXCEPT ![p][fdalloc(p)] = f]
        /\ Step(p, User)
        /\ UNCHANGED iref
  /\ UNCHANGED pi

(* No descriptor: fileclose(f), iunlockput(ip). *)
open_undo(p) ==
  /\ At(p, "open_undo")
  /\ IF me[p].refs # <<>>
     THEN fileclose(p, Head(me[p].refs), [me[p] EXCEPT !.refs = <<>>]) /\ UNCHANGED iref
     ELSE Step(p, User) /\ iref' = iref - 1 /\ UNCHANGED file
  /\ UNCHANGED <<pi, ofile>>

(* pipealloc(): two files, then a page. *)
sys_pipe(p) ==
  /\ At(p, "user") /\ filealloc # NoSlot
  /\ file' = Alloced(filealloc)
  /\ Step(p, [User EXCEPT !.pc = "pipe", !.refs = <<filealloc>>])
  /\ UNCHANGED <<pi, iref, ofile>>

pipe_f1(p) ==
  /\ At(p, "pipe")
  /\ \/ /\ filealloc = NoSlot
        /\ Step(p, [me[p] EXCEPT !.pc = "undo"])
        /\ UNCHANGED file
     \/ /\ filealloc # NoSlot
        /\ file' = Alloced(filealloc)
        /\ Step(p, [me[p] EXCEPT !.pc = "pipe_page", !.refs = Append(@, filealloc)])
  /\ UNCHANGED <<pi, iref, ofile>>

(* kalloc() and the rest of sys_pipe(): a file for each end, a descriptor   *)
(* for each, and copyout(), which may fail; then both files are closed.     *)
pipe_page(p) ==
  LET rf == me[p].refs[1]
      wf == me[p].refs[2]
      free == {g \in Pages : ~pi[g].used}
      g == Min(free)
      End(w) == [ref |-> 1, type |-> "pipe", page |-> g, writable |-> w]
      fd0 == fdalloc(p)
      fd1 == Min(FreeFds(p) \ {fd0})
  IN
  /\ At(p, "pipe_page")
  /\ \/ /\ free = {}
        /\ Step(p, [me[p] EXCEPT !.pc = "undo"])
        /\ UNCHANGED <<file, pi, ofile>>
     \/ /\ free # {}
        /\ pi' = [pi EXCEPT ![g] = [used |-> TRUE, readopen |-> TRUE, writeopen |-> TRUE]]
        /\ file' = [file EXCEPT ![rf] = End(FALSE), ![wf] = End(TRUE)]
        /\ \/ /\ Step(p, [me[p] EXCEPT !.pc = "undo"])    \* no descriptors, or copyout()
              /\ UNCHANGED ofile
           \/ /\ Cardinality(FreeFds(p)) >= 2
              /\ ofile' = [ofile EXCEPT ![p][fd0] = rf, ![p][fd1] = wf]
              /\ Step(p, User)
  /\ UNCHANGED iref

(* The error path of sys_pipe() and of pipealloc(). *)
undo(p) ==
  /\ At(p, "undo")
  /\ IF me[p].refs # <<>>
     THEN fileclose(p, Head(me[p].refs), [me[p] EXCEPT !.refs = Tail(@)])
     ELSE Step(p, User) /\ UNCHANGED file
  /\ UNCHANGED <<pi, iref, ofile>>

(* fork(), after allocproc() and uvmcopy(): the child gets the parent's     *)
(* files one by one, and may run when it has them all.                      *)
fork(p, c) ==
  /\ At(p, "user") /\ me[c] = Unborn
  /\ \A q \in Users : me[q].pc = "fork" => me[q].child # c
  /\ Step(p, [User EXCEPT !.pc = "fork", !.child = c])
  /\ UNCHANGED <<file, pi, iref, ofile>>

(* Mutant: the child's descriptors are not counted. *)
fork_fd_uncounted(p) ==
  /\ At(p, "fork") /\ me[p].fd < NOFILE
  /\ ofile' = [ofile EXCEPT ![me[p].child][me[p].fd] = ofile[p][me[p].fd]]
  /\ Step(p, [me[p] EXCEPT !.fd = @ + 1])
  /\ UNCHANGED <<file, pi, iref>>

fork_fd(p) ==
  LET fd == me[p].fd
      f == ofile[p][fd]
      c == me[p].child
  IN
  /\ At(p, "fork") /\ fd < NOFILE
  /\ IF f # NoSlot THEN filedup(f) ELSE UNCHANGED file
  /\ ofile' = [ofile EXCEPT ![c][fd] = f]
  /\ Step(p, [me[p] EXCEPT !.fd = fd + 1])
  /\ UNCHANGED <<pi, iref>>

fork_end(p) ==
  /\ At(p, "fork") /\ me[p].fd = NOFILE
  /\ me' = [me EXCEPT ![p] = User, ![me[p].child] = User]
  /\ UNCHANGED <<file, pi, iref, ofile>>

(* exit(): fileclose() each file, then clear the descriptor. *)
exit(p) ==
  /\ At(p, "user")
  /\ p # First
  /\ Step(p, [User EXCEPT !.pc = "exit"])
  /\ UNCHANGED <<file, pi, iref, ofile>>

exit_fd(p) ==
  LET fd == me[p].fd IN
  /\ At(p, "exit") /\ fd < NOFILE
  /\ \/ /\ ofile[p][fd] # NoSlot /\ me[p].f = NoSlot
        /\ fileclose(p, ofile[p][fd], [me[p] EXCEPT !.f = ofile[p][fd]])
        /\ UNCHANGED ofile
     \/ /\ ofile[p][fd] = NoSlot \/ me[p].f # NoSlot
        /\ ofile' = [ofile EXCEPT ![p][fd] = NoSlot]
        /\ Step(p, [me[p] EXCEPT !.fd = fd + 1, !.f = NoSlot])
        /\ UNCHANGED file
  /\ UNCHANGED <<pi, iref>>

(* The parent's wait() makes the slot of the process free. *)
exit_end(p) ==
  /\ At(p, "exit") /\ me[p].fd = NOFILE
  /\ Step(p, Unborn)
  /\ UNCHANGED <<file, pi, iref, ofile>>

FilesNext ==
  \E p \in Users :
    \/ close_ff(p) \/ io_end(p) \/ sys_open(p) \/ open_file(p) \/ open_undo(p)
    \/ sys_pipe(p) \/ pipe_f1(p) \/ pipe_page(p) \/ undo(p)
    \/ fork_fd(p) \/ fork_end(p) \/ exit(p) \/ exit_fd(p) \/ exit_end(p)
    \/ \E fd \in Fds : sys_dup(p, fd) \/ sys_close(p, fd) \/ io(p, fd)
    \/ \E c \in Users : fork(p, c)

FilesSpec == FilesInit /\ [][FilesNext]_filevars
-----------------------------------------------------------------------------
(* The descriptor whose file exit() has closed and not yet cleared. *)
Closed(p, fd) == me[p].pc = "exit" /\ me[p].f # NoSlot /\ me[p].fd = fd

(* Who has a reference to the file: a descriptor, in the unborn child too,  *)
(* or a call.                                                               *)
Held(f)  == {d \in Users \X Fds : ofile[d[1]][d[2]] = f /\ ~Closed(d[1], d[2])}
Taken(f) == {d \in Users \X {1, 2} : d[2] <= Len(me[d[1]].refs) /\ me[d[1]].refs[d[2]] = f}

(* f->ref counts them: so filedup() and fileclose() never find ref < 1      *)
(* (their panics), and no file leaks.                                       *)
RefExact == \A f \in Slots : file[f].ref = Cardinality(Held(f)) + Cardinality(Taken(f))

(* The files, and the closes on their way, that are on an end of a pipe. *)
OnEnd(x, g, w) == x.type = "pipe" /\ x.page = g /\ x.writable = w
Ends(g, w) ==
  {<<"file", f>> : f \in {h \in Slots : OnEnd(file[h], g, w)}}
    \cup {<<"close", p>> : p \in {q \in Users : OnEnd(me[q].ff, g, w)}}

(* Each end of a pipe is open as long as one file is on it (pipeclose is    *)
(* called once for each end), and the page is used as long as an end is:    *)
(* readers see the end of the data when the last writer is gone, and no     *)
(* file is left on a page that kfree() took back.                           *)
PipeEnds ==
  \A g \in Pages :
    /\ Cardinality(Ends(g, FALSE)) = IF pi[g].readopen THEN 1 ELSE 0
    /\ Cardinality(Ends(g, TRUE)) = IF pi[g].writeopen THEN 1 ELSE 0
    /\ pi[g].used = (pi[g].readopen \/ pi[g].writeopen)

InodeFiles  == {f \in Slots : file[f].type = "inode"}
InodeCloses == {p \in Users : me[p].ff.type = "inode"}
InodeOpens  == {p \in Users : me[p].pc \in {"open", "open_undo"}}

(* iput() is called once for each open of an inode, however many            *)
(* descriptors shared the file and whichever way sys_open() failed.         *)
InodeRefs ==
  iref = Cardinality(InodeFiles) + Cardinality(InodeCloses) + Cardinality(InodeOpens)

(* What a free slot of ftable has, and a file that is on a pipe. *)
FilesMade ==
  \A f \in Slots : /\ file[f].ref = 0 => file[f] = NoFile
                   /\ file[f].type = "pipe" => file[f].page \in Pages

(* What calls have of files: until sys_open() and sys_pipe() have put one   *)
(* behind a descriptor it is theirs alone; a read or write has one from its *)
(* process's descriptors; exit() has cleared those it went past.            *)
CallsOwn ==
  \A p \in Users : LET t == me[p] IN
    /\ t.ff # NoFile => /\ t.pc \in {"user", "exit", "undo", "open_undo"}
                        /\ t.ff.type # "none" /\ (t.ff.type = "pipe" => t.ff.page \in Pages)
    /\ t.refs # <<>> => t.pc \in {"pipe", "pipe_page", "undo", "open_undo"}
    /\ t.pc = "pipe" => Len(t.refs) = 1
    /\ t.pc = "pipe_page" => Len(t.refs) = 2
    /\ t.pc = "open_undo" => Len(t.refs) <= 1
    /\ \A k \in 1 .. Len(t.refs) : /\ file[t.refs[k]].ref = 1
                                   /\ t.pc # "undo" => file[t.refs[k]].type = "none"
    /\ t.pc = "io" => t.f # NoSlot /\ \E fd \in Fds : ofile[p][fd] = t.f
    /\ t.pc = "exit" => \A fd \in Fds : fd < t.fd => ofile[p][fd] = NoSlot

(* A process that fork() has not finished has the descriptors that fork()   *)
(* went past and no others, and one parent.                                 *)
ForksCopy ==
  /\ \A c \in Users : me[c].pc = "unborn" =>
       /\ me[c] = Unborn
       /\ \A fd \in Fds : ofile[c][fd] = NoSlot
            \/ \E p \in Users : me[p].pc = "fork" /\ me[p].child = c /\ fd < me[p].fd
  /\ \A p \in Users : me[p].pc = "fork" =>
       /\ me[me[p].child].pc = "unborn"
       /\ \A q \in Users : me[q].pc = "fork" /\ me[q].child = me[p].child => q = p

(* The file that a read(), write() or fstat() uses stays open, and stays    *)
(* what it was, until the call ends: argfd() needs no reference of its own. *)
IoStaysOpen ==
  [][\A p \in Users : me[p].pc = "io" => LET f == me[p].f IN
       /\ file'[f].ref > 0
       /\ [file'[f] EXCEPT !.ref = 0] = [file[f] EXCEPT !.ref = 0]]_filevars

(* Every count is exact, on every path of sys_open(), sys_pipe(), fork()    *)
(* and exit() that fails half-way: f->ref, the ends of a pipe, and the      *)
(* references to inodes.  With what calls own this is inductive.            *)
RefsExact ==
  FilesTypeOK /\ RefExact /\ PipeEnds /\ InodeRefs /\ FilesMade /\ CallsOwn /\ ForksCopy
=============================================================================
