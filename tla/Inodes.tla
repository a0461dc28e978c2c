------------------------------- MODULE Inodes -------------------------------
(***************************************************************************)
(* Inodes and names: the inode table of kernel/fs.c (iget, ilock, iput,    *)
(* ialloc), directories (dirlookup, dirlink, namex), and the system calls  *)
(* of kernel/sysfile.c that make and remove names.                         *)
(*                                                                         *)
(* A step is a section of code under itable.lock or under inode locks that *)
(* holds at most one such section or one change of the disk that others    *)
(* see without the lock.  Waiting for an inode's sleep-lock is a guard     *)
(* (module Bcache models sleep-locks), and the disk is the buffer cache's  *)
(* view of it (module Log makes it durable, as it is when no call runs).   *)
(* File contents and devices are left out: T_DEVICE behaves like T_FILE.   *)
(* A panic is where the machine stops: other CPUs stop at itable.lock.     *)
(***************************************************************************)
EXTENDS Integers, Sequences, FiniteSets, FiniteSetsExt, Functions

CONSTANTS
  Procs, NoProc,
  Inums, ROOTINO, NoInum,   \* inodes on disk, the root directory's, and 0
  NINODE,     \* entries of the inode table (param.h)
  NFILE,      \* open files in the system, at most one of each process
  Names,      \* names of directory entries, besides "." and ".."
  Requests    \* system calls that programs make: [call, path, new], paths as in Path

Slots   == 1 .. NINODE
NoSlot  == 0
Types   == {"none", "T_FILE", "T_DIR"}
AllNames == Names \cup {".", ".."}

(* A path, absolute or from the current directory; link() has a second one. *)
Paths  == [abs : BOOLEAN, elems : Seq(AllNames)]
NoPath == [abs |-> TRUE, elems |-> <<>>]
Calls  == {"open", "create", "mkdir", "link", "unlink", "chdir"}

ASSUME InodesAssumption ==
  /\ IsFiniteSet(Procs) /\ NoProc \notin Procs
  /\ IsFiniteSet(Inums) /\ ROOTINO \in Inums /\ NoInum \notin Inums
  /\ NINODE \in Nat \ {0} /\ NFILE \in Nat
  /\ Names \cap {".", ".."} = {}
  /\ Requests \subseteq [call : Calls, path : Paths, new : Paths]

VARIABLES
  dtype, dnlink,   \* struct dinode, on disk
  ents,            \* the entries of each directory, NoInum for an empty one
  ic,              \* itable.inode
  lk,              \* ip->lock of each of its entries: who holds it
  me,              \* the kernel thread of each process: position and local variables
  cwd, fd,         \* p->cwd and the inode of its open file
  panicked         \* iget() has found no entry

ondisk == <<dtype, dnlink, ents>>
refs   == <<cwd, fd>>
vars   == <<ondisk, ic, lk, me, refs, panicked>>

PCs == {"user", "namex", "found", "parent", "opened", "chdir", "iput", "iput_free",
        "iput_unlock", "iput_drop", "unlink_ip", "unlink_nlink", "put_dp",
        "create_iget", "create_fill", "create_exists", "mkdir_end",
        "link_new", "iput_ip", "link_bad"}

Inode  == [inum : Inums \cup {NoInum}, ref : Nat, valid : BOOLEAN, type : Types, nlink : Nat]
Thread == [pc : PCs, call : Calls \cup {"none"},
           path : Seq(AllNames), new : Paths,
           ip : Slots \cup {NoSlot}, dp : Slots \cup {NoSlot}, inum : Inums \cup {NoInum},
           put : Slots \cup {NoSlot}, then : PCs]

(* An entry of the table with no references, whose contents are never read. *)
Free == [inum |-> NoInum, ref |-> 0, valid |-> FALSE, type |-> "none", nlink |-> 0]

(* A process outside the kernel. *)
Idle == [pc |-> "user", call |-> "none", path |-> <<>>, new |-> NoPath, ip |-> NoSlot,
         dp |-> NoSlot, inum |-> NoInum, put |-> NoSlot, then |-> "user"]

(* The inode table, the dinodes and the directories of fs.c: nlink and ref *)
(* stay in their ranges, and no pointer leaves the table.                   *)
TypeOK ==
  /\ dtype \in [Inums -> Types] /\ dnlink \in [Inums -> Nat]
  /\ ents \in [Inums -> [AllNames -> Inums \cup {NoInum}]]
  /\ ic \in [Slots -> Inode]
  /\ lk \in [Slots -> Procs \cup {NoProc}]
  /\ me \in [Procs -> Thread]
  /\ cwd \in [Procs -> Slots] /\ fd \in [Procs -> Slots \cup {NoSlot}]
  /\ panicked \in BOOLEAN

(* The empty file system of mkfs; every process's cwd is "/" (userinit, fork). *)
Init ==
  /\ dtype = [i \in Inums |-> IF i = ROOTINO THEN "T_DIR" ELSE "none"]
  /\ dnlink = [i \in Inums |-> IF i = ROOTINO THEN 1 ELSE 0]
  /\ ents = [i \in Inums |-> [n \in AllNames |-> IF i = ROOTINO /\ n \notin Names
                                                 THEN ROOTINO ELSE NoInum]]
  /\ ic = [s \in Slots |-> IF s = 1 THEN [Free EXCEPT !.inum = ROOTINO, !.ref = Cardinality(Procs)]
                           ELSE Free]
  /\ lk = [s \in Slots |-> NoProc]
  /\ me = [p \in Procs |-> Idle]
  /\ cwd = [p \in Procs |-> 1] /\ fd = [p \in Procs |-> NoSlot]
  /\ panicked = FALSE
-----------------------------------------------------------------------------
(* The inode table.  These take the table to work on, as a call may change *)
(* it twice in a step.                                                     *)

InTable(t, i) == {s \in Slots : t[s].ref > 0 /\ t[s].inum = i}
Empty(t)      == {s \in Slots : t[s].ref = 0}

Full(t, i)    == InTable(t, i) = {} /\ Empty(t) = {}

(* The entry that iget() returns: the inode's own, or the first empty one. *)
SlotFor(t, i) == IF InTable(t, i) # {} THEN Min(InTable(t, i)) ELSE Min(Empty(t))

iget(t, i) ==
  [t EXCEPT ![SlotFor(t, i)] =
     IF InTable(t, i) # {} THEN [@ EXCEPT !.ref = @ + 1]
     ELSE [@ EXCEPT !.inum = i, !.ref = 1, !.valid = FALSE]]

Unref(t, s) == [t EXCEPT ![s] = IF @.ref = 1 THEN Free ELSE [@ EXCEPT !.ref = @ - 1]]

idup(t, s) == [t EXCEPT ![s].ref = @ + 1]

(* ilock() once it has the lock: the inode is read if it was not. *)
Loaded(t, s) ==
  IF t[s].valid THEN t
  ELSE [t EXCEPT ![s].valid = TRUE, ![s].type = dtype[t[s].inum],
                 ![s].nlink = dnlink[t[s].inum]]

(* panic("ilock: no type") *)
NoType(s) == ~ic[s].valid /\ dtype[ic[s].inum] = "none"

At(p, l)      == ~panicked /\ me[p].pc = l
CanLock(s)    == lk[s] = NoProc /\ ~NoType(s)

Step(p, m)    == me' = [me EXCEPT ![p] = m] /\ UNCHANGED panicked
Goto(p, l)    == Step(p, [me[p] EXCEPT !.pc = l])

(* A call that gets inode i, and goes on as m with the locks l; or the     *)
(* table is full: panic("iget: no inodes"), in the middle of the step.     *)
Get(p, t, i, m, l) ==
  \/ ~Full(t, i) /\ ic' = iget(t, i) /\ Step(p, m) /\ lk' = l
  \/ Full(t, i) /\ panicked' = TRUE /\ UNCHANGED <<ic, me, lk>>

(* Where iput() returns to: out of the kernel, to sys_link's iput(ip), or on. *)
Return(p) ==
  LET m == me[p]
  IN Step(p, CASE m.then = "user"    -> Idle
               [] m.then = "iput_ip" -> [m EXCEPT !.pc = "iput", !.put = m.ip, !.ip = NoSlot,
                                                  !.then = "user"]
               [] OTHER              -> [m EXCEPT !.pc = m.then, !.put = NoSlot, !.then = "user"])

(* Mutant: other references do not matter. *)
LastPut_any_ref(s) == ic[s].valid /\ ic[s].nlink = 0

(* Mutant: the links are not looked at. *)
LastPut_any_link(s) == ic[s].ref = 1 /\ ic[s].valid

(* iput(): the test under itable.lock, and acquiresleep() or the decrement. *)
LastPut(s) == ic[s].ref = 1 /\ ic[s].valid /\ ic[s].nlink = 0

iput(p) ==
  LET s == me[p].put
  IN /\ At(p, "iput")
     /\ \/ /\ LastPut(s)
           /\ lk[s] = NoProc
           /\ lk' = [lk EXCEPT ![s] = p]
           /\ Goto(p, "iput_free")
           /\ UNCHANGED ic
        \/ /\ ~LastPut(s)
           /\ ic' = Unref(ic, s)
           /\ Return(p)
           /\ UNCHANGED lk
     /\ UNCHANGED <<ondisk, refs>>

NoEntries == [n \in AllNames |-> NoInum]

(* itrunc(ip); ip->type = 0; iupdate(ip): ialloc() may now take the inode. *)
iput_free(p) ==
  LET s == me[p].put
      i == ic[s].inum
  IN /\ At(p, "iput_free")
     /\ ents' = [ents EXCEPT ![i] = NoEntries]
     /\ ic' = [ic EXCEPT ![s].type = "none"]
     /\ dtype' = [dtype EXCEPT ![i] = "none"]
     /\ dnlink' = [dnlink EXCEPT ![i] = ic[s].nlink]
     /\ Goto(p, "iput_unlock")
     /\ UNCHANGED <<lk, refs>>

(* Mutant: ip->valid stays 1. *)
iput_unlock_valid(p) ==
  /\ At(p, "iput_unlock")
  /\ lk' = [lk EXCEPT ![me[p].put] = NoProc]
  /\ Goto(p, "iput_drop")
  /\ UNCHANGED <<ondisk, ic, refs>>

(* ip->valid = 0; releasesleep() *)
iput_unlock(p) ==
  LET s == me[p].put
  IN /\ At(p, "iput_unlock")
     /\ ic' = [ic EXCEPT ![s].valid = FALSE]
     /\ lk' = [lk EXCEPT ![s] = NoProc]
     /\ Goto(p, "iput_drop")
     /\ UNCHANGED <<ondisk, refs>>

iput_drop(p) ==
  /\ At(p, "iput_drop")
  /\ ic' = Unref(ic, me[p].put)
  /\ Return(p)
  /\ UNCHANGED <<ondisk, lk, refs>>
-----------------------------------------------------------------------------
(* namex().  It walks in dp; what a call looked up before is in ip.        *)

SecondPath(m)  == m.call = "link" /\ m.ip # NoSlot
nameiparent(m) == m.call \in {"create", "mkdir", "unlink"} \/ SecondPath(m)

(* The walk goes on at dp, at the end of namei's path to the call. *)
Walk(m) == IF m.path = <<>> /\ ~nameiparent(m) THEN "found" ELSE "namex"

(* Where it starts, the root or the current directory. *)
Start(p, m, abs) ==
  LET from(s) == [m EXCEPT !.dp = s, !.pc = Walk(m)]
  IN \/ abs /\ Get(p, ic, ROOTINO, from(SlotFor(ic, ROOTINO)), lk)
     \/ ~abs /\ ic' = idup(ic, cwd[p]) /\ Step(p, from(cwd[p])) /\ UNCHANGED lk

(* sys_open, sys_mkdir, sys_link, sys_unlink, sys_chdir up to namex's loop. *)
syscall(p) ==
  /\ At(p, "user")
  /\ \E r \in Requests :
       Start(p, [Idle EXCEPT !.call = r.call, !.path = r.path.elems, !.new = r.new], r.path.abs)
  /\ UNCHANGED <<ondisk, refs>>

(* The second path of sys_link. *)
link_new(p) ==
  /\ At(p, "link_new")
  /\ Start(p, [me[p] EXCEPT !.path = me[p].new.elems, !.new = NoPath], me[p].new.abs)
  /\ UNCHANGED <<ondisk, refs>>

(* Where a call goes when it fails, its directory put. *)
Failed(p) == IF SecondPath(me[p]) THEN "link_bad" ELSE "user"

(* iput(dp), iput(ip) as a call's next step; l follows, and needs no more *)
(* than the other inode.                                                  *)
PutDp(p, l) == Step(p, [Idle EXCEPT !.pc = "iput", !.put = me[p].dp, !.ip = me[p].ip, !.then = l])
PutIp(p, l) == Step(p, [Idle EXCEPT !.pc = "iput", !.put = me[p].ip, !.dp = me[p].dp, !.then = l])

dirlookup(s, n) == ents[ic[s].inum][n]

(* One turn of the loop: ilock(dp), look the element up, iunlockput(dp). *)
namex(p) ==
  LET m == me[p]
      t == Loaded(ic, m.dp)
      i == dirlookup(m.dp, Head(m.path))
      last == nameiparent(m) /\ Len(m.path) = 1
  IN /\ At(p, "namex") /\ m.path # <<>>
     /\ CanLock(m.dp)
     /\ \/ /\ t[m.dp].type # "T_DIR" \/ (~last /\ i = NoInum)
           /\ ic' = t
           /\ PutDp(p, Failed(p))
           /\ UNCHANGED lk
        \/ /\ t[m.dp].type = "T_DIR" /\ last
           /\ ic' = t
           /\ Goto(p, "parent")
           /\ UNCHANGED lk
        \/ /\ t[m.dp].type = "T_DIR" /\ ~last /\ i # NoInum
           /\ LET n == [m EXCEPT !.path = Tail(@), !.dp = SlotFor(t, i)]
              IN Get(p, t, i, [n EXCEPT !.pc = "iput", !.put = m.dp, !.then = Walk(n)], lk)
     /\ UNCHANGED <<ondisk, refs>>

(* nameiparent("/"): there is no name. *)
namex_end(p) ==
  /\ At(p, "namex") /\ me[p].path = <<>>
  /\ PutDp(p, Failed(p))
  /\ UNCHANGED <<ondisk, ic, lk, refs>>

(* The inode that a process is about to ilock(), if any. *)
Locking(p) ==
  CASE me[p].pc = "namex" /\ me[p].path # <<>>                             -> me[p].dp
    [] me[p].pc \in {"found", "parent"}                                    -> me[p].dp
    [] me[p].pc \in {"unlink_ip", "create_exists", "create_fill", "link_bad"} -> me[p].ip
    [] OTHER                                                               -> NoSlot

-----------------------------------------------------------------------------
(* sys_open, sys_chdir, sys_close *)

(* Without O_CREATE: ilock(ip). *)
open(p) ==
  LET s == me[p].dp
  IN /\ At(p, "found") /\ me[p].call = "open"
     /\ CanLock(s)
     /\ ic' = Loaded(ic, s)
     /\ lk' = [lk EXCEPT ![s] = p]
     /\ Step(p, [Idle EXCEPT !.pc = "opened", !.ip = s])
     /\ UNCHANGED <<ondisk, refs>>

(* The file, or no file: a directory is opened for writing, or the file or *)
(* descriptor table is full.                                               *)
open_file(p) ==
  LET s == me[p].ip
  IN /\ At(p, "opened")
     /\ \/ /\ fd[p] = NoSlot
           /\ Cardinality({q \in Procs : fd[q] # NoSlot}) < NFILE
           /\ fd' = [fd EXCEPT ![p] = s]
           /\ Step(p, Idle)
        \/ PutIp(p, "user") /\ UNCHANGED fd
     /\ lk' = [lk EXCEPT ![s] = NoProc]
     /\ UNCHANGED <<ondisk, ic, cwd>>

chdir(p) ==
  LET s == me[p].dp
      t == Loaded(ic, s)
  IN /\ At(p, "found") /\ me[p].call = "chdir"
     /\ CanLock(s)
     /\ ic' = t
     /\ IF t[s].type # "T_DIR" THEN PutDp(p, "user")
        ELSE Step(p, [Idle EXCEPT !.pc = "iput", !.put = cwd[p], !.then = "chdir", !.dp = s])
     /\ UNCHANGED <<ondisk, lk, refs>>

chdir_end(p) ==
  /\ At(p, "chdir")
  /\ cwd' = [cwd EXCEPT ![p] = me[p].dp]
  /\ Step(p, Idle)
  /\ UNCHANGED <<ondisk, ic, lk, fd>>

close(p) ==
  /\ At(p, "user") /\ fd[p] # NoSlot
  /\ fd' = [fd EXCEPT ![p] = NoSlot]
  /\ Step(p, [Idle EXCEPT !.pc = "iput", !.put = fd[p]])
  /\ UNCHANGED <<ondisk, ic, lk, cwd>>
-----------------------------------------------------------------------------
(* sys_unlink *)

(* ip->nlink += k; iupdate(ip), on a table and on the disk. *)
AddLink(t, s, k) == [t EXCEPT ![s].nlink = @ + k]
iupdate(t, s)    == dnlink' = [dnlink EXCEPT ![t[s].inum] = t[s].nlink]

unlink(p) ==
  LET m == me[p]
      n == Head(m.path)
      t == Loaded(ic, m.dp)
      i == dirlookup(m.dp, n)
  IN /\ At(p, "parent") /\ m.call = "unlink"
     /\ CanLock(m.dp)
     /\ \/ /\ n \in {".", ".."} \/ i = NoInum
           /\ ic' = t
           /\ PutDp(p, "user")
           /\ UNCHANGED lk
        \/ /\ n \notin {".", ".."} /\ i # NoInum
           /\ Get(p, t, i, [m EXCEPT !.pc = "unlink_ip", !.ip = SlotFor(t, i)],
                  [lk EXCEPT ![m.dp] = p])
     /\ UNCHANGED <<ondisk, refs>>

isdirempty(i) == \A n \in Names : ents[i][n] = NoInum

(* ilock(ip) and the checks; then the entry goes, with its "..", and dp. *)
unlink_ip(p) ==
  LET m == me[p]
      t == Loaded(ic, m.ip)
      dir == t[m.ip].type = "T_DIR"
      busy == dir /\ ~isdirempty(t[m.ip].inum)
      u == AddLink(t, m.dp, IF dir THEN -1 ELSE 0)
  IN /\ At(p, "unlink_ip")
     /\ CanLock(m.ip)
     /\ t[m.ip].nlink >= 1
     /\ \/ /\ busy
           /\ ic' = t
           /\ PutIp(p, "put_dp")
           /\ UNCHANGED <<ondisk, lk, refs>>
        \/ /\ ~busy
           /\ ents' = [ents EXCEPT ![ic[m.dp].inum][Head(m.path)] = NoInum]
           /\ ic' = u
           /\ iupdate(u, m.dp)
           /\ lk' = [lk EXCEPT ![m.dp] = NoProc, ![m.ip] = p]
           /\ PutDp(p, "unlink_nlink")
           /\ UNCHANGED <<dtype, refs>>

(* ip->nlink--; iupdate(ip); iunlockput(ip) *)
unlink_nlink(p) ==
  LET s == me[p].ip
      u == AddLink(ic, s, -1)
  IN /\ At(p, "unlink_nlink")
     /\ ic' = u
     /\ iupdate(u, s)
     /\ lk' = [lk EXCEPT ![s] = NoProc]
     /\ PutIp(p, "user")
     /\ UNCHANGED <<dtype, ents, refs>>

(* iunlockput(dp) on the way out of a call that fails. *)
put_dp(p) ==
  /\ At(p, "put_dp")
  /\ lk' = [lk EXCEPT ![me[p].dp] = NoProc]
  /\ PutDp(p, Failed(p))
  /\ UNCHANGED <<ondisk, ic, refs>>
-----------------------------------------------------------------------------
(* create(), for sys_open with O_CREATE and for sys_mkdir *)

NewType(p) == IF me[p].call = "mkdir" THEN "T_DIR" ELSE "T_FILE"

(* ilock(dp); the name exists, or there is no inode, or ialloc() marks one. *)
(* ialloc's scan is not atomic: inodes may become free behind it, so it may *)
(* find any free one, or none.                                              *)
create(p) ==
  LET m == me[p]
      t == Loaded(ic, m.dp)
      i == dirlookup(m.dp, Head(m.path))
  IN /\ At(p, "parent") /\ m.call \in {"create", "mkdir"}
     /\ CanLock(m.dp)
     /\ \/ /\ i # NoInum
           /\ Get(p, t, i, [m EXCEPT !.pc = "iput", !.put = m.dp, !.then = "create_exists",
                                     !.path = <<>>, !.dp = NoSlot, !.ip = SlotFor(t, i)], lk)
           /\ UNCHANGED <<dtype, dnlink>>
        \/ /\ i = NoInum
           /\ ic' = t
           /\ PutDp(p, "user")
           /\ UNCHANGED <<dtype, dnlink, lk>>
        \/ \E f \in {f \in Inums : dtype[f] = "none"} :
             /\ i = NoInum
             /\ ic' = t
             /\ dtype' = [dtype EXCEPT ![f] = NewType(p)]
             /\ dnlink' = [dnlink EXCEPT ![f] = 0]
             /\ lk' = [lk EXCEPT ![m.dp] = p]
             /\ Step(p, [m EXCEPT !.pc = "create_iget", !.inum = f])
     /\ UNCHANGED <<ents, refs>>

create_iget(p) ==
  /\ At(p, "create_iget")
  /\ LET i == me[p].inum
     IN Get(p, ic, i, [me[p] EXCEPT !.pc = "create_fill", !.ip = SlotFor(ic, i)], lk)
  /\ UNCHANGED <<ondisk, refs>>

create_exists(p) ==
  LET s == me[p].ip
      t == Loaded(ic, s)
  IN /\ At(p, "create_exists")
     /\ CanLock(s)
     /\ ic' = t
     /\ IF me[p].call = "create" /\ t[s].type = "T_FILE"
        THEN lk' = [lk EXCEPT ![s] = p] /\ Step(p, [Idle EXCEPT !.pc = "opened", !.ip = s])
        ELSE UNCHANGED lk /\ PutIp(p, "user")
     /\ UNCHANGED <<ondisk, refs>>

(* "." and ".." of a new directory *)
Dots(i, d) == [NoEntries EXCEPT !["."] = i, ![".."] = d]

(* ilock(ip), its nlink, its dots and its name in dp, which dp's nlink      *)
(* counts for a directory; or the disk has no block for the dots or for the *)
(* name, and ip is given up.                                                *)
create_fill(p) ==
  LET m == me[p]
      dir == NewType(p) = "T_DIR"
      t == [Loaded(ic, m.ip) EXCEPT ![m.ip].nlink = 1]
      u == AddLink(t, m.dp, IF dir THEN 1 ELSE 0)
      z == [t EXCEPT ![m.ip].nlink = 0]
      d == ic[m.dp].inum
      own == IF dir THEN Dots(m.inum, d) ELSE NoEntries
  IN /\ At(p, "create_fill")
     /\ CanLock(m.ip)
     /\ \/ /\ ic' = u
           /\ dnlink' = [dnlink EXCEPT ![m.inum] = 1, ![d] = u[m.dp].nlink]
           /\ ents' = [ents EXCEPT ![m.inum] = own, ![d][Head(m.path)] = m.inum]
           /\ lk' = [lk EXCEPT ![m.dp] = NoProc, ![m.ip] = p]
           /\ PutDp(p, IF dir THEN "mkdir_end" ELSE "opened")
        \/ \E e \in {NoEntries, own} :
             /\ ic' = z
             /\ iupdate(z, m.ip)
             /\ ents' = [ents EXCEPT ![m.inum] = e]
             /\ PutIp(p, "put_dp")
             /\ UNCHANGED lk
     /\ UNCHANGED <<dtype, refs>>

(* iunlockput(ip) in sys_mkdir *)
mkdir_end(p) ==
  /\ At(p, "mkdir_end")
  /\ lk' = [lk EXCEPT ![me[p].ip] = NoProc]
  /\ PutIp(p, "user")
  /\ UNCHANGED <<ondisk, ic, refs>>
-----------------------------------------------------------------------------
(* sys_link *)

(* Mutant: the new name is not counted. *)
link_uncounted(p) ==
  LET s == me[p].dp
  IN /\ At(p, "found") /\ me[p].call = "link"
     /\ CanLock(s)
     /\ ic' = Loaded(ic, s)
     /\ IF Loaded(ic, s)[s].type = "T_DIR" THEN PutDp(p, "user")
        ELSE Step(p, [me[p] EXCEPT !.pc = "link_new", !.ip = s, !.dp = NoSlot])
     /\ UNCHANGED <<ondisk, lk, refs>>

(* ilock(ip); ip->nlink++, before the name is made. *)
link(p) ==
  LET s == me[p].dp
      t == Loaded(ic, s)
      u == AddLink(t, s, 1)
  IN /\ At(p, "found") /\ me[p].call = "link"
     /\ CanLock(s)
     /\ IF t[s].type = "T_DIR"
        THEN ic' = t /\ PutDp(p, "user") /\ UNCHANGED dnlink
        ELSE /\ ic' = u
             /\ iupdate(u, s)
             /\ Step(p, [me[p] EXCEPT !.pc = "link_new", !.ip = s, !.dp = NoSlot])
     /\ UNCHANGED <<dtype, ents, lk, refs>>

(* ilock(dp); dirlink(): the name exists, or there is no block, or it is made. *)
link_name(p) ==
  LET m == me[p]
      t == Loaded(ic, m.dp)
      d == ic[m.dp].inum
      i == dirlookup(m.dp, Head(m.path))
  IN /\ At(p, "parent") /\ m.call = "link"
     /\ CanLock(m.dp)
     /\ \/ /\ i # NoInum
           /\ Get(p, t, i, [m EXCEPT !.pc = "iput", !.put = SlotFor(t, i), !.then = "put_dp",
                                     !.path = <<>>], [lk EXCEPT ![m.dp] = p])
           /\ UNCHANGED ents
        \/ /\ i = NoInum
           /\ ic' = t
           /\ PutDp(p, "link_bad")
           /\ UNCHANGED <<ents, lk>>
        \/ /\ i = NoInum
           /\ ic' = t
           /\ ents' = [ents EXCEPT ![d][Head(m.path)] = ic[m.ip].inum]
           /\ PutDp(p, "iput_ip")
           /\ UNCHANGED lk
     /\ UNCHANGED <<dtype, dnlink, refs>>

(* bad: ilock(ip); ip->nlink--; iupdate(ip); iunlockput(ip) *)
link_bad(p) ==
  LET s == me[p].ip
      u == AddLink(Loaded(ic, s), s, -1)
  IN /\ At(p, "link_bad")
     /\ CanLock(s)
     /\ ic' = u
     /\ iupdate(u, s)
     /\ PutIp(p, "user")
     /\ UNCHANGED <<dtype, ents, lk, refs>>
-----------------------------------------------------------------------------
(* panic()'s "for(;;)". *)
panic == panicked /\ UNCHANGED vars

Next ==
  \/ \E p \in Procs :
       \/ syscall(p) \/ namex(p) \/ namex_end(p)
       \/ iput(p) \/ iput_free(p) \/ iput_unlock(p) \/ iput_drop(p)
       \/ open(p) \/ open_file(p) \/ chdir(p) \/ chdir_end(p) \/ close(p)
       \/ unlink(p) \/ unlink_ip(p) \/ unlink_nlink(p) \/ put_dp(p)
       \/ create(p) \/ create_iget(p) \/ create_exists(p) \/ create_fill(p) \/ mkdir_end(p)
       \/ link(p) \/ link_new(p) \/ link_name(p) \/ link_bad(p)
  \/ panic

Spec == Init /\ [][Next]_vars
-----------------------------------------------------------------------------
CwdCounts(p) == "chdir" \notin {me[p].pc, me[p].then}

Pointer(p, v) == CASE v = "cwd" -> IF CwdCounts(p) THEN cwd[p] ELSE NoSlot
                   [] v = "fd"  -> fd[p]
                   [] OTHER     -> me[p][v]
Pointers == [x \in Procs \X {"cwd", "fd", "ip", "dp", "put"} |-> Pointer(x[1], x[2])]

(* ip->ref is exactly the number of pointers to the table's entry: current *)
(* directories, open files and local variables of calls (iget, idup, iput: *)
(* fs.c:107-117).  In sys_chdir p->cwd dangles once it is put.             *)
RefExact ==
  LET ptr == Pointers
  IN \A s \in Slots : ic[s].ref = Cardinality({x \in DOMAIN ptr : ptr[x] = s})

(* No inode is in the table twice, whatever iget() recycles and ialloc()   *)
(* reuses; and an unlocked valid entry is what the disk says, although     *)
(* ialloc() writes the dinode without the inode's lock.                    *)
TableIsCache ==
  \A s \in Slots : ic[s].ref > 0 =>
    /\ \A r \in Slots \ {s} : ic[r].ref > 0 => ic[r].inum # ic[s].inum
    /\ ic[s].valid /\ lk[s] = NoProc =>
         ic[s].type = dtype[ic[s].inum] /\ ic[s].nlink = dnlink[ic[s].inum]

(* iput()'s acquiresleep(), called with itable.lock held, never waits:     *)
(* "ip->ref == 1 means no other process can have ip locked" (fs.c:343).    *)
IputWontBlock ==
  \A p \in Procs : me[p].pc = "iput" /\ LastPut(me[p].put) => lk[me[p].put] = NoProc

(* ilock() never meets an inode that is free on disk: panic("ilock: no type"). *)
IlockFindsType ==
  \A p \in Procs : Locking(p) # NoSlot /\ lk[Locking(p)] = NoProc => ~NoType(Locking(p))

(* Nor does sys_unlink() find the inode of a name without links, which     *)
(* would panic with "unlink: nlink < 1".                                   *)
NoPanic ==
  /\ IlockFindsType
  /\ \A p \in Procs : me[p].pc = "unlink_ip" /\ lk[me[p].ip] = NoProc =>
       Loaded(ic, me[p].ip)[me[p].ip].nlink >= 1

NamesOf(i) == UNION {{<<d, n>> : n \in {n \in Names : ents[d][n] = i}} :
                       d \in {d \in Inums : dtype[d] = "T_DIR"}}
SubdirsOf(i) == {n \in Names : ents[i][n] # NoInum /\ dtype[ents[i][n]] = "T_DIR"}

(* Every name in a directory is the name of an allocated inode, whose nlink *)
(* covers all of them and the ".." of its subdirectories: at each step of   *)
(* create, sys_link and sys_unlink, so also when two of them overlap.       *)
NamesCounted ==
  \A i \in Inums :
    LET n == NamesOf(i)
    IN n # {} => /\ dtype[i] # "none"
                 /\ dnlink[i] >= Cardinality(n) + Cardinality(SubdirsOf(i))

Waits(p, q) == Locking(p) # NoSlot /\ lk[Locking(p)] = q

(* A process that waits for an inode's lock waits for another process, one *)
(* inside the kernel that does not wait for it: no call ends with a lock    *)
(* held, none locks an inode twice, and locks go from parent to child.      *)
LocksMove ==
  \A p, q \in Procs : Waits(p, q) => q # p /\ me[q].pc # "user" /\ ~Waits(q, p)

(* iput() frees an inode on disk only when it has no name and nobody has   *)
(* it open or as current directory.                                        *)
FreedUnused ==
  [][\A i \in Inums : dtype[i] # "none" /\ dtype'[i] = "none" =>
       /\ NamesOf(i) = {}
       /\ \A p \in Procs : /\ fd[p] # NoSlot => ic[fd[p]].inum # i
                           /\ CwdCounts(p) => ic[cwd[p]].inum # i]_vars

(* iget(), ilock(), iput() and ialloc(): the inode table has each inode in  *)
(* use once, with its exact count of references, as it is on disk.          *)
TableExact == TypeOK /\ RefExact /\ TableIsCache

(* iget() panics only when NINODE different inodes are in use at once, each *)
(* by a current directory, an open file or a call: an entry that is lost    *)
(* would bring that panic forward.                                          *)
PanicsFull ==
  panicked => Cardinality({ic[s].inum : s \in Range(Pointers) \ {NoSlot}}) = NINODE

(* Calls go on: none panics while the inode table has room, none waits for  *)
(* a sleep-lock while it holds itable.lock, and none waits for one that     *)
(* waits for it.                                                            *)
CallsGoOn == NoPanic /\ PanicsFull /\ IputWontBlock /\ LocksMove
=============================================================================
