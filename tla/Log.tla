-------------------------------- MODULE Log ---------------------------------
(***************************************************************************)
(* The redo log of kernel/log.c over the buffer cache and the disk.        *)
(*                                                                         *)
(* Processes run file-system calls between begin_op() and end_op(); the    *)
(* last one out commits the writes of all of them.  Every bwrite() is a    *)
(* step of its own, so a crash can fall between any two disk writes, of a  *)
(* commit or of the recovery itself, and it may tear the block that is     *)
(* being written.  The header is not torn: its 124 bytes lie in the first  *)
(* 512-byte sector of its block.                                           *)
(*                                                                         *)
(* A section of code under log.lock is one step, and so is sleep(): module *)
(* Proc checks that sleep() misses no wakeup() made under its lock.        *)
(***************************************************************************)
EXTENDS Integers, Sequences, FiniteSets

CONSTANTS
  Procs,         \* processes that make file-system calls
  Blocks,        \* home blocks the calls write
  Values,        \* contents of a block
  LOGSIZE,       \* size of the header's block array (param.h)
  MAXOPBLOCKS,   \* most blocks one call writes (param.h)
  NLOG,          \* blocks of the on-disk log, its header included (sb.nlog)
  NotCached      \* no buffer holds the block

ASSUME LogAssumption ==
  /\ IsFiniteSet(Procs)
  /\ LOGSIZE \in Nat /\ NLOG \in Nat
  /\ MAXOPBLOCKS \in 1 .. LOGSIZE
  /\ NotCached \notin Values

VARIABLES
  home,          \* on disk: the blocks at their home location
  logd,          \* on disk: the log's data blocks
  head,          \* on disk: the header, as the sequence block[0 .. n-1]
  cache,         \* buffer of each block, NotCached when it has none
  pins,          \* bpin()s of each block not yet undone by bunpin()
  lh,            \* log.lh, as the sequence block[0 .. n-1]
  outstanding,   \* log.outstanding
  committing,    \* log.committing
  pc,            \* where each process is
  tail,          \* each process's loop index in write_log, install_trans
  wrote,         \* blocks each process has written in its current call
  boot,          \* recovery, normal operation, or a panic
  rtail          \* loop index of install_trans(1)

disk  == <<home, logd, head>>
procs == <<pc, tail, wrote>>
vars  == <<disk, cache, pins, lh, outstanding, committing, procs, boot, rtail>>

LogSlots  == 1 .. LOGSIZE
CommitPCs == {"write_log", "write_head", "install", "erase", "finish"}
PCs       == {"user", "asleep", "begin", "op"} \cup CommitPCs
BootPCs   == {"read_head", "install", "clear", "up", "panicked"}

(* What bread() of a home block returns. *)
bread(b) == IF cache[b] = NotCached THEN home[b] ELSE cache[b]

Logged == {lh[i] : i \in 1 .. Len(lh)}
InOp   == {p \in Procs : pc[p] = "op"}

(* struct log, the cache and the disk; pin counts never go negative and lh  *)
(* never outgrows the array of struct logheader.                            *)
TypeOK ==
  /\ home \in [Blocks -> Values]
  /\ logd \in [LogSlots -> Values]
  /\ head \in Seq(Blocks) /\ Len(head) <= LOGSIZE
  /\ cache \in [Blocks -> Values \cup {NotCached}]
  /\ pins \in [Blocks -> Nat]
  /\ lh \in Seq(Blocks) /\ Len(lh) <= LOGSIZE
  /\ outstanding \in Int
  /\ committing \in BOOLEAN
  /\ pc \in [Procs -> PCs]
  /\ tail \in [Procs -> Nat]
  /\ wrote \in [Procs -> SUBSET Blocks]
  /\ boot \in BootPCs
  /\ rtail \in Nat

(* A disk image made by mkfs: an empty log.  The kernel is about to boot. *)
Init ==
  /\ home \in [Blocks -> Values]
  /\ logd \in [LogSlots -> Values]
  /\ head = <<>>
  /\ cache = [b \in Blocks |-> NotCached]
  /\ pins = [b \in Blocks |-> 0]
  /\ lh = <<>>
  /\ outstanding = 0
  /\ committing = FALSE
  /\ pc = [p \in Procs |-> "user"]
  /\ tail = [p \in Procs |-> 0]
  /\ wrote = [p \in Procs |-> {}]
  /\ boot = "read_head"
  /\ rtail = 0
-----------------------------------------------------------------------------
(* Recovery: initlog() runs recover_from_log() before any file-system call. *)

read_head ==
  /\ boot = "read_head"
  /\ lh' = head
  /\ rtail' = 0
  /\ boot' = IF head = <<>> THEN "clear" ELSE "install"
  /\ UNCHANGED <<disk, cache, pins, outstanding, committing, procs>>

(* One iteration of install_trans(1): nothing is unpinned. *)
recover_install ==
  /\ boot = "install"
  /\ LET b == lh[rtail + 1]
         v == logd[rtail + 1]
     IN /\ home' = [home EXCEPT ![b] = v]
        /\ cache' = [cache EXCEPT ![b] = v]
  /\ rtail' = rtail + 1
  /\ boot' = IF rtail + 1 = Len(lh) THEN "clear" ELSE "install"
  /\ UNCHANGED <<logd, head, pins, lh, outstanding, committing, procs>>

recover_clear ==
  /\ boot = "clear"
  /\ lh' = <<>>
  /\ head' = <<>>
  /\ boot' = "up"
  /\ UNCHANGED <<home, logd, cache, pins, outstanding, committing, procs, rtail>>
-----------------------------------------------------------------------------
(* begin_op, log_write, end_op *)

(* wakeup(&log): every process asleep in begin_op() tries again. *)
wakeup_log(f) == [p \in Procs |-> IF f[p] = "asleep" THEN "begin" ELSE f[p]]

(* Mutant: the space of the call that is being admitted is not counted. *)
LogHasRoom_forget_self == Len(lh) + outstanding * MAXOPBLOCKS <= LOGSIZE

LogHasRoom == Len(lh) + (outstanding + 1) * MAXOPBLOCKS <= LOGSIZE

MayBegin == ~committing /\ LogHasRoom

(* One iteration of begin_op()'s loop, up to its sleep() or its break. *)
begin_op(p) ==
  /\ boot = "up"
  /\ pc[p] \in {"user", "begin"}
  /\ \/ /\ ~MayBegin
        /\ pc' = [pc EXCEPT ![p] = "asleep"]
        /\ UNCHANGED <<outstanding, wrote>>
     \/ /\ MayBegin
        /\ pc' = [pc EXCEPT ![p] = "op"]
        /\ outstanding' = outstanding + 1
        /\ wrote' = [wrote EXCEPT ![p] = {}]
  /\ UNCHANGED <<disk, cache, pins, lh, committing, tail, boot, rtail>>

TooBig == Len(lh) >= LOGSIZE \/ Len(lh) >= NLOG - 1

bpin(b) == pins' = [pins EXCEPT ![b] = @ + 1]

(* Mutant: no absorption, a block is logged again at each write. *)
Absorbed_never(b) == FALSE

Absorbed(b) == b \in Logged

(* bread(b), a change of its data, log_write(b), brelse(b).  A call keeps *)
(* to MAXOPBLOCKS blocks, which is what param.h says of every call.  (When *)
(* log_write() panics the buffer is already changed; nobody reads it.)     *)
log_write(p, b, v) ==
  /\ boot = "up"
  /\ pc[p] = "op"
  /\ Cardinality(wrote[p] \cup {b}) <= MAXOPBLOCKS
  /\ \/ /\ TooBig
        /\ boot' = "panicked"
        /\ UNCHANGED <<cache, pins, lh, wrote>>
     \/ /\ ~TooBig
        /\ cache' = [cache EXCEPT ![b] = v]
        /\ wrote' = [wrote EXCEPT ![p] = @ \cup {b}]
        /\ IF Absorbed(b) THEN UNCHANGED <<pins, lh>>
                          ELSE bpin(b) /\ lh' = Append(lh, b)
        /\ UNCHANGED boot
  /\ UNCHANGED <<disk, outstanding, committing, pc, tail, rtail>>

(* end_op() up to its call of commit(), which has work only if n > 0.  The *)
(* two panics "log.committing" here and "log_write outside of trans" above *)
(* cannot happen: CommitAlone.                                             *)
end_op(p) ==
  /\ boot = "up"
  /\ pc[p] = "op"
  /\ outstanding' = outstanding - 1
  /\ \/ /\ outstanding = 1
        /\ committing' = TRUE
        /\ pc' = [pc EXCEPT ![p] = IF lh = <<>> THEN "finish" ELSE "write_log"]
     \/ /\ outstanding # 1
        /\ pc' = [wakeup_log(pc) EXCEPT ![p] = "user"]
        /\ UNCHANGED committing
  /\ tail' = [tail EXCEPT ![p] = 0]
  /\ UNCHANGED <<disk, cache, pins, lh, wrote, boot, rtail>>
-----------------------------------------------------------------------------
(* commit(), run by the process that found outstanding = 0. *)

LastTail(p) == tail[p] + 1 = Len(lh)

(* One iteration of write_log(). *)
write_log(p) ==
  /\ boot = "up"
  /\ pc[p] = "write_log"
  /\ LET b == lh[tail[p] + 1]
     IN /\ logd' = [logd EXCEPT ![tail[p] + 1] = bread(b)]
        /\ cache' = [cache EXCEPT ![b] = bread(b)]
  /\ tail' = [tail EXCEPT ![p] = IF LastTail(p) THEN 0 ELSE @ + 1]
  /\ pc' = [pc EXCEPT ![p] = IF LastTail(p) THEN "write_head" ELSE @]
  /\ UNCHANGED <<home, head, pins, lh, outstanding, committing, wrote, boot, rtail>>

(* Mutant: the header is not written before the blocks are installed. *)
write_head_skipped(p) ==
  /\ boot = "up"
  /\ pc[p] = "write_head"
  /\ pc' = [pc EXCEPT ![p] = "install"]
  /\ UNCHANGED <<disk, cache, pins, lh, outstanding, committing, tail, wrote, boot, rtail>>

(* The commit point. *)
write_head(p) ==
  /\ boot = "up"
  /\ pc[p] = "write_head"
  /\ head' = lh
  /\ pc' = [pc EXCEPT ![p] = "install"]
  /\ UNCHANGED <<home, logd, cache, pins, lh, outstanding, committing, tail, wrote,
                 boot, rtail>>

(* One iteration of install_trans(0). *)
install_trans(p) ==
  /\ boot = "up"
  /\ pc[p] = "install"
  /\ LET b == lh[tail[p] + 1]
         v == logd[tail[p] + 1]
     IN /\ home' = [home EXCEPT ![b] = v]
        /\ cache' = [cache EXCEPT ![b] = v]
        /\ pins' = [pins EXCEPT ![b] = @ - 1]
  /\ tail' = [tail EXCEPT ![p] = IF LastTail(p) THEN 0 ELSE @ + 1]
  /\ pc' = [pc EXCEPT ![p] = IF LastTail(p) THEN "erase" ELSE @]
  /\ UNCHANGED <<logd, head, lh, outstanding, committing, wrote, boot, rtail>>

(* Mutant: the transaction is erased in memory only. *)
erase_volatile(p) ==
  /\ boot = "up"
  /\ pc[p] = "erase"
  /\ lh' = <<>>
  /\ pc' = [pc EXCEPT ![p] = "finish"]
  /\ UNCHANGED <<disk, cache, pins, outstanding, committing, tail, wrote, boot, rtail>>

(* log.lh.n = 0; write_head() *)
erase(p) ==
  /\ boot = "up"
  /\ pc[p] = "erase"
  /\ lh' = <<>>
  /\ head' = <<>>
  /\ pc' = [pc EXCEPT ![p] = "finish"]
  /\ UNCHANGED <<home, logd, cache, pins, outstanding, committing, tail, wrote,
                 boot, rtail>>

(* The end of end_op(), after commit(). *)
finish(p) ==
  /\ boot = "up"
  /\ pc[p] = "finish"
  /\ committing' = FALSE
  /\ pc' = [wakeup_log(pc) EXCEPT ![p] = "user"]
  /\ UNCHANGED <<disk, cache, pins, lh, outstanding, tail, wrote, boot, rtail>>
-----------------------------------------------------------------------------
(* The buffer cache and the machine. *)

(* A read outside or inside a call brings the block into the cache. *)
read(b) ==
  /\ boot = "up"
  /\ cache[b] = NotCached
  /\ cache' = [cache EXCEPT ![b] = home[b]]
  /\ UNCHANGED <<disk, pins, lh, outstanding, committing, procs, boot, rtail>>

(* bget() recycles a buffer that nobody holds and nobody has pinned. *)
evict(b) ==
  /\ boot = "up"
  /\ cache[b] # NotCached
  /\ pins[b] = 0
  /\ cache' = [cache EXCEPT ![b] = NotCached]
  /\ UNCHANGED <<disk, pins, lh, outstanding, committing, procs, boot, rtail>>

(* The block whose bwrite() is under way may hold anything after a crash. *)
TornLog(v) ==
  \/ UNCHANGED disk
  \/ \E p \in Procs : /\ boot = "up" /\ pc[p] = "write_log"
                      /\ logd' = [logd EXCEPT ![tail[p] + 1] = v]
                      /\ UNCHANGED <<home, head>>

TornHome(v) ==
  /\ \/ /\ boot = "install"
        /\ home' = [home EXCEPT ![lh[rtail + 1]] = v]
     \/ \E p \in Procs : /\ boot = "up" /\ pc[p] = "install"
                         /\ home' = [home EXCEPT ![lh[tail[p] + 1]] = v]
  /\ UNCHANGED <<logd, head>>

(* Power fails, or the machine is reset after a panic; only disk survives. *)
crash ==
  /\ \E v \in Values : TornLog(v) \/ TornHome(v)
  /\ cache' = [b \in Blocks |-> NotCached]
  /\ pins' = [b \in Blocks |-> 0]
  /\ lh' = <<>>
  /\ outstanding' = 0
  /\ committing' = FALSE
  /\ pc' = [p \in Procs |-> "user"]
  /\ tail' = [p \in Procs |-> 0]
  /\ wrote' = [p \in Procs |-> {}]
  /\ boot' = "read_head"
  /\ rtail' = 0

commit(p) == write_log(p) \/ write_head(p) \/ install_trans(p) \/ erase(p) \/ finish(p)

recover_from_log == read_head \/ recover_install \/ recover_clear

Next ==
  \/ recover_from_log
  \/ \E p \in Procs : begin_op(p) \/ end_op(p) \/ commit(p)
  \/ \E p \in Procs, b \in Blocks, v \in Values : log_write(p, b, v)
  \/ \E b \in Blocks : read(b) \/ evict(b)
  \/ crash

Spec == Init /\ [][Next]_vars
-----------------------------------------------------------------------------
(* What the log is for. *)

(* The contents the disk has once recovery is done: the home blocks, with   *)
(* the logged copies over them when the header on disk says "committed".    *)
InHead(b) == \E i \in 1 .. Len(head) : head[i] = b
SlotOf(b) == CHOOSE i \in 1 .. Len(head) : head[i] = b
Stable    == [b \in Blocks |-> IF InHead(b) THEN logd[SlotOf(b)] ELSE home[b]]

(* What the calls read; until recovery ends there is nobody to read. *)
Mem == IF boot \in {"up", "panicked"} THEN [b \in Blocks |-> bread(b)] ELSE Stable

Tx == INSTANCE TxDisk WITH stable <- Stable, mem <- Mem, active <- InOp

(* Whatever the interleaving of calls and wherever crashes fall, in a       *)
(* commit, in an install or in recovery, the disk moves from one boundary   *)
(* between calls to a later one in a single step: all-or-nothing, no        *)
(* committed write lost, recovery idempotent (log.c, commit and             *)
(* recover_from_log).                                                       *)
AtomicDurable == Tx!TxSpec

(* The write-ahead rule of commit() and recover_from_log(): a home block    *)
(* changes only while the header on disk names it, so that its new contents *)
(* can be redone from the log.  (A torn write is such a change.)            *)
WriteAhead == [][\A b \in Blocks : home'[b] # home[b] => InHead(b)]_vars

(* end_op() and begin_op(): outstanding counts the calls in progress; at    *)
(* most one process commits, exactly while log.committing is set, and no    *)
(* call is in progress then.  The panics "log.committing" and "log_write    *)
(* outside of trans" are unreachable.                                       *)
CommitAlone ==
  /\ outstanding = Cardinality(InOp)
  /\ committing <=> \E p \in Procs : pc[p] \in CommitPCs
  /\ \A p, q \in Procs : pc[p] \in CommitPCs /\ pc[q] \in CommitPCs => p = q
  /\ committing => outstanding = 0

(* The blocks of the open transaction that have not reached home. *)
Uninstalled ==
  {lh[i] : i \in {j \in 1 .. Len(lh) :
                    \A p \in Procs : /\ pc[p] # "erase"
                                     /\ pc[p] = "install" => j > tail[p]}}

(* log_write() pins a block once however often it is absorbed, and          *)
(* install_trans(0) unpins it when it is home: exactly the blocks that the  *)
(* transaction still needs are pinned, they stay in the cache until they    *)
(* are installed, every other cached block equals its home block, and no    *)
(* pin is left behind.                                                      *)
PinnedUntilInstalled ==
  boot = "up" =>
    \A b \in Blocks : IF b \in Uninstalled
                      THEN pins[b] = 1 /\ cache[b] # NotCached
                      ELSE pins[b] = 0 /\ bread(b) = home[b]

(* A process sleeps in begin_op() only while somebody is due to wake it: a  *)
(* call in progress, whose end_op() will, or a commit.                      *)
SleeperHasWaker ==
  (\E p \in Procs : pc[p] = "asleep") => outstanding > 0 \/ committing
(* What the calls in progress have written. *)
Written == {x \in InOp \X Blocks : x[2] \in wrote[x[1]]}

(* Whatever a call in progress has written is in the log, and log_write()   *)
(* is called for MAXOPBLOCKS blocks at most.                                *)
OpsLogged ==
  \A p \in InOp : wrote[p] \subseteq Logged /\ Cardinality(wrote[p]) <= MAXOPBLOCKS

(* How many blocks the log on disk, with its own header, is short of what   *)
(* the header's array can name: none if mkfs made it of LOGSIZE + 1 blocks. *)
Missing == IF NLOG > LOGSIZE THEN 0 ELSE LOGSIZE + 1 - NLOG

(* begin_op() reserves MAXOPBLOCKS for every call it admits: what is logged *)
(* and what the calls in progress may still log never exceeds LOGSIZE.  So  *)
(* log_write() does not panic ("too big a transaction") at a call that has  *)
(* a block left of its MAXOPBLOCKS, less those that are missing on disk,    *)
(* however many other calls there are.                                      *)
ReservedSpace ==
  /\ OpsLogged
  /\ Len(lh) + outstanding * MAXOPBLOCKS - Cardinality(Written) <= LOGSIZE
  /\ \A p \in InOp : Cardinality(wrote[p]) + Missing < MAXOPBLOCKS => ~TooBig
-----------------------------------------------------------------------------
(* The inductive invariant from which module LogProofs derives all this. *)

Running   == boot \in {"up", "panicked"}
Committed == \E p \in Procs : pc[p] \in {"install", "erase"}
NoDup(s)  == \A i, j \in 1 .. Len(s) : s[i] = s[j] => i = j

RecoveryInv ==
  ~Running =>
    /\ \A p \in Procs : pc[p] = "user"
    /\ \A b \in Blocks : bread(b) = home[b] /\ pins[b] = 0
    /\ boot \in {"install", "clear"} => lh = head
    /\ boot = "install" => rtail < Len(lh)
    /\ \A i \in 1 .. Len(lh) :
         boot = "clear" \/ (boot = "install" /\ i <= rtail) => home[lh[i]] = logd[i]

HeadInv ==
  /\ NoDup(lh) /\ NoDup(head)
  /\ Running => head = IF Committed THEN lh ELSE <<>>

CacheInv ==
  Running =>
    \A b \in Blocks : IF b \in Uninstalled
                      THEN pins[b] = 1 /\ cache[b] # NotCached
                      ELSE pins[b] = 0 /\ bread(b) = home[b]

CommitInv ==
  Running =>
    /\ committing \/ InOp # {} \/ lh = <<>>
    /\ \A p \in Procs :
         /\ pc[p] \in {"write_log", "write_head", "install"} => tail[p] < Len(lh)
         /\ pc[p] = "write_head" => tail[p] = 0
         /\ pc[p] = "finish" => lh = <<>>
         /\ \A i \in 1 .. Len(lh) :
              (pc[p] = "write_log" /\ i <= tail[p])
                \/ pc[p] \in {"write_head", "install", "erase"}
              => logd[i] = bread(lh[i])

(* Where each phase of commit() and of recovery has got to: which copies of *)
(* a logged block, in the cache, in the log and at home, agree.             *)
LogInv ==
  /\ TypeOK
  /\ CommitAlone
  /\ RecoveryInv
  /\ HeadInv
  /\ CacheInv
  /\ CommitInv
  /\ SleeperHasWaker
=============================================================================
