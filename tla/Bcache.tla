------------------------------- MODULE Bcache -------------------------------
(***************************************************************************)
(* The buffer cache, kernel/bio.c, and the sleep-locks of                  *)
(* kernel/sleeplock.c that guard its buffers.                              *)
(*                                                                         *)
(* A section under bcache.lock or under a sleep-lock's spin lock is one    *)
(* step; between bget()'s section and acquiresleep(), and between the two  *)
(* halves of brelse(), other processes run.  A disk transfer is one step   *)
(* here, see module VirtioDisk.  Every caller of bread() that changes a    *)
(* buffer calls bwrite() or log_write() before brelse(), and holds one     *)
(* buffer at a time as far as this module goes.                            *)
(***************************************************************************)
EXTENDS Integers, FiniteSets

CONSTANTS Procs, Blocks, Values, NBUF, NoProc, NoBlock

ASSUME BcacheAssumption ==
  NBUF \in Nat \ {0} /\ IsFiniteSet(Procs) /\ NoProc \notin Procs /\ NoBlock \notin Blocks

VARIABLES
  disk,
  blockno, valid, refcnt, data,   \* struct buf
  mru,      \* each buffer's place in the list from bcache.head.next to bcache.head.prev
  locked,   \* b->lock: who holds the sleep-lock
  pinned,   \* buffers that the log has pinned
  recent,   \* history: its place among all buffers, the last one released first
  pc,
  want,     \* the argument of each process's bread()
  mine,     \* the buffer it got
  panicked  \* "bget: no buffers"

bufs == <<blockno, valid, refcnt, data, mru>>
vars == <<disk, bufs, locked, pinned, recent, pc, want, mine, panicked>>

Bufs == 1 .. NBUF
PCs  == {"idle", "acquiresleep", "asleep", "bread", "hold", "dirty", "written", "brelse"}

(* struct buf and the bcache list of bio.c: a reference count, which       *)
(* brelse() and bunpin() decrement, is never negative.                     *)
TypeOK ==
  /\ disk \in [Blocks -> Values]
  /\ blockno \in [Bufs -> Blocks \cup {NoBlock}]
  /\ valid \in [Bufs -> BOOLEAN]
  /\ refcnt \in [Bufs -> Nat]
  /\ data \in [Bufs -> Values]
  /\ mru \in [Bufs -> Bufs] /\ recent \in [Bufs -> Bufs]
  /\ locked \in [Bufs -> Procs \cup {NoProc}]
  /\ pinned \subseteq Bufs
  /\ pc \in [Procs -> PCs]
  /\ want \in [Procs -> Blocks]
  /\ mine \in [Procs -> Bufs]
  /\ panicked \in BOOLEAN

(* After binit(): each buffer was put at the front of the list. *)
Init ==
  /\ disk \in [Blocks -> Values]
  /\ blockno = [b \in Bufs |-> NoBlock]
  /\ valid = [b \in Bufs |-> FALSE]
  /\ refcnt = [b \in Bufs |-> 0]
  /\ \E v \in Values : data = [b \in Bufs |-> v]
  /\ mru = [b \in Bufs |-> NBUF + 1 - b]
  /\ recent = mru
  /\ locked = [b \in Bufs |-> NoProc]
  /\ pinned = {}
  /\ pc = [p \in Procs |-> "idle"]
  /\ \E k \in Blocks : want = [p \in Procs |-> k]
  /\ mine = [p \in Procs |-> 1]
  /\ panicked = FALSE
-----------------------------------------------------------------------------
Goto(p, s) == pc' = [pc EXCEPT ![p] = s]
MoveToFront(s, b) ==
  [c \in Bufs |-> IF c = b THEN 1 ELSE IF s[c] < s[b] THEN s[c] + 1 ELSE s[c]]

Caching(k) == {b \in Bufs : blockno[b] = k}

Unused == {b \in Bufs : refcnt[b] = 0}

(* The first unused buffer from the least recently used end of the list. *)
Lru == {b \in Unused : \A c \in Unused : mru[c] <= mru[b]}

bget_hit(p, b) ==
  /\ mine' = [mine EXCEPT ![p] = b]
  /\ refcnt' = [refcnt EXCEPT ![b] = @ + 1]
  /\ UNCHANGED <<blockno, valid>>

(* Mutant: the recycled buffer keeps its valid bit. *)
bget_miss_valid(p, k, b) ==
  /\ mine' = [mine EXCEPT ![p] = b]
  /\ blockno' = [blockno EXCEPT ![b] = k]
  /\ refcnt' = [refcnt EXCEPT ![b] = 1]
  /\ UNCHANGED valid

bget_miss(p, k, b) ==
  /\ mine' = [mine EXCEPT ![p] = b]
  /\ blockno' = [blockno EXCEPT ![b] = k]
  /\ valid' = [valid EXCEPT ![b] = FALSE]
  /\ refcnt' = [refcnt EXCEPT ![b] = 1]

(* bget() up to acquiresleep(): bcache.lock is held. *)
bget(p, k) ==
  /\ pc[p] = "idle" /\ ~panicked
  /\ want' = [want EXCEPT ![p] = k]
  /\ \/ \E b \in Caching(k) : bget_hit(p, b) /\ Goto(p, "acquiresleep") /\ UNCHANGED panicked
     \/ /\ Caching(k) = {}
        /\ \E b \in Lru : bget_miss(p, k, b)
        /\ Goto(p, "acquiresleep")
        /\ UNCHANGED panicked
     \/ /\ Caching(k) = {} /\ Unused = {}
        /\ panicked' = TRUE
        /\ UNCHANGED <<blockno, valid, refcnt, mine, pc>>
  /\ UNCHANGED <<disk, data, mru, locked, pinned, recent>>

(* acquiresleep(): one test of lk->locked, and the lock or sleep(). *)
acquiresleep(p) ==
  /\ pc[p] = "acquiresleep" /\ ~panicked
  /\ \/ /\ locked[mine[p]] = NoProc
        /\ locked' = [locked EXCEPT ![mine[p]] = p]
        /\ Goto(p, "bread")
     \/ /\ locked[mine[p]] # NoProc
        /\ Goto(p, "asleep")
        /\ UNCHANGED locked
  /\ UNCHANGED <<disk, bufs, pinned, recent, want, mine, panicked>>

(* The rest of bread(): the disk is read if the buffer is not valid. *)
bread(p) ==
  LET b == mine[p]
  IN /\ pc[p] = "bread" /\ ~panicked
     /\ data' = IF valid[b] THEN data ELSE [data EXCEPT ![b] = disk[blockno[b]]]
     /\ valid' = [valid EXCEPT ![b] = TRUE]
     /\ Goto(p, "hold")
     /\ UNCHANGED <<disk, blockno, refcnt, mru, locked, pinned, recent, want, mine, panicked>>

(* The holder changes b->data. *)
change(p, v) ==
  /\ pc[p] \in {"hold", "dirty"} /\ ~panicked
  /\ data' = [data EXCEPT ![mine[p]] = v]
  /\ Goto(p, "dirty")
  /\ UNCHANGED <<disk, blockno, valid, refcnt, mru, locked, pinned, recent, want, mine,
                 panicked>>

(* bwrite(), by commit() for a log block or a home block. *)
bwrite(p) ==
  /\ pc[p] \in {"hold", "dirty"} /\ ~panicked
  /\ disk' = [disk EXCEPT ![blockno[mine[p]]] = data[mine[p]]]
  /\ Goto(p, "written")
  /\ UNCHANGED <<bufs, locked, pinned, recent, want, mine, panicked>>

bpin(b) == refcnt' = [refcnt EXCEPT ![b] = @ + 1] /\ pinned' = pinned \cup {b}

(* log_write(): bpin() unless the block is in the log already. *)
log_write(p) ==
  /\ pc[p] = "dirty" /\ ~panicked
  /\ IF mine[p] \in pinned THEN UNCHANGED <<refcnt, pinned>> ELSE bpin(mine[p])
  /\ Goto(p, "hold")
  /\ UNCHANGED <<disk, blockno, valid, data, mru, locked, recent, want, mine, panicked>>

(* install_trans(0), after bwrite(). *)
bunpin(p) ==
  /\ pc[p] = "written" /\ mine[p] \in pinned /\ ~panicked
  /\ refcnt' = [refcnt EXCEPT ![mine[p]] = @ - 1]
  /\ pinned' = pinned \ {mine[p]}
  /\ UNCHANGED <<disk, blockno, valid, data, mru, locked, recent, pc, want, mine, panicked>>

(* Mutant: releasesleep() does not wake the processes that wait. *)
wakeup_lost(b, f) == f

wakeup(b, f) ==
  [q \in Procs |-> IF f[q] = "asleep" /\ mine[q] = b THEN "acquiresleep" ELSE f[q]]

(* brelse(), first half: releasesleep(). *)
releasesleep(p) ==
  /\ pc[p] \in {"hold", "written"} /\ ~panicked
  /\ locked' = [locked EXCEPT ![mine[p]] = NoProc]
  /\ pc' = [wakeup(mine[p], pc) EXCEPT ![p] = "brelse"]
  /\ UNCHANGED <<disk, bufs, pinned, recent, want, mine, panicked>>

(* Mutant: a buffer that becomes unused goes to the tail of the list. *)
Relink_tail(b) ==
  [c \in Bufs |-> IF c = b THEN NBUF ELSE IF mru[c] > mru[b] THEN mru[c] - 1 ELSE mru[c]]

(* The buffer becomes the most recently used one. *)
Relink(b) == MoveToFront(mru, b)

(* brelse(), second half, under bcache.lock. *)
brelse(p) ==
  LET b == mine[p]
  IN /\ pc[p] = "brelse" /\ ~panicked
     /\ refcnt' = [refcnt EXCEPT ![b] = @ - 1]
     /\ mru' = IF refcnt[b] = 1 THEN Relink(b) ELSE mru
     /\ recent' = MoveToFront(recent, b)
     /\ Goto(p, "idle")
     /\ mine' = [mine EXCEPT ![p] = 1]
     /\ UNCHANGED <<disk, blockno, valid, data, locked, pinned, want, panicked>>

Next ==
  \E p \in Procs :
    \/ \E k \in Blocks : bget(p, k)
    \/ acquiresleep(p) \/ bread(p)
    \/ \E v \in Values : change(p, v)
    \/ bwrite(p) \/ log_write(p) \/ bunpin(p)
    \/ releasesleep(p) \/ brelse(p)

Spec == Init /\ [][Next]_vars
-----------------------------------------------------------------------------
InUse == {"acquiresleep", "asleep", "bread", "hold", "dirty", "written", "brelse"}
Held  == {"bread", "hold", "dirty", "written"}
Users(b) == {p \in Procs : pc[p] \in InUse /\ mine[p] = b}

Content ==
  [k \in Blocks |-> IF \E b \in Caching(k) : valid[b]
                    THEN data[CHOOSE b \in Caching(k) : valid[b]] ELSE disk[k]]
Holder ==
  [k \in Blocks |-> IF \E b \in Caching(k) : locked[b] # NoProc
                    THEN locked[CHOOSE b \in Caching(k) : locked[b] # NoProc] ELSE NoProc]

Store == INSTANCE BlockStore WITH content <- Content, holder <- Holder

(* bget(), bread() and brelse() hide the cache: recycling and re-reading a  *)
(* buffer never changes what a block contains or who has it, also when      *)
(* others wait for the buffer or the log has pinned it.                     *)
IsBlockStore == Store!StSpec

(* bget(): a block is in at most one buffer, and the buffer a process waits *)
(* for or holds is still the one of the block it asked for.                 *)
OneBufferPerBlock ==
  /\ \A b, c \in Bufs : blockno[b] = blockno[c] /\ blockno[b] # NoBlock => b = c
  /\ \A p \in Procs : pc[p] \in InUse => blockno[mine[p]] = want[p]

(* refcnt counts the processes between bget() and brelse() and the log's    *)
(* pin, so that an unreferenced buffer is exactly one that may be recycled; *)
(* the sleep-lock is held by exactly the process between acquiresleep() and *)
(* releasesleep().                                                          *)
RefcntExact ==
  \A b \in Bufs :
    /\ refcnt[b] = Cardinality(Users(b)) + (IF b \in pinned THEN 1 ELSE 0)
    /\ \A p \in Procs : locked[b] = p <=> pc[p] \in Held /\ mine[p] = b

(* acquiresleep() and releasesleep(): a process sleeps on a buffer's lock   *)
(* only while somebody holds it.                                            *)
SleeperHasHolder ==
  \A p \in Procs : pc[p] = "asleep" => locked[mine[p]] # NoProc

(* The log's pins and the callers of bwrite() keep changes from being lost: *)
(* a buffer that is neither pinned nor being changed equals its block on    *)
(* disk, so that brelse() may leave it to be recycled.                      *)
CleanUnlessPinned ==
  /\ \A b \in Bufs :
       valid[b] /\ b \notin pinned /\ (\A p \in Procs : pc[p] = "dirty" => mine[p] # b)
         => blockno[b] # NoBlock /\ data[b] = disk[blockno[b]]
  /\ \A p \in Procs :
       /\ pc[p] \in {"hold", "dirty", "written"} => valid[mine[p]]
       /\ pc[p] = "written" => data[mine[p]] = disk[blockno[mine[p]]]

(* brelse() moves a buffer only when its last reference goes, while a pin   *)
(* or a waiting process keeps it where it is; still, the unused buffers are *)
(* in the list in the order in which they were released.                    *)
UnusedInOrder ==
  /\ \A b, c \in Bufs : mru[b] = mru[c] \/ recent[b] = recent[c] => b = c
  /\ \A b, c \in Unused : mru[b] < mru[c] => recent[b] < recent[c]

(* bio.c:76, "recycle the least recently used (LRU) unused buffer": the     *)
(* buffer that bget() recycles was released before every other one it could *)
(* have taken.                                                              *)
RecyclesLru ==
  [][\A b \in Bufs : blockno'[b] # blockno[b] =>
       \A c \in Unused \ {b} : recent[c] < recent[b]]_vars

(* bget(), brelse() and the sleep-locks: a block is in one buffer, which    *)
(* stays as long as it is referenced or differs from the disk, and nobody   *)
(* sleeps for a lock that is free.  This is the inductive invariant of      *)
(* module BcacheProofs.                                                     *)
BcacheInv ==
  /\ TypeOK /\ OneBufferPerBlock /\ RefcntExact /\ SleeperHasHolder
  /\ CleanUnlessPinned /\ UnusedInOrder
=============================================================================
