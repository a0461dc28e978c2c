----------------------------- MODULE VirtioDisk -----------------------------
(***************************************************************************)
(* The disk driver, kernel/virtio_disk.c, and the device it shares memory  *)
(* with.                                                                   *)
(*                                                                         *)
(* What virtio_disk_rw() does under vdisk_lock between two sleep()s is one *)
(* step.  The device takes no lock: it runs between the iterations of      *)
(* virtio_disk_intr(), takes requests from the avail ring in order, and    *)
(* completes them in any order.  Each process has one buffer, which its    *)
(* sleep-lock makes its own (module Bcache).                               *)
(***************************************************************************)
EXTENDS Integers, FiniteSets

CONSTANTS
  Procs, Blocks, Values,
  NUM,       \* descriptors
  RING,      \* entries of each ring, NUM in the code
  IdxMod,    \* ring indices are kept modulo IdxMod: uint16, 2^16 in the code
  NoProc, NoDesc

Descs == 0 .. NUM - 1
Ring  == 0 .. RING - 1

ASSUME VirtioAssumption ==
  /\ NUM \in Nat \ {0, 1, 2} /\ RING \in Nat /\ 3 * RING >= NUM - 2
  /\ IdxMod \in Nat /\ IdxMod % RING = 0 /\ IdxMod > RING
  /\ NoProc \notin Procs /\ NoDesc \notin Descs

VARIABLES
  free,        \* disk.free, as the set of free descriptors
  addr, next,  \* disk.desc; next is NoDesc when VRING_DESC_F_NEXT is off
  ops,         \* disk.ops
  info,        \* disk.info: the process whose buffer it is, and the status
  avail, availIdx, used, usedIdx,   \* the rings and the indices shared
  used_idx,    \* the driver's position in the used ring
  bdisk,       \* b->disk
  data,        \* b->data
  req, pc,     \* the arguments of each virtio_disk_rw(), and where it is
  head,        \* its idx[0]
  intr,        \* virtio_disk_intr() is in its loop and holds vdisk_lock
  panicked,
  store, devIdx, inflight, isr,   \* the device
  killed

driver == <<free, addr, next, ops, info, avail, availIdx, used_idx, bdisk, head>>
device == <<used, usedIdx, store, devIdx, inflight, isr>>
vars   == <<driver, device, data, req, pc, intr, panicked, killed>>

Reqs  == [write : BOOLEAN, block : Blocks]
Infos == [b : Procs \cup {NoProc}, status : {0, 255}]
PCs   == {"idle", "alloc", "asleep_desc", "asleep_buf", "awake"}

(* struct disk and the device: the ring indices stay 16 bits wide and the   *)
(* descriptors in their table.                                              *)
TypeOK ==
  /\ free \subseteq Descs
  /\ addr \in [Descs -> Descs \cup Procs]
  /\ next \in [Descs -> Descs \cup {NoDesc}]
  /\ ops \in [Descs -> Reqs]
  /\ info \in [Descs -> Infos]
  /\ avail \in [Ring -> Descs] /\ used \in [Ring -> Descs]
  /\ {availIdx, usedIdx, used_idx, devIdx} \subseteq 0 .. IdxMod - 1
  /\ bdisk \in [Procs -> BOOLEAN]
  /\ data \in [Procs -> Values]
  /\ req \in [Procs -> Reqs]
  /\ pc \in [Procs -> PCs]
  /\ head \in [Procs -> Descs]
  /\ store \in [Blocks -> Values]
  /\ inflight \subseteq Descs
  /\ {intr, panicked, isr} \subseteq BOOLEAN
  /\ killed \subseteq Procs

(* After virtio_disk_init(). *)
Init ==
  /\ free = Descs
  /\ addr = [d \in Descs |-> 0] /\ next = [d \in Descs |-> NoDesc]
  /\ info = [d \in Descs |-> [b |-> NoProc, status |-> 0]]
  /\ avail = [s \in Ring |-> 0] /\ availIdx = 0
  /\ used = [s \in Ring |-> 0] /\ usedIdx = 0
  /\ used_idx = 0
  /\ bdisk = [p \in Procs |-> FALSE]
  /\ \E k \in Blocks : LET r == [write |-> FALSE, block |-> k]
                       IN req = [p \in Procs |-> r] /\ ops = [d \in Descs |-> r]
  /\ \E v \in Values : data = [p \in Procs |-> v]
  /\ pc = [p \in Procs |-> "idle"]
  /\ head = [p \in Procs |-> 0]
  /\ intr = FALSE /\ panicked = FALSE
  /\ store \in [Blocks -> Values]
  /\ devIdx = 0 /\ inflight = {} /\ isr = FALSE
  /\ killed = {}
-----------------------------------------------------------------------------
Unlocked == ~intr /\ ~panicked       \* vdisk_lock can be taken

(* idx += 1 on a uint16. *)
Inc(x) == (x + 1) % IdxMod

(* Mutant: nobody is told of free descriptors. *)
wakeup_free_lost(f) == f

(* wakeup(&disk.free[0]) *)
wakeup_free(f) == [q \in Procs |-> IF f[q] = "asleep_desc" THEN "alloc" ELSE f[q]]

(* The three descriptors alloc_desc() finds: the lowest free ones. *)
alloc3 ==
  CHOOSE t \in free \X free \X free :
    /\ t[1] < t[2] /\ t[2] < t[3]
    /\ \A d \in free : d <= t[3] => d \in {t[1], t[2], t[3]}

(* A call.  The caller has put what it writes into its buffer. *)
rw_call(p) ==
  /\ pc[p] = "idle"
  /\ \E r \in Reqs :
       /\ req' = [req EXCEPT ![p] = r]
       /\ IF r.write THEN \E v \in Values : data' = [data EXCEPT ![p] = v]
                     ELSE UNCHANGED data
  /\ pc' = [pc EXCEPT ![p] = "alloc"]
  /\ UNCHANGED <<driver, device, intr, panicked, killed>>

(* alloc3_desc() fails: what it took it frees again, and free_desc() wakes *)
(* the others that wait for descriptors.                                   *)
rw_full(p) ==
  /\ pc[p] = "alloc" /\ Unlocked /\ Cardinality(free) < 3
  /\ pc' = [(IF free = {} THEN pc ELSE wakeup_free(pc)) EXCEPT ![p] = "asleep_desc"]
  /\ addr' = [d \in Descs |-> IF d \in free THEN 0 ELSE addr[d]]
  /\ next' = [d \in Descs |-> IF d \in free THEN NoDesc ELSE next[d]]
  /\ UNCHANGED <<free, ops, info, avail, availIdx, used_idx, bdisk, head, device, data, req,
                 intr, panicked, killed>>

NewInfo(p) == [b |-> p, status |-> 255]

(* alloc3_desc() succeeds: the chain is built and offered to the device,    *)
(* then sleep(b): the lock was held, so b->disk is still 1.                 *)
rw_submit(p) ==
  /\ pc[p] = "alloc" /\ Unlocked /\ Cardinality(free) >= 3
  /\ LET t == alloc3
     IN /\ free' = free \ {t[1], t[2], t[3]}
        /\ ops' = [ops EXCEPT ![t[1]] = req[p]]
        /\ addr' = [addr EXCEPT ![t[1]] = t[1], ![t[2]] = p, ![t[3]] = t[1]]
        /\ next' = [next EXCEPT ![t[1]] = t[2], ![t[2]] = t[3], ![t[3]] = NoDesc]
        /\ info' = [info EXCEPT ![t[1]] = NewInfo(p)]
        /\ head' = [head EXCEPT ![p] = t[1]]
        /\ avail' = [avail EXCEPT ![availIdx % RING] = t[1]]
  /\ availIdx' = Inc(availIdx)
  /\ bdisk' = [bdisk EXCEPT ![p] = TRUE]
  /\ pc' = [pc EXCEPT ![p] = "asleep_buf"]
  /\ UNCHANGED <<used_idx, device, data, req, intr, panicked, killed>>

(* The descriptors free_chain() follows; a transfer has three. *)
Chain(h) ==
  LET succ(S) == S \cup ({next[d] : d \in S} \ {NoDesc}) IN succ(succ({h}))

free_chain(h) == free \cup Chain(h)

(* Mutant: whoever is awakened takes its request to be done. *)
Finished_assumed(p) == TRUE

Finished(p) == ~bdisk[p]

(* After sleep(b): again to sleep, or free_chain() and return.  free_desc() *)
(* panics on a descriptor that is already free.                             *)
rw_wait(p) ==
  /\ pc[p] = "awake" /\ Unlocked
  /\ IF ~Finished(p)
     THEN /\ pc' = [pc EXCEPT ![p] = "asleep_buf"]
          /\ UNCHANGED <<driver, panicked>>
     ELSE LET chain == Chain(head[p])
          IN /\ info' = [info EXCEPT ![head[p]].b = NoProc]
             /\ free' = free_chain(head[p])
             /\ panicked' = (chain \cap free # {})
             /\ addr' = [d \in Descs |-> IF d \in chain THEN 0 ELSE addr[d]]
             /\ next' = [d \in Descs |-> IF d \in chain THEN NoDesc ELSE next[d]]
             /\ pc' = [wakeup_free(pc) EXCEPT ![p] = "idle"]
             /\ head' = [head EXCEPT ![p] = 0]
             /\ UNCHANGED <<ops, avail, availIdx, used_idx, bdisk>>
  /\ UNCHANGED <<device, data, req, intr, killed>>

(* kill() makes a sleeping process runnable, whatever it waits for. *)
kill(p) ==
  /\ p \notin killed
  /\ killed' = killed \cup {p}
  /\ pc' = [pc EXCEPT ![p] = CASE @ = "asleep_desc" -> "alloc"
                               [] @ = "asleep_buf"  -> "awake"
                               [] OTHER             -> @]
  /\ UNCHANGED <<driver, device, data, req, intr, panicked>>
-----------------------------------------------------------------------------
(* virtio_disk_intr() *)

(* The interrupt is taken, vdisk_lock too, and the device told so. *)
intr_begin ==
  /\ isr /\ Unlocked
  /\ intr' = TRUE
  /\ isr' = FALSE
  /\ UNCHANGED <<driver, used, usedIdx, store, devIdx, inflight, data, req, pc, panicked,
                 killed>>

(* wakeup(b) *)
wakeup_buf(q, f) == [f EXCEPT ![q] = IF @ = "asleep_buf" THEN "awake" ELSE @]

used_id == used[used_idx % RING]

(* One completed request. *)
intr_loop ==
  /\ intr /\ ~panicked /\ used_idx # usedIdx
  /\ LET id == used_id
         b  == info[id].b
     IN IF info[id].status # 0 \/ b = NoProc
        THEN panicked' = TRUE /\ UNCHANGED <<bdisk, pc, used_idx>>
        ELSE /\ bdisk' = [bdisk EXCEPT ![b] = FALSE]
             /\ pc' = wakeup_buf(b, pc)
             /\ used_idx' = Inc(used_idx)
             /\ UNCHANGED panicked
  /\ UNCHANGED <<free, addr, next, ops, info, avail, availIdx, head, device, data, req, intr,
                 killed>>

(* Mutant: the loop may be left with completions unseen. *)
intr_drained_one == TRUE

intr_drained == used_idx = usedIdx

intr_end ==
  /\ intr /\ ~panicked /\ intr_drained
  /\ intr' = FALSE
  /\ UNCHANGED <<driver, device, data, req, pc, panicked, killed>>
-----------------------------------------------------------------------------
(* The device, as the driver's use of it and virtio.h describe it. *)

dev_fetch ==
  /\ devIdx # availIdx
  /\ inflight' = inflight \cup {avail[devIdx % RING]}
  /\ devIdx' = Inc(devIdx)
  /\ UNCHANGED <<driver, used, usedIdx, store, isr, data, req, pc, intr, panicked, killed>>

(* Follow the chain from h, move the block, write the status byte, then the *)
(* used ring, and interrupt.                                                *)
dev_complete(h) ==
  LET o == ops[addr[h]]
      b == addr[next[h]]
      s == addr[next[next[h]]]
  IN /\ h \in inflight
     /\ IF o.write THEN store' = [store EXCEPT ![o.block] = data[b]] /\ UNCHANGED data
                   ELSE data' = [data EXCEPT ![b] = store[o.block]] /\ UNCHANGED store
     /\ info' = [info EXCEPT ![s].status = 0]
     /\ used' = [used EXCEPT ![usedIdx % RING] = h]
     /\ usedIdx' = Inc(usedIdx)
     /\ inflight' = inflight \ {h}
     /\ isr' = TRUE
     /\ UNCHANGED <<free, addr, next, ops, avail, availIdx, used_idx, bdisk, head, devIdx,
                    req, pc, intr, panicked, killed>>

virtio_disk_rw(p)  == rw_full(p) \/ rw_submit(p) \/ rw_wait(p)
virtio_disk_intr   == intr_begin \/ intr_loop \/ intr_end
Device             == dev_fetch \/ \E h \in Descs : dev_complete(h)

Next ==
  \/ \E p \in Procs : rw_call(p) \/ virtio_disk_rw(p) \/ kill(p)
  \/ virtio_disk_intr
  \/ Device

Spec == Init /\ [][Next]_vars

(* The device serves its requests, interrupts are taken, and a process that *)
(* can run does.                                                            *)
FairSpec ==
  /\ Spec
  /\ \A p \in Procs : WF_vars(virtio_disk_rw(p))
  /\ WF_vars(virtio_disk_intr)
  /\ WF_vars(dev_fetch) /\ \A h \in Descs : WF_vars(dev_complete(h))
-----------------------------------------------------------------------------
InCall(p)  == pc[p] \in {"asleep_buf", "awake"}

Phase ==
  [p \in Procs |-> CASE pc[p] = "idle"                            -> "idle"
                     [] InCall(p) /\ info[head[p]].status = 0     -> "performed"
                     [] OTHER                                     -> "pending"]

Port == INSTANCE DiskPort WITH buf <- data, op <- req, phase <- Phase

(* virtio_disk_rw() and virtio_disk_intr(): a call returns only after its   *)
(* own request was performed, which happens once, also when requests        *)
(* complete out of order, share an interrupt, or a kill wakes the caller    *)
(* before its time.                                                         *)
IsDiskPort == Port!DPSpec

(* alloc3_desc() and free_chain(): each descriptor is free or in the chain  *)
(* of exactly one call in progress, and the device only works on chains of  *)
(* calls in progress whose buffers it may still touch.                      *)
DescriptorsOwned ==
  /\ \A p, q \in Procs :
       InCall(p) /\ InCall(q) /\ p # q => Chain(head[p]) \cap Chain(head[q]) = {}
  /\ free = Descs \ UNION {Chain(head[p]) : p \in {q \in Procs : InCall(q)}}
  /\ \A h \in inflight :
       \E p \in Procs : InCall(p) /\ head[p] = h /\ bdisk[p] /\ addr[next[h]] = p

(* The panics of free_desc() and virtio_disk_intr(), and a null info[id].b, *)
(* cannot happen with a device that reports no error.                       *)
NoPanic == ~panicked

(* The acknowledgement in virtio_disk_intr() races with new completions and *)
(* none is lost: a completion that the driver has not seen has an interrupt *)
(* pending or the handler's loop still running.                             *)
NoCompletionLost == used_idx # usedIdx => isr \/ intr

(* If calls cease to be made, each call in progress returns: no wakeup for  *)
(* a buffer or for descriptors is lost, even if processes waiting for       *)
(* descriptors keep waking each other.                                      *)
EveryCallReturns ==
  <>[][~ \E p \in Procs : rw_call(p)]_vars =>
    \A p \in Procs : pc[p] # "idle" ~> pc[p] = "idle"

Calls == {p \in Procs : InCall(p)}
Done  == {p \in Calls : ~bdisk[p]}

(* The chain of three that virtio_disk_rw() builds for each call in         *)
(* progress: the request, the buffer, the status.                           *)
ChainsBuilt ==
  \A p \in Calls :
    LET h == head[p]
        d == next[h]
        e == next[d]
    IN /\ d \in Descs /\ e \in Descs /\ next[e] = NoDesc /\ h # d /\ h # e /\ d # e
       /\ addr[h] = h /\ addr[d] = p /\ addr[e] = h
       /\ ops[h] = req[p] /\ info[h].b = p

(* The entries of a ring from the index of the one that reads it to that of *)
(* the one that writes it.                                                  *)
Dist(x, y) == (y - x) % IdxMod
Slot(x, k) == ((x + k) % IdxMod) % RING
Entries(ring, x, y)  == {ring[Slot(x, k)] : k \in 0 .. Dist(x, y) - 1}
EachOnce(ring, x, y) ==
  \A j, k \in 0 .. Dist(x, y) - 1 : ring[Slot(x, j)] = ring[Slot(x, k)] => j = k

(* What the device has not fetched, and what the driver has not seen. *)
Offered   == Entries(avail, devIdx, availIdx)
Completed == Entries(used, used_idx, usedIdx)

Working(h) == info[h].status = 255 /\ \E p \in Calls : head[p] = h /\ bdisk[p]
Worked(h)  == info[h].status = 0 /\ \E p \in Calls : head[p] = h /\ bdisk[p]

(* The rings hold calls in progress, each once, and the device or the       *)
(* driver is done with what the other overwrites in them.                   *)
RingsHoldCalls ==
  /\ EachOnce(avail, devIdx, availIdx) /\ EachOnce(used, used_idx, usedIdx)
  /\ Offered \cap inflight = {}
  /\ \A h \in Offered \cup inflight : Working(h)
  /\ \A h \in Completed : Worked(h)
  /\ \A p \in Done : info[head[p]].status = 0

(* Each call is at one of four places, and has three descriptors. *)
CallsCounted ==
  /\ IsFiniteSet(Calls)
  /\ Cardinality(Calls) = Dist(devIdx, availIdx) + Cardinality(inflight)
                             + Dist(used_idx, usedIdx) + Cardinality(Done)
  /\ 3 * Cardinality(Calls) + Cardinality(free) = NUM

(* The driver and the device agree: every descriptor has one owner, no      *)
(* completion is left without an interrupt, none of the panics of           *)
(* free_desc() and virtio_disk_intr() happens, and the rings hold the calls *)
(* in progress.                                                             *)
DriverInv ==
  /\ TypeOK /\ DescriptorsOwned /\ NoPanic /\ NoCompletionLost
  /\ ChainsBuilt /\ RingsHoldCalls /\ CallsCounted
=============================================================================
