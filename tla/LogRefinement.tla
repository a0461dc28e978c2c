--------------------------- MODULE LogRefinement ----------------------------
(***************************************************************************)
(* The log of kernel/log.c is atomic and durable, for any number of        *)
(* processes, blocks and log slots: under the invariant of LogProofs,      *)
(* every step of the log is a step of TxDisk or changes nothing there.     *)
(***************************************************************************)
EXTENDS LogProofs

(* While p installs, or recovery does, the block written is in the header. *)
LEMMA InstallTarget ==
  ASSUME LogInv, NEW p \in Procs, boot = "up", pc[p] = "install"
  PROVE  /\ tail[p] + 1 \in 1 .. Len(lh) /\ lh = head
         /\ lh[tail[p] + 1] \in Blocks /\ InHead(lh[tail[p] + 1])
<1>1. lh = head
  BY DEF LogInv, HeadInv, Running, Committed
<1>2. tail[p] + 1 \in 1 .. Len(lh)
  BY DEF LogInv, TypeOK, CommitInv, Running
<1> QED
  BY <1>1, <1>2 DEF InHead, LogInv, TypeOK

(* The same for recovery's install_trans(1). *)
LEMMA RecoverTarget ==
  ASSUME LogInv, boot = "install"
  PROVE  /\ rtail + 1 \in 1 .. Len(lh) /\ lh = head
         /\ lh[rtail + 1] \in Blocks /\ InHead(lh[rtail + 1])
<1>1. lh = head
  BY DEF LogInv, RecoveryInv, Running
<1>2. rtail + 1 \in 1 .. Len(lh)
  BY DEF LogInv, TypeOK, RecoveryInv, Running
<1> QED
  BY <1>1, <1>2 DEF InHead, LogInv, TypeOK

(* What each step does to the home blocks, crashes included: it changes    *)
(* none, or one that the header on disk names.                             *)
LEMMA HomeStep ==
  ASSUME LogInv, [Next]_vars
  PROVE  \A b \in Blocks : home'[b] # home[b] => InHead(b)
<1> USE DEF disk
<1>1. CASE recover_install
  BY Zenon, <1>1, RecoverTarget DEF recover_install, LogInv, TypeOK
<1>2. ASSUME NEW p \in Procs, install_trans(p)
      PROVE  \A b \in Blocks : home'[b] # home[b] => InHead(b)
  BY Zenon, <1>2, InstallTarget DEF install_trans, LogInv, TypeOK
<1>3. CASE crash
  <2>1. PICK v \in Values : TornLog(v) \/ TornHome(v)
    BY <1>3 DEF crash
  <2>2. CASE TornLog(v)
    BY <2>2 DEF TornLog
  <2>3. CASE TornHome(v) /\ boot = "install"
    BY Zenon, <2>3, RecoverTarget DEF TornHome, LogInv, TypeOK
  <2>4. CASE TornHome(v) /\ boot # "install"
    <3>1. PICK p \in Procs : /\ boot = "up" /\ pc[p] = "install"
                             /\ home' = [home EXCEPT ![lh[tail[p] + 1]] = v]
      BY <2>4 DEF TornHome
    <3> QED
      BY Zenon, <3>1, InstallTarget DEF LogInv, TypeOK
  <2> QED
    BY <2>1, <2>2, <2>3, <2>4
<1>4. CASE UNCHANGED home
  BY <1>4
<1>5. recover_install \/ crash \/ UNCHANGED home \/ \E p \in Procs : install_trans(p)
  BY ZenonT(60) DEF Next, recover_from_log, commit, vars, read_head, recover_clear, begin_op, end_op,
         write_log, write_head, erase, finish, log_write, read, evict
<1> QED
  BY <1>1, <1>2, <1>3, <1>4, <1>5

(* The write-ahead rule. *)
THEOREM WriteAheadHolds == Spec => WriteAhead
<1>1. LogInv /\ [Next]_vars => [\A b \in Blocks : home'[b] # home[b] => InHead(b)]_vars
  BY HomeStep
<1> QED
  BY <1>1, LogInvariant, PTL DEF Spec, WriteAhead
-----------------------------------------------------------------------------
(* Refinement.  First, how the abstract disk looks from the log's state.   *)

(* A block of the header is redone from its own slot. *)
LEMMA SlotFact ==
  ASSUME LogInv, NEW i \in 1 .. Len(head)
  PROVE  SlotOf(head[i]) = i /\ InHead(head[i])
<1>1. InHead(head[i]) /\ \A j \in 1 .. Len(head) : head[j] = head[i] => j = i
  BY DEF InHead, LogInv, HeadInv, NoDup
<1> QED
  BY <1>1 DEF SlotOf

(* With every logged block at home, erasing the header changes nothing. *)
LEMMA StableInstalled ==
  ASSUME LogInv, \A i \in 1 .. Len(head) : home[head[i]] = logd[i]
  PROVE  Stable = home
<1>1. \A b \in Blocks : Stable[b] = home[b]
  <2> SUFFICES ASSUME NEW b \in Blocks PROVE Stable[b] = home[b]
    OBVIOUS
  <2>1. CASE InHead(b)
    <3>1. PICK i \in 1 .. Len(head) : head[i] = b
      BY <2>1 DEF InHead
    <3> QED
      BY <2>1, <3>1, SlotFact DEF Stable
  <2>2. CASE ~InHead(b)
    BY <2>2 DEF Stable
  <2> QED
    BY <2>1, <2>2
<1> QED
  BY <1>1 DEF Stable, LogInv, TypeOK

(* If the header and the log stay, and home changes only under the header, *)
(* what recovery will produce stays.                                       *)
LEMMA StableFrame ==
  ASSUME UNCHANGED <<head, logd>>,
         \A b \in Blocks : home'[b] # home[b] => InHead(b)
  PROVE  Stable' = Stable
BY DEF Stable, InHead, SlotOf

(* What a reader sees depends on the home blocks and the cache only. *)
LEMMA MemFrame ==
  ASSUME boot = "up", boot' = "up", \A b \in Blocks : bread(b)' = bread(b)
  PROVE  Mem' = Mem
BY DEF Mem

(* Recovery is invisible: it moves committed blocks home. *)
LEMMA RecoverRefines ==
  ASSUME LogInv, LogInv', recover_from_log
  PROVE  UNCHANGED <<Stable, Mem, InOp>>
<1> USE DEF disk, procs
<1>1. ~Running /\ InOp' = InOp /\ pc' = pc
  BY Zenon DEF LogInv, RecoveryInv, recover_from_log, read_head, recover_install,
         recover_clear, InOp, Running
<1>2. Mem = Stable
  BY <1>1 DEF Mem, Running
<1>3. CASE read_head
  <2>1. Stable' = Stable
    BY <1>3, StableFrame DEF read_head
  <2>2. Mem' = Stable'
    BY <1>3 DEF Mem, read_head
  <2> QED
    BY <1>1, <1>2, <2>1, <2>2
<1>4. CASE recover_install
  <2>1. Stable' = Stable
    <3>1. \A b \in Blocks : home'[b] # home[b] => InHead(b)
      BY Zenon, <1>4, RecoverTarget DEF recover_install, LogInv, TypeOK
    <3> QED
      BY <1>4, <3>1, StableFrame DEF recover_install
  <2>2. Mem' = Stable'
    BY <1>4 DEF Mem, recover_install
  <2> QED
    BY <1>1, <1>2, <2>1, <2>2
<1>5. CASE recover_clear
  <2>1. Stable = home
    BY ZenonT(60), <1>1, <1>5, StableInstalled DEF recover_clear, LogInv, RecoveryInv
  <2>2. head' = <<>> /\ home' = home /\ cache' = cache /\ boot' = "up"
    BY <1>5 DEF recover_clear
  <2>3. Stable' = home
    <3>1. \A b \in Blocks : ~InHead(b)'
      BY <2>2 DEF InHead
    <3> QED
      BY Zenon, <2>2, <3>1 DEF Stable, LogInv, TypeOK
  <2>4. Mem' = [b \in Blocks |-> home[b]]
    BY Zenon, <1>1, <2>2 DEF Mem, bread, LogInv, RecoveryInv
  <2> QED
    BY ZenonT(60), <1>1, <1>2, <2>1, <2>3, <2>4 DEF LogInv, TypeOK
<1> QED
  BY <1>3, <1>4, <1>5 DEF recover_from_log

(* The calls are the abstract Begin, Write and End. *)
LEMMA CallRefines ==
  ASSUME LogInv, NEW p \in Procs,
         \/ begin_op(p) \/ end_op(p)
         \/ \E b \in Blocks, v \in Values : log_write(p, b, v)
  PROVE  \/ Tx!Begin(p) \/ Tx!End(p)
         \/ \E b \in Blocks, v \in Values : Tx!Write(p, b, v)
         \/ UNCHANGED <<Stable, Mem, InOp>>
<1> USE DEF disk, procs
<1>1. Stable' = Stable
  BY ZenonT(60) DEF begin_op, end_op, log_write, Stable, InHead, SlotOf
<1>2. CASE begin_op(p)
  <2>1. Mem' = Mem
    BY Zenon, <1>1, <1>2 DEF begin_op, Mem, bread
  <2>2. CASE ~MayBegin
    <3>1. InOp' = InOp
      BY Zenon, <1>2, <2>2 DEF begin_op, InOp, LogInv, TypeOK
    <3> QED
      BY <1>1, <2>1, <3>1
  <2>3. CASE MayBegin
    <3>1. InOp' = InOp \cup {p} /\ p \notin InOp
      BY ZenonT(60), <1>2, <2>3 DEF begin_op, InOp, LogInv, TypeOK
    <3> QED
      BY <1>1, <2>1, <3>1 DEF Tx!Begin
  <2> QED
    BY <2>2, <2>3
<1>3. CASE end_op(p)
  <2>1. Mem' = Mem
    BY Zenon, <1>1, <1>3 DEF end_op, Mem, bread
  <2>2. InOp' = InOp \ {p} /\ p \in InOp
    BY ZenonT(60), <1>3 DEF end_op, LogInv, TypeOK, InOp, wakeup_log
  <2> QED
    BY <1>1, <2>1, <2>2 DEF Tx!End
<1>4. ASSUME NEW b \in Blocks, NEW v \in Values, log_write(p, b, v)
      PROVE  Tx!Write(p, b, v) \/ UNCHANGED <<Stable, Mem, InOp>>
  <2>1. InOp' = InOp /\ p \in InOp
    BY Zenon, <1>4 DEF log_write, InOp
  <2>2. CASE TooBig
    <3>1. Mem' = Mem
      BY Zenon, <1>4, <2>2 DEF log_write, Mem, bread
    <3> QED
      BY <1>1, <2>1, <3>1
  <2>3. CASE ~TooBig
    <3>1. /\ cache' = [cache EXCEPT ![b] = v] /\ home' = home
          /\ boot = "up" /\ boot' = "up"
      BY <1>4, <2>3 DEF log_write
    <3>2. Mem' = [Mem EXCEPT ![b] = v]
      BY ZenonT(60), <3>1, LogAssumption DEF Mem, bread, LogInv, TypeOK, LogAssumption
    <3> QED
      BY <1>1, <2>1, <3>2 DEF Tx!Write
  <2> QED
    BY <2>2, <2>3
<1> QED
  BY <1>2, <1>3, <1>4

(* Inside commit() only write_head() is visible: it is the abstract Commit. *)
LEMMA CommitRefines ==
  ASSUME LogInv, LogInv', NEW p \in Procs, commit(p)
  PROVE  Tx!Commit \/ UNCHANGED <<Stable, Mem, InOp>>
<1> USE DEF disk
<1>1. /\ InOp = {} /\ pc[p] \in CommitPCs /\ boot = "up" /\ boot' = "up"
      /\ \A q \in Procs \ {p} : pc[q] \notin CommitPCs
  <2>1. pc[p] \in CommitPCs /\ boot = "up" /\ boot' = "up"
    BY Zenon DEF commit, write_log, write_head, install_trans, erase, finish, CommitPCs
  <2> QED
    BY <2>1, CommitterAlone
<1>2. InOp' = {}
  BY ZenonT(60), <1>1 DEF commit, write_log, write_head, install_trans, erase, finish, InOp,
              wakeup_log, LogInv, TypeOK
<1>3. CASE write_log(p)
  <2>1. head = <<>> /\ head' = <<>> /\ home' = home
    BY Zenon, <1>1, <1>3 DEF write_log, LogInv, HeadInv, Running, Committed, CommitPCs
  <2>2. Stable' = Stable
    BY <2>1 DEF Stable, InHead
  <2>3. lh[tail[p] + 1] \in Blocks
    <3>1. tail[p] \in Nat /\ tail[p] < Len(lh)
      BY ZenonT(60), <1>3 DEF write_log, LogInv, TypeOK, CommitInv, Running
    <3> QED
      BY <3>1, LoggedBlocks
  <2>4. Mem' = Mem
    <3>1. cache \in [Blocks -> Values \cup {NotCached}] /\ home \in [Blocks -> Values]
      BY Zenon DEF LogInv, TypeOK
    <3>2. cache' = [cache EXCEPT ![lh[tail[p] + 1]] = bread(lh[tail[p] + 1])]
      BY <1>3 DEF write_log
    <3>3. \A b \in Blocks : bread(b)' = bread(b)
      BY Zenon, <2>1, <2>3, <3>1, <3>2 DEF bread
    <3> QED
      BY <1>1, <3>3, MemFrame
  <2> QED
    BY <1>1, <1>2, <2>2, <2>4
<1>4. CASE write_head(p)
  <2>1. head' = lh /\ UNCHANGED <<home, logd, cache>>
    BY <1>4 DEF write_head
  <2>2. Uninstalled = Logged
    BY <1>1, <1>4 DEF write_head, Uninstalled, Logged, CommitPCs
  <2>3. Mem' = Mem
    <3>1. \A b \in Blocks : bread(b)' = bread(b)
      BY <2>1 DEF bread
    <3> QED
      BY <1>1, <3>1, MemFrame
  <2>4. \A b \in Blocks : Stable'[b] = bread(b)
    <3> SUFFICES ASSUME NEW b \in Blocks PROVE Stable'[b] = bread(b)
      OBVIOUS
    <3>1. CASE InHead(b)'
      <4>1. PICK i \in 1 .. Len(lh) : lh[i] = b
        BY <2>1, <3>1 DEF InHead
      <4>2. SlotOf(b)' = i
        <5>1. \A j \in 1 .. Len(lh) : lh[j] = b => j = i
          BY Zenon, <4>1 DEF LogInv, HeadInv, NoDup
        <5> QED
          BY <2>1, <4>1, <5>1 DEF SlotOf
      <4>3. logd[i] = bread(b)
        BY ZenonT(60), <1>1, <1>4, <4>1 DEF write_head, LogInv, CommitInv, Running
      <4> QED
        BY <2>1, <3>1, <4>2, <4>3 DEF Stable
    <3>2. CASE ~InHead(b)'
      <4>1. b \notin Uninstalled
        BY <2>1, <2>2, <3>2 DEF InHead, Logged
      <4>2. bread(b) = home[b]
        BY Zenon, <1>1, <4>1 DEF LogInv, CacheInv, Running
      <4> QED
        BY <2>1, <3>2, <4>2 DEF Stable
    <3> QED
      BY <3>1, <3>2
  <2>5. Stable' = Mem
    BY Zenon, <1>1, <2>4 DEF Stable, Mem
  <2> QED
    BY <1>1, <1>2, <2>3, <2>5 DEF Tx!Commit
<1>5. CASE install_trans(p)
  <2>1. /\ tail[p] + 1 \in 1 .. Len(lh) /\ lh = head
        /\ lh[tail[p] + 1] \in Blocks /\ InHead(lh[tail[p] + 1])
    BY Zenon, <1>5, InstallTarget DEF install_trans
  <2>2. Stable' = Stable
    <3>1. \A b \in Blocks : home'[b] # home[b] => InHead(b)
      BY ZenonT(60), <1>5, <2>1 DEF install_trans, LogInv, TypeOK
    <3> QED
      BY Zenon, <1>5, <3>1, StableFrame DEF install_trans
  <2>3. logd[tail[p] + 1] = bread(lh[tail[p] + 1])
    BY ZenonT(60), <1>1, <1>5, <2>1 DEF install_trans, LogInv, CommitInv, Running
  <2>4. bread(lh[tail[p] + 1]) # NotCached
    BY ZenonT(60), <2>1, LogAssumption DEF bread, LogInv, TypeOK, LogAssumption
  <2>5. Mem' = Mem
    <3>1. cache \in [Blocks -> Values \cup {NotCached}] /\ home \in [Blocks -> Values]
      BY DEF LogInv, TypeOK
    <3>2. /\ cache' = [cache EXCEPT ![lh[tail[p] + 1]] = logd[tail[p] + 1]]
          /\ home' = [home EXCEPT ![lh[tail[p] + 1]] = logd[tail[p] + 1]]
      BY Zenon, <1>5 DEF install_trans
    <3>3. \A b \in Blocks : bread(b)' = bread(b)
      BY Zenon, <2>1, <2>3, <2>4, <3>1, <3>2 DEF bread
    <3> QED
      BY <1>1, <3>3, MemFrame
  <2> QED
    BY <1>1, <1>2, <2>2, <2>5
<1>6. CASE erase(p)
  <2>1. /\ Uninstalled = {} /\ head = lh
    BY Zenon, <1>1, <1>6 DEF erase, Uninstalled, LogInv, HeadInv, Committed, Running
  <2>2. \A i \in 1 .. Len(head) : home[head[i]] = logd[i]
    <3>1. \A i \in 1 .. Len(lh) : lh[i] \in Blocks /\ logd[i] = bread(lh[i])
      BY ZenonT(60), <1>1, <1>6, LoggedBlocks DEF erase, LogInv, CommitInv, Running
    <3>2. \A b \in Blocks : bread(b) = home[b]
      BY Zenon, <1>1, <2>1 DEF LogInv, CacheInv, Running
    <3> QED
      BY <2>1, <3>1, <3>2
  <2>3. Stable = home
    BY Zenon, <2>2, StableInstalled
  <2>4. Stable' = home
    <3>1. head' = <<>> /\ home' = home
      BY <1>6 DEF erase
    <3>2. \A b \in Blocks : ~InHead(b)'
      BY <3>1 DEF InHead
    <3> QED
      BY ZenonT(60), <3>1, <3>2 DEF Stable, LogInv, TypeOK
  <2>5. Mem' = Mem
    <3>1. UNCHANGED <<home, cache>>
      BY <1>6 DEF erase
    <3>2. \A b \in Blocks : bread(b)' = bread(b)
      BY <3>1 DEF bread
    <3> QED
      BY <1>1, <3>2, MemFrame
  <2> QED
    BY <1>1, <1>2, <2>3, <2>4, <2>5
<1>7. CASE finish(p)
  <2>1. Stable' = Stable
    BY <1>7, StableFrame DEF finish
  <2>2. Mem' = Mem
    <3>1. UNCHANGED <<home, cache>>
      BY <1>7 DEF finish
    <3>2. \A b \in Blocks : bread(b)' = bread(b)
      BY <3>1 DEF bread
    <3> QED
      BY <1>1, <3>2, MemFrame
  <2> QED
    BY <1>1, <1>2, <2>1, <2>2
<1> QED
  BY <1>3, <1>4, <1>5, <1>6, <1>7 DEF commit

(* A crash loses what was not committed and nothing else. *)
LEMMA CrashRefines == ASSUME LogInv, crash PROVE Tx!Lose
<1> USE DEF disk
<1>1. InOp' = {}
  BY DEF crash, InOp
<1>2. Mem' = Stable'
  BY DEF crash, Mem
<1>3. Stable' = Stable
  <2>1. PICK v \in Values : TornLog(v) \/ TornHome(v)
    BY DEF crash
  <2>2. CASE UNCHANGED <<home, logd, head>>
    BY <2>2, StableFrame
  <2>3. CASE TornLog(v) /\ ~UNCHANGED <<home, logd, head>>
    <3>1. PICK p \in Procs : boot = "up" /\ pc[p] = "write_log"
      BY <2>3 DEF TornLog
    <3>2. pc[p] \in CommitPCs /\ \A q \in Procs \ {p} : pc[q] \notin CommitPCs
      BY <3>1, CommitterAlone DEF CommitPCs
    <3>3. head = <<>>
      BY <3>1, <3>2 DEF LogInv, HeadInv, Running, Committed, CommitPCs
    <3>4. head' = head /\ home' = home
      BY <2>3 DEF TornLog
    <3> QED
      BY <3>3, <3>4 DEF Stable, InHead
  <2>4. CASE TornHome(v)
    <3>1. crash => [Next]_vars
      BY DEF Next
    <3>2. \A b \in Blocks : home'[b] # home[b] => InHead(b)
      BY <3>1, HomeStep
    <3> QED
      BY Zenon, <2>4, <3>2, StableFrame DEF TornHome
  <2> QED
    BY <2>1, <2>2, <2>3, <2>4
<1> QED
  BY <1>1, <1>2, <1>3 DEF Tx!Lose

(* Reading and recycling buffers is invisible. *)
LEMMA CacheRefines ==
  ASSUME LogInv, NEW b \in Blocks, read(b) \/ evict(b)
  PROVE  UNCHANGED <<Stable, Mem, InOp>>
<1> USE DEF disk, procs
<1>1. /\ boot = "up" /\ UNCHANGED <<home, logd, head, pc, boot>>
  BY Zenon DEF read, evict
<1>2. Stable' = Stable /\ InOp' = InOp
  BY <1>1, StableFrame DEF InOp
<1>a. cache \in [Blocks -> Values \cup {NotCached}] /\ home \in [Blocks -> Values]
  BY Zenon DEF LogInv, TypeOK
<1>3. CASE read(b)
  <2>1. cache[b] = NotCached /\ cache' = [cache EXCEPT ![b] = home[b]]
    BY Zenon, <1>3 DEF read
  <2>2. \A k \in Blocks : bread(k)' = bread(k)
    BY <1>1, <1>a, <2>1, LogAssumption DEF bread, LogAssumption
  <2> QED
    BY <1>1, <1>2, <2>2, MemFrame
<1>4. CASE evict(b)
  <2>1. bread(b) = home[b]
    <3>1. pins[b] = 0
      BY <1>4 DEF evict
    <3>2. pins[b] # 1
      BY <3>1
    <3>3. IF b \in Uninstalled THEN pins[b] = 1 ELSE bread(b) = home[b]
      BY Zenon, <1>1 DEF LogInv, CacheInv, Running
    <3> QED
      BY ONLY <3>2, <3>3
  <2>2. cache' = [cache EXCEPT ![b] = NotCached]
    BY <1>4 DEF evict
  <2>3. \A k \in Blocks : bread(k)' = bread(k)
    BY <1>1, <1>a, <2>1, <2>2 DEF bread
  <2> QED
    BY <1>1, <1>2, <2>3, MemFrame
<1> QED
  BY <1>3, <1>4

(* The log implements the abstract disk: the writes of a call are durable   *)
(* together or not at all, through any crash, for any number of processes,  *)
(* blocks and log slots.                                                    *)
THEOREM LogRefinesTxDisk == Spec => AtomicDurable
<1>1. Init => Tx!TxInit
  <2> SUFFICES ASSUME Init PROVE Tx!TxInit
    OBVIOUS
  <2>1. Stable = home
    BY DEF Init, Stable, InHead
  <2>2. Mem = Stable /\ InOp = {}
    BY DEF Init, Mem, InOp
  <2> QED
    BY <2>1, <2>2 DEF Tx!TxInit, Init
<1>2. LogInv /\ LogInv' /\ [Next]_vars => [Tx!TxNext]_(Tx!txvars)
  <2> SUFFICES ASSUME LogInv, LogInv', [Next]_vars
               PROVE  Tx!TxNext \/ UNCHANGED <<Stable, Mem, InOp>>
    BY DEF Tx!txvars
  <2>1. CASE UNCHANGED vars
    BY Zenon, <2>1 DEF vars, disk, procs, Stable, InHead, SlotOf, Mem, bread, InOp
  <2>2. CASE recover_from_log
    BY <2>2, RecoverRefines
  <2>3. CASE \E p \in Procs : begin_op(p) \/ end_op(p)
    BY <2>3, CallRefines DEF Tx!TxNext
  <2>4. CASE \E p \in Procs, b \in Blocks, v \in Values : log_write(p, b, v)
    BY <2>4, CallRefines DEF Tx!TxNext
  <2>5. CASE \E p \in Procs : commit(p)
    BY <2>5, CommitRefines DEF Tx!TxNext
  <2>6. CASE \E b \in Blocks : read(b) \/ evict(b)
    BY <2>6, CacheRefines
  <2>7. CASE crash
    BY <2>7, CrashRefines DEF Tx!TxNext
  <2> QED
    BY Zenon, <2>1, <2>2, <2>3, <2>4, <2>5, <2>6, <2>7 DEF Next
<1> QED
  BY <1>1, <1>2, LogInvariant, PTL DEF Spec, AtomicDurable, Tx!TxSpec
=============================================================================
