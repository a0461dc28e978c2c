----------------------------- MODULE LogProofs ------------------------------
(***************************************************************************)
(* LogInv is an inductive invariant of the log of kernel/log.c, for any    *)
(* number of processes, blocks and log slots, and the invariants that      *)
(* follow from it.                                                         *)
(***************************************************************************)
EXTENDS Log, FiniteSetTheorems, TLAPS

(* The processes in a call are finitely many, so they can be counted. *)
LEMMA InOpFinite == IsFiniteSet(InOp)
BY Zenon, LogAssumption, FS_Subset DEF InOp, LogAssumption

(* What log_write() needs of Append. *)
LEMMA AppendFacts ==
  ASSUME NEW s \in Seq(Blocks), NEW b \in Blocks
  PROVE  /\ Append(s, b) \in Seq(Blocks)
         /\ Len(Append(s, b)) = Len(s) + 1
         /\ \A i \in 1 .. Len(s) : Append(s, b)[i] = s[i]
         /\ Append(s, b)[Len(s) + 1] = b
OBVIOUS

(* log_write() that records a block adds it to the recorded blocks. *)
LEMMA AppendLogs ==
  ASSUME NEW s \in Seq(Blocks), NEW b \in Blocks
  PROVE  {Append(s, b)[i] : i \in 1 .. Len(Append(s, b))} = {s[i] : i \in 1 .. Len(s)} \cup {b}
OBVIOUS

(* The arithmetic of the reservation.  log_write(): the log grows by at     *)
(* most the block that the call has used up of what it reserved.            *)
LEMMA WriteRoom ==
  \A l, m, k \in Int, x, y \in Nat :
    /\ l + k - x <= LOGSIZE
    /\ (m = l /\ y >= x) \/ (m = l + 1 /\ y = x + 1)
    => m + k - y <= LOGSIZE
BY LogAssumption DEF LogAssumption

(* end_op(): a call that ends gives MAXOPBLOCKS back, and used no more.     *)
LEMMA EndRoom ==
  \A l, o \in Int, x, y \in Nat :
    /\ l + o * MAXOPBLOCKS - (x + y) <= LOGSIZE
    /\ y <= MAXOPBLOCKS
    => l + (o - 1) * MAXOPBLOCKS - x <= LOGSIZE
<1> SUFFICES ASSUME NEW l \in Int, NEW o \in Int, NEW x \in Nat, NEW y \in Nat,
                    l + o * MAXOPBLOCKS - (x + y) <= LOGSIZE, y <= MAXOPBLOCKS
             PROVE  l + (o - 1) * MAXOPBLOCKS - x <= LOGSIZE
  OBVIOUS
<1>1. MAXOPBLOCKS \in Int /\ LOGSIZE \in Int /\ o * MAXOPBLOCKS \in Int
  BY LogAssumption DEF LogAssumption
<1>2. (o - 1) * MAXOPBLOCKS = o * MAXOPBLOCKS - MAXOPBLOCKS
  BY <1>1
<1> QED
  BY <1>1, <1>2

(* A call that has more than m left of its MAXOPBLOCKS leaves more than m   *)
(* slots free, when the others used no more than theirs.                    *)
LEMMA OneRoom ==
  \A l, o \in Int, x, y, m \in Nat :
    /\ l + o * MAXOPBLOCKS - (x + y) <= LOGSIZE
    /\ x <= (o - 1) * MAXOPBLOCKS /\ y + m < MAXOPBLOCKS
    => l + m < LOGSIZE
<1> SUFFICES ASSUME NEW l \in Int, NEW o \in Int, NEW x \in Nat, NEW y \in Nat, NEW m \in Nat,
                    l + o * MAXOPBLOCKS - (x + y) <= LOGSIZE,
                    x <= (o - 1) * MAXOPBLOCKS, y + m < MAXOPBLOCKS
             PROVE  l + m < LOGSIZE
  OBVIOUS
<1>1. MAXOPBLOCKS \in Int /\ LOGSIZE \in Int /\ o * MAXOPBLOCKS \in Int
  BY LogAssumption DEF LogAssumption
<1>2. (o - 1) * MAXOPBLOCKS = o * MAXOPBLOCKS - MAXOPBLOCKS
  BY <1>1
<1>3. \A k, b, z \in Int : l + k - (x + y) <= z /\ x <= k - b /\ y + m < b => l + m < z
  OBVIOUS
<1> QED
  BY Zenon, <1>1, <1>2, <1>3

(* Every initial state, a freshly made disk about to boot, has LogInv. *)
LEMMA InitInv == Init => LogInv
<1> SUFFICES ASSUME Init PROVE LogInv
  OBVIOUS
<1> USE LogAssumption DEF Init, LogAssumption
<1>1. TypeOK
  <2>1. <<>> \in Seq(Blocks) /\ Len(<<>>) = 0
    OBVIOUS
  <2>2. pc \in [Procs -> PCs] /\ boot \in BootPCs
    BY Zenon DEF PCs, BootPCs
  <2>3. /\ tail \in [Procs -> Nat] /\ rtail \in Nat
        /\ pins \in [Blocks -> Nat] /\ outstanding \in Int
    OBVIOUS
  <2>5. committing \in BOOLEAN
    BY ZenonT(60)
  <2>4. /\ wrote \in [Procs -> SUBSET Blocks]
        /\ cache \in [Blocks -> Values \cup {NotCached}]
    OBVIOUS
  <2> QED
    BY <2>1, <2>2, <2>3, <2>4, <2>5 DEF TypeOK
<1>2. InOp = {}
  BY Zenon DEF InOp
<1>3. CommitAlone
  BY Zenon, <1>2, FS_EmptySet DEF CommitAlone, CommitPCs
<1>4. RecoveryInv
  BY Zenon DEF RecoveryInv, bread
<1>5. HeadInv /\ CacheInv /\ CommitInv /\ SleeperHasWaker
  BY DEF HeadInv, CacheInv, CommitInv, SleeperHasWaker, Running, NoDup
<1> QED
  BY Zenon, <1>1, <1>3, <1>4, <1>5 DEF LogInv

(* LogInv is preserved by a step that changes nothing. *)
LEMMA StutterInv == LogInv /\ UNCHANGED vars => LogInv'
<1> SUFFICES ASSUME LogInv, UNCHANGED vars PROVE LogInv'
  OBVIOUS
<1> USE DEF vars, disk, procs
<1>1. TypeOK'
  BY Zenon DEF LogInv, TypeOK
<1>2. InOp' = InOp
  BY Zenon DEF InOp
<1>3. CommitAlone' /\ SleeperHasWaker'
  BY Zenon, <1>2 DEF LogInv, CommitAlone, SleeperHasWaker
<1>4. RecoveryInv' /\ HeadInv'
  BY DEF LogInv, RecoveryInv, HeadInv, bread, Running, Committed, NoDup
<1>5. CacheInv'
  BY DEF LogInv, CacheInv, Uninstalled, bread, Running
<1>6. CommitInv'
  BY Zenon, <1>2 DEF LogInv, CommitInv, bread, Running
<1> QED
  BY Zenon, <1>1, <1>3, <1>4, <1>5, <1>6 DEF LogInv

(* Recovery: read_head(), install_trans(1) and the final write_head()      *)
(* preserve LogInv; an interrupted install starts again from the header.   *)
LEMMA RecoverInv == LogInv /\ recover_from_log => LogInv'
<1> SUFFICES ASSUME LogInv, recover_from_log PROVE LogInv'
  OBVIOUS
<1> USE LogAssumption DEF LogAssumption, disk, procs
<1>1. ~Running /\ InOp = {} /\ InOp' = InOp /\ pc' = pc
  BY Zenon DEF LogInv, RecoveryInv, recover_from_log, read_head, recover_install,
         recover_clear, InOp, Running
<1>2. CommitAlone' /\ SleeperHasWaker'
  BY <1>1 DEF LogInv, CommitAlone, SleeperHasWaker, recover_from_log, read_head,
              recover_install, recover_clear
<1>3. CASE read_head
  <2> USE <1>3 DEF read_head
  <2>1. TypeOK'
    BY Zenon DEF LogInv, TypeOK, BootPCs
  <2>2. RecoveryInv'
    BY <1>1 DEF LogInv, TypeOK, RecoveryInv, bread, Running
  <2>3. HeadInv' /\ CacheInv' /\ CommitInv'
    BY DEF LogInv, HeadInv, CacheInv, CommitInv, Running, NoDup
  <2> QED
    BY Zenon, <1>2, <2>1, <2>2, <2>3 DEF LogInv
<1>4. CASE recover_install
  <2> USE <1>4 DEF recover_install
  <2> DEFINE b == lh[rtail + 1]
             v == logd[rtail + 1]
  <2>1. /\ rtail + 1 \in 1 .. Len(lh) /\ rtail + 1 \in LogSlots
        /\ b \in Blocks /\ v \in Values /\ lh = head
    BY <1>1 DEF LogInv, TypeOK, RecoveryInv, LogSlots
  <2>2. TypeOK'
    BY <2>1 DEF LogInv, TypeOK, BootPCs
  <2>3. \A c \in Blocks : bread(c)' = home'[c]
    BY Zenon, <1>1, <2>1 DEF LogInv, TypeOK, RecoveryInv, bread
  <2>4. \A i \in 1 .. Len(lh) : i <= rtail + 1 => home'[lh[i]] = logd[i]
    BY <1>1, <2>1 DEF LogInv, TypeOK, RecoveryInv, HeadInv, NoDup
  <2>5. RecoveryInv'
    BY <1>1, <2>1, <2>3, <2>4 DEF LogInv, TypeOK, RecoveryInv, Running
  <2>6. HeadInv' /\ CacheInv' /\ CommitInv'
    BY DEF LogInv, HeadInv, CacheInv, CommitInv, Running, NoDup
  <2> QED
    BY Zenon, <1>2, <2>2, <2>5, <2>6 DEF LogInv
<1>5. CASE recover_clear
  <2> USE <1>5 DEF recover_clear
  <2>1. TypeOK'
    BY DEF LogInv, TypeOK, BootPCs
  <2>2. RecoveryInv'
    BY Zenon DEF RecoveryInv, Running
  <2>3. HeadInv' /\ CommitInv'
    BY <1>1 DEF LogInv, HeadInv, CommitInv, RecoveryInv, Running, NoDup, Committed
  <2>4. CacheInv'
    BY <1>1 DEF LogInv, CacheInv, RecoveryInv, Uninstalled, bread
  <2> QED
    BY Zenon, <1>2, <2>1, <2>2, <2>3, <2>4 DEF LogInv
<1> QED
  BY Zenon, <1>3, <1>4, <1>5 DEF recover_from_log

(* What the header in memory names is a block, and has a slot in the log. *)
LEMMA LoggedBlocks ==
  ASSUME LogInv
  PROVE  /\ lh \in Seq(Blocks) /\ Len(lh) \in Nat
         /\ \A i \in 1 .. Len(lh) : lh[i] \in Blocks /\ i \in LogSlots
<1>1. lh \in Seq(Blocks) /\ Len(lh) \in Nat /\ Len(lh) <= LOGSIZE
  BY DEF LogInv, TypeOK
<1> QED
  BY <1>1, LogAssumption DEF LogSlots, LogAssumption

(* A step that leaves the disk, the cache, the header in memory and every   *)
(* committer alone preserves what LogInv says of them.                      *)
LEMMA CommitFrameInv ==
  ASSUME LogInv, boot \in {"up", "panicked"}, boot' \in {"up", "panicked"},
         UNCHANGED <<home, logd, head, cache, pins, lh, tail>>,
         \A q \in Procs : \A s \in CommitPCs : pc'[q] = s <=> pc[q] = s,
         committing' \/ InOp' # {} \/ lh' = <<>>
  PROVE  HeadInv' /\ CacheInv' /\ CommitInv' /\ RecoveryInv'
<1>1. \A b \in Blocks : bread(b)' = bread(b)
  BY Zenon DEF bread
<1>2. Uninstalled' = Uninstalled
  BY ZenonT(60) DEF Uninstalled, CommitPCs
<1>3. HeadInv'
  <2>1. Committed' <=> Committed
    BY Zenon DEF Committed, CommitPCs
  <2> QED
    BY <2>1 DEF LogInv, HeadInv, NoDup, Running
<1>4. CacheInv'
  BY Zenon, <1>1, <1>2 DEF LogInv, CacheInv, Running
<1>5. CommitInv'
  <2>1. \A i \in 1 .. Len(lh) : bread(lh[i])' = bread(lh[i])
    BY Zenon DEF bread
  <2>2. ASSUME NEW q \in Procs
        PROVE  /\ pc'[q] \in {"write_log", "write_head", "install"} => tail'[q] < Len(lh')
               /\ pc'[q] = "write_head" => tail'[q] = 0
               /\ pc'[q] = "finish" => lh' = <<>>
    BY Zenon DEF LogInv, CommitInv, Running, CommitPCs
  <2>3. ASSUME NEW q \in Procs, NEW i \in 1 .. Len(lh'),
               (pc'[q] = "write_log" /\ i <= tail'[q])
                 \/ pc'[q] \in {"write_head", "install", "erase"}
        PROVE  logd'[i] = bread(lh[i])'
    <3>1. (pc[q] = "write_log" /\ i <= tail[q])
            \/ pc[q] \in {"write_head", "install", "erase"}
      BY Zenon, <2>3 DEF CommitPCs
    <3>2. logd[i] = bread(lh[i])
      BY Zenon, <3>1 DEF LogInv, CommitInv, Running
    <3> QED
      BY Zenon, <2>1, <3>2
  <2> QED
    BY Zenon, <2>2, <2>3 DEF CommitInv
<1> QED
  BY Zenon, <1>3, <1>4, <1>5 DEF RecoveryInv, Running

(* After a step of commit(), CommitInv is about the committer alone. *)
LEMMA CommitterInv ==
  ASSUME NEW p \in Procs, committing',
         \A q \in Procs \ {p} : pc'[q] \notin CommitPCs,
         pc'[p] \in {"write_log", "write_head", "install"} => tail'[p] < Len(lh'),
         pc'[p] = "write_head" => tail'[p] = 0,
         pc'[p] = "finish" => lh' = <<>>,
         \A i \in 1 .. Len(lh') :
           (pc'[p] = "write_log" /\ i <= tail'[p])
             \/ pc'[p] \in {"write_head", "install", "erase"}
           => logd'[i] = bread(lh[i])'
  PROVE  CommitInv'
<1>1. \A q \in Procs : pc'[q] \in {"write_log", "write_head", "install", "erase", "finish"}
                       => q = p
  BY Zenon DEF CommitPCs
<1> QED
  BY Zenon, <1>1 DEF CommitInv

(* Calls: begin_op(), log_write() and end_op() preserve LogInv. *)

(* begin_op(), whether it admits the call or puts the process to sleep. *)
LEMMA BeginInv == ASSUME LogInv, NEW p \in Procs, begin_op(p) PROVE LogInv'
<1> USE LogAssumption DEF LogAssumption, disk, procs, begin_op
<1>1. TypeOK'
  <2>1. pc' \in [Procs -> PCs]
    BY Zenon DEF LogInv, TypeOK, PCs
  <2>2. outstanding' \in Int
    BY DEF LogInv, TypeOK
  <2>3. wrote' \in [Procs -> SUBSET Blocks]
    BY Zenon, {} \in SUBSET Blocks DEF LogInv, TypeOK
  <2> QED
    BY Zenon, <2>1, <2>2, <2>3 DEF LogInv, TypeOK
<1>2. \A q \in Procs : \A s \in CommitPCs : pc'[q] = s <=> pc[q] = s
  BY ZenonT(60) DEF LogInv, TypeOK, CommitPCs
<1>5. /\ boot = "up" /\ boot' = "up"
      /\ UNCHANGED <<home, logd, head, cache, pins, lh, tail, committing>>
  OBVIOUS
<1>3. CASE ~MayBegin
  <2>1. InOp' = InOp
    BY Zenon, <1>3 DEF LogInv, TypeOK, InOp
  <2>2. CommitAlone'
    BY Zenon, <1>2, <1>3, <2>1 DEF LogInv, CommitAlone
  <2>3. outstanding > 0 \/ committing
    <3> SUFFICES ASSUME ~committing, outstanding <= 0 PROVE FALSE
      BY DEF LogInv, TypeOK
    <3>1. outstanding = 0 /\ InOp = {}
      BY InOpFinite, FS_EmptySet, FS_CardinalityType DEF LogInv, CommitAlone
    <3>2. lh = <<>>
      BY Zenon, <3>1 DEF LogInv, CommitInv, Running
    <3> QED
      BY <1>3, <3>1, <3>2 DEF MayBegin, LogHasRoom
  <2>4. SleeperHasWaker'
    BY Zenon, <1>3, <2>3 DEF SleeperHasWaker
  <2>5. HeadInv' /\ CacheInv' /\ CommitInv' /\ RecoveryInv'
    <3>1. committing' \/ InOp' # {} \/ lh' = <<>>
      BY <1>5, <2>1 DEF LogInv, CommitInv, Running
    <3> HIDE DEF begin_op
    <3> QED
      BY Zenon, <1>2, <1>5, <3>1, CommitFrameInv
  <2> QED
    BY Zenon, <1>1, <2>2, <2>4, <2>5 DEF LogInv
<1>4. CASE MayBegin
  <2>1. InOp' = InOp \cup {p} /\ p \notin InOp
    BY ZenonT(60), <1>4 DEF LogInv, TypeOK, InOp
  <2>2. Cardinality(InOp') = Cardinality(InOp) + 1
    BY Zenon, <2>1, InOpFinite, FS_AddElement
  <2>3. CommitAlone'
    BY Zenon, <1>2, <1>4, <2>2 DEF LogInv, CommitAlone, MayBegin
  <2>4. SleeperHasWaker'
    BY <1>4, InOpFinite, FS_CardinalityType DEF LogInv, TypeOK, CommitAlone, SleeperHasWaker
  <2>5. HeadInv' /\ CacheInv' /\ CommitInv' /\ RecoveryInv'
    <3>1. InOp' # {}
      BY Zenon, <2>1
    <3> HIDE DEF begin_op
    <3> QED
      BY Zenon, <1>2, <1>5, <3>1, CommitFrameInv
  <2> QED
    BY Zenon, <1>1, <2>3, <2>4, <2>5 DEF LogInv
<1> QED
  BY Zenon, <1>3, <1>4

(* log_write(): absorbed, a new slot and a pin, or the panic.  The blocks that *)
(* are logged stay distinct.                                                   *)
LEMMA WriteInv ==
  ASSUME LogInv, NEW p \in Procs, NEW b \in Blocks, NEW v \in Values, log_write(p, b, v)
  PROVE  LogInv'
<1> USE LogAssumption DEF LogAssumption, disk, procs, log_write
<1>1. InOp' = InOp /\ p \in InOp
  BY Zenon DEF InOp
<1>2. ~committing /\ \A q \in Procs : pc[q] \notin CommitPCs
  <2>1. Cardinality(InOp) # 0
    BY Zenon, <1>1, InOpFinite, FS_EmptySet
  <2> QED
    BY Zenon, <2>1 DEF LogInv, CommitAlone
<1>3. CommitAlone' /\ SleeperHasWaker'
  BY Zenon, <1>1 DEF LogInv, CommitAlone, SleeperHasWaker
<1>4. CommitInv'
  BY Zenon, <1>1, <1>2 DEF CommitInv, CommitPCs
<1>5. ~Committed /\ head = <<>> /\ Uninstalled = Logged
  BY Zenon, <1>2 DEF LogInv, HeadInv, Running, Committed, CommitPCs, Uninstalled, Logged
<1>6. CASE TooBig
  <2>1. /\ boot = "up" /\ boot' = "panicked"
        /\ UNCHANGED <<home, logd, head, cache, pins, lh, outstanding, committing, pc, tail,
                       wrote, rtail>>
    BY Zenon, <1>6
  <2> HIDE DEF log_write
  <2>2. TypeOK'
    BY Zenon, <2>1 DEF LogInv, TypeOK, BootPCs
  <2>3. HeadInv' /\ CacheInv' /\ RecoveryInv'
    BY Zenon, <1>1, <2>1, CommitFrameInv
  <2> QED
    BY Zenon, <1>3, <1>4, <2>2, <2>3 DEF LogInv
<1>7. CASE ~TooBig
  <2>1. /\ cache' = [cache EXCEPT ![b] = v] /\ boot' = boot /\ boot = "up"
        /\ wrote' = [wrote EXCEPT ![p] = @ \cup {b}]
        /\ UNCHANGED <<home, logd, head, outstanding, committing, pc, tail, rtail>>
    BY Zenon, <1>7
  <2>2. \/ b \in Logged /\ lh' = lh /\ pins' = pins
        \/ b \notin Logged /\ lh' = Append(lh, b) /\ pins' = [pins EXCEPT ![b] = @ + 1]
    BY Zenon, <1>7 DEF Absorbed, bpin
  <2>3. lh \in Seq(Blocks) /\ Len(lh) \in Nat /\ Len(lh) < LOGSIZE
    BY <1>7 DEF TooBig, LogInv, TypeOK
  <2> HIDE DEF log_write
  <2>4. lh' \in Seq(Blocks) /\ Len(lh') <= LOGSIZE
    <3>1. Len(lh) <= LOGSIZE /\ Len(lh) + 1 <= LOGSIZE
      BY <2>3, LogAssumption DEF LogAssumption
    <3> QED
      <4>1. CASE lh' = lh
        BY Zenon, <2>3, <3>1, <4>1
      <4>2. CASE lh' = Append(lh, b)
        <5>1. Append(lh, b) \in Seq(Blocks) /\ Len(Append(lh, b)) = Len(lh) + 1
          BY Zenon, <2>3, AppendFacts
        <5> QED
          BY ONLY Zenon, <3>1, <4>2, <5>1
      <4> QED
        BY Zenon, <2>2, <4>1, <4>2
  <2>5. TypeOK'
    <3>1. wrote' \in [Procs -> SUBSET Blocks]
      <4>1. wrote[p] \cup {b} \in SUBSET Blocks
        BY Zenon DEF LogInv, TypeOK
      <4> QED
        BY Zenon, <2>1, <4>1 DEF LogInv, TypeOK
    <3>2. pins' \in [Blocks -> Nat]
      <4>1. pins \in [Blocks -> Nat] /\ pins[b] \in Nat /\ pins[b] + 1 \in Nat
        BY DEF LogInv, TypeOK
      <4> QED
        BY Zenon, <2>2, <4>1
    <3>3. cache' \in [Blocks -> Values \cup {NotCached}]
      BY Zenon, <2>1 DEF LogInv, TypeOK
    <3> QED
      BY Zenon, <2>1, <2>4, <3>1, <3>2, <3>3 DEF LogInv, TypeOK
  <2>6. HeadInv'
    <3>1. NoDup(lh')
      <4>1. CASE lh' = lh
        BY ZenonT(60), <4>1 DEF LogInv, HeadInv, NoDup
      <4>2. CASE b \notin Logged /\ lh' = Append(lh, b)
        <5>1. /\ Len(lh') = Len(lh) + 1 /\ lh'[Len(lh) + 1] = b
              /\ \A i \in 1 .. Len(lh) : lh'[i] = lh[i]
          BY ZenonT(60), <2>3, <4>2, AppendFacts
        <5>2. \A i \in 1 .. Len(lh) : lh[i] # b
          BY Zenon, <4>2 DEF Logged
        <5>3. \A i, j \in 1 .. Len(lh) : lh[i] = lh[j] => i = j
          BY Zenon DEF LogInv, HeadInv, NoDup
        <5>4. \A i \in 1 .. Len(lh') : i \in 1 .. Len(lh) \/ i = Len(lh) + 1
          BY <2>3, <5>1
        <5>5. \A i, j \in 1 .. Len(lh') : lh'[i] = lh'[j] => i = j
          BY Zenon, <5>1, <5>2, <5>3, <5>4
        <5> QED
          BY Zenon, <5>5 DEF NoDup
      <4> QED
        BY Zenon, <2>2, <4>1, <4>2
    <3> QED
      BY <1>5, <2>1, <3>1 DEF LogInv, HeadInv, NoDup, Running, Committed
  <2>7. Uninstalled' = Logged \cup {b}
    <3>1. Uninstalled' = {lh'[i] : i \in 1 .. Len(lh')}
      BY Zenon, <1>2, <2>1 DEF Uninstalled, CommitPCs
    <3>2. CASE b \in Logged /\ lh' = lh
      BY Zenon, <3>1, <3>2 DEF Logged
    <3>3. CASE lh' = Append(lh, b)
      <4>1. 1 .. Len(lh') = (1 .. Len(lh)) \cup {Len(lh) + 1}
        BY <2>3, <3>3, AppendFacts
      <4>2. \A i \in 1 .. Len(lh) : lh'[i] = lh[i]
        BY Zenon, <2>3, <3>3, AppendFacts
      <4>3. lh'[Len(lh) + 1] = b
        BY Zenon, <2>3, <3>3, AppendFacts
      <4> QED
        BY <3>1, <4>1, <4>2, <4>3 DEF Logged
    <3> QED
      BY Zenon, <2>2, <3>2, <3>3
  <2>8. CacheInv'
    <3>1. /\ cache \in [Blocks -> Values \cup {NotCached}] /\ pins \in [Blocks -> Nat]
          /\ v # NotCached
      BY Zenon DEF LogInv, TypeOK
    <3>2. \A c \in Blocks : IF c \in Logged THEN pins[c] = 1 /\ cache[c] # NotCached
                                            ELSE pins[c] = 0 /\ bread(c) = home[c]
      BY Zenon, <1>5, <2>1 DEF LogInv, CacheInv, Running
    <3>3. pins'[b] = 1 /\ cache'[b] # NotCached
      BY <2>1, <2>2, <3>1, <3>2
    <3>4. ASSUME NEW c \in Blocks, c # b
          PROVE  pins'[c] = pins[c] /\ cache'[c] = cache[c] /\ bread(c)' = bread(c)
      BY Zenon, <2>1, <2>2, <3>1, <3>4 DEF bread
    <3> QED
      BY Zenon, <2>1, <2>7, <3>2, <3>3, <3>4 DEF CacheInv
  <2> QED
    BY Zenon, <1>3, <1>4, <2>1, <2>5, <2>6, <2>8 DEF LogInv, RecoveryInv, Running
<1> QED
  BY Zenon, <1>6, <1>7

(* end_op(): the last call out becomes the committer, any other wakes sleepers. *)
LEMMA EndInv == ASSUME LogInv, NEW p \in Procs, end_op(p) PROVE LogInv'
<1> USE LogAssumption DEF LogAssumption, disk, procs, end_op
<1>1. TypeOK'
  <2>1. pc' \in [Procs -> PCs]
    BY ZenonT(60) DEF LogInv, TypeOK, PCs, CommitPCs, wakeup_log
  <2>2. outstanding' \in Int /\ tail' \in [Procs -> Nat]
    BY DEF LogInv, TypeOK
  <2> QED
    BY Zenon, <2>1, <2>2 DEF LogInv, TypeOK
<1>2. InOp' = InOp \ {p} /\ p \in InOp
  BY Zenon DEF LogInv, TypeOK, InOp, wakeup_log
<1>3. Cardinality(InOp') = Cardinality(InOp) - 1
  BY Zenon, <1>2, InOpFinite, FS_RemoveElement
<1>4. Cardinality(InOp) \in Nat /\ Cardinality(InOp) # 0 /\ IsFiniteSet(InOp')
  BY Zenon, <1>2, InOpFinite, FS_EmptySet, FS_CardinalityType, FS_Subset
<1>5. ~committing /\ \A q \in Procs : pc[q] \notin CommitPCs
  BY Zenon, <1>4 DEF LogInv, CommitAlone
<1>6. head = <<>> /\ Uninstalled = Logged
  BY Zenon, <1>5 DEF LogInv, HeadInv, Running, Committed, CommitPCs, Uninstalled, Logged
<1>7. \A q \in Procs : pc'[q] \notin {"write_head", "install", "erase"}
  BY ZenonT(60), <1>5 DEF LogInv, TypeOK, CommitPCs, wakeup_log
<1>8. HeadInv' /\ RecoveryInv'
  <2>1. boot = "up" /\ boot' = "up" /\ lh' = lh /\ head' = head
    OBVIOUS
  <2>2. ~Committed'
    BY Zenon, <1>7 DEF Committed
  <2>3. NoDup(lh) /\ NoDup(head)
    BY Zenon DEF LogInv, HeadInv
  <2> HIDE DEF end_op
  <2>4. NoDup(lh') /\ NoDup(head')
    BY ZenonT(60), <2>1, <2>3 DEF NoDup
  <2> QED
    BY Zenon, <1>6, <2>1, <2>2, <2>4 DEF HeadInv, RecoveryInv, Running
<1>9. CacheInv'
  <2>1. Uninstalled' = Logged
    BY ZenonT(60), <1>7 DEF Uninstalled, Logged
  <2> QED
    BY Zenon, <1>6, <2>1 DEF LogInv, CacheInv, Running, bread
<1>10. CASE outstanding = 1
  <2>1. InOp' = {}
    BY <1>3, <1>4, <1>10, FS_EmptySet DEF LogInv, CommitAlone
  <2>2. \A q \in Procs : pc'[q] \in CommitPCs <=> q = p
    BY Zenon, <1>5, <1>10 DEF LogInv, TypeOK, CommitPCs
  <2>3. CommitAlone'
    BY <1>3, <1>10, <2>2 DEF LogInv, CommitAlone
  <2>4. CommitInv'
    <3>1. /\ committing' /\ lh' = lh /\ tail'[p] = 0 /\ Len(lh) \in Nat
          /\ pc'[p] = IF lh = <<>> THEN "finish" ELSE "write_log"
      BY <1>10 DEF LogInv, TypeOK
    <3>2. lh # <<>> => 0 < Len(lh)
      BY DEF LogInv, TypeOK
    <3> HIDE DEF end_op
    <3>3. \A q \in Procs \ {p} : pc'[q] \notin CommitPCs
      BY Zenon, <2>2
    <3>4. \A i \in 1 .. Len(lh') : ~(i <= tail'[p])
      BY <3>1
    <3> QED
      BY Zenon, <3>1, <3>2, <3>3, <3>4, CommitterInv
  <2> QED
    BY Zenon, <1>1, <1>8, <1>9, <1>10, <2>3, <2>4 DEF LogInv, SleeperHasWaker
<1>11. CASE outstanding # 1
  <2>1. \A q \in Procs : pc'[q] \notin CommitPCs /\ pc'[q] # "asleep"
    BY ZenonT(60), <1>5, <1>11 DEF LogInv, TypeOK, CommitPCs, wakeup_log
  <2>2. CommitAlone'
    <3>1. outstanding' = outstanding - 1 /\ ~committing' /\ committing' \in BOOLEAN
      BY <1>5, <1>11 DEF LogInv, TypeOK
    <3>2. outstanding = Cardinality(InOp)
      BY Zenon DEF LogInv, CommitAlone
    <3> HIDE DEF end_op
    <3> QED
      BY Zenon, <1>3, <2>1, <3>1, <3>2 DEF CommitAlone
  <2>3. InOp' # {}
    BY <1>3, <1>4, <1>11, FS_EmptySet DEF LogInv, CommitAlone
  <2>4. CommitInv'
    BY Zenon, <2>1, <2>3 DEF CommitInv, CommitPCs
  <2> QED
    BY Zenon, <1>1, <1>8, <1>9, <2>1, <2>2, <2>4 DEF LogInv, SleeperHasWaker
<1> QED
  BY Zenon, <1>10, <1>11
-----------------------------------------------------------------------------
(* commit(): write_log(), write_head(), install_trans(0), the final         *)
(* write_head() and the return to end_op() preserve LogInv.  While p is     *)
(* there nobody else is, and nobody is in a call.                           *)
LEMMA CommitterAlone ==
  ASSUME LogInv, NEW p \in Procs, pc[p] \in CommitPCs
  PROVE  /\ committing /\ outstanding = 0 /\ InOp = {}
         /\ \A q \in Procs \ {p} : pc[q] \notin CommitPCs
<1>1. committing /\ outstanding = 0 /\ \A q \in Procs \ {p} : pc[q] \notin CommitPCs
  BY Zenon DEF LogInv, CommitAlone
<1>2. InOp = {}
  BY Zenon, <1>1, InOpFinite, FS_EmptySet DEF LogInv, CommitAlone
<1> QED
  BY Zenon, <1>1, <1>2

(* The parts of LogInv that a step of p inside commit() leaves alone. *)
LEMMA CommitFrame ==
  ASSUME LogInv, NEW p \in Procs, pc[p] \in CommitPCs, boot = "up",
         NEW s \in CommitPCs, pc' = [pc EXCEPT ![p] = s],
         UNCHANGED <<outstanding, committing, boot>>
  PROVE  /\ InOp' = {} /\ CommitAlone' /\ SleeperHasWaker' /\ RecoveryInv'
         /\ pc' \in [Procs -> PCs] /\ pc'[p] = s
         /\ \A q \in Procs \ {p} : pc'[q] \notin CommitPCs
<1>1. /\ committing /\ outstanding = 0 /\ InOp = {}
      /\ \A q \in Procs \ {p} : pc[q] \notin CommitPCs
  BY Zenon, CommitterAlone
<1>2. /\ pc' \in [Procs -> PCs] /\ pc'[p] = s
      /\ \A q \in Procs \ {p} : pc'[q] = pc[q]
  BY Zenon DEF LogInv, TypeOK, PCs
<1>3. InOp' = InOp
  BY Zenon, <1>2 DEF InOp, CommitPCs
<1>4. CommitAlone'
  BY Zenon, <1>1, <1>2, <1>3 DEF LogInv, CommitAlone
<1> QED
  BY Zenon, <1>1, <1>2, <1>3, <1>4 DEF SleeperHasWaker, RecoveryInv, Running

(* write_log(): one more slot of the log equals the cached block. *)
LEMMA WriteLogInv == ASSUME LogInv, NEW p \in Procs, write_log(p) PROVE LogInv'
<1> DEFINE t == tail[p] + 1
           b == lh[t]
           s == IF LastTail(p) THEN "write_head" ELSE "write_log"
<1>1. /\ boot = "up" /\ pc[p] = "write_log" /\ pc[p] \in CommitPCs
      /\ s \in CommitPCs /\ pc' = [pc EXCEPT ![p] = s]
      /\ logd' = [logd EXCEPT ![t] = bread(b)]
      /\ cache' = [cache EXCEPT ![b] = bread(b)]
      /\ tail' = [tail EXCEPT ![p] = IF LastTail(p) THEN 0 ELSE @ + 1]
      /\ UNCHANGED <<home, head, pins, lh, outstanding, committing, wrote, boot, rtail>>
  BY Zenon DEF write_log, CommitPCs
<1>2. /\ InOp' = {} /\ CommitAlone' /\ SleeperHasWaker' /\ RecoveryInv'
      /\ pc' \in [Procs -> PCs] /\ pc'[p] = s
      /\ \A q \in Procs \ {p} : pc'[q] \notin CommitPCs
  BY Zenon, <1>1, CommitFrame
<1>3. /\ committing /\ \A q \in Procs \ {p} : pc[q] \notin CommitPCs
  BY Zenon, <1>1, CommitterAlone
<1>4. /\ tail[p] \in Nat /\ t \in 1 .. Len(lh) /\ t \in LogSlots
      /\ b \in Blocks /\ bread(b) \in Values /\ Len(lh) \in Nat
  <2>1. tail[p] \in Nat /\ tail[p] < Len(lh)
    BY Zenon, <1>1 DEF LogInv, TypeOK, CommitInv, Running
  <2>2. t \in 1 .. Len(lh) /\ t \in LogSlots /\ b \in Blocks /\ Len(lh) \in Nat
    BY <2>1, LoggedBlocks
  <2> QED
    BY Zenon, <2>1, <2>2 DEF LogInv, TypeOK, bread
<1>5. TypeOK'
  <2>1. (IF LastTail(p) THEN 0 ELSE tail[p] + 1) \in Nat
    BY <1>4
  <2> QED
    BY ZenonT(60), <1>1, <1>2, <1>4, <2>1 DEF LogInv, TypeOK
<1>6. \A c \in Blocks : bread(c)' = bread(c)
  BY Zenon, <1>1, <1>4 DEF LogInv, TypeOK, bread
<1>7. HeadInv'
  BY <1>1, <1>2, <1>3 DEF LogInv, HeadInv, NoDup, Running, Committed, CommitPCs
<1>8. Uninstalled' = Logged /\ Uninstalled = Logged
  BY ZenonT(60), <1>1, <1>2, <1>3 DEF Uninstalled, Logged, CommitPCs
<1>9. CacheInv'
  BY ZenonT(60), <1>1, <1>4, <1>6, <1>8, LogAssumption
     DEF LogInv, TypeOK, CacheInv, Running, LogAssumption
<1>10. CommitInv'
  <2>1. \A i \in 1 .. Len(lh) : i <= t => logd'[i] = bread(lh[i])
    <3> SUFFICES ASSUME NEW i \in 1 .. Len(lh), i <= t PROVE logd'[i] = bread(lh[i])
      OBVIOUS
    <3>1. i \in LogSlots
      BY LogAssumption DEF LogInv, TypeOK, LogSlots, LogAssumption
    <3>2. CASE i = t
      BY Zenon, <1>1, <1>4, <3>2 DEF LogInv, TypeOK
    <3>3. CASE i # t
      <4>1. i <= tail[p]
        BY <1>4, <3>3
      <4>2. logd[i] = bread(lh[i])
        BY Zenon, <1>1, <4>1 DEF LogInv, CommitInv, Running
      <4> QED
        BY ZenonT(60), <1>1, <1>4, <3>1, <3>3, <4>2 DEF LogInv, TypeOK
    <3> QED
      BY Zenon, <3>2, <3>3
  <2>2. tail'[p] = IF LastTail(p) THEN 0 ELSE t
    BY Zenon, <1>1 DEF LogInv, TypeOK
  <2>3. tail'[p] < Len(lh)
    BY <1>4, <2>2 DEF LastTail
  <2>4. \A i \in 1 .. Len(lh) : i <= t \/ ~LastTail(p)
    BY <1>4 DEF LastTail
  <2>5. \A i \in 1 .. Len(lh) : lh[i] \in Blocks
    BY Zenon, LoggedBlocks
  <2>6. \A i \in 1 .. Len(lh) : bread(lh[i])' = bread(lh[i])
    BY Zenon, <1>1, <1>6, <2>5 DEF bread
  <2>7. \A i \in 1 .. Len(lh') :
          (pc'[p] = "write_log" /\ i <= tail'[p])
            \/ pc'[p] \in {"write_head", "install", "erase"}
          => logd'[i] = bread(lh[i])'
    BY ZenonT(60), <1>1, <1>2, <2>1, <2>2, <2>4, <2>6
  <2> QED
    BY ZenonT(60), <1>1, <1>2, <1>3, <2>2, <2>3, <2>7, CommitterInv
<1> QED
  BY Zenon, <1>2, <1>5, <1>7, <1>9, <1>10 DEF LogInv

(* write_head(): the header now names a log whose every slot is written. *)
LEMMA WriteHeadInv == ASSUME LogInv, NEW p \in Procs, write_head(p) PROVE LogInv'
<1>1. /\ boot = "up" /\ pc[p] = "write_head" /\ pc[p] \in CommitPCs
      /\ "install" \in CommitPCs /\ pc' = [pc EXCEPT ![p] = "install"]
      /\ head' = lh
      /\ UNCHANGED <<home, logd, cache, pins, lh, outstanding, committing, tail, wrote,
                     boot, rtail>>
  BY Zenon DEF write_head, CommitPCs
<1>2. /\ InOp' = {} /\ CommitAlone' /\ SleeperHasWaker' /\ RecoveryInv'
      /\ pc' \in [Procs -> PCs] /\ pc'[p] = "install"
      /\ \A q \in Procs \ {p} : pc'[q] \notin CommitPCs
  BY Zenon, <1>1, CommitFrame
<1>3. /\ committing /\ \A q \in Procs \ {p} : pc[q] \notin CommitPCs
  BY Zenon, <1>1, CommitterAlone
<1>4. TypeOK'
  BY Zenon, <1>1, <1>2 DEF LogInv, TypeOK
<1>5. HeadInv'
  BY ZenonT(60), <1>1, <1>2 DEF LogInv, HeadInv, NoDup, Running, Committed
<1>6. tail[p] = 0 /\ tail[p] < Len(lh)
  BY Zenon, <1>1 DEF LogInv, CommitInv, Running
<1>7. Uninstalled' = Logged /\ Uninstalled = Logged
  <2>1. \A j \in 1 .. Len(lh), q \in Procs :
          pc'[q] # "erase" /\ (pc'[q] = "install" => j > tail'[q])
    BY <1>1, <1>2, <1>6 DEF CommitPCs
  <2>2. \A q \in Procs : pc[q] # "erase" /\ pc[q] # "install"
    BY Zenon, <1>1, <1>3 DEF CommitPCs
  <2> QED
    BY Zenon, <1>1, <2>1, <2>2 DEF Uninstalled, Logged
<1>8. CacheInv'
  BY ZenonT(60), <1>1, <1>7 DEF LogInv, CacheInv, Running, bread
<1>9. CommitInv'
  BY <1>1, <1>2, <1>3, <1>6 DEF LogInv, CommitInv, CommitPCs, bread, Running
<1> QED
  BY Zenon, <1>2, <1>4, <1>5, <1>8, <1>9 DEF LogInv

(* install_trans(0): one more logged block is home and no longer pinned. *)
LEMMA InstallInv == ASSUME LogInv, NEW p \in Procs, install_trans(p) PROVE LogInv'
<1> DEFINE t == tail[p] + 1
           b == lh[t]
           v == logd[t]
           s == IF LastTail(p) THEN "erase" ELSE "install"
<1>1. /\ boot = "up" /\ pc[p] = "install" /\ pc[p] \in CommitPCs
      /\ s \in CommitPCs /\ pc' = [pc EXCEPT ![p] = s]
      /\ home' = [home EXCEPT ![b] = v]
      /\ cache' = [cache EXCEPT ![b] = v]
      /\ pins' = [pins EXCEPT ![b] = @ - 1]
      /\ tail' = [tail EXCEPT ![p] = IF LastTail(p) THEN 0 ELSE @ + 1]
      /\ UNCHANGED <<logd, head, lh, outstanding, committing, wrote, boot, rtail>>
  BY Zenon DEF install_trans, CommitPCs
<1>2. /\ InOp' = {} /\ CommitAlone' /\ SleeperHasWaker' /\ RecoveryInv'
      /\ pc' \in [Procs -> PCs] /\ pc'[p] = s
      /\ \A q \in Procs \ {p} : pc'[q] \notin CommitPCs
  BY Zenon, <1>1, CommitFrame
<1>3. /\ committing /\ \A q \in Procs \ {p} : pc[q] \notin CommitPCs
  BY Zenon, <1>1, CommitterAlone
<1>4. /\ tail[p] \in Nat /\ t \in 1 .. Len(lh) /\ t \in LogSlots
      /\ b \in Blocks /\ v \in Values /\ Len(lh) \in Nat
  <2>1. tail[p] \in Nat /\ tail[p] < Len(lh)
    BY Zenon, <1>1 DEF LogInv, TypeOK, CommitInv, Running
  <2>2. t \in 1 .. Len(lh) /\ t \in LogSlots /\ b \in Blocks /\ Len(lh) \in Nat
    BY <2>1, LoggedBlocks
  <2> QED
    BY Zenon, <2>1, <2>2 DEF LogInv, TypeOK
<1>6. v = bread(b) /\ \A c \in Blocks : bread(c)' = bread(c)
  <2>1. v = bread(b)
    BY Zenon, <1>1, <1>4 DEF LogInv, CommitInv, Running
  <2>2. v # NotCached
    BY Zenon, <1>4, LogAssumption DEF LogAssumption
  <2> QED
    BY Zenon, <1>1, <1>4, <2>1, <2>2 DEF LogInv, TypeOK, bread
<1>7. HeadInv'
  BY ZenonT(60), <1>1, <1>2, <1>3 DEF LogInv, HeadInv, NoDup, Running, Committed, CommitPCs
<1>8. Uninstalled = {lh[i] : i \in {j \in 1 .. Len(lh) : j > tail[p]}}
  BY Zenon, <1>1, <1>3 DEF Uninstalled, CommitPCs
<1>9. Uninstalled' = {lh[i] : i \in {j \in 1 .. Len(lh) : j > t}}
  <2>1. CASE LastTail(p)
    <3>1. {j \in 1 .. Len(lh) : j > t} = {}
      BY <1>4, <2>1 DEF LastTail
    <3> QED
      BY Zenon, <1>1, <1>2, <2>1, <3>1 DEF Uninstalled
  <2>2. CASE ~LastTail(p)
    <3>1. tail'[p] = t
      BY Zenon, <1>1, <2>2 DEF LogInv, TypeOK
    <3>2. \A j \in 1 .. Len(lh) :
            (\A q \in Procs : pc'[q] # "erase" /\ (pc'[q] = "install" => j > tail'[q]))
            <=> j > t
      BY Zenon, <1>2, <2>2, <3>1 DEF CommitPCs
    <3> QED
      BY Zenon, <1>1, <3>2 DEF Uninstalled
  <2> QED
    BY Zenon, <2>1, <2>2
<1>10. Uninstalled' = Uninstalled \ {b} /\ b \in Uninstalled
  BY <1>4, <1>8, <1>9 DEF LogInv, HeadInv, NoDup
<1>5. TypeOK'
  <2>1. pins[b] = 1
    BY Zenon, <1>1, <1>4, <1>10 DEF LogInv, CacheInv, Running
  <2>2. pins' \in [Blocks -> Nat]
    <3>1. pins \in [Blocks -> Nat] /\ pins[b] - 1 \in Nat
      BY <2>1 DEF LogInv, TypeOK
    <3> QED
      BY Zenon, <1>1, <3>1
  <2>3. /\ home' \in [Blocks -> Values] /\ cache' \in [Blocks -> Values \cup {NotCached}]
        /\ tail' \in [Procs -> Nat]
    <3>1. (IF LastTail(p) THEN 0 ELSE tail[p] + 1) \in Nat
      BY <1>4
    <3> QED
      BY ZenonT(60), <1>1, <1>4, <3>1 DEF LogInv, TypeOK
  <2> QED
    BY Zenon, <1>1, <1>2, <2>2, <2>3 DEF LogInv, TypeOK
<1>11. CacheInv'
  <2> SUFFICES ASSUME NEW c \in Blocks
               PROVE  IF c \in Uninstalled'
                      THEN pins'[c] = 1 /\ cache'[c] # NotCached
                      ELSE pins'[c] = 0 /\ bread(c)' = home'[c]
    BY Zenon DEF CacheInv
  <2> HIDE DEF b, v
  <2>1. IF c \in Uninstalled
        THEN pins[c] = 1 /\ cache[c] # NotCached
        ELSE pins[c] = 0 /\ bread(c) = home[c]
    BY Zenon, <1>1 DEF LogInv, CacheInv, Running
  <2>2. CASE c = b
    <3>1. pins'[c] = pins[c] - 1 /\ home'[c] = v
      BY Zenon, <1>1, <2>2 DEF LogInv, TypeOK
    <3>2. c \notin Uninstalled' /\ pins'[c] = 0
      BY <1>10, <2>1, <2>2, <3>1
    <3>3. bread(c)' = bread(c) /\ bread(c) = v
      BY Zenon, <1>6, <2>2
    <3> QED
      BY Zenon, <3>1, <3>2, <3>3
  <2>3. CASE c # b
    <3>1. pins'[c] = pins[c] /\ home'[c] = home[c] /\ cache'[c] = cache[c]
      BY Zenon, <1>1, <2>3 DEF LogInv, TypeOK
    <3> QED
      BY Zenon, <1>6, <1>10, <2>1, <2>3, <3>1
  <2> QED
    BY Zenon, <2>2, <2>3
<1>12. CommitInv'
  <2>1. ~LastTail(p) => tail'[p] < Len(lh)
    <3>1. ~LastTail(p) => tail'[p] = tail[p] + 1
      BY Zenon, <1>1 DEF LogInv, TypeOK
    <3> QED
      BY <1>4, <3>1 DEF LastTail
  <2>2. \A i \in 1 .. Len(lh) : lh[i] \in Blocks /\ logd[i] = bread(lh[i])
    BY Zenon, <1>1, LoggedBlocks DEF LogInv, CommitInv, Running
  <2>3. \A i \in 1 .. Len(lh') : logd'[i] = bread(lh[i])'
    <3>1. \A i \in 1 .. Len(lh) : bread(lh[i])' = bread(lh[i])
      BY ZenonT(60), <1>1, <1>6, <2>2 DEF bread
    <3> QED
      BY Zenon, <1>1, <2>2, <3>1
  <2> QED
    BY ZenonT(60), <1>1, <1>2, <1>3, <2>1, <2>3, CommitterInv
<1> QED
  BY Zenon, <1>2, <1>5, <1>7, <1>11, <1>12 DEF LogInv

(* The header is emptied when every logged block is home. *)
LEMMA EraseInv == ASSUME LogInv, NEW p \in Procs, erase(p) PROVE LogInv'
<1>1. /\ boot = "up" /\ pc[p] = "erase" /\ pc[p] \in CommitPCs
      /\ "finish" \in CommitPCs /\ pc' = [pc EXCEPT ![p] = "finish"]
      /\ lh' = <<>> /\ head' = <<>>
      /\ UNCHANGED <<home, logd, cache, pins, outstanding, committing, tail, wrote,
                     boot, rtail>>
  BY Zenon DEF erase, CommitPCs
<1>2. /\ InOp' = {} /\ CommitAlone' /\ SleeperHasWaker' /\ RecoveryInv'
      /\ pc' \in [Procs -> PCs] /\ pc'[p] = "finish"
      /\ \A q \in Procs \ {p} : pc'[q] \notin CommitPCs
  BY Zenon, <1>1, CommitFrame
<1>3. TypeOK'
  <2>1. <<>> \in Seq(Blocks) /\ Len(<<>>) = 0 /\ 0 <= LOGSIZE
    BY LogAssumption DEF LogAssumption
  <2> QED
    BY Zenon, <1>1, <1>2, <2>1 DEF LogInv, TypeOK
<1>4. HeadInv'
  BY <1>1, <1>2 DEF HeadInv, NoDup, Committed, CommitPCs
<1>5. Uninstalled = {} /\ Uninstalled' = {}
  <2>1. 1 .. Len(lh') = {}
    BY <1>1
  <2> QED
    BY Zenon, <1>1, <2>1 DEF Uninstalled
<1>6. CacheInv'
  BY Zenon, <1>1, <1>5 DEF LogInv, CacheInv, Running, bread
<1>7. CommitInv'
  BY Zenon, <1>1, <1>2 DEF CommitInv, CommitPCs
<1> QED
  BY Zenon, <1>2, <1>3, <1>4, <1>6, <1>7 DEF LogInv

(* end_op() after commit(): the log is open again and the sleepers are woken. *)
LEMMA FinishInv == ASSUME LogInv, NEW p \in Procs, finish(p) PROVE LogInv'
<1> USE DEF disk, finish
<1>1. pc[p] \in CommitPCs /\ boot = "up" /\ lh = <<>>
  BY Zenon DEF CommitPCs, LogInv, CommitInv, Running
<1>2. /\ outstanding = 0 /\ InOp = {}
      /\ \A q \in Procs \ {p} : pc[q] \notin CommitPCs
  BY Zenon, <1>1, CommitterAlone
<1>3. /\ pc' \in [Procs -> PCs]
      /\ \A q \in Procs : pc'[q] \notin CommitPCs /\ pc'[q] # "asleep" /\ pc'[q] # "op"
  BY Zenon, <1>2 DEF LogInv, TypeOK, PCs, CommitPCs, InOp, wakeup_log
<1>4. TypeOK'
  BY Zenon, <1>3 DEF LogInv, TypeOK
<1>5. InOp' = {} /\ InOp' = InOp
  BY Zenon, <1>2, <1>3 DEF InOp
<1>6. CommitAlone' /\ SleeperHasWaker'
  BY Zenon, <1>2, <1>3, <1>5 DEF LogInv, CommitAlone, SleeperHasWaker
<1>7. Committed = FALSE /\ Committed' = FALSE
  BY ZenonT(60), <1>2, <1>3 DEF Committed, CommitPCs
<1>8. HeadInv' /\ RecoveryInv'
  <2>1. HeadInv'
    <3>1. NoDup(lh) /\ NoDup(head) /\ head = <<>> /\ lh' = lh /\ head' = head
      BY Zenon, <1>1, <1>7 DEF LogInv, HeadInv, Running
    <3> QED
      BY ONLY Zenon, <1>7, <3>1 DEF HeadInv
  <2>2. RecoveryInv'
    BY Zenon, <1>1 DEF RecoveryInv, Running
  <2> QED
    BY Zenon, <2>1, <2>2
<1>9. Uninstalled = {} /\ Uninstalled' = {}
  <2>1. 1 .. Len(lh) = {} /\ 1 .. Len(lh') = {}
    BY <1>1
  <2> QED
    BY Zenon, <2>1 DEF Uninstalled
<1>10. CacheInv'
  BY Zenon, <1>9 DEF LogInv, CacheInv, Running, bread
<1>11. CommitInv'
  BY Zenon, <1>1, <1>3 DEF CommitInv, CommitPCs
<1> QED
  BY Zenon, <1>4, <1>6, <1>8, <1>10, <1>11 DEF LogInv

(* The buffer cache may fill and drop unpinned blocks at any time. *)
LEMMA CacheStepInv ==
  ASSUME LogInv, NEW b \in Blocks, read(b) \/ evict(b) PROVE LogInv'
<1> USE DEF disk, procs
<1>1. /\ boot = "up" /\ UNCHANGED <<home, logd, head, pins, lh, outstanding, committing,
                                    pc, tail, wrote, boot, rtail>>
  BY Zenon DEF read, evict
<1>2. /\ \A c \in Blocks : bread(c)' = bread(c)
      /\ \A c \in Uninstalled : cache'[c] # NotCached
  <2>1. \A c \in Blocks : c \in Uninstalled => cache[c] # NotCached /\ pins[c] = 1
    BY Zenon, <1>1 DEF LogInv, CacheInv, Running
  <2>2. Uninstalled \subseteq Blocks
    BY Zenon, LoggedBlocks DEF Uninstalled
  <2>3. CASE read(b)
    BY ZenonT(60), <2>1, <2>2, <2>3, LogAssumption DEF LogInv, TypeOK, read, bread, LogAssumption
  <2>4. CASE evict(b)
    <3>1. b \notin Uninstalled
      BY <2>1, <2>4 DEF evict
    <3>2. bread(b) = home[b]
      BY Zenon, <1>1, <3>1 DEF LogInv, CacheInv, Running
    <3> QED
      BY ZenonT(60), <2>1, <2>2, <2>4, <3>1, <3>2 DEF LogInv, TypeOK, evict, bread
  <2> QED
    BY Zenon, <2>3, <2>4
<1>3. TypeOK'
  BY Zenon DEF LogInv, TypeOK, read, evict
<1>4. InOp' = InOp /\ Uninstalled' = Uninstalled
  BY Zenon, <1>1 DEF InOp, Uninstalled
<1>5. CommitAlone' /\ SleeperHasWaker' /\ RecoveryInv'
  BY ZenonT(60), <1>1, <1>4 DEF LogInv, CommitAlone, SleeperHasWaker, RecoveryInv, Running
<1>6. HeadInv'
  BY ZenonT(60), <1>1 DEF LogInv, HeadInv, NoDup, Running, Committed
<1>7. CacheInv'
  BY Zenon, <1>1, <1>2, <1>4 DEF LogInv, CacheInv, Running
<1>8. CommitInv'
  <2>1. \A i \in 1 .. Len(lh) : lh[i] \in Blocks
    BY Zenon, LoggedBlocks
  <2> QED
    <3>1. \A i \in 1 .. Len(lh) : bread(lh[i])' = bread(lh[i])
      BY Zenon, <1>1, <1>2, <2>1 DEF bread
    <3>2. CommitInv /\ Running
      BY Zenon, <1>1 DEF LogInv, Running
    <3> QED
      BY ZenonT(60), <1>1, <1>4, <3>1, <3>2 DEF CommitInv
<1> QED
  BY Zenon, <1>3, <1>5, <1>6, <1>7, <1>8 DEF LogInv

(* A crash, torn write included, leaves the committed header usable. *)
LEMMA CrashInv == ASSUME LogInv, crash PROVE LogInv'
<1> USE DEF disk
<1>1. home' \in [Blocks -> Values] /\ logd' \in [LogSlots -> Values] /\ head' = head
  <2>1. PICK v \in Values : TornLog(v) \/ TornHome(v)
    BY Zenon DEF crash
  <2>2. CASE TornLog(v)
    BY Zenon, <2>2 DEF LogInv, TypeOK, TornLog
  <2>3. CASE TornHome(v)
    <3>1. PICK b : home' = [home EXCEPT ![b] = v]
      BY Zenon, <2>3 DEF TornHome
    <3>2. home' \in [Blocks -> Values]
      BY Zenon, <3>1 DEF LogInv, TypeOK
    <3> QED
      BY Zenon, <2>3, <3>2 DEF LogInv, TypeOK, TornHome
  <2> QED
    BY Zenon, <2>1, <2>2, <2>3
<1>2. /\ cache' = [b \in Blocks |-> NotCached] /\ pins' = [b \in Blocks |-> 0]
      /\ lh' = <<>> /\ outstanding' = 0 /\ ~committing' /\ committing' \in BOOLEAN
      /\ pc' = [p \in Procs |-> "user"] /\ tail' = [p \in Procs |-> 0]
      /\ wrote' = [p \in Procs |-> {}] /\ boot' = "read_head" /\ rtail' = 0
  BY Zenon DEF crash
<1>3. TypeOK'
  <2>1. <<>> \in Seq(Blocks) /\ Len(<<>>) = 0 /\ 0 <= LOGSIZE
    BY LogAssumption DEF LogAssumption
  <2>2. wrote' \in [Procs -> SUBSET Blocks]
    BY Zenon, <1>2
  <2>3. pc' \in [Procs -> PCs] /\ boot' \in BootPCs
    BY Zenon, <1>2 DEF PCs, BootPCs
  <2>4. /\ cache' \in [Blocks -> Values \cup {NotCached}] /\ pins' \in [Blocks -> Nat]
        /\ tail' \in [Procs -> Nat]
    BY Zenon, <1>2
  <2>5. head' \in Seq(Blocks) /\ Len(head') <= LOGSIZE
    BY Zenon, <1>1 DEF LogInv, TypeOK
  <2>6. lh' \in Seq(Blocks) /\ Len(lh') <= LOGSIZE
    BY Zenon, <1>2, <2>1
  <2>7. outstanding' \in Int /\ rtail' \in Nat /\ committing' \in BOOLEAN
    BY <1>2
  <2> QED
    BY Zenon, <1>1, <2>2, <2>3, <2>4, <2>5, <2>6, <2>7 DEF TypeOK
<1>4. InOp' = {}
  BY Zenon, <1>2 DEF InOp
<1>5. CommitAlone' /\ SleeperHasWaker'
  BY Zenon, <1>2, <1>4, FS_EmptySet DEF CommitAlone, SleeperHasWaker, CommitPCs
<1>6. RecoveryInv'
  BY Zenon, <1>2 DEF RecoveryInv, bread
<1>7. HeadInv' /\ CacheInv' /\ CommitInv'
  <2>1. NoDup(head) /\ NoDup(<<>>)
    BY DEF LogInv, HeadInv, NoDup
  <2>2. NoDup(head') /\ NoDup(lh')
    BY ZenonT(60), <1>1, <1>2, <2>1 DEF NoDup
  <2>3. ~Running'
    BY Zenon, <1>2 DEF Running
  <2> QED
    BY Zenon, <2>2, <2>3 DEF HeadInv, CacheInv, CommitInv
<1> QED
  BY Zenon, <1>3, <1>5, <1>6, <1>7 DEF LogInv

(* LogInv is an invariant of the log. *)
THEOREM LogInvariant == Spec => []LogInv
<1>1. Init => LogInv
  BY Zenon, InitInv
<1>2. LogInv /\ [Next]_vars => LogInv'
  BY Zenon, StutterInv, RecoverInv, BeginInv, WriteInv, EndInv, WriteLogInv, WriteHeadInv,
     InstallInv, EraseInv, FinishInv, CacheStepInv, CrashInv DEF Next, commit
<1> QED
  BY <1>1, <1>2, PTL DEF Spec

(* The types of the log's state; in particular no block is unpinned more     *)
(* often than it was pinned, and the header never outgrows its array.        *)
THEOREM LogTypeOK == Spec => []TypeOK
BY LogInvariant, PTL DEF LogInv

(* end_op() commits alone: no call in progress, no second committer. *)
THEOREM CommitAloneHolds == Spec => []CommitAlone
BY LogInvariant, PTL DEF LogInv

(* Exactly the logged blocks not yet home are pinned, and they are cached. *)
THEOREM PinnedHolds == Spec => []PinnedUntilInstalled
<1>1. LogInv => PinnedUntilInstalled
  BY Zenon DEF LogInv, CacheInv, Running, PinnedUntilInstalled
<1> QED
  BY <1>1, LogInvariant, PTL

(* Whoever sleeps in begin_op() has somebody to wake it. *)
THEOREM SleeperHasWakerHolds == Spec => []SleeperHasWaker
BY LogInvariant, PTL DEF LogInv
-----------------------------------------------------------------------------
(* The space that begin_op() reserves. *)

(* Among finitely many sets of calls one is minimal: what holds of a set    *)
(* when it holds of all smaller ones holds of every set.                    *)
LEMMA MinimalSubset ==
  ASSUME NEW S, IsFiniteSet(S), NEW Bad \in SUBSET SUBSET S, Bad # {}
  PROVE  \E T \in Bad : \A U \in Bad : U \subseteq T => U = T
<1>1. IsWellFoundedOn(StrictSubsetOrdering(S), SUBSET S)
  <2>1. FiniteSubsetsOf(S) = SUBSET S
    BY Zenon, FS_FiniteSubsetsOfFinite
  <2>2. IsWellFoundedOn(StrictSubsetOrdering(S), FiniteSubsetsOf(S))
    BY Zenon, FS_StrictSubsetOrderingWellFounded
  <2> QED
    BY <2>1, <2>2, Zenon
<1>2. PICK T \in Bad : \A U \in Bad : ~ (<<U, T>> \in StrictSubsetOrdering(S))
  BY Zenon, <1>1, WFMin
<1>3. ASSUME NEW U \in Bad, U \subseteq T
      PROVE  U = T
  <2>1. ~ (<<U, T>> \in StrictSubsetOrdering(S))
    BY Zenon, <1>2
  <2>2. U \in SUBSET S /\ T \in SUBSET S
    OBVIOUS
  <2> QED
    BY Zenon, <1>3, <2>1, <2>2 DEF StrictSubsetOrdering
<1> QED
  BY <1>3, Zenon

(* Two finite sets apart. *)
LEMMA CountApart ==
  ASSUME NEW A, NEW B, IsFiniteSet(A), IsFiniteSet(B), A \cap B = {}
  PROVE  Cardinality(A \cup B) = Cardinality(A) + Cardinality(B)
<1>1. Cardinality(A \cup B) = Cardinality(A) + Cardinality(B) - Cardinality(A \cap B)
  BY Zenon, FS_Union
<1>2. Cardinality(A) \in Nat /\ Cardinality(B) \in Nat
  BY Zenon, FS_CardinalityType
<1>3. Cardinality(A \cap B) = 0
  BY FS_EmptySet, Zenon
<1> QED
  BY <1>1, <1>2, <1>3

(* What the calls of a set P have written. *)
Part(P) == {x \in Written : x[1] \in P}

(* The blocks of lh, and so what the calls have written, are finitely many. *)
LEMMA WrittenFinite ==
  ASSUME LogInv, OpsLogged
  PROVE  /\ IsFiniteSet(Written) /\ \A P : IsFiniteSet(Part(P))
         /\ \A p \in InOp : IsFiniteSet(wrote[p])
<1>1. IsFiniteSet(Logged)
  <2>1. lh \in Seq(Blocks) /\ Len(lh) \in Nat
    BY Zenon, LoggedBlocks
  <2>2. IsFiniteSet(1 .. Len(lh))
    BY <2>1, FS_Interval
  <2>3. [i \in 1 .. Len(lh) |-> lh[i]] \in Surjection(1 .. Len(lh), Logged)
    BY Zenon DEF Surjection, Logged
  <2> QED
    BY Zenon, <2>2, <2>3, FS_Surjection
<1>2. IsFiniteSet(InOp \X Logged)
  BY Zenon, <1>1, InOpFinite, FS_Product
<1>3. Written \subseteq InOp \X Logged
  BY Zenon DEF Written, OpsLogged
<1>4. \A p \in InOp : IsFiniteSet(wrote[p])
  BY Zenon, <1>1, FS_Subset DEF OpsLogged
<1>5. \A P : Part(P) \subseteq Written
  BY Zenon DEF Part
<1>6. IsFiniteSet(Written)
  BY Zenon, <1>2, <1>3, FS_Subset
<1> QED
  BY Zenon, <1>4, <1>5, <1>6, FS_Subset

(* One call's part of what is written. *)
LEMMA PartOfOne ==
  ASSUME LogInv, OpsLogged, NEW p \in InOp
  PROVE  /\ Part({p}) = {p} \X wrote[p]
         /\ Cardinality(Part({p})) = Cardinality(wrote[p])
         /\ Cardinality(wrote[p]) \in Nat
<1>1. wrote[p] \subseteq Blocks
  BY Zenon DEF LogInv, TypeOK, InOp
<1>2. Part({p}) = {p} \X wrote[p]
  BY Zenon, <1>1 DEF Part, Written
<1>3. IsFiniteSet(wrote[p]) /\ IsFiniteSet({p}) /\ Cardinality({p}) = 1
  <2>1. IsFiniteSet({p}) /\ Cardinality({p}) = 1
    BY FS_Singleton, Zenon
  <2> QED
    BY Zenon, <2>1, WrittenFinite
<1>4. Cardinality({p} \X wrote[p]) = Cardinality({p}) * Cardinality(wrote[p])
  BY Zenon, <1>3, FS_Product
<1>5. Cardinality(wrote[p]) \in Nat
  BY Zenon, <1>3, FS_CardinalityType
<1>6. Cardinality({p} \X wrote[p]) = Cardinality(wrote[p])
  BY <1>3, <1>4, <1>5
<1> QED
  BY <1>2, <1>5, <1>6, Zenon

(* The calls of a set, and one more. *)
LEMMA PartOfMore ==
  ASSUME LogInv, OpsLogged, NEW P \in SUBSET InOp, NEW p \in P
  PROVE  /\ Cardinality(Part(P)) \in Nat
         /\ Cardinality(Part(P)) = Cardinality(Part(P \ {p})) + Cardinality(wrote[p])
<1>1. Part(P) = Part(P \ {p}) \cup Part({p}) /\ Part(P \ {p}) \cap Part({p}) = {}
  BY Zenon DEF Part
<1>2. IsFiniteSet(Part(P)) /\ IsFiniteSet(Part(P \ {p})) /\ IsFiniteSet(Part({p}))
  BY Zenon, WrittenFinite
<1>3. Cardinality(Part(P)) = Cardinality(Part(P \ {p})) + Cardinality(Part({p}))
  BY Zenon, <1>1, <1>2, CountApart
<1>4. Cardinality(Part(P)) \in Nat /\ Cardinality(Part(P \ {p})) \in Nat
  BY Zenon, <1>2, FS_CardinalityType
<1> QED
  BY Zenon, <1>3, <1>4, PartOfOne

(* Nobody writes more than MAXOPBLOCKS, so a set of calls writes no more    *)
(* than is reserved for it.                                                 *)
LEMMA PartBounded ==
  ASSUME LogInv, OpsLogged, NEW P \in SUBSET InOp
  PROVE  Cardinality(Part(P)) <= Cardinality(P) * MAXOPBLOCKS
<1> USE LogAssumption DEF LogAssumption
<1> DEFINE Bad == {Q \in SUBSET InOp :
                     ~ (Cardinality(Part(Q)) <= Cardinality(Q) * MAXOPBLOCKS)}
<1>1. ASSUME NEW Q \in Bad
      PROVE  \E U \in Bad : U \subseteq Q /\ U # Q
  <2>1. Q # {}
    <3>1. Part({}) = {}
      BY Zenon DEF Part
    <3> QED
      BY <3>1, FS_EmptySet
  <2>2. PICK p \in Q : TRUE
    BY Zenon, <2>1
  <2>3. /\ IsFiniteSet(Q) /\ Cardinality(Q) \in Nat /\ Cardinality(Q \ {p}) = Cardinality(Q) - 1
    BY Zenon, <2>2, InOpFinite, FS_Subset, FS_RemoveElement, FS_CardinalityType
  <2>4. /\ Cardinality(Part(Q)) = Cardinality(Part(Q \ {p})) + Cardinality(wrote[p])
        /\ Cardinality(wrote[p]) \in Nat /\ Cardinality(wrote[p]) <= MAXOPBLOCKS
    <3>1. Q \in SUBSET InOp /\ p \in InOp
      BY Zenon, <2>2
    <3>2. Cardinality(Part(Q)) = Cardinality(Part(Q \ {p})) + Cardinality(wrote[p])
      BY Zenon, <2>2, <3>1, PartOfMore
    <3>3. Cardinality(wrote[p]) \in Nat
      BY <3>1, PartOfOne, Zenon
    <3> QED
      BY Zenon, <3>1, <3>2, <3>3 DEF OpsLogged
  <2>5. Cardinality(Part(Q \ {p})) \in Nat
    BY Zenon, WrittenFinite, FS_CardinalityType
  <2>6. (Cardinality(Q) - 1) * MAXOPBLOCKS = Cardinality(Q) * MAXOPBLOCKS - MAXOPBLOCKS
    BY <2>3
  <2>7. ~ (Cardinality(Part(Q \ {p})) <= Cardinality(Q \ {p}) * MAXOPBLOCKS)
    <3>1. Cardinality(Q) * MAXOPBLOCKS \in Int /\ MAXOPBLOCKS \in Int
      BY <2>3
    <3> QED
      BY <2>3, <2>4, <2>5, <2>6, <3>1
  <2>8. Q \ {p} \in Bad
    BY Zenon, <2>7
  <2> QED
    BY Zenon, <2>2, <2>8
<1>2. Bad = {}
  <2> SUFFICES ASSUME Bad # {} PROVE FALSE
    OBVIOUS
  <2>1. PICK T \in Bad : \A U \in Bad : U \subseteq T => U = T
    <3>1. Bad \in SUBSET SUBSET InOp
      OBVIOUS
    <3> HIDE DEF Bad
    <3> QED
      BY <3>1, MinimalSubset, InOpFinite
  <2> QED
    BY Zenon, <1>1, <2>1
<1> QED
  BY Zenon, <1>2

(* A log with Missing slots free, and one more, passes log_write()'s test. *)
LEMMA MissingFits ==
  /\ Missing \in Nat
  /\ \A l \in Nat : l + Missing < LOGSIZE => ~(l >= LOGSIZE \/ l >= NLOG - 1)
BY LogAssumption DEF Missing, LogAssumption

(* A call with a block left: log_write() does not panic at it. *)
LEMMA RoomForOne ==
  ASSUME LogInv, OpsLogged, NEW p \in InOp, Cardinality(wrote[p]) + Missing < MAXOPBLOCKS,
         Len(lh) + outstanding * MAXOPBLOCKS - Cardinality(Written) <= LOGSIZE
  PROVE  ~TooBig
<1> USE LogAssumption DEF LogAssumption
<1>1. Part(InOp) = Written
  BY Zenon DEF Part, Written
<1>2. /\ Cardinality(Written) \in Nat
      /\ Cardinality(Written) = Cardinality(Part(InOp \ {p})) + Cardinality(wrote[p])
  BY <1>1, PartOfMore, Zenon
<1>3. /\ outstanding = Cardinality(InOp) /\ outstanding \in Nat
      /\ Cardinality(InOp \ {p}) = outstanding - 1
  <2>1. Cardinality(InOp) \in Nat /\ Cardinality(InOp \ {p}) = Cardinality(InOp) - 1
    BY Zenon, InOpFinite, FS_RemoveElement, FS_CardinalityType
  <2> QED
    BY Zenon, <2>1 DEF LogInv, CommitAlone
<1>4. Cardinality(Part(InOp \ {p})) <= (outstanding - 1) * MAXOPBLOCKS
  BY Zenon, <1>3, PartBounded
<1>5. Cardinality(Part(InOp \ {p})) \in Nat /\ Cardinality(wrote[p]) \in Nat
  BY Zenon, WrittenFinite, FS_CardinalityType
<1>6. outstanding \in Int /\ Len(lh) \in Int
  BY <1>3, LoggedBlocks
<1>7. Len(lh) + Missing < LOGSIZE
  BY Zenon, <1>2, <1>4, <1>5, <1>6, OneRoom, MissingFits
<1> QED
  BY Zenon, <1>7, LoggedBlocks, MissingFits DEF TooBig

(* No call in progress: nothing is reserved. *)
LEMMA NoCallReserves ==
  ASSUME LogInv, InOp = {}
  PROVE  ReservedSpace
<1>1. OpsLogged /\ Written = {}
  BY Zenon DEF OpsLogged, Written
<1>2. Cardinality(Written) = 0 /\ outstanding = 0
  BY ZenonT(60), <1>1, FS_EmptySet DEF LogInv, CommitAlone
<1>3. 0 * MAXOPBLOCKS = 0 /\ Len(lh) \in Nat /\ Len(lh) <= LOGSIZE
  BY LogAssumption, LoggedBlocks DEF LogInv, TypeOK, LogAssumption
<1> QED
  BY <1>1, <1>2, <1>3 DEF ReservedSpace

(* The same after a step. *)
LEMMA NoCallReservesNext == LogInv' /\ (InOp = {})' => ReservedSpace'
<1>1. LogInv /\ InOp = {} => ReservedSpace
  BY Zenon, NoCallReserves
<1> QED
  BY <1>1, PTL

(* The same after a step. *)
LEMMA RoomForOneNext ==
  LogInv' /\ OpsLogged'
    /\ (Len(lh) + outstanding * MAXOPBLOCKS - Cardinality(Written) <= LOGSIZE)'
  => ReservedSpace'
<1>1. LogInv /\ OpsLogged /\ Len(lh) + outstanding * MAXOPBLOCKS - Cardinality(Written) <= LOGSIZE
      => ReservedSpace
  BY Zenon, RoomForOne DEF ReservedSpace
<1> QED
  BY <1>1, PTL

(* A step that changes neither the log nor who is in a call, such as a      *)
(* begin_op() that goes to sleep, keeps the reservation.                    *)
LEMMA SameReserves ==
  ASSUME ReservedSpace, InOp' = InOp, UNCHANGED <<wrote, lh, outstanding>>
  PROVE  ReservedSpace'
<1>1. wrote' = wrote /\ lh' = lh /\ outstanding' = outstanding
  BY Zenon
<1>2. OpsLogged' /\ Written' = Written /\ TooBig' = TooBig
  <2>1. Logged' = Logged
    BY Zenon, <1>1 DEF Logged
  <2>2. OpsLogged'
    BY Zenon, <1>1, <2>1 DEF OpsLogged, ReservedSpace
  <2>3. Written' = Written
    BY Zenon, <1>1 DEF Written
  <2>4. TooBig' = TooBig
    BY Zenon, <1>1 DEF TooBig
  <2> QED
    BY Zenon, <2>2, <2>3, <2>4
<1>3. (Len(lh) + outstanding * MAXOPBLOCKS - Cardinality(Written) <= LOGSIZE)'
  BY Zenon, <1>1, <1>2 DEF ReservedSpace
<1>4. (\A p \in InOp : Cardinality(wrote[p]) + Missing < MAXOPBLOCKS => ~TooBig)'
  <2>1. Missing' = Missing
    BY Zenon DEF Missing
  <2> QED
    BY Zenon, <1>1, <1>2, <2>1 DEF ReservedSpace
<1> QED
  BY Zenon, <1>2, <1>3, <1>4 DEF ReservedSpace

(* begin_op() admits a call when there is room for all it may write. *)
LEMMA BeginReserves ==
  ASSUME LogInv, LogInv', ReservedSpace, NEW p \in Procs, begin_op(p)
  PROVE  ReservedSpace'
<1> USE LogAssumption DEF LogAssumption, begin_op
<1>1. CASE ~MayBegin
  <2>1. InOp' = InOp /\ UNCHANGED <<wrote, lh, outstanding>>
    BY Zenon, <1>1 DEF InOp, LogInv, TypeOK
  <2> QED
    BY Zenon, <2>1, SameReserves
<1>2. CASE MayBegin
  <2>1. /\ InOp' = InOp \cup {p} /\ p \notin InOp /\ UNCHANGED lh
        /\ outstanding' = outstanding + 1 /\ wrote' = [wrote EXCEPT ![p] = {}]
    BY <1>2 DEF InOp, LogInv, TypeOK
  <2>2. wrote'[p] = {} /\ \A q \in InOp : wrote'[q] = wrote[q]
    BY ZenonT(60), <2>1 DEF LogInv, TypeOK, InOp
  <2>3. OpsLogged'
    <3>1. Logged' = Logged
      BY ZenonT(60), <2>1 DEF Logged
    <3>2. {} \subseteq Logged' /\ Cardinality({}) <= MAXOPBLOCKS
      BY FS_EmptySet
    <3>3. \A q \in InOp : wrote'[q] \subseteq Logged' /\ Cardinality(wrote'[q]) <= MAXOPBLOCKS
      BY Zenon, <2>2, <3>1 DEF OpsLogged, ReservedSpace
    <3> QED
      BY Zenon, <2>1, <2>2, <3>2, <3>3 DEF OpsLogged
  <2>4. Written' = Written
    BY Zenon, <2>1, <2>2 DEF Written
  <2>5. Cardinality(Written) \in Nat
    BY ZenonT(60), WrittenFinite, FS_CardinalityType DEF ReservedSpace
  <2>6. /\ Len(lh) \in Int /\ outstanding \in Int
        /\ Len(lh) + (outstanding + 1) * MAXOPBLOCKS <= LOGSIZE
    BY <1>2, LoggedBlocks DEF MayBegin, LogHasRoom, LogInv, TypeOK
  <2>7. (outstanding + 1) * MAXOPBLOCKS \in Int
    BY <2>6
  <2>8. (Len(lh) + outstanding * MAXOPBLOCKS - Cardinality(Written) <= LOGSIZE)'
    BY <2>1, <2>4, <2>5, <2>6, <2>7
  <2> QED
    BY ZenonT(60), <2>3, <2>8, RoomForOneNext
<1> QED
  BY ZenonT(60), <1>1, <1>2

(* log_write() uses up one block of the call when it takes a slot. *)
LEMMA WriteReserves ==
  ASSUME LogInv, LogInv', ReservedSpace, NEW p \in Procs, NEW b \in Blocks, NEW v \in Values,
         log_write(p, b, v)
  PROVE  ReservedSpace'
<1> USE LogAssumption DEF LogAssumption
<1>1. /\ InOp' = InOp /\ p \in InOp /\ outstanding' = outstanding
      /\ Cardinality(wrote[p] \cup {b}) <= MAXOPBLOCKS
  BY Zenon DEF log_write, InOp
<1>2. CASE TooBig
  <2>1. UNCHANGED <<wrote, lh>>
    BY Zenon, <1>2 DEF log_write
  <2> QED
    BY Zenon, <1>1, <2>1, SameReserves
<1>3. CASE ~TooBig
  <2>1. /\ wrote' = [wrote EXCEPT ![p] = @ \cup {b}]
        /\ IF b \in Logged THEN UNCHANGED lh ELSE lh' = Append(lh, b)
    BY Zenon, <1>3 DEF log_write, Absorbed
  <2>2. wrote'[p] = wrote[p] \cup {b} /\ \A q \in InOp \ {p} : wrote'[q] = wrote[q]
    BY Zenon, <2>1 DEF LogInv, TypeOK, InOp
  <2>3. Logged' = Logged \cup {b}
    <3>1. CASE b \in Logged
      BY Zenon, <2>1, <3>1 DEF Logged
    <3>2. CASE b \notin Logged
      <4>1. lh' = Append(lh, b)
        BY Zenon, <2>1, <3>2
      <4>2. {Append(lh, b)[i] : i \in 1 .. Len(Append(lh, b))} = {lh[i] : i \in 1 .. Len(lh)} \cup {b}
        BY Zenon, LoggedBlocks, AppendLogs
      <4> QED
        BY Zenon, <4>1, <4>2 DEF Logged
    <3> QED
      BY Zenon, <3>1, <3>2
  <2>4. OpsLogged'
    <3>1. \A q \in InOp \ {p} : wrote'[q] \subseteq Logged' /\ Cardinality(wrote'[q]) <= MAXOPBLOCKS
      BY Zenon, <2>2, <2>3 DEF OpsLogged, ReservedSpace
    <3>2. wrote'[p] \subseteq Logged' /\ Cardinality(wrote'[p]) <= MAXOPBLOCKS
      BY ZenonT(60), <1>1, <2>2, <2>3 DEF OpsLogged, ReservedSpace
    <3> QED
      BY Zenon, <1>1, <3>1, <3>2 DEF OpsLogged
  <2>5. Written' = Written \cup {<<p, b>>}
    BY <1>1, <2>2 DEF Written
  <2>6. IsFiniteSet(Written) /\ Cardinality(Written) \in Nat
    BY Zenon, WrittenFinite, FS_CardinalityType DEF ReservedSpace
  <2>7. /\ Cardinality(Written') \in Nat /\ Cardinality(Written') >= Cardinality(Written)
        /\ b \notin Logged => Cardinality(Written') = Cardinality(Written) + 1
    <3>1. b \notin Logged => <<p, b>> \notin Written
      BY Zenon DEF Written, ReservedSpace, OpsLogged
    <3>2. Cardinality(Written \cup {<<p, b>>}) =
            IF <<p, b>> \in Written THEN Cardinality(Written) ELSE Cardinality(Written) + 1
      BY <2>6, FS_AddElement, Zenon
    <3> QED
      BY <2>5, <2>6, <3>1, <3>2
  <2>8. /\ Len(lh) \in Int /\ Len(lh') \in Int
        /\ Len(lh') = IF b \in Logged THEN Len(lh) ELSE Len(lh) + 1
    BY <2>1, LoggedBlocks, AppendFacts
  <2>9. PICK k \in Int : k = outstanding * MAXOPBLOCKS
    BY DEF LogInv, TypeOK
  <2>10. Len(lh) + k - Cardinality(Written) <= LOGSIZE
    BY Zenon, <2>9 DEF ReservedSpace
  <2>11. Len(lh') + k - Cardinality(Written') <= LOGSIZE
    <3>1. \/ Len(lh') = Len(lh) /\ Cardinality(Written') >= Cardinality(Written)
          \/ Len(lh') = Len(lh) + 1 /\ Cardinality(Written') = Cardinality(Written) + 1
      BY Zenon, <2>7, <2>8
    <3> QED
      BY Zenon, <2>6, <2>7, <2>8, <2>10, <3>1, WriteRoom
  <2>12. (Len(lh) + outstanding * MAXOPBLOCKS - Cardinality(Written) <= LOGSIZE)'
    BY Zenon, <1>1, <2>9, <2>11
  <2> QED
    BY Zenon, <2>4, <2>12, RoomForOneNext
<1> QED
  BY Zenon, <1>2, <1>3

(* end_op() gives back what the call has not used. *)
LEMMA EndReserves ==
  ASSUME LogInv, LogInv', ReservedSpace, NEW p \in Procs, end_op(p)
  PROVE  ReservedSpace'
<1> USE LogAssumption DEF LogAssumption
<1>1. /\ InOp' = InOp \ {p} /\ p \in InOp /\ UNCHANGED <<lh, wrote>>
      /\ outstanding' = outstanding - 1
  <2>1. pc \in [Procs -> PCs]
    BY Zenon DEF LogInv, TypeOK
  <2>2. InOp' = InOp \ {p} /\ p \in InOp
    BY Zenon, <2>1 DEF end_op, disk, InOp, wakeup_log
  <2> QED
    BY Zenon, <2>2 DEF end_op
<1>2. OpsLogged /\ OpsLogged'
  BY ZenonT(60), <1>1 DEF OpsLogged, ReservedSpace, Logged
<1>3. Written' = Part(InOp \ {p}) /\ Part(InOp) = Written
  BY Zenon, <1>1 DEF Written, Part
<1>4. Cardinality(Written) = Cardinality(Part(InOp \ {p})) + Cardinality(wrote[p])
  BY <1>1, <1>2, <1>3, PartOfMore, Zenon
<1>5. /\ Cardinality(Part(InOp \ {p})) \in Nat /\ Cardinality(wrote[p]) \in Nat
      /\ Cardinality(wrote[p]) <= MAXOPBLOCKS
  BY ZenonT(60), <1>1, <1>2, WrittenFinite, FS_CardinalityType DEF OpsLogged
<1>6. outstanding \in Int /\ Len(lh) \in Int
  BY LoggedBlocks DEF LogInv, TypeOK
<1>7. Len(lh) + (outstanding - 1) * MAXOPBLOCKS - Cardinality(Part(InOp \ {p})) <= LOGSIZE
  BY Zenon, <1>4, <1>5, <1>6, EndRoom DEF ReservedSpace
<1>8. (Len(lh) + outstanding * MAXOPBLOCKS - Cardinality(Written) <= LOGSIZE)'
  BY Zenon, <1>1, <1>3, <1>7
<1> QED
  BY Zenon, <1>2, <1>8, RoomForOneNext

(* Every step keeps the reservation: only the three above change it. *)
LEMMA NextReserves == LogInv /\ LogInv' /\ ReservedSpace /\ [Next]_vars => ReservedSpace'
<1> SUFFICES ASSUME LogInv, LogInv', ReservedSpace, [Next]_vars
             PROVE  ReservedSpace'
  OBVIOUS
<1>1. CASE recover_from_log \/ crash
  <2>1. InOp' = {}
    BY Zenon, <1>1 DEF recover_from_log, read_head, recover_install, recover_clear, crash, InOp,
       procs, LogInv, RecoveryInv, Running
  <2> QED
    BY Zenon, <2>1, NoCallReservesNext
<1>2. ASSUME NEW p \in Procs, commit(p)
      PROVE  ReservedSpace'
  <2>1. pc[p] \in CommitPCs
    BY Zenon, <1>2 DEF commit, write_log, write_head, install_trans, erase, finish, CommitPCs
  <2>2. InOp = {}
    BY Zenon, <2>1, CommitterAlone
  <2>3. InOp' = {}
    <3>1. CASE finish(p)
      BY ZenonT(60), <2>2, <3>1 DEF finish, LogInv, TypeOK, InOp, wakeup_log
    <3>2. CASE ~finish(p)
      BY ZenonT(60), <1>2, <2>2, <3>2 DEF commit, write_log, write_head, install_trans, erase, LogInv, TypeOK, InOp
    <3> QED
      BY Zenon, <3>1, <3>2
  <2> QED
    BY Zenon, <2>3, NoCallReservesNext
<1>3. CASE UNCHANGED vars \/ \E b \in Blocks : read(b) \/ evict(b)
  <2>1. UNCHANGED <<pc, lh, wrote, outstanding>>
    BY Zenon, <1>3 DEF vars, procs, read, evict
  <2>2. InOp' = InOp
    BY Zenon, <2>1 DEF InOp
  <2> QED
    BY Zenon, <2>1, <2>2, SameReserves
<1> QED
  BY Zenon, <1>1, <1>2, <1>3, BeginReserves, WriteReserves, EndReserves DEF Next

(* begin_op() reserves enough, for any number of calls, blocks and any size *)
(* of the log: log_write() panics at none of the calls it admits before     *)
(* that call has written MAXOPBLOCKS blocks, or, on a disk whose log is     *)
(* short of LOGSIZE + 1 blocks, as many less as it is short.                *)
THEOREM ReservedSpaceHolds == Spec => []ReservedSpace
<1>1. Init /\ LogInv => ReservedSpace
  BY Zenon, NoCallReserves DEF Init, InOp
<1> QED
  BY <1>1, LogInvariant, NextReserves, PTL DEF Spec
=============================================================================
