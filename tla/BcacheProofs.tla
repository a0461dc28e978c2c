---------------------------- MODULE BcacheProofs ----------------------------
(***************************************************************************)
(* Proofs about the buffer cache, for any number of processes, blocks and  *)
(* buffers: its inductive invariant, that it recycles the least recently   *)
(* used buffer, and that it implements BlockStore.                         *)
(***************************************************************************)
EXTENDS Bcache, FiniteSetTheorems, TLAPS

USE BcacheAssumption DEF BcacheAssumption

(* bget(): the processes that have a reference to a buffer are finitely     *)
(* many, so the reference count that brelse() decrements is a number.       *)
LEMMA UsersFinite ==
  \A b : IsFiniteSet(Users(b)) /\ Cardinality(Users(b)) \in Nat
<1>1. ASSUME NEW b PROVE IsFiniteSet(Users(b))
  BY Zenon, FS_Subset DEF Users
<1> QED
  BY Zenon, <1>1, FS_CardinalityType

(* A buffer whose refcnt is 0 is neither pinned by the log nor in use by a  *)
(* process, so that bget() may recycle it.                                  *)
LEMMA UnusedIsFree ==
  ASSUME BcacheInv, NEW b \in Unused
  PROVE  /\ Users(b) = {} /\ b \notin pinned /\ locked[b] = NoProc
         /\ \A p \in Procs : pc[p] \in InUse => mine[p] # b
<1>1. b \in Bufs /\ refcnt[b] = 0
  BY Zenon DEF Unused
<1>2. Cardinality(Users(b)) = 0 /\ b \notin pinned
  BY <1>1, UsersFinite DEF BcacheInv, RefcntExact
<1>3. Users(b) = {}
  BY Zenon, <1>2, UsersFinite, FS_EmptySet
<1>4. \A p \in Procs : pc[p] \in InUse => mine[p] # b
  BY Zenon, <1>3 DEF Users
<1>5. locked[b] = NoProc
  BY <1>1, <1>4 DEF BcacheInv, TypeOK, RefcntExact, InUse, Held
<1> QED
  BY Zenon, <1>2, <1>3, <1>4, <1>5

(* acquiresleep() and releasesleep(): a sleep-lock has one holder. *)
LEMMA OneHolder ==
  ASSUME BcacheInv, NEW p \in Procs, pc[p] \in Held
  PROVE  /\ mine[p] \in Bufs /\ locked[mine[p]] = p
         /\ \A q \in Procs : pc[q] \in Held /\ mine[q] = mine[p] => q = p
BY DEF BcacheInv, TypeOK, RefcntExact

(* A place in the list is a number. *)
LEMMA BufsAreInts == \A b \in Bufs : b \in Int
BY DEF Bufs

(* A list of the buffers, as each one's place. *)
IsList(s) == s \in [Bufs -> Bufs] /\ \A c, d \in Bufs : s[c] = s[d] => c = d

(* t is s with b at the front, the others in the order they had. *)
Fronted(s, t, b) ==
  /\ \A c \in Bufs \ {b} : t[b] < t[c]
  /\ \A c, d \in Bufs \ {b} : t[c] < t[d] <=> s[c] < s[d]

(* MoveToFront() keeps the buffers in distinct places of the list. *)
LEMMA MoveToFrontPlaces ==
  ASSUME NEW s, NEW b \in Bufs, IsList(s)
  PROVE  IsList(MoveToFront(s, b)) /\ Fronted(s, MoveToFront(s, b), b)
<1> USE DEF IsList
<1> DEFINE t == MoveToFront(s, b)
<1>1. \A c \in Bufs : s[c] \in Bufs
  OBVIOUS
<1>2. t = [c \in Bufs |-> IF c = b THEN 1 ELSE IF s[c] < s[b] THEN s[c] + 1 ELSE s[c]]
  BY Zenon DEF MoveToFront
<1>3. /\ t[b] = 1
      /\ \A c \in Bufs \ {b} : /\ s[c] < s[b] => t[c] = s[c] + 1
                               /\ ~(s[c] < s[b]) => t[c] = s[c]
  BY Zenon, <1>2
<1> HIDE DEF t
<1>4. /\ NBUF \in Nat /\ s[b] \in Int /\ 1 <= s[b] /\ s[b] <= NBUF
      /\ \A c \in Bufs : s[c] \in Int /\ 1 <= s[c] /\ s[c] <= NBUF
  BY <1>1 DEF Bufs
<1>5. \A c \in Bufs : t[c] \in Bufs
  <2> SUFFICES ASSUME NEW c \in Bufs PROVE t[c] \in 1 .. NBUF
    BY Zenon DEF Bufs
  <2> QED
    BY <1>3, <1>4
<1>6. t \in [Bufs -> Bufs]
  BY Zenon, <1>2, <1>5 DEF t
<1>7. ASSUME NEW c \in Bufs \ {b} PROVE t[b] < t[c] /\ s[c] # s[b]
  BY <1>3, <1>4
<1>8. ASSUME NEW c \in Bufs \ {b}, NEW d \in Bufs \ {b}
      PROVE  /\ t[c] < t[d] <=> s[c] < s[d]
             /\ t[c] = t[d] => s[c] = s[d]
  BY <1>3, <1>4, <1>7
<1>9. \A c, d \in Bufs : t[c] = t[d] => c = d
  <2> SUFFICES ASSUME NEW c \in Bufs, NEW d \in Bufs, c # d PROVE t[c] # t[d]
    OBVIOUS
  <2>1. t[c] \in Int /\ t[d] \in Int
    BY Zenon, <1>5, BufsAreInts
  <2>2. c = b \/ d = b => t[c] # t[d]
    BY <1>7, <2>1
  <2>3. c # b /\ d # b => t[c] # t[d]
    BY Zenon, <1>8
  <2> QED
    BY Zenon, <2>2, <2>3
<1> QED
  BY Zenon, <1>6, <1>7, <1>8, <1>9 DEF t, Fronted

(* binit() *)
LEMMA InitInv == Init => BcacheInv
<1> SUFFICES ASSUME Init PROVE BcacheInv
  OBVIOUS
<1>1. TypeOK
  <2>1. mru \in [Bufs -> Bufs] /\ recent \in [Bufs -> Bufs] /\ mine \in [Procs -> Bufs]
    BY DEF Init, Bufs
  <2>2. refcnt \in [Bufs -> Nat]
    BY DEF Init
  <2>3. /\ blockno \in [Bufs -> Blocks \cup {NoBlock}] /\ valid \in [Bufs -> BOOLEAN]
        /\ data \in [Bufs -> Values] /\ locked \in [Bufs -> Procs \cup {NoProc}]
    BY Zenon DEF Init
  <2>4. disk \in [Blocks -> Values] /\ pc \in [Procs -> PCs] /\ want \in [Procs -> Blocks]
    BY Zenon DEF Init, PCs
  <2>5. pinned \subseteq Bufs /\ panicked \in BOOLEAN
    BY Zenon DEF Init
  <2> QED
    BY Zenon, <2>1, <2>2, <2>3, <2>4, <2>5 DEF TypeOK
<1>2. \A b \in Bufs : Users(b) = {}
  BY Zenon DEF Init, Users, InUse
<1>3. RefcntExact
  <2>1. \A b \in Bufs : refcnt[b] = 0 /\ b \notin pinned /\ locked[b] = NoProc
    BY Zenon DEF Init
  <2>2. Cardinality({}) + 0 = 0
    BY FS_EmptySet
  <2>3. \A p \in Procs : pc[p] \notin Held /\ p # NoProc
    BY Zenon, BcacheAssumption DEF Init, Held, BcacheAssumption
  <2> QED
    BY Zenon, <1>2, <2>1, <2>2, <2>3 DEF RefcntExact
<1>4. OneBufferPerBlock /\ SleeperHasHolder /\ CleanUnlessPinned
  BY Zenon DEF Init, OneBufferPerBlock, SleeperHasHolder, CleanUnlessPinned, InUse
<1>5. UnusedInOrder
  BY DEF Init, UnusedInOrder, Unused, Bufs
<1> QED
  BY Zenon, <1>1, <1>3, <1>4, <1>5 DEF BcacheInv
-----------------------------------------------------------------------------
(* Each step keeps the invariant. *)

(* bget() that finds the block in the cache. *)
LEMMA BgetHitInv ==
  ASSUME BcacheInv, NEW p \in Procs, NEW k \in Blocks, NEW b \in Caching(k),
         pc[p] = "idle", want' = [want EXCEPT ![p] = k],
         bget_hit(p, b), Goto(p, "acquiresleep"),
         UNCHANGED <<disk, data, mru, locked, pinned, recent, panicked>>
  PROVE  BcacheInv'
<1> USE DEF bget_hit, Goto
<1>1. b \in Bufs /\ blockno[b] = k
  BY Zenon DEF Caching
<1>2. TypeOK'
  BY <1>1 DEF BcacheInv, TypeOK, PCs
<1>3. /\ p \notin Users(b) /\ Users(b)' = Users(b) \cup {p}
      /\ \A c \in Bufs \ {b} : Users(c)' = Users(c)
  BY <1>1 DEF BcacheInv, TypeOK, Users, InUse
<1>4. Cardinality(Users(b)') = Cardinality(Users(b)) + 1
  <2>1. Cardinality(Users(b) \cup {p}) = Cardinality(Users(b)) + 1
    BY Zenon, <1>3, UsersFinite, FS_AddElement
  <2> QED
    BY Zenon, <1>3, <2>1
<1>5. RefcntExact'
  <2>1. ASSUME NEW c \in Bufs
        PROVE  refcnt'[c] = Cardinality(Users(c)') + (IF c \in pinned' THEN 1 ELSE 0)
    <3>1. refcnt[c] = Cardinality(Users(c)) + (IF c \in pinned THEN 1 ELSE 0)
      BY Zenon DEF BcacheInv, RefcntExact
    <3>2. CASE c = b
      BY <1>4, <3>1, <3>2, UsersFinite DEF BcacheInv, TypeOK
    <3>3. CASE c # b
      BY Zenon, <1>3, <3>1, <3>3 DEF BcacheInv, TypeOK
    <3> QED
      BY Zenon, <3>2, <3>3
  <2>2. ASSUME NEW c \in Bufs, NEW q \in Procs
        PROVE  locked'[c] = q <=> pc'[q] \in Held /\ mine'[q] = c
    BY DEF BcacheInv, TypeOK, RefcntExact, Held
  <2> QED
    BY Zenon, <2>1, <2>2 DEF RefcntExact
<1>6. OneBufferPerBlock' /\ SleeperHasHolder'
  BY ZenonT(60), <1>1 DEF BcacheInv, TypeOK, OneBufferPerBlock, SleeperHasHolder, InUse
<1>8. CleanUnlessPinned'
  <2>1. \A q \in Procs : pc'[q] \in {"hold", "dirty", "written"}
                           <=> pc[q] \in {"hold", "dirty", "written"} /\ q # p
    BY Zenon DEF BcacheInv, TypeOK
  <2>2. \A q \in Procs \ {p} : pc'[q] = pc[q] /\ mine'[q] = mine[q]
    BY Zenon DEF BcacheInv, TypeOK
  <2> QED
    BY <2>1, <2>2 DEF BcacheInv, CleanUnlessPinned
<1>7. UnusedInOrder'
  BY <1>1 DEF BcacheInv, TypeOK, UnusedInOrder, Unused
<1> QED
  BY Zenon, <1>2, <1>5, <1>6, <1>7, <1>8 DEF BcacheInv

(* bget() that recycles a buffer. *)
LEMMA BgetMissInv ==
  ASSUME BcacheInv, NEW p \in Procs, NEW k \in Blocks, NEW b \in Lru, Caching(k) = {},
         pc[p] = "idle", want' = [want EXCEPT ![p] = k],
         bget_miss(p, k, b), Goto(p, "acquiresleep"),
         UNCHANGED <<disk, data, mru, locked, pinned, recent, panicked>>
  PROVE  BcacheInv'
<1> USE DEF bget_miss, Goto
<1>1. b \in Bufs /\ b \in Unused /\ k # NoBlock /\ \A c \in Bufs : blockno[c] # k
  BY Zenon DEF Lru, Unused, Caching
<1>2. /\ Users(b) = {} /\ b \notin pinned /\ locked[b] = NoProc
      /\ \A q \in Procs : pc[q] \in InUse => mine[q] # b
  BY Zenon, <1>1, UnusedIsFree
<1>3. TypeOK'
  BY Zenon, <1>1 DEF BcacheInv, TypeOK, PCs
<1>4. Users(b)' = {p} /\ \A c \in Bufs \ {b} : Users(c)' = Users(c)
  <2>1. /\ mine'[p] = b /\ pc'[p] \in InUse /\ pc[p] \notin InUse
        /\ \A q \in Procs \ {p} : mine'[q] = mine[q] /\ pc'[q] = pc[q]
    BY Zenon DEF BcacheInv, TypeOK, InUse
  <2> QED
    BY ZenonT(60), <1>2, <2>1 DEF Users
<1>5. Cardinality(Users(b)') = 1
  BY Zenon, <1>4, FS_Singleton
<1>6. RefcntExact'
  <2>1. ASSUME NEW c \in Bufs
        PROVE  refcnt'[c] = Cardinality(Users(c)') + (IF c \in pinned' THEN 1 ELSE 0)
    <3>1. refcnt[c] = Cardinality(Users(c)) + (IF c \in pinned THEN 1 ELSE 0)
      BY Zenon DEF BcacheInv, RefcntExact
    <3>2. CASE c = b
      BY <1>2, <1>5, <3>2 DEF BcacheInv, TypeOK
    <3>3. CASE c # b
      BY Zenon, <1>4, <3>1, <3>3 DEF BcacheInv, TypeOK
    <3> QED
      BY Zenon, <3>2, <3>3
  <2>2. ASSUME NEW c \in Bufs, NEW q \in Procs
        PROVE  locked'[c] = q <=> pc'[q] \in Held /\ mine'[q] = c
    BY DEF BcacheInv, TypeOK, RefcntExact, Held
  <2> QED
    BY Zenon, <2>1, <2>2 DEF RefcntExact
<1>7. OneBufferPerBlock'
  <2>1. \A c, d \in Bufs : blockno'[c] = blockno'[d] /\ blockno'[c] # NoBlock => c = d
    BY Zenon, <1>1 DEF BcacheInv, TypeOK, OneBufferPerBlock
  <2>2. \A q \in Procs : pc'[q] \in InUse => blockno'[mine'[q]] = want'[q]
    BY ZenonT(60), <1>1, <1>2 DEF BcacheInv, TypeOK, OneBufferPerBlock
  <2> QED
    BY Zenon, <2>1, <2>2 DEF OneBufferPerBlock
<1>8. SleeperHasHolder'
  BY Zenon, <1>1, <1>2 DEF BcacheInv, TypeOK, SleeperHasHolder, InUse
<1>9. CleanUnlessPinned'
  <2>1. \A q \in Procs : pc'[q] \in {"hold", "dirty", "written"} => q # p /\ mine[q] # b
    BY Zenon, <1>2 DEF BcacheInv, TypeOK, InUse
  <2> QED
    BY <1>1, <2>1 DEF BcacheInv, TypeOK, CleanUnlessPinned
<1>10. UnusedInOrder'
  BY Zenon, <1>1 DEF BcacheInv, TypeOK, UnusedInOrder, Unused
<1> QED
  BY Zenon, <1>3, <1>6, <1>7, <1>8, <1>9, <1>10 DEF BcacheInv

(* bget(): a buffer is found or recycled under bcache.lock. *)
LEMMA BgetInv ==
  ASSUME BcacheInv, NEW p \in Procs, NEW k \in Blocks, bget(p, k)
  PROVE  BcacheInv'
<1>1. pc[p] = "idle" /\ want' = [want EXCEPT ![p] = k]
  BY Zenon DEF bget
<1>2. UNCHANGED <<disk, data, mru, locked, pinned, recent>>
  BY Zenon DEF bget
<1>3. ASSUME panicked' = TRUE, UNCHANGED <<blockno, valid, refcnt, mine, pc>>
      PROVE  BcacheInv'
  <2>1. TypeOK'
    BY Zenon, <1>1, <1>2, <1>3 DEF BcacheInv, TypeOK
  <2>2. \A q \in Procs : pc[q] \in InUse => want'[q] = want[q]
    BY Zenon, <1>1 DEF BcacheInv, TypeOK, InUse
  <2>3. OneBufferPerBlock' /\ SleeperHasHolder' /\ CleanUnlessPinned'
    BY ZenonT(60), <1>2, <1>3, <2>2 DEF BcacheInv, OneBufferPerBlock, SleeperHasHolder, CleanUnlessPinned
  <2>4. RefcntExact' /\ UnusedInOrder'
    BY <1>2, <1>3 DEF BcacheInv, RefcntExact, Users, UnusedInOrder, Unused
  <2> QED
    BY Zenon, <2>1, <2>3, <2>4 DEF BcacheInv
<1> QED
  BY Zenon, <1>1, <1>2, <1>3, BgetHitInv, BgetMissInv DEF bget

(* acquiresleep(): the sleep lock goes to one process. *)
LEMMA AcquiresleepInv ==
  ASSUME BcacheInv, NEW p \in Procs, acquiresleep(p)
  PROVE  BcacheInv'
<1> USE DEF acquiresleep, Goto, bufs
<1>1. TypeOK'
  BY ZenonT(60) DEF BcacheInv, TypeOK, PCs
<1>2. \A b \in Bufs : Users(b)' = Users(b)
  BY Zenon DEF BcacheInv, TypeOK, Users, InUse
<1>3. RefcntExact'
  BY <1>2 DEF BcacheInv, TypeOK, RefcntExact, Held
<1>4. OneBufferPerBlock' /\ SleeperHasHolder' /\ CleanUnlessPinned' /\ UnusedInOrder'
  BY DEF BcacheInv, TypeOK, OneBufferPerBlock, SleeperHasHolder, CleanUnlessPinned,
         UnusedInOrder, Unused, InUse
<1> QED
  BY Zenon, <1>1, <1>3, <1>4 DEF BcacheInv

(* bread() fills a buffer that is not valid from the disk. *)
LEMMA BreadInv ==
  ASSUME BcacheInv, NEW p \in Procs, bread(p)
  PROVE  BcacheInv'
<1> USE DEF bread, Goto
<1>1. /\ mine[p] \in Bufs /\ blockno[mine[p]] \in Blocks
      /\ \A q \in Procs : pc[q] \in Held /\ mine[q] = mine[p] => q = p
  BY OneHolder DEF BcacheInv, TypeOK, OneBufferPerBlock, InUse, Held
<1>2. TypeOK'
  BY Zenon, <1>1 DEF BcacheInv, TypeOK, PCs
<1>3. \A b \in Bufs : Users(b)' = Users(b)
  BY Zenon DEF BcacheInv, TypeOK, Users, InUse
<1>4. RefcntExact'
  BY <1>3 DEF BcacheInv, TypeOK, RefcntExact, Held
<1>5. OneBufferPerBlock' /\ SleeperHasHolder' /\ UnusedInOrder'
  BY ZenonT(60) DEF BcacheInv, TypeOK, OneBufferPerBlock, SleeperHasHolder, UnusedInOrder, Unused, InUse
<1>6. CleanUnlessPinned'
  BY <1>1 DEF BcacheInv, TypeOK, CleanUnlessPinned, Held
<1> QED
  BY Zenon, <1>2, <1>4, <1>5, <1>6 DEF BcacheInv

(* The holder of a buffer changes its data. *)
LEMMA ChangeInv ==
  ASSUME BcacheInv, NEW p \in Procs, NEW v \in Values, change(p, v)
  PROVE  BcacheInv'
<1> USE DEF change, Goto
<1>1. /\ mine[p] \in Bufs
      /\ \A q \in Procs : pc[q] \in Held /\ mine[q] = mine[p] => q = p
  BY Zenon, OneHolder DEF Held
<1>2. TypeOK'
  BY Zenon, <1>1 DEF BcacheInv, TypeOK, PCs
<1>3. \A b \in Bufs : Users(b)' = Users(b)
  BY Zenon DEF BcacheInv, TypeOK, Users, InUse
<1>4. RefcntExact'
  BY <1>3 DEF BcacheInv, TypeOK, RefcntExact, Held
<1>5. OneBufferPerBlock' /\ SleeperHasHolder' /\ UnusedInOrder'
  BY ZenonT(60) DEF BcacheInv, TypeOK, OneBufferPerBlock, SleeperHasHolder, UnusedInOrder, Unused, InUse
<1>6. CleanUnlessPinned'
  BY <1>1 DEF BcacheInv, TypeOK, CleanUnlessPinned, Held
<1> QED
  BY Zenon, <1>2, <1>4, <1>5, <1>6 DEF BcacheInv

(* bwrite() copies a locked buffer to the disk. *)
LEMMA BwriteInv ==
  ASSUME BcacheInv, NEW p \in Procs, bwrite(p)
  PROVE  BcacheInv'
<1> USE DEF bwrite, Goto, bufs
<1>1. /\ mine[p] \in Bufs /\ blockno[mine[p]] \in Blocks
      /\ \A q \in Procs : pc[q] \in Held /\ mine[q] = mine[p] => q = p
  BY OneHolder DEF BcacheInv, TypeOK, OneBufferPerBlock, InUse, Held
<1>2. TypeOK'
  BY Zenon, <1>1 DEF BcacheInv, TypeOK, PCs
<1>3. \A b \in Bufs : Users(b)' = Users(b)
  BY Zenon DEF BcacheInv, TypeOK, Users, InUse
<1>4. RefcntExact'
  BY <1>3 DEF BcacheInv, TypeOK, RefcntExact, Held
<1>5. OneBufferPerBlock' /\ SleeperHasHolder' /\ UnusedInOrder'
  BY ZenonT(60) DEF BcacheInv, TypeOK, OneBufferPerBlock, SleeperHasHolder, UnusedInOrder, Unused, InUse
<1>6. \A b \in Bufs \ {mine[p]} : blockno[b] \in Blocks => disk'[blockno[b]] = disk[blockno[b]]
  BY ZenonT(60), <1>1 DEF BcacheInv, TypeOK, OneBufferPerBlock
<1>7. disk'[blockno[mine[p]]] = data[mine[p]]
  BY Zenon, <1>1 DEF BcacheInv, TypeOK
<1>8. CleanUnlessPinned'
  <2>1. \A q \in Procs \ {p} : pc'[q] = pc[q]
    BY Zenon DEF BcacheInv, TypeOK
  <2>2. pc'[p] = "written" /\ valid[mine[p]]
    BY ZenonT(60) DEF BcacheInv, TypeOK, CleanUnlessPinned
  <2>3. \A q \in Procs \ {p} : pc[q] \in Held => mine[q] # mine[p]
    BY Zenon, <1>1 DEF Held
  <2>4. \A b \in Bufs :
          valid[b] /\ b \notin pinned /\ (\A q \in Procs : pc'[q] = "dirty" => mine[q] # b)
            => blockno[b] # NoBlock /\ data[b] = disk'[blockno[b]]
    <3> SUFFICES ASSUME NEW b \in Bufs, valid[b], b \notin pinned,
                        \A q \in Procs : pc'[q] = "dirty" => mine[q] # b
                 PROVE  blockno[b] # NoBlock /\ data[b] = disk'[blockno[b]]
      OBVIOUS
    <3>1. CASE b = mine[p]
      BY Zenon, <1>1, <1>7, <3>1
    <3>2. CASE b # mine[p]
      <4>1. \A q \in Procs : pc[q] = "dirty" => mine[q] # b
        BY Zenon, <2>1, <3>2
      <4>2. blockno[b] # NoBlock /\ data[b] = disk[blockno[b]]
        BY Zenon, <4>1 DEF BcacheInv, CleanUnlessPinned
      <4> QED
        BY Zenon, <1>6, <3>2, <4>2 DEF BcacheInv, TypeOK
    <3> QED
      BY Zenon, <3>1, <3>2
  <2>5. ASSUME NEW q \in Procs
        PROVE  /\ pc'[q] \in {"hold", "dirty", "written"} => valid[mine[q]]
               /\ pc'[q] = "written" => data[mine[q]] = disk'[blockno[mine[q]]]
    <3>1. CASE q = p
      BY Zenon, <1>7, <2>2, <3>1
    <3>2. CASE q # p
      <4>1. pc[q] = "written" => mine[q] \in Bufs \ {mine[p]} /\ blockno[mine[q]] \in Blocks
        BY Zenon, <2>3, <3>2 DEF BcacheInv, TypeOK, OneBufferPerBlock, InUse, Held
      <4> QED
        BY <1>6, <2>1, <3>2, <4>1 DEF BcacheInv, CleanUnlessPinned
    <3> QED
      BY Zenon, <3>1, <3>2
  <2> QED
    BY <2>4, <2>5 DEF CleanUnlessPinned
<1> QED
  BY Zenon, <1>2, <1>4, <1>5, <1>8 DEF BcacheInv

(* log_write() pins the buffer of a block the transaction did not have. *)
LEMMA LogWriteInv ==
  ASSUME BcacheInv, NEW p \in Procs, log_write(p)
  PROVE  BcacheInv'
<1> DEFINE b == mine[p]
<1> USE DEF log_write, Goto, bpin
<1>1. /\ b \in Bufs
      /\ \A q \in Procs : pc[q] \in Held /\ mine[q] = b => q = p
  BY Zenon, OneHolder DEF Held
<1>2. TypeOK'
  BY <1>1 DEF BcacheInv, TypeOK, PCs
<1>3. \A c \in Bufs : Users(c)' = Users(c)
  BY Zenon DEF BcacheInv, TypeOK, Users, InUse
<1>4. RefcntExact'
  <2>1. ASSUME NEW c \in Bufs
        PROVE  refcnt'[c] = Cardinality(Users(c)') + (IF c \in pinned' THEN 1 ELSE 0)
    <3>1. refcnt[c] = Cardinality(Users(c)) + (IF c \in pinned THEN 1 ELSE 0)
      BY Zenon DEF BcacheInv, RefcntExact
    <3> QED
      BY <1>3, <3>1, UsersFinite DEF BcacheInv, TypeOK
  <2>2. ASSUME NEW c \in Bufs, NEW q \in Procs
        PROVE  locked'[c] = q <=> pc'[q] \in Held /\ mine'[q] = c
    BY DEF BcacheInv, TypeOK, RefcntExact, Held
  <2> QED
    BY Zenon, <2>1, <2>2 DEF RefcntExact
<1>5. OneBufferPerBlock' /\ SleeperHasHolder'
  BY ZenonT(60) DEF BcacheInv, TypeOK, OneBufferPerBlock, SleeperHasHolder, InUse
<1>6. UnusedInOrder'
  <2>1. Unused' \subseteq Unused
    BY DEF BcacheInv, TypeOK, Unused
  <2> QED
    BY Zenon, <2>1 DEF BcacheInv, UnusedInOrder
<1>7. CleanUnlessPinned'
  <2>1. /\ \A q \in Procs \ {p} : pc'[q] = pc[q]
        /\ pc'[p] = "hold" /\ valid[b] /\ b \in pinned' /\ pinned \subseteq pinned'
    BY DEF BcacheInv, TypeOK, CleanUnlessPinned
  <2> QED
    BY <2>1 DEF BcacheInv, CleanUnlessPinned
<1> QED
  BY Zenon, <1>2, <1>4, <1>5, <1>6, <1>7 DEF BcacheInv

(* bunpin() lets go of a block that install_trans() has written home. *)
LEMMA BunpinInv ==
  ASSUME BcacheInv, NEW p \in Procs, bunpin(p)
  PROVE  BcacheInv'
<1> DEFINE b == mine[p]
<1> USE DEF bunpin
<1>1. b \in Bufs /\ pc[p] = "written" /\ b \in pinned
  BY Zenon DEF BcacheInv, TypeOK
<1>2. p \in Users(b)
  BY Zenon DEF Users, InUse
<1>3. Cardinality(Users(b)) > 0
  BY <1>2, UsersFinite, FS_EmptySet
<1>4. refcnt[b] >= 2
  BY <1>1, <1>3, UsersFinite DEF BcacheInv, RefcntExact
<1>5. TypeOK'
  BY <1>1, <1>4 DEF BcacheInv, TypeOK, PCs
<1>6. \A c \in Bufs : Users(c)' = Users(c)
  BY Zenon DEF Users
<1>7. RefcntExact'
  <2>1. ASSUME NEW c \in Bufs
        PROVE  refcnt'[c] = Cardinality(Users(c)') + (IF c \in pinned' THEN 1 ELSE 0)
    <3>1. refcnt[c] = Cardinality(Users(c)) + (IF c \in pinned THEN 1 ELSE 0)
      BY Zenon DEF BcacheInv, RefcntExact
    <3> QED
      BY <1>6, <3>1, UsersFinite DEF BcacheInv, TypeOK
  <2> QED
    BY ZenonT(60), <2>1 DEF BcacheInv, RefcntExact
<1>8. OneBufferPerBlock' /\ SleeperHasHolder'
  BY Zenon DEF BcacheInv, OneBufferPerBlock, SleeperHasHolder
<1>9. UnusedInOrder'
  <2>1. Unused' = Unused
    BY <1>4 DEF BcacheInv, TypeOK, Unused
  <2> QED
    BY Zenon, <2>1 DEF BcacheInv, UnusedInOrder
<1>10. CleanUnlessPinned'
  <2>1. blockno[b] # NoBlock /\ data[b] = disk[blockno[b]]
    BY <1>1 DEF BcacheInv, TypeOK, CleanUnlessPinned, OneBufferPerBlock, InUse
  <2> QED
    BY ZenonT(60), <2>1 DEF BcacheInv, CleanUnlessPinned
<1> QED
  BY Zenon, <1>5, <1>7, <1>8, <1>9, <1>10 DEF BcacheInv

(* releasesleep() in brelse(): the holder gives up the lock, not yet its    *)
(* reference.                                                               *)
LEMMA ReleasesleepInv ==
  ASSUME BcacheInv, NEW p \in Procs, releasesleep(p)
  PROVE  BcacheInv'
<1> DEFINE b == mine[p]
<1> USE DEF releasesleep, wakeup, bufs
<1>1. /\ b \in Bufs /\ pc[p] \in {"hold", "written"} /\ locked[b] = p
      /\ \A q \in Procs : pc[q] \in Held /\ mine[q] = b => q = p
  BY Zenon, OneHolder DEF Held
<1>2. /\ pc'[p] = "brelse" /\ locked' = [locked EXCEPT ![b] = NoProc]
      /\ \A q \in Procs \ {p} :
           pc'[q] = IF pc[q] = "asleep" /\ mine[q] = b THEN "acquiresleep" ELSE pc[q]
  BY Zenon DEF BcacheInv, TypeOK
<1>3. UNCHANGED <<disk, blockno, valid, refcnt, data, mru, pinned, recent, want, mine, panicked>>
  OBVIOUS
<1>4. TypeOK'
  <2>1. pc' \in [Procs -> PCs]
    BY Zenon DEF BcacheInv, TypeOK, PCs
  <2> QED
    BY ZenonT(60), <1>1, <1>3, <2>1 DEF BcacheInv, TypeOK
<1> HIDE DEF releasesleep, wakeup
<1>5. \A c \in Bufs : Users(c)' = Users(c)
  <2>1. \A q \in Procs : pc'[q] \in InUse <=> pc[q] \in InUse
    BY Zenon, <1>1, <1>2 DEF InUse
  <2> QED
    BY Zenon, <1>3, <2>1 DEF Users
<1>6. RefcntExact'
  <2>1. ASSUME NEW c \in Bufs, NEW q \in Procs
        PROVE  locked'[c] = q <=> pc'[q] \in Held /\ mine'[q] = c
    <3>1. locked[c] = q <=> pc[q] \in Held /\ mine[q] = c
      BY Zenon DEF BcacheInv, RefcntExact
    <3>2. CASE q = p
      BY ZenonT(60), <1>1, <1>2, <1>3, <3>1, <3>2 DEF BcacheInv, TypeOK, Held
    <3>3. CASE q # p
      BY ZenonT(60), <1>1, <1>2, <1>3, <3>1, <3>3 DEF BcacheInv, TypeOK, Held
    <3> QED
      BY Zenon, <3>2, <3>3
  <2> QED
    BY <1>3, <1>5, <2>1 DEF BcacheInv, RefcntExact
<1>7. OneBufferPerBlock' /\ UnusedInOrder'
  BY ZenonT(60), <1>1, <1>2, <1>3 DEF BcacheInv, OneBufferPerBlock, UnusedInOrder, Unused, InUse
<1>8. SleeperHasHolder'
  BY ZenonT(60), <1>1, <1>2, <1>3 DEF BcacheInv, TypeOK, SleeperHasHolder
<1>9. CleanUnlessPinned'
  <2>1. \A q \in Procs : /\ pc'[q] = "dirty" <=> pc[q] = "dirty"
                         /\ pc'[q] \in {"hold", "written"} => pc'[q] = pc[q]
    BY Zenon, <1>1, <1>2
  <2> QED
    BY <1>3, <2>1 DEF BcacheInv, CleanUnlessPinned
<1> QED
  BY Zenon, <1>4, <1>6, <1>7, <1>8, <1>9 DEF BcacheInv

(* The rest of brelse(): the reference goes, and a buffer that nobody uses  *)
(* becomes the most recently used one.                                      *)
LEMMA BrelseInv ==
  ASSUME BcacheInv, NEW p \in Procs, brelse(p)
  PROVE  BcacheInv'
<1>0. PICK b \in Bufs : b = mine[p]
  BY Zenon DEF BcacheInv, TypeOK
<1>1. /\ b = mine[p] /\ b \in Bufs /\ pc[p] = "brelse"
      /\ refcnt' = [refcnt EXCEPT ![b] = @ - 1]
      /\ mru' = IF refcnt[b] = 1 THEN MoveToFront(mru, b) ELSE mru
      /\ recent' = MoveToFront(recent, b)
      /\ pc' = [pc EXCEPT ![p] = "idle"]
      /\ mine' = [mine EXCEPT ![p] = 1]
      /\ UNCHANGED <<disk, blockno, valid, data, locked, pinned, want, panicked>>
  BY Zenon, <1>0 DEF brelse, Goto, Relink
<1>2. p \in Users(b)
  BY Zenon, <1>1 DEF Users, InUse
<1>3. Cardinality(Users(b)) > 0
  BY <1>2, UsersFinite, FS_EmptySet
<1>4. refcnt[b] >= 1 /\ refcnt[b] \in Nat
  <2>1. refcnt[b] = Cardinality(Users(b)) + (IF b \in pinned THEN 1 ELSE 0)
    BY Zenon, <1>1 DEF BcacheInv, RefcntExact
  <2> QED
    BY <1>3, <2>1, UsersFinite
<1>5. IsList(mru) /\ IsList(recent)
  BY Zenon DEF BcacheInv, TypeOK, UnusedInOrder, IsList
<1>6. IsList(mru') /\ IsList(recent') /\ Fronted(recent, recent', b)
  BY Zenon, <1>1, <1>5, MoveToFrontPlaces
<1>7. 1 \in Bufs
  BY DEF Bufs
<1>8. TypeOK'
  BY <1>1, <1>4, <1>6, <1>7 DEF BcacheInv, TypeOK, PCs, IsList
<1>9. /\ \A q \in Procs \ {p} : pc'[q] = pc[q] /\ mine'[q] = mine[q]
      /\ pc'[p] = "idle"
  BY Zenon, <1>1 DEF BcacheInv, TypeOK
<1>10. Users(b)' = Users(b) \ {p} /\ \A c \in Bufs \ {b} : Users(c)' = Users(c)
  BY ZenonT(60), <1>1, <1>9 DEF Users, InUse
<1>11. Cardinality(Users(b)') = Cardinality(Users(b)) - 1
  BY ZenonT(60), <1>2, <1>10, UsersFinite, FS_RemoveElement
<1>12. RefcntExact'
  <2>1. ASSUME NEW c \in Bufs
        PROVE  refcnt'[c] = Cardinality(Users(c)') + (IF c \in pinned' THEN 1 ELSE 0)
    <3>1. refcnt[c] = Cardinality(Users(c)) + (IF c \in pinned THEN 1 ELSE 0)
      BY Zenon DEF BcacheInv, RefcntExact
    <3>2. CASE c = b
      BY <1>1, <1>11, <3>1, <3>2, UsersFinite DEF BcacheInv, TypeOK
    <3>3. CASE c # b
      BY Zenon, <1>1, <1>10, <3>1, <3>3 DEF BcacheInv, TypeOK
    <3> QED
      BY Zenon, <3>2, <3>3
  <2>2. ASSUME NEW c \in Bufs, NEW q \in Procs
        PROVE  locked'[c] = q <=> pc'[q] \in Held /\ mine'[q] = c
    BY <1>1, <1>9 DEF BcacheInv, RefcntExact, Held
  <2> QED
    BY Zenon, <2>1, <2>2 DEF RefcntExact
<1>13. OneBufferPerBlock' /\ SleeperHasHolder'
  BY <1>1, <1>9 DEF BcacheInv, OneBufferPerBlock, SleeperHasHolder, InUse
<1>14. CleanUnlessPinned'
  BY <1>1, <1>9 DEF BcacheInv, CleanUnlessPinned
<1>15. UnusedInOrder'
  <2>1. /\ \A c, d \in Bufs : recent'[c] = recent'[d] => c = d
        /\ \A c \in Bufs \ {b} : recent'[b] < recent'[c]
        /\ \A c, d \in Bufs \ {b} : recent'[c] < recent'[d] <=> recent[c] < recent[d]
    BY Zenon, <1>6 DEF IsList, Fronted
  <2>2. Unused' \ {b} = Unused \ {b}
    BY Zenon, <1>1 DEF BcacheInv, TypeOK, Unused
  <2>3. CASE refcnt[b] = 1
    <3>1. Fronted(mru, mru', b)
      BY Zenon, <1>1, <1>5, <2>3, MoveToFrontPlaces
    <3>2. /\ \A c, d \in Bufs : mru'[c] = mru'[d] => c = d
          /\ \A c \in Bufs \ {b} : mru'[b] < mru'[c]
          /\ \A c, d \in Bufs \ {b} : mru'[c] < mru'[d] <=> mru[c] < mru[d]
      BY Zenon, <1>6, <3>1 DEF IsList, Fronted
    <3>3. ASSUME NEW c \in Unused', NEW d \in Unused', mru'[c] < mru'[d]
          PROVE  recent'[c] < recent'[d]
      <4>0. c \in Bufs /\ d \in Bufs
        BY Zenon DEF Unused
      <4>1. c \in Bufs /\ d \in Bufs /\ mru'[c] \in Int /\ mru'[d] \in Int
        BY <1>6, <4>0 DEF Bufs, IsList
      <4>2. d # b
        BY <3>2, <3>3, <4>1
      <4>3. CASE c = b
        BY Zenon, <2>1, <4>1, <4>2, <4>3
      <4>4. CASE c # b
        <5>1. mru[c] < mru[d]
          BY Zenon, <3>2, <3>3, <4>1, <4>2, <4>4
        <5>2. c \in Unused /\ d \in Unused
          BY Zenon, <2>2, <4>2, <4>4
        <5> QED
          BY Zenon, <2>1, <4>1, <4>2, <4>4, <5>1, <5>2 DEF BcacheInv, UnusedInOrder
      <4> QED
        BY Zenon, <4>3, <4>4
    <3> QED
      BY Zenon, <2>1, <3>2, <3>3 DEF UnusedInOrder
  <2>4. CASE refcnt[b] # 1
    <3>1. mru' = mru /\ b \notin Unused'
      BY <1>1, <1>4, <2>4 DEF BcacheInv, TypeOK, Unused
    <3>2. ASSUME NEW c \in Unused', NEW d \in Unused', mru'[c] < mru'[d]
          PROVE  recent'[c] < recent'[d]
      <4>1. c \in Unused \ {b} /\ d \in Unused \ {b} /\ c \in Bufs /\ d \in Bufs
        BY Zenon, <2>2, <3>1 DEF Unused
      <4> QED
        BY Zenon, <2>1, <3>1, <3>2, <4>1 DEF BcacheInv, UnusedInOrder
    <3> QED
      BY ZenonT(60), <1>5, <2>1, <3>1, <3>2 DEF UnusedInOrder, IsList
  <2> QED
    BY Zenon, <2>3, <2>4
<1> QED
  BY Zenon, <1>8, <1>12, <1>13, <1>14, <1>15 DEF BcacheInv

(* A step of no buffer. *)
LEMMA StutterInv == BcacheInv /\ UNCHANGED vars => BcacheInv'
<1> SUFFICES ASSUME BcacheInv, UNCHANGED vars PROVE BcacheInv'
  OBVIOUS
<1>1. TypeOK'
  BY Zenon DEF BcacheInv, vars, bufs, TypeOK
<1>2. RefcntExact'
  BY DEF BcacheInv, vars, bufs, RefcntExact, Users
<1>3. (OneBufferPerBlock /\ SleeperHasHolder)'
  BY Zenon DEF BcacheInv, vars, bufs, OneBufferPerBlock, SleeperHasHolder
<1>4. (CleanUnlessPinned /\ UnusedInOrder)'
  BY Zenon DEF BcacheInv, vars, bufs, CleanUnlessPinned, UnusedInOrder, Unused
<1> QED
  BY Zenon, <1>1, <1>2, <1>3, <1>4 DEF BcacheInv

(* Every step keeps the invariant. *)
LEMMA NextInv == BcacheInv /\ [Next]_vars => BcacheInv'
BY Zenon, BgetInv, AcquiresleepInv, BreadInv, ChangeInv, BwriteInv, LogWriteInv, BunpinInv,
   ReleasesleepInv, BrelseInv, StutterInv DEF Next

(* BcacheInv is an invariant of the buffer cache: a block is in one buffer, *)
(* whose reference count is exact, whose sleep-lock has one holder, and     *)
(* which is not recycled while it differs from the disk.                    *)
THEOREM BcacheInvariant == Spec => []BcacheInv
BY InitInv, NextInv, PTL DEF Spec

(* bget() recycles the buffer that was released before every other buffer   *)
(* it could have taken.                                                     *)
THEOREM RecyclesLruHolds == Spec => RecyclesLru
<1> DEFINE A == \A b \in Bufs : blockno'[b] # blockno[b] =>
                  \A c \in Unused \ {b} : recent[c] < recent[b]
<1>1. ASSUME BcacheInv, [Next]_vars PROVE A
  <2>1. ASSUME NEW p \in Procs, NEW k \in Blocks, bget(p, k) PROVE A
    <3>1. CASE UNCHANGED blockno
      BY Zenon, <3>1
    <3>2. ASSUME NEW b \in Lru, bget_miss(p, k, b) PROVE A
      <4>1. \A c \in Bufs \ {b} : blockno'[c] = blockno[c]
        BY Zenon, <1>1, <3>2 DEF bget_miss, BcacheInv, TypeOK
      <4>2. ASSUME NEW c \in Unused \ {b} PROVE recent[c] < recent[b]
        <5>1. b \in Unused /\ c \in Unused /\ b \in Bufs /\ c \in Bufs /\ mru[c] <= mru[b]
          BY Zenon, <3>2 DEF Lru, Unused
        <5>2. mru[c] # mru[b] /\ mru[c] \in Int /\ mru[b] \in Int
          BY <1>1, <5>1 DEF BcacheInv, TypeOK, UnusedInOrder, Bufs
        <5>3. mru[c] < mru[b]
          BY <5>1, <5>2
        <5> QED
          BY Zenon, <1>1, <5>1, <5>3 DEF BcacheInv, UnusedInOrder
      <4> QED
        BY Zenon, <4>1, <4>2
    <3> QED
      BY Zenon, <2>1, <3>1, <3>2 DEF bget, bget_hit
  <2>2. CASE UNCHANGED blockno
    BY Zenon, <2>2
  <2> QED
    BY ZenonT(60), <1>1, <2>1, <2>2 DEF Next, vars, bufs, acquiresleep, bread, change, bwrite, log_write,
                            bunpin, releasesleep, brelse
<1> QED
  BY <1>1, BcacheInvariant, PTL DEF Spec, RecyclesLru
-----------------------------------------------------------------------------
(* The cache implements BlockStore. *)

(* What the mapping makes of a block, and of a buffer that caches it. *)
Mapped ==
  /\ Content = [k \in Blocks |-> Content[k]] /\ Holder = [k \in Blocks |-> Holder[k]]
  /\ \A k \in Blocks : Caching(k) = {} => Content[k] = disk[k] /\ Holder[k] = NoProc
  /\ \A b \in Bufs : blockno[b] \in Blocks =>
       /\ Content[blockno[b]] = IF valid[b] THEN data[b] ELSE disk[blockno[b]]
       /\ Holder[blockno[b]] = locked[b]

(* The buffer of a block decides its content and its holder. *)
LEMMA BufferMaps == BcacheInv => Mapped
<1> SUFFICES ASSUME BcacheInv PROVE Mapped
  OBVIOUS
<1>1. Content = [k \in Blocks |-> Content[k]] /\ Holder = [k \in Blocks |-> Holder[k]]
  BY Zenon DEF Content, Holder
<1>2. ASSUME NEW k \in Blocks, Caching(k) = {}
      PROVE  Content[k] = disk[k] /\ Holder[k] = NoProc
  BY Zenon, <1>2 DEF Content, Holder
<1>3. ASSUME NEW b \in Bufs, blockno[b] \in Blocks
      PROVE  /\ Content[blockno[b]] = IF valid[b] THEN data[b] ELSE disk[blockno[b]]
             /\ Holder[blockno[b]] = locked[b]
  <2>1. Caching(blockno[b]) = {b}
    BY Zenon, <1>3 DEF Caching, BcacheInv, OneBufferPerBlock
  <2>2. Content[blockno[b]] = IF valid[b] THEN data[b] ELSE disk[blockno[b]]
    BY Zenon, <1>3, <2>1 DEF Content
  <2>3. Holder[blockno[b]] = locked[b]
    BY Zenon, <1>3, <2>1 DEF Holder
  <2> QED
    BY Zenon, <2>2, <2>3
<1> QED
  BY Zenon, <1>1, <1>2, <1>3 DEF Mapped

(* The same, after a step. *)
LEMMA BufferMapsNext == BcacheInv' => Mapped'
BY BufferMaps, PTL

(* What bread() would return from buffer b. *)
Seen(b) == IF valid[b] THEN data[b] ELSE disk[blockno[b]]

(* A step that changes no blockno changes the mapping where it changes the  *)
(* buffers.                                                                 *)
LEMMA MapPointwise ==
  ASSUME BcacheInv, BcacheInv', UNCHANGED blockno,
         \A k \in Blocks : Caching(k) = {} => disk'[k] = disk[k],
         NEW k \in Blocks
  PROVE  /\ Caching(k) = {} => Content'[k] = Content[k] /\ Holder'[k] = Holder[k]
         /\ \A b \in Caching(k) : /\ Content[k] = Seen(b) /\ Content'[k] = Seen(b)'
                                  /\ Holder[k] = locked[b] /\ Holder'[k] = locked'[b]
<1>1. Mapped /\ Mapped'
  BY Zenon, BufferMaps, BufferMapsNext
<1>2. Caching(k)' = Caching(k)
  BY Zenon DEF Caching
<1>3. Caching(k) = {} => Content'[k] = Content[k] /\ Holder'[k] = Holder[k]
  BY <1>1, <1>2 DEF Mapped
<1>4. ASSUME NEW b \in Caching(k)
      PROVE  /\ Content[k] = Seen(b) /\ Content'[k] = Seen(b)'
             /\ Holder[k] = locked[b] /\ Holder'[k] = locked'[b]
  <2>1. b \in Bufs /\ blockno[b] = k /\ blockno'[b] = k
    BY Zenon DEF Caching
  <2> QED
    BY ZenonT(60), <1>1, <2>1 DEF Mapped, Seen
<1> QED
  BY Zenon, <1>3, <1>4

(* A step after which every buffer looks the same is a stuttering step. *)
LEMMA SameSeen ==
  ASSUME BcacheInv, BcacheInv', UNCHANGED <<blockno, locked>>,
         \A k \in Blocks : Caching(k) = {} => disk'[k] = disk[k],
         \A b \in Bufs : blockno[b] \in Blocks => Seen(b)' = Seen(b)
  PROVE  UNCHANGED Store!stvars
<1>1. ASSUME NEW k \in Blocks PROVE Content'[k] = Content[k] /\ Holder'[k] = Holder[k]
  <2>1. \A b \in Caching(k) : b \in Bufs /\ blockno[b] \in Blocks
    BY Zenon DEF Caching
  <2>2. CASE Caching(k) = {}
    BY ZenonT(60), <2>2, MapPointwise
  <2>3. CASE Caching(k) # {}
    <3>1. PICK b \in Caching(k) : b \in Bufs /\ blockno[b] \in Blocks
      BY Zenon, <2>1, <2>3
    <3>2. Seen(b)' = Seen(b) /\ locked'[b] = locked[b]
      BY Zenon, <3>1
    <3>3. \A c \in Caching(k) : /\ Content[k] = Seen(c) /\ Content'[k] = Seen(c)'
                                /\ Holder[k] = locked[c] /\ Holder'[k] = locked'[c]
      BY ZenonT(60), MapPointwise
    <3> QED
      BY ONLY Zenon, <3>1, <3>2, <3>3
  <2> QED
    BY Zenon, <2>2, <2>3
<1>2. Mapped /\ Mapped'
  BY Zenon, BufferMaps, BufferMapsNext
<1> QED
  BY Zenon, <1>1, <1>2 DEF Mapped, Store!stvars

(* bget() that recycles a buffer: it was clean and nobody had it. *)
LEMMA MissStutters ==
  ASSUME BcacheInv, BcacheInv', NEW p \in Procs, NEW k \in Blocks, NEW b \in Lru,
         Caching(k) = {}, bget_miss(p, k, b), UNCHANGED <<disk, data, locked>>
  PROVE  UNCHANGED Store!stvars
<1>1. b \in Unused /\ b \in Bufs
  BY Zenon DEF Lru, Unused
<1>2. b \notin pinned /\ locked[b] = NoProc /\ \A q \in Procs : pc[q] = "dirty" => mine[q] # b
  BY Zenon, <1>1, UnusedIsFree DEF InUse
<1>3. blockno[b] \in Blocks => Seen(b) = disk[blockno[b]]
  BY ZenonT(60), <1>1, <1>2 DEF BcacheInv, TypeOK, CleanUnlessPinned, Seen
<1>4. Mapped /\ Mapped'
  BY Zenon, BufferMaps, BufferMapsNext
<1>5. /\ blockno'[b] = k /\ ~valid'[b]
      /\ \A c \in Bufs \ {b} : blockno'[c] = blockno[c] /\ valid'[c] = valid[c]
  BY ZenonT(60), <1>1 DEF bget_miss, BcacheInv, TypeOK
<1>6. ASSUME NEW j \in Blocks PROVE Content'[j] = Content[j] /\ Holder'[j] = Holder[j]
  <2>1. CASE j = k
    <3>1. Content'[j] = disk[j] /\ Holder'[j] = NoProc
      BY Zenon, <1>1, <1>2, <1>4, <1>5, <2>1 DEF Mapped
    <3> QED
      BY Zenon, <1>4, <2>1, <3>1 DEF Mapped
  <2>2. CASE j = blockno[b]
    <3>1. j # k
      BY ZenonT(60), <1>1, <2>2 DEF Caching
    <3>2. Caching(j) = {b}
      BY <1>1, <2>2 DEF Caching, BcacheInv, TypeOK, OneBufferPerBlock
    <3>3. Caching(j)' = {}
      BY ZenonT(60), <1>5, <3>1, <3>2 DEF Caching
    <3>4. Content'[j] = disk[j] /\ Holder'[j] = NoProc
      BY Zenon, <1>4, <3>3 DEF Mapped
    <3> QED
      BY ZenonT(60), <1>1, <1>2, <1>3, <1>4, <2>2, <3>4 DEF Mapped, Seen
  <2>3. CASE j # k /\ j # blockno[b]
    <3>1. Caching(j)' = Caching(j) /\ b \notin Caching(j)
      BY Zenon, <1>5, <2>3 DEF Caching
    <3>2. CASE Caching(j) = {}
      BY ZenonT(60), <1>4, <3>1, <3>2 DEF Mapped
    <3>3. ASSUME NEW c \in Caching(j) PROVE Content'[j] = Content[j] /\ Holder'[j] = Holder[j]
      <4>1. c \in Bufs \ {b} /\ blockno[c] = j /\ blockno'[c] = j /\ valid'[c] = valid[c]
        BY Zenon, <1>5, <3>1 DEF Caching
      <4> QED
        <5>1. /\ Content[j] = IF valid[c] THEN data[c] ELSE disk[j]
              /\ Holder[j] = locked[c]
          BY ZenonT(60), <1>4, <4>1 DEF Mapped
        <5>2. /\ Content'[j] = IF valid'[c] THEN data'[c] ELSE disk'[j]
              /\ Holder'[j] = locked'[c]
          BY ZenonT(60), <1>4, <4>1 DEF Mapped
        <5> QED
          BY Zenon, <1>1, <4>1, <5>1, <5>2
    <3> QED
      BY Zenon, <3>2, <3>3
  <2> QED
    BY Zenon, <2>1, <2>2, <2>3
<1> QED
  BY Zenon, <1>4, <1>6 DEF Mapped, Store!stvars

(* bget() is hidden. *)
LEMMA BgetStutters ==
  ASSUME BcacheInv, BcacheInv', NEW p \in Procs, NEW k \in Blocks, bget(p, k)
  PROVE  UNCHANGED Store!stvars
<1>1. UNCHANGED <<disk, data, locked>>
  BY Zenon DEF bget
<1>2. ASSUME NEW b \in Lru, Caching(k) = {}, bget_miss(p, k, b)
      PROVE  UNCHANGED Store!stvars
  BY Zenon, <1>1, <1>2, MissStutters
<1>3. CASE UNCHANGED <<blockno, valid>>
  BY Zenon, <1>1, <1>3, SameSeen DEF Seen
<1> QED
  BY Zenon, <1>2, <1>3 DEF bget, bget_hit

(* bread() from the disk, and bwrite(), leave what the block contains. *)
LEMMA TransfersStutter ==
  ASSUME BcacheInv, BcacheInv', NEW p \in Procs, bread(p) \/ bwrite(p)
  PROVE  UNCHANGED Store!stvars
<1>1. PICK b \in Bufs : b = mine[p]
  BY Zenon DEF BcacheInv, TypeOK
<1>2. UNCHANGED <<blockno, locked>>
  BY Zenon DEF bread, bwrite, bufs
<1>3. blockno[b] = want[p] /\ blockno[b] \in Blocks
  BY Zenon, <1>1 DEF bread, bwrite, BcacheInv, TypeOK, OneBufferPerBlock, InUse
<1>4. \A c \in Bufs : c # b /\ blockno[c] \in Blocks => blockno[c] # blockno[b]
  BY Zenon, <1>1, <1>3 DEF BcacheInv, OneBufferPerBlock
<1>5. CASE bread(p)
  <2>1. \A c \in Bufs : blockno[c] \in Blocks => Seen(c)' = Seen(c)
    BY ZenonT(60), <1>1, <1>2, <1>3, <1>5 DEF bread, BcacheInv, TypeOK, Seen
  <2> QED
    BY Zenon, <1>2, <1>5, <2>1, SameSeen DEF bread
<1>6. CASE bwrite(p)
  <2>1. valid[b] /\ UNCHANGED <<valid, data>>
    BY Zenon, <1>1, <1>6 DEF bwrite, bufs, BcacheInv, CleanUnlessPinned
  <2>2. disk' = [disk EXCEPT ![blockno[b]] = data[b]]
    BY Zenon, <1>1, <1>6 DEF bwrite
  <2>3. \A c \in Bufs : blockno[c] \in Blocks => Seen(c)' = Seen(c)
    BY ZenonT(60), <1>2, <1>4, <2>1, <2>2 DEF BcacheInv, TypeOK, Seen
  <2>4. \A k \in Blocks : Caching(k) = {} => disk'[k] = disk[k]
    BY ZenonT(60), <2>2 DEF BcacheInv, TypeOK, Caching
  <2> QED
    BY Zenon, <1>2, <2>3, <2>4, SameSeen
<1> QED
  BY Zenon, <1>5, <1>6

(* Where the buffer that p has maps to: the block p asked for. *)
LEMMA MineMaps ==
  ASSUME BcacheInv, BcacheInv', UNCHANGED <<blockno, disk>>, NEW p \in Procs, pc[p] \in InUse
  PROVE  /\ want[p] \in Blocks /\ mine[p] \in Bufs
         /\ Content[want[p]] = Seen(mine[p]) /\ Holder[want[p]] = locked[mine[p]]
         /\ \A b \in Bufs : b = mine[p] => Content'[want[p]] = Seen(b)'
                                           /\ Holder'[want[p]] = locked'[b]
         /\ \A k \in Blocks \ {want[p]} :
              (\A b \in Bufs \ {mine[p]} : Seen(b)' = Seen(b) /\ locked'[b] = locked[b])
                => Content'[k] = Content[k] /\ Holder'[k] = Holder[k]
<1>1. PICK b \in Bufs : b = mine[p]
  BY Zenon DEF BcacheInv, TypeOK
<1>2. want[p] \in Blocks /\ b \in Caching(want[p])
  BY Zenon, <1>1 DEF BcacheInv, TypeOK, OneBufferPerBlock, Caching
<1>3. ASSUME NEW k \in Blocks \ {want[p]},
             \A c \in Bufs \ {b} : Seen(c)' = Seen(c) /\ locked'[c] = locked[c]
      PROVE  Content'[k] = Content[k] /\ Holder'[k] = Holder[k]
  <2>1. \A c \in Caching(k) : c \in Bufs \ {b}
    BY Zenon, <1>2 DEF Caching
  <2>2. CASE Caching(k) = {}
    BY Zenon, <2>2, MapPointwise
  <2>3. CASE Caching(k) # {}
    BY <1>3, <2>1, <2>3, MapPointwise
  <2> QED
    BY Zenon, <2>2, <2>3
<1> QED
  BY ZenonT(60), <1>1, <1>2, <1>3, MapPointwise

(* acquiresleep() takes the block or only goes to sleep. *)
LEMMA AcquiresleepTakes ==
  ASSUME BcacheInv, BcacheInv', NEW p \in Procs, acquiresleep(p)
  PROVE  Store!Take(p, want[p]) \/ UNCHANGED Store!stvars
<1>1. UNCHANGED <<disk, blockno, valid, data>> /\ pc[p] \in InUse
  BY Zenon DEF acquiresleep, bufs, InUse
<1>2. CASE UNCHANGED locked
  BY Zenon, <1>1, <1>2, SameSeen DEF Seen
<1>3. CASE locked[mine[p]] = NoProc /\ locked' = [locked EXCEPT ![mine[p]] = p]
  <2>1. \A b \in Bufs : Seen(b)' = Seen(b) /\ (b # mine[p] => locked'[b] = locked[b])
    BY ZenonT(60), <1>1, <1>3 DEF Seen, BcacheInv, TypeOK
  <2>2. mine[p] \in Bufs /\ locked'[mine[p]] = p
    BY Zenon, <1>3 DEF BcacheInv, TypeOK
  <2>3. Mapped /\ Mapped'
    BY ZenonT(60), BufferMaps, BufferMapsNext
  <2>4. /\ want[p] \in Blocks /\ Holder[want[p]] = NoProc /\ Holder'[want[p]] = p
        /\ Content'[want[p]] = Content[want[p]]
    <3>1. PICK b \in Bufs : b = mine[p]
      BY Zenon, <2>2
    <3>2. /\ want[p] \in Blocks /\ Content[want[p]] = Seen(b) /\ Holder[want[p]] = locked[b]
          /\ Content'[want[p]] = Seen(b)' /\ Holder'[want[p]] = locked'[b]
      BY ZenonT(60), <1>1, <3>1, MineMaps
    <3> QED
      BY ZenonT(60), <1>3, <2>1, <2>2, <3>1, <3>2
  <2>5. \A k \in Blocks \ {want[p]} : Content'[k] = Content[k] /\ Holder'[k] = Holder[k]
    BY <1>1, <2>1, MineMaps
  <2> QED
    BY ZenonT(60), <2>3, <2>4, <2>5 DEF Mapped, Store!Take
<1> QED
  BY Zenon, <1>2, <1>3 DEF acquiresleep

(* The holder's change is the block's. *)
LEMMA ChangeChanges ==
  ASSUME BcacheInv, BcacheInv', NEW p \in Procs, NEW v \in Values, change(p, v)
  PROVE  Store!Change(p, want[p], v)
<1>1. UNCHANGED <<disk, blockno, valid, locked>> /\ pc[p] \in InUse /\ pc[p] \in Held
  BY Zenon DEF change, InUse, Held
<1>2. mine[p] \in Bufs /\ locked[mine[p]] = p /\ valid[mine[p]]
  BY ZenonT(60), <1>1, OneHolder DEF change, BcacheInv, CleanUnlessPinned
<1>3. data'[mine[p]] = v /\ \A b \in Bufs \ {mine[p]} : data'[b] = data[b]
  BY Zenon, <1>2 DEF change, BcacheInv, TypeOK
<1>4. /\ \A b \in Bufs \ {mine[p]} : Seen(b)' = Seen(b) /\ locked'[b] = locked[b]
      /\ \A b \in Bufs : b = mine[p] => Seen(b)' = v
  BY Zenon, <1>1, <1>2, <1>3 DEF Seen
<1>5. Mapped /\ Mapped'
  BY ZenonT(60), BufferMaps, BufferMapsNext
<1>6. /\ want[p] \in Blocks /\ Holder[want[p]] = p /\ Holder'[want[p]] = p
      /\ Content'[want[p]] = v
  BY <1>1, <1>2, <1>4, MineMaps
<1>7. \A k \in Blocks \ {want[p]} : Content'[k] = Content[k] /\ Holder'[k] = Holder[k]
  BY ZenonT(60), <1>1, <1>4, MineMaps
<1> QED
  BY <1>5, <1>6, <1>7 DEF Mapped, Store!Change

(* releasesleep() gives the block back. *)
LEMMA ReleasesleepGives ==
  ASSUME BcacheInv, BcacheInv', NEW p \in Procs, releasesleep(p)
  PROVE  Store!Give(p, want[p])
<1>1. UNCHANGED <<disk, blockno, valid, data>> /\ pc[p] \in InUse /\ pc[p] \in Held
  BY Zenon DEF releasesleep, bufs, InUse, Held
<1>2. mine[p] \in Bufs /\ locked[mine[p]] = p
  BY Zenon, <1>1, OneHolder
<1>3. /\ \A b \in Bufs : Seen(b)' = Seen(b) /\ (b # mine[p] => locked'[b] = locked[b])
      /\ locked'[mine[p]] = NoProc
  BY ZenonT(60), <1>1, <1>2 DEF releasesleep, Seen, BcacheInv, TypeOK
<1>4. Mapped /\ Mapped'
  BY Zenon, BufferMaps, BufferMapsNext
<1>5. /\ want[p] \in Blocks /\ Holder[want[p]] = p /\ Holder'[want[p]] = NoProc
      /\ Content'[want[p]] = Content[want[p]]
  <2>1. PICK b \in Bufs : b = mine[p]
    BY Zenon, <1>2
  <2>2. /\ want[p] \in Blocks /\ Content[want[p]] = Seen(b) /\ Holder[want[p]] = locked[b]
        /\ Content'[want[p]] = Seen(b)' /\ Holder'[want[p]] = locked'[b]
    BY ZenonT(60), <1>1, <2>1, MineMaps
  <2> QED
    BY ZenonT(60), <1>2, <1>3, <2>1, <2>2
<1>6. \A k \in Blocks \ {want[p]} : Content'[k] = Content[k] /\ Holder'[k] = Holder[k]
  BY <1>1, <1>3, MineMaps
<1> QED
  BY ZenonT(60), <1>4, <1>5, <1>6 DEF Mapped, Store!Give

(* Every behaviour of the buffer cache is one of a store of blocks that are *)
(* taken, changed and given back: bget()'s recycling, bread()'s and         *)
(* bwrite()'s transfers and the log's pins cannot be seen.                  *)
THEOREM IsBlockStoreHolds == Spec => IsBlockStore
<1>1. Init => Store!StInit
  <2> SUFFICES ASSUME Init PROVE Store!StInit
    OBVIOUS
  <2>1. \A k \in Blocks : Caching(k) = {}
    BY Zenon DEF Init, Caching
  <2>2. Content = disk /\ Holder = [k \in Blocks |-> NoProc]
    BY Zenon, <2>1 DEF Init, Content, Holder
  <2> QED
    BY Zenon, <2>2 DEF Init, Store!StInit
<1>2. ASSUME BcacheInv, BcacheInv', [Next]_vars PROVE [Store!StNext]_(Store!stvars)
  <2>1. ASSUME NEW p \in Procs, NEW k \in Blocks, bget(p, k) PROVE UNCHANGED Store!stvars
    BY Zenon, <1>2, <2>1, BgetStutters
  <2>2. ASSUME NEW p \in Procs, bread(p) \/ bwrite(p) PROVE UNCHANGED Store!stvars
    BY Zenon, <1>2, <2>2, TransfersStutter
  <2>3. ASSUME NEW p \in Procs, acquiresleep(p) PROVE [Store!StNext]_(Store!stvars)
    <3>1. want[p] \in Blocks
      BY Zenon, <1>2 DEF BcacheInv, TypeOK
    <3> QED
      BY Zenon, <1>2, <2>3, <3>1, AcquiresleepTakes DEF Store!StNext
  <2>4. ASSUME NEW p \in Procs, NEW v \in Values, change(p, v) PROVE Store!StNext
    <3>1. want[p] \in Blocks
      BY Zenon, <1>2 DEF BcacheInv, TypeOK
    <3> QED
      BY Zenon, <1>2, <2>4, <3>1, ChangeChanges DEF Store!StNext
  <2>5. ASSUME NEW p \in Procs, releasesleep(p) PROVE Store!StNext
    <3>1. want[p] \in Blocks
      BY Zenon, <1>2 DEF BcacheInv, TypeOK
    <3> QED
      BY ZenonT(60), <1>2, <2>5, <3>1, ReleasesleepGives DEF Store!StNext
  <2>6. CASE UNCHANGED <<disk, blockno, valid, data, locked>>
    BY Zenon, <1>2, <2>6, SameSeen DEF Seen
  <2>7. ASSUME NEW p \in Procs, log_write(p) \/ bunpin(p) \/ brelse(p)
        PROVE  UNCHANGED <<disk, blockno, valid, data, locked>>
    BY Zenon, <2>7 DEF log_write, bunpin, brelse
  <2> QED
    BY Zenon, <1>2, <2>1, <2>2, <2>3, <2>4, <2>5, <2>6, <2>7 DEF Next, vars, bufs
<1> QED
  BY <1>1, <1>2, BcacheInvariant, PTL DEF Spec, IsBlockStore, Store!StSpec
=============================================================================
