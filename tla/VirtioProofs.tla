---------------------------- MODULE VirtioProofs ----------------------------
(***************************************************************************)
(* Proofs about the disk driver and its device, for any number of          *)
(* processes, descriptors and ring entries and any width of the indices:   *)
(* its inductive invariant, and that it implements DiskPort.               *)
(***************************************************************************)
EXTENDS VirtioDisk, FiniteSetTheorems, WellFoundedInduction, TLAPS
-----------------------------------------------------------------------------
(* Ring indices. *)

(* What virtio.h's NUM and the rings' sizes are. *)
LEMMA Sizes ==
  /\ NUM \in Nat /\ NUM >= 3 /\ RING \in Nat /\ RING >= 1 /\ 3 * RING >= NUM - 2
  /\ IdxMod \in Nat /\ IdxMod > RING /\ IdxMod % RING = 0
  /\ NoProc \notin Procs /\ NoDesc \notin Descs
BY VirtioAssumption DEF VirtioAssumption

(* A uint16 index of a ring. *)
Index == 0 .. IdxMod - 1

(* An index is a number. *)
LEMMA IndexNat == \A x \in Index : x \in Nat
BY Sizes DEF Index

(* Division with remainder. *)
LEMMA DivMod ==
  ASSUME NEW w \in Int, w > 0, NEW x \in Int
  PROVE  x \div w \in Int /\ x % w \in 0 .. w - 1 /\ x = w * (x \div w) + (x % w)
<1>1. x = w * (x \div w) + (x % w)
  BY SMTT(60)
<1>2. x \div w \in Int /\ x % w \in 0 .. w - 1
  OBVIOUS
<1> QED
  BY Zenon, <1>1, <1>2

(* The remainder is unique. *)
LEMMA ModIs ==
  ASSUME NEW w \in Int, w > 0, NEW q \in Int, NEW r \in 0 .. w - 1, NEW x, x = w * q + r
  PROVE  x % w = r
OBVIOUS

(* avail->idx += 1 and its like wrap. *)
LEMMA IncIs ==
  ASSUME NEW x \in Index
  PROVE  Inc(x) = (IF x = IdxMod - 1 THEN 0 ELSE x + 1) /\ Inc(x) \in Index
BY Sizes DEF Inc, Index

(* The difference of two indices, as unsigned numbers. *)
LEMMA DistIs ==
  ASSUME NEW x \in Index, NEW y \in Index
  PROVE  /\ Dist(x, y) = IF y >= x THEN y - x ELSE y - x + IdxMod
         /\ Dist(x, y) \in Index
<1>0. IdxMod \in Int /\ IdxMod > 0 /\ x \in Int /\ y \in Int
  BY Sizes DEF Index
<1>1. CASE y >= x
  <2>1. y - x \in 0 .. IdxMod - 1 /\ y - x = IdxMod * 0 + (y - x)
    BY <1>0, <1>1 DEF Index
  <2>2. (y - x) % IdxMod = y - x
    BY <1>0, <2>1, ModIs
  <2> QED
    BY <1>1, <2>1, <2>2 DEF Dist, Index
<1>2. CASE ~(y >= x)
  <2>1. y - x + IdxMod \in 0 .. IdxMod - 1 /\ y - x = IdxMod * (-1) + (y - x + IdxMod)
    BY <1>0, <1>2 DEF Index
  <2>2. (y - x) % IdxMod = y - x + IdxMod
    BY <1>0, <2>1, ModIs
  <2> QED
    BY <1>2, <2>1, <2>2 DEF Dist, Index
<1> QED
  BY Zenon, <1>1, <1>2

(* The side that writes a ring moves on: there is one entry more. *)
LEMMA DistMore ==
  ASSUME NEW x \in Index, NEW y \in Index, Dist(x, y) < RING
  PROVE  Dist(x, Inc(y)) = Dist(x, y) + 1
<1>1. Inc(y) = (IF y = IdxMod - 1 THEN 0 ELSE y + 1) /\ Inc(y) \in Index
  BY Zenon, IncIs
<1>2. Dist(x, y) = IF y >= x THEN y - x ELSE y - x + IdxMod
  BY Zenon, DistIs
<1>3. Dist(x, Inc(y)) = IF Inc(y) >= x THEN Inc(y) - x ELSE Inc(y) - x + IdxMod
  BY Zenon, <1>1, DistIs
<1> QED
  BY <1>1, <1>2, <1>3, Sizes DEF Index

(* The side that reads it moves on: there is one entry fewer. *)
LEMMA DistLess ==
  ASSUME NEW x \in Index, NEW y \in Index, x # y
  PROVE  Dist(Inc(x), y) = Dist(x, y) - 1 /\ Dist(x, y) > 0
<1>1. Inc(x) = (IF x = IdxMod - 1 THEN 0 ELSE x + 1) /\ Inc(x) \in Index
  BY Zenon, IncIs
<1>2. Dist(x, y) = IF y >= x THEN y - x ELSE y - x + IdxMod
  BY Zenon, DistIs
<1>3. Dist(Inc(x), y) = IF y >= Inc(x) THEN y - Inc(x) ELSE y - Inc(x) + IdxMod
  BY Zenon, <1>1, DistIs
<1> QED
  BY <1>1, <1>2, <1>3, Sizes DEF Index

(* The index of an entry stays the same when a position wraps, because the  *)
(* width of the indices is a multiple of the ring's size.                   *)
LEMMA SameEntry ==
  ASSUME NEW x \in Int
  PROVE  (x - IdxMod) % RING = x % RING
<1>0. RING \in Int /\ RING > 0 /\ IdxMod \in Int /\ IdxMod % RING = 0
  BY Sizes
<1>1. PICK m \in Int : IdxMod = RING * m
  BY <1>0, DivMod
<1>2. PICK q \in Int, r \in 0 .. RING - 1 : x = RING * q + r /\ r = x % RING
  BY <1>0, DivMod
<1>3. q - m \in Int /\ x - IdxMod = RING * (q - m) + r
  BY <1>0, <1>1, <1>2
<1>4. ASSUME NEW y \in Int, NEW k \in Int, y = RING * k + r PROVE y % RING = r
  BY <1>0, <1>4, ModIs
<1>5. x - IdxMod \in Int
  BY <1>0
<1> QED
  BY Zenon, <1>2, <1>3, <1>4, <1>5

(* Positions less than the ring's size apart have different entries. *)
LEMMA OtherEntry ==
  ASSUME NEW x \in Int, NEW d \in 1 .. RING - 1
  PROVE  (x + d) % RING # x % RING
<1>0. RING \in Int /\ RING > 0
  BY Sizes
<1>1. PICK q \in Int, r \in 0 .. RING - 1 : x = RING * q + r /\ r = x % RING
  BY <1>0, DivMod
<1>2. ASSUME NEW y \in Int, NEW k \in Int, NEW e \in 0 .. RING - 1, y = RING * k + e
      PROVE  y % RING = e
  BY <1>0, <1>2, ModIs
<1>3. CASE r + d < RING
  <2>1. /\ x + d \in Int /\ r + d \in 0 .. RING - 1
        /\ x + d = RING * q + (r + d)
    BY <1>0, <1>1, <1>3
  <2>2. (x + d) % RING = r + d
    BY <1>2, <2>1, Zenon
  <2> QED
    BY <1>1, <2>2
<1>4. CASE ~(r + d < RING)
  <2>1. /\ x + d \in Int /\ q + 1 \in Int /\ r + d - RING \in 0 .. RING - 1
        /\ x + d = RING * (q + 1) + (r + d - RING)
    BY <1>0, <1>1, <1>4
  <2>2. (x + d) % RING = r + d - RING
    BY <1>2, <2>1, Zenon
  <2> QED
    BY <1>0, <1>1, <2>2
<1> QED
  BY Zenon, <1>3, <1>4

(* The entry k places from an index. *)
LEMMA SlotIs ==
  ASSUME NEW x \in Index, NEW k \in Index
  PROVE  Slot(x, k) = (x + k) % RING /\ Slot(x, k) \in Ring
<1>0. /\ IdxMod \in Int /\ IdxMod > 0 /\ RING \in Int /\ RING > 0
      /\ x \in 0 .. IdxMod - 1 /\ k \in 0 .. IdxMod - 1
  BY Sizes DEF Index
<1>1. (x + k) % IdxMod = IF x + k < IdxMod THEN x + k ELSE (x + k) - IdxMod
  <2>1. CASE x + k < IdxMod
    <3>1. x + k \in 0 .. IdxMod - 1 /\ x + k = IdxMod * 0 + (x + k)
      BY <1>0, <2>1
    <3> QED
      BY <1>0, <2>1, <3>1, ModIs
  <2>2. CASE ~(x + k < IdxMod)
    <3>1. (x + k) - IdxMod \in 0 .. IdxMod - 1 /\ x + k = IdxMod * 1 + ((x + k) - IdxMod)
      BY <1>0, <2>2
    <3> QED
      BY <1>0, <2>2, <3>1, ModIs
  <2> QED
    BY Zenon, <2>1, <2>2
<1>2. x + k \in Int
  BY <1>0
<1>3. ((x + k) - IdxMod) % RING = (x + k) % RING
  BY Zenon, <1>2, SameEntry
<1>4. (x + k) % RING \in 0 .. RING - 1
  BY <1>0, <1>2, DivMod
<1> QED
  BY Zenon, <1>1, <1>3, <1>4 DEF Slot, Ring

(* The entry at an index, and those after it when the reader moves on. *)
LEMMA SlotNext ==
  ASSUME NEW x \in Index
  PROVE  /\ Slot(x, 0) = x % RING
         /\ \A k \in Nat : k + 1 \in Index => Slot(Inc(x), k) = Slot(x, k + 1)
<1>0. IdxMod \in Nat /\ IdxMod > 0 /\ x \in 0 .. IdxMod - 1 /\ 0 \in Index /\ x + 0 = x
  BY Sizes DEF Index
<1>1. Slot(x, 0) = x % RING
  BY Zenon, <1>0, SlotIs
<1>2. ASSUME NEW k \in Nat, k + 1 \in Index PROVE Slot(Inc(x), k) = Slot(x, k + 1)
  <2>1. k \in Index /\ x + (k + 1) \in Int
    BY <1>0, <1>2 DEF Index
  <2>2. Inc(x) = (IF x = IdxMod - 1 THEN 0 ELSE x + 1) /\ Inc(x) \in Index
    BY Zenon, IncIs
  <2>3. Slot(Inc(x), k) = (Inc(x) + k) % RING /\ Slot(x, k + 1) = (x + (k + 1)) % RING
    BY Zenon, <1>2, <2>1, <2>2, SlotIs
  <2>4. Inc(x) + k = x + (k + 1) \/ Inc(x) + k = (x + (k + 1)) - IdxMod
    BY <1>0, <2>2
  <2>5. ((x + (k + 1)) - IdxMod) % RING = (x + (k + 1)) % RING
    BY Zenon, <2>1, SameEntry
  <2> QED
    BY Zenon, <2>3, <2>4, <2>5
<1> QED
  BY Zenon, <1>1, <1>2

(* The entry that is written next, and those before it. *)
LEMMA SlotLast ==
  ASSUME NEW x \in Index, NEW y \in Index, Dist(x, y) < RING
  PROVE  /\ Slot(x, Dist(x, y)) = y % RING
         /\ \A k \in 0 .. Dist(x, y) - 1 : Slot(x, k) # y % RING
<1>0. IdxMod \in Nat /\ IdxMod > 0 /\ x \in Int /\ y \in Int /\ RING \in Nat
  BY Sizes DEF Index
<1>1. PICK n \in Index : n = Dist(x, y) /\ n = IF y >= x THEN y - x ELSE y - x + IdxMod
  BY Zenon, DistIs
<1>2. n \in Int /\ x + n \in Int /\ n < RING
  BY <1>0, <1>1 DEF Index
<1>3. Slot(x, n) = (x + n) % RING
  BY Zenon, <1>1, SlotIs
<1>4. (x + n) % RING = y % RING
  <2>1. y = x + n \/ y = (x + n) - IdxMod
    BY <1>0, <1>1, <1>2
  <2>2. ((x + n) - IdxMod) % RING = (x + n) % RING
    BY Zenon, <1>2, SameEntry
  <2> QED
    BY Zenon, <2>1, <2>2
<1>5. ASSUME NEW k \in 0 .. n - 1 PROVE Slot(x, k) # y % RING
  <2>1. /\ k \in Index /\ x + k \in Int /\ n - k \in 1 .. RING - 1
        /\ (x + k) + (n - k) = x + n
    BY <1>0, <1>1, <1>2 DEF Index
  <2>2. ((x + k) + (n - k)) % RING # (x + k) % RING
    BY Zenon, <2>1, OtherEntry
  <2>3. Slot(x, k) = (x + k) % RING
    BY Zenon, <2>1, SlotIs
  <2> QED
    BY Zenon, <1>4, <2>1, <2>2, <2>3
<1> QED
  BY Zenon, <1>1, <1>3, <1>4, <1>5

(* Writing an entry and moving on adds it to the ring. *)
LEMMA RingPut ==
  ASSUME NEW ring, NEW x \in Index, NEW y \in Index, Dist(x, y) < RING,
         NEW h, NEW new, \A s \in Ring : new[s] = IF s = y % RING THEN h ELSE ring[s]
  PROVE  /\ Dist(x, Inc(y)) = Dist(x, y) + 1
         /\ Entries(new, x, Inc(y)) = Entries(ring, x, y) \cup {h}
         /\ EachOnce(ring, x, y) /\ h \notin Entries(ring, x, y) => EachOnce(new, x, Inc(y))
<1>1. Dist(x, Inc(y)) = Dist(x, y) + 1
  BY Zenon, DistMore
<1>2. PICK n \in Nat : n = Dist(x, y) /\ n < RING
  BY Zenon, DistIs, IndexNat
<1>3. \A k \in 0 .. n : Slot(x, k) \in Ring
  <2>1. \A k \in 0 .. n : k \in Index
    BY <1>2, Sizes DEF Index
  <2> QED
    BY Zenon, <2>1, SlotIs
<1>4. /\ \A k \in 0 .. n - 1 : k \in 0 .. n /\ k # n
      /\ \A k \in 0 .. n : k = n \/ k \in 0 .. n - 1
      /\ (n + 1) - 1 = n /\ n \in 0 .. n
  BY <1>2
<1>5. y % RING \in Ring /\ Slot(x, n) = y % RING
  BY Zenon, <1>2, <1>3, <1>4, SlotLast
<1>6. new[Slot(x, n)] = h /\ \A k \in 0 .. n - 1 : new[Slot(x, k)] = ring[Slot(x, k)]
  <2>1. \A k \in 0 .. n - 1 : Slot(x, k) # y % RING /\ Slot(x, k) \in Ring
    BY Zenon, <1>2, <1>3, <1>4, SlotLast
  <2> QED
    BY Zenon, <1>5, <2>1
<1>7. /\ Entries(ring, x, y) = {ring[Slot(x, k)] : k \in 0 .. n - 1}
      /\ Entries(new, x, Inc(y)) = {new[Slot(x, k)] : k \in 0 .. n}
  BY Zenon, <1>1, <1>2, <1>4 DEF Entries
<1>8. Entries(new, x, Inc(y)) = Entries(ring, x, y) \cup {h}
  BY Zenon, <1>4, <1>6, <1>7
<1>9. ASSUME EachOnce(ring, x, y), h \notin Entries(ring, x, y) PROVE EachOnce(new, x, Inc(y))
  <2>1. /\ \A j, k \in 0 .. n - 1 : ring[Slot(x, j)] = ring[Slot(x, k)] => j = k
        /\ \A k \in 0 .. n - 1 : ring[Slot(x, k)] # h
    BY Zenon, <1>2, <1>7, <1>9 DEF EachOnce
  <2>2. \A j, k \in 0 .. n : new[Slot(x, j)] = new[Slot(x, k)] => j = k
    BY Zenon, <1>4, <1>6, <2>1
  <2> QED
    BY Zenon, <1>1, <1>2, <1>4, <2>2 DEF EachOnce
<1> QED
  BY Zenon, <1>1, <1>8, <1>9

(* Reading an entry and moving on removes it. *)
LEMMA RingTake ==
  ASSUME NEW ring, NEW x \in Index, NEW y \in Index, x # y,
         EachOnce(ring, x, y)
  PROVE  /\ Dist(Inc(x), y) = Dist(x, y) - 1
         /\ ring[x % RING] \in Entries(ring, x, y)
         /\ Entries(ring, Inc(x), y) = Entries(ring, x, y) \ {ring[x % RING]}
         /\ EachOnce(ring, Inc(x), y)
<1>1. Dist(Inc(x), y) = Dist(x, y) - 1 /\ Dist(x, y) > 0
  BY Zenon, DistLess
<1>2. PICK n \in Nat : n = Dist(x, y) /\ n > 0 /\ n < IdxMod
  <2>1. Dist(x, y) \in Index
    BY Zenon, DistIs
  <2> QED
    BY <1>1, <2>1, Sizes DEF Index
<1>3. /\ \A k \in 0 .. n - 1 - 1 : k \in Nat /\ k + 1 \in Index /\ k + 1 \in 0 .. n - 1 /\ k + 1 # 0
      /\ \A k \in 0 .. n - 1 : k = 0 \/ (k - 1 \in 0 .. n - 1 - 1 /\ (k - 1) + 1 = k)
      /\ 0 \in 0 .. n - 1
      /\ \A j, k \in 0 .. n - 1 - 1 : j + 1 = k + 1 => j = k
  BY <1>2, Sizes DEF Index
<1>4. /\ Slot(x, 0) = x % RING
      /\ \A k \in 0 .. n - 1 - 1 : Slot(Inc(x), k) = Slot(x, k + 1)
  BY Zenon, <1>3, SlotNext
<1>5. /\ Entries(ring, x, y) = {ring[Slot(x, k)] : k \in 0 .. n - 1}
      /\ Entries(ring, Inc(x), y) = {ring[Slot(Inc(x), k)] : k \in 0 .. n - 1 - 1}
  BY Zenon, <1>1, <1>2 DEF Entries
<1>6. \A j, k \in 0 .. n - 1 : ring[Slot(x, j)] = ring[Slot(x, k)] => j = k
  BY Zenon, <1>2 DEF EachOnce
<1>7. ring[x % RING] \in Entries(ring, x, y)
  <2>1. \E k \in 0 .. n - 1 : ring[x % RING] = ring[Slot(x, k)]
    BY Zenon, <1>3, <1>4
  <2> QED
    BY Zenon, <1>5, <2>1
<1>8. Entries(ring, Inc(x), y) = Entries(ring, x, y) \ {ring[x % RING]}
  <2>1. ASSUME NEW e \in Entries(ring, Inc(x), y)
        PROVE  e \in Entries(ring, x, y) \ {ring[x % RING]}
    <3>1. PICK k \in 0 .. n - 1 - 1 : e = ring[Slot(x, k + 1)]
      BY Zenon, <1>4, <1>5, <2>1
    <3> QED
      BY Zenon, <1>3, <1>4, <1>5, <1>6, <3>1
  <2>2. ASSUME NEW e \in Entries(ring, x, y) \ {ring[x % RING]}
        PROVE  e \in Entries(ring, Inc(x), y)
    <3>1. PICK k \in 0 .. n - 1 : e = ring[Slot(x, k)] /\ k # 0
      BY Zenon, <1>4, <1>5, <2>2
    <3>2. PICK j \in 0 .. n - 1 - 1 : j + 1 = k
      BY Zenon, <1>3, <3>1
    <3> QED
      BY Zenon, <1>4, <1>5, <3>1, <3>2
  <2> QED
    BY Zenon, <2>1, <2>2
<1>9. \A j, k \in 0 .. n - 1 - 1 : ring[Slot(Inc(x), j)] = ring[Slot(Inc(x), k)] => j = k
  BY ZenonT(60), <1>3, <1>4, <1>6
<1> QED
  BY Zenon, <1>1, <1>2, <1>7, <1>8, <1>9 DEF EachOnce

(* Equal indices: the ring is empty. *)
LEMMA RingEmpty ==
  ASSUME NEW ring, NEW x \in Index
  PROVE  Dist(x, x) = 0 /\ Entries(ring, x, x) = {} /\ EachOnce(ring, x, x)
<1>1. Dist(x, x) = 0
  BY DistIs DEF Index
<1>2. 0 .. 0 - 1 = {}
  OBVIOUS
<1> QED
  BY Zenon, <1>1, <1>2 DEF Entries, EachOnce
-----------------------------------------------------------------------------
(* Descriptors. *)

(* The table of descriptors is finite. *)
LEMMA DescsFinite ==
  /\ IsFiniteSet(Descs) /\ Cardinality(Descs) = NUM /\ Descs \subseteq Nat
  /\ \A S \in SUBSET Descs : IsFiniteSet(S) /\ Cardinality(S) \in Nat
<1>0. NUM \in Nat /\ NUM >= 3 /\ 0 \in Int /\ NUM - 1 \in Int
  BY Sizes
<1>1. IsFiniteSet(Descs) /\ Cardinality(Descs) = NUM /\ Descs \subseteq Nat
  BY <1>0, FS_Interval DEF Descs
<1> QED
  BY Zenon, <1>1, FS_Subset, FS_CardinalityType

(* alloc_desc() finds the lowest free descriptor. *)
LEMMA LowestDesc ==
  ASSUME NEW T, T \subseteq Descs, T # {}
  PROVE  \E k \in T : \A j \in T : k <= j
<1>1. PICK k \in T : \A j \in T : ~(<<j, k>> \in OpToRel(<, Nat))
  BY Zenon, DescsFinite, NatLessThanWellFounded, WFMin
<1>2. \A j \in T : ~(j < k)
  BY Zenon, <1>1, DescsFinite DEF OpToRel
<1> QED
  BY <1>2, DescsFinite

(* alloc3_desc() finds three descriptors when there are three. *)
LEMMA Alloc3Is ==
  ASSUME free \subseteq Descs, Cardinality(free) >= 3
  PROVE  \E a, b, c \in free : alloc3 = <<a, b, c>> /\ a # b /\ a # c /\ b # c
<1>1. IsFiniteSet(free) /\ free \subseteq Nat
  BY Zenon, DescsFinite
<1>2. PICK a \in free : \A j \in free : a <= j
  <2>1. free # {}
    BY FS_EmptySet
  <2> QED
    BY Zenon, <2>1, LowestDesc
<1>3. /\ IsFiniteSet(free \ {a}) /\ Cardinality(free \ {a}) >= 2
      /\ free \ {a} \subseteq Descs
  <2>1. Cardinality(free \ {a}) = Cardinality(free) - 1 /\ IsFiniteSet(free \ {a})
    BY Zenon, <1>1, FS_RemoveElement
  <2>2. Cardinality(free) \in Nat
    BY Zenon, DescsFinite
  <2> QED
    BY <2>1, <2>2
<1>4. PICK b \in free \ {a} : \A j \in free \ {a} : b <= j
  <2>1. free \ {a} # {}
    BY <1>3, FS_EmptySet
  <2> QED
    BY Zenon, <1>3, <2>1, LowestDesc
<1>5. PICK c \in (free \ {a}) \ {b} : \A j \in (free \ {a}) \ {b} : c <= j
  <2>1. Cardinality((free \ {a}) \ {b}) = Cardinality(free \ {a}) - 1
    BY Zenon, <1>3, <1>4, FS_RemoveElement
  <2>2. Cardinality(free \ {a}) \in Nat
    BY Zenon, <1>3, DescsFinite
  <2>3. (free \ {a}) \ {b} # {}
    BY <1>3, <2>1, <2>2, FS_EmptySet
  <2> QED
    BY Zenon, <1>3, <2>3, LowestDesc
<1> DEFINE Lowest(t) == /\ t[1] < t[2] /\ t[2] < t[3]
                        /\ \A d \in free : d <= t[3] => d \in {t[1], t[2], t[3]}
<1>6. Lowest(<<a, b, c>>)
  BY <1>1, <1>2, <1>4, <1>5
<1>7. <<a, b, c>> \in free \X free \X free
  BY Zenon, <1>4, <1>5
<1>8. alloc3 \in free \X free \X free /\ Lowest(alloc3)
  BY Zenon, <1>6, <1>7 DEF alloc3
<1> HIDE DEF Lowest
<1>9. PICK x, y, z \in free : alloc3 = <<x, y, z>>
  BY <1>8
<1>10. x < y /\ y < z /\ x \in Nat /\ y \in Nat /\ z \in Nat
  BY <1>1, <1>8, <1>9 DEF Lowest
<1>11. x # y /\ x # z /\ y # z
  BY <1>10
<1> QED
  BY Zenon, <1>9, <1>11

(* The descriptors of a call in progress. *)
Own(p) == {head[p], next[head[p]], next[next[head[p]]]}

(* DescriptorsOwned, without following chains. *)
OwnedOnce ==
  /\ \A p, q \in Calls : p # q => Own(p) \cap Own(q) = {}
  /\ \A d \in Descs : d \in free <=> \A p \in Calls : d \notin Own(p)

(* The inductive invariant, in the form the steps use. *)
DInv ==
  /\ TypeOK /\ NoPanic /\ NoCompletionLost
  /\ ChainsBuilt /\ OwnedOnce /\ RingsHoldCalls /\ CallsCounted

(* The chain of a call that virtio_disk_rw() has built. *)
LEMMA CallIs ==
  ASSUME TypeOK, ChainsBuilt, NEW p \in Calls
  PROVE  /\ p \in Procs /\ InCall(p)
         /\ head[p] \in Descs /\ next[head[p]] \in Descs /\ next[next[head[p]]] \in Descs
         /\ head[p] # next[head[p]] /\ head[p] # next[next[head[p]]]
         /\ next[head[p]] # next[next[head[p]]] /\ next[next[next[head[p]]]] = NoDesc
         /\ addr[head[p]] = head[p] /\ addr[next[head[p]]] = p
         /\ addr[next[next[head[p]]]] = head[p]
         /\ ops[head[p]] = req[p] /\ info[head[p]].b = p
<1>1. p \in Procs /\ InCall(p)
  BY Zenon DEF Calls
<1>2. head[p] \in Descs
  BY Zenon, <1>1 DEF TypeOK
<1> QED
  BY Zenon, <1>1, <1>2 DEF ChainsBuilt

(* A call that still waits for the device has the descriptor h at its head. *)
Busy(h) == \E p \in Calls : head[p] = h /\ bdisk[p]

(* It is a descriptor of the table. *)
LEMMA BusyIs ==
  ASSUME TypeOK, ChainsBuilt, NEW p \in Calls
  PROVE  head[p] \in Descs
BY Zenon DEF TypeOK, Calls

(* The status byte tells what the device has done from what it has not. *)
LEMMA WorkIs ==
  \A h : /\ Working(h) => Busy(h) /\ ~Worked(h)
         /\ Worked(h) => Busy(h)
BY DEF Working, Worked, Busy

(* free_chain() follows the chain to its end. *)
LEMMA ChainIs ==
  ASSUME NEW h, next[h] # NoDesc, next[next[h]] # NoDesc
  PROVE  Chain(h) = {h, next[h], next[next[h]]}
<1>1. {h} \cup ({next[d] : d \in {h}} \ {NoDesc}) = {h, next[h]}
  BY Zenon
<1>2. {h, next[h]} \cup ({next[d] : d \in {h, next[h]}} \ {NoDesc}) = {h, next[h], next[next[h]]}
  BY Zenon
<1> QED
  BY Zenon, <1>1, <1>2 DEF Chain

(* Under the rest of the invariant the two ways to say that every          *)
(* descriptor has one owner agree.                                         *)
LEMMA OwnedIs ==
  TypeOK /\ ChainsBuilt /\ RingsHoldCalls => (DescriptorsOwned <=> OwnedOnce)
<1> SUFFICES ASSUME TypeOK, ChainsBuilt, RingsHoldCalls PROVE DescriptorsOwned <=> OwnedOnce
  BY Zenon
<1>1. \A p \in Calls : Chain(head[p]) = Own(p)
  <2> SUFFICES ASSUME NEW p \in Calls PROVE Chain(head[p]) = Own(p)
    BY Zenon
  <2>1. next[head[p]] \in Descs /\ next[next[head[p]]] \in Descs
    BY Zenon, CallIs
  <2>2. next[head[p]] # NoDesc /\ next[next[head[p]]] # NoDesc
    BY Zenon, <2>1, Sizes
  <2> QED
    BY Zenon, <2>2, ChainIs DEF Own
<1>2. \A h \in inflight :
        \E p \in Procs : InCall(p) /\ head[p] = h /\ bdisk[p] /\ addr[next[h]] = p
  <2> SUFFICES ASSUME NEW h \in inflight
               PROVE  \E p \in Procs : InCall(p) /\ head[p] = h /\ bdisk[p] /\ addr[next[h]] = p
    BY Zenon
  <2>1. PICK p \in Calls : head[p] = h /\ bdisk[p]
    <3>1. Working(h)
      BY Zenon DEF RingsHoldCalls
    <3> QED
      BY Zenon, <3>1, WorkIs DEF Busy
  <2>2. addr[next[head[p]]] = p /\ p \in Procs /\ InCall(p)
    BY Zenon, CallIs
  <2> QED
    BY <2>1, <2>2
<1>3. /\ \A p, q \in Procs :
           InCall(p) /\ InCall(q) /\ p # q => Chain(head[p]) \cap Chain(head[q]) = {}
      <=> \A p, q \in Calls : p # q => Own(p) \cap Own(q) = {}
  BY Zenon, <1>1 DEF Calls
<1>4. UNION {Chain(head[p]) : p \in Calls} = UNION {Own(p) : p \in Calls}
  BY Zenon, <1>1
<1>5. \A d : d \in UNION {Own(p) : p \in Calls} <=> \E p \in Calls : d \in Own(p)
  BY Zenon
<1>6. free = Descs \ UNION {Own(p) : p \in Calls}
        <=> \A d \in Descs : d \in free <=> \A p \in Calls : d \notin Own(p)
  <2>1. free \subseteq Descs
    BY Zenon DEF TypeOK
  <2> QED
    BY Zenon, <1>5, <2>1
<1> QED
  BY Zenon, <1>2, <1>3, <1>4, <1>6 DEF DescriptorsOwned, OwnedOnce, Calls

(* The same after a step. *)
LEMMA OwnedIsNext ==
  TypeOK' /\ ChainsBuilt' /\ RingsHoldCalls' => (DescriptorsOwned' <=> OwnedOnce')
BY OwnedIs, PTL

(* Two calls have different heads, and no call's descriptor is free. *)
LEMMA CallsApart ==
  ASSUME TypeOK, ChainsBuilt, OwnedOnce, NEW p \in Calls
  PROVE  /\ head[p] \in Descs \ free /\ next[head[p]] \in Descs \ free
         /\ next[next[head[p]]] \in Descs \ free
         /\ \A q \in Calls : q # p => head[q] \notin Own(p)
         /\ \A q \in Calls : head[q] = head[p] => q = p
<1>1. head[p] \in Descs /\ next[head[p]] \in Descs /\ next[next[head[p]]] \in Descs
  BY Zenon, CallIs
<1>2. head[p] \in Own(p) /\ next[head[p]] \in Own(p) /\ next[next[head[p]]] \in Own(p)
  BY Zenon DEF Own
<1>3. \A q \in Calls : q # p => head[q] \notin Own(p)
  BY Zenon DEF Own, OwnedOnce
<1> QED
  BY Zenon, <1>1, <1>2, <1>3 DEF OwnedOnce

(* A step that leaves the calls in progress and their chains alone. *)
LEMMA ChainFrame ==
  ASSUME TypeOK, ChainsBuilt, OwnedOnce, Calls' = Calls, UNCHANGED <<head, ops, free>>,
         \A p \in Calls : req'[p] = req[p],
         \A d \in Descs \ free : next'[d] = next[d] /\ addr'[d] = addr[d],
         \A d \in Descs : info'[d].b = info[d].b
  PROVE  ChainsBuilt' /\ OwnedOnce'
<1>1. ASSUME NEW p \in Calls
      PROVE  /\ head'[p] = head[p] /\ next'[head[p]] = next[head[p]]
             /\ next'[next[head[p]]] = next[next[head[p]]]
             /\ next'[next[next[head[p]]]] = next[next[next[head[p]]]]
             /\ addr'[head[p]] = addr[head[p]] /\ addr'[next[head[p]]] = addr[next[head[p]]]
             /\ addr'[next[next[head[p]]]] = addr[next[next[head[p]]]]
             /\ ops'[head[p]] = ops[head[p]] /\ info'[head[p]].b = info[head[p]].b
             /\ req'[p] = req[p]
  BY Zenon, CallsApart
<1>2. ASSUME NEW p \in Calls
      PROVE  /\ head'[p] = head[p] /\ next'[head'[p]] = next[head[p]]
             /\ next'[next'[head'[p]]] = next[next[head[p]]]
             /\ next'[next'[next'[head'[p]]]] = next[next[next[head[p]]]]
  <2>1. next'[head'[p]] = next[head[p]]
    BY ZenonT(60), <1>1
  <2>2. next'[next'[head'[p]]] = next[next[head[p]]]
    BY <1>1, <2>1
  <2>3. next'[next'[next'[head'[p]]]] = next[next[next[head[p]]]]
    BY <1>1, <2>2
  <2> QED
    BY Zenon, <1>1, <2>1, <2>2, <2>3
<1>3. \A p \in Calls : Own(p)' = Own(p)
  BY ZenonT(60), <1>2 DEF Own
<1>5. ChainsBuilt'
  <2> SUFFICES ASSUME NEW p \in Calls
               PROVE  LET h == head'[p]
                          d == next'[h]
                          e == next'[d]
                      IN /\ d \in Descs /\ e \in Descs /\ next'[e] = NoDesc
                         /\ h # d /\ h # e /\ d # e
                         /\ addr'[h] = h /\ addr'[d] = p /\ addr'[e] = h
                         /\ ops'[h] = req'[p] /\ info'[h].b = p
    BY ZenonT(60) DEF ChainsBuilt
  <2> QED
    BY <1>1, <1>2, CallIs
<1>4. OwnedOnce'
  BY ZenonT(60), <1>3 DEF OwnedOnce
<1> QED
  BY Zenon, <1>4, <1>5

(* A step that leaves the rings and the requests in them alone. *)
LEMMA RingsFrame ==
  ASSUME RingsHoldCalls, CallsCounted, Calls' = Calls,
         UNCHANGED <<head, bdisk, info, free, avail, availIdx, devIdx, used, usedIdx, used_idx,
                     inflight>>
  PROVE  RingsHoldCalls' /\ CallsCounted'
<1>1. Done' = Done
  BY Zenon DEF Done
<1>2. Offered' = Offered /\ Completed' = Completed
  BY Zenon DEF Offered, Completed
<1>3. \A h : (Working(h)' <=> Working(h)) /\ (Worked(h)' <=> Worked(h))
  BY Zenon DEF Working, Worked
<1> QED
  BY Zenon, <1>1, <1>2, <1>3 DEF RingsHoldCalls, CallsCounted
-----------------------------------------------------------------------------
(* virtio_disk_init() *)
LEMMA InitInv == Init => DInv
<1> SUFFICES ASSUME Init PROVE DInv
  BY Zenon
<1>0. 0 \in Descs /\ 0 \in Index /\ 0 \in Int
  BY Sizes DEF Descs, Index
<1>1. Calls = {} /\ Done = {}
  BY Zenon DEF Init, Calls, Done, InCall
<1>2. TypeOK
  <2>1. /\ free \subseteq Descs /\ addr \in [Descs -> Descs \cup Procs]
        /\ next \in [Descs -> Descs \cup {NoDesc}] /\ head \in [Procs -> Descs]
        /\ avail \in [Ring -> Descs] /\ used \in [Ring -> Descs] /\ inflight \subseteq Descs
        /\ killed \subseteq Procs
    BY Zenon, <1>0 DEF Init
  <2>2. info \in [Descs -> Infos]
    BY DEF Init, Infos
  <2>3. {availIdx, usedIdx, used_idx, devIdx} \subseteq 0 .. IdxMod - 1
    BY Zenon, <1>0 DEF Init, Index
  <2>4. /\ bdisk \in [Procs -> BOOLEAN] /\ data \in [Procs -> Values] /\ pc \in [Procs -> PCs]
        /\ store \in [Blocks -> Values] /\ {intr, panicked, isr} \subseteq BOOLEAN
    BY Zenon DEF Init, PCs
  <2>5. ops \in [Descs -> Reqs] /\ req \in [Procs -> Reqs]
    <3>1. PICK r \in Reqs : req = [p \in Procs |-> r] /\ ops = [d \in Descs |-> r]
      BY Zenon DEF Init, Reqs
    <3> QED
      BY Zenon, <3>1
  <2> QED
    BY Zenon, <2>1, <2>2, <2>3, <2>4, <2>5 DEF TypeOK
<1>3. NoPanic /\ NoCompletionLost
  BY Zenon DEF Init, NoPanic, NoCompletionLost
<1>4. ChainsBuilt
  BY Zenon, <1>1 DEF ChainsBuilt
<1>5. OwnedOnce
  BY Zenon, <1>1 DEF OwnedOnce, Init
<1>6. RingsHoldCalls
  <2>1. /\ EachOnce(avail, devIdx, availIdx) /\ EachOnce(used, used_idx, usedIdx)
        /\ Offered = {} /\ Completed = {}
    BY Zenon, <1>0, RingEmpty DEF Init, Offered, Completed
  <2>2. inflight = {}
    BY Zenon DEF Init
  <2> QED
    BY Zenon, <1>1, <2>1, <2>2 DEF RingsHoldCalls
<1>7. CallsCounted
  <2>1. /\ IsFiniteSet(Calls) /\ Cardinality(Calls) = 0 /\ Cardinality(Done) = 0
        /\ Cardinality(inflight) = 0
    BY Zenon, <1>1, FS_EmptySet DEF Init
  <2>2. Dist(devIdx, availIdx) = 0 /\ Dist(used_idx, usedIdx) = 0
    BY Zenon, <1>0, RingEmpty DEF Init
  <2>3. Cardinality(free) = NUM
    BY Zenon, DescsFinite DEF Init
  <2> QED
    BY <2>1, <2>2, <2>3, Sizes DEF CallsCounted
<1> QED
  BY Zenon, <1>2, <1>3, <1>4, <1>5, <1>6, <1>7 DEF DInv

(* A step that changes no call in progress. *)
LEMMA QuietInv ==
  ASSUME DInv, TypeOK', NoPanic', NoCompletionLost', Calls' = Calls,
         UNCHANGED <<head, ops, free, bdisk, info, avail, availIdx, devIdx, used, usedIdx,
                     used_idx, inflight>>,
         \A p \in Calls : req'[p] = req[p],
         \A d \in Descs \ free : next'[d] = next[d] /\ addr'[d] = addr[d]
  PROVE  DInv'
<1>1. ChainsBuilt' /\ OwnedOnce'
  BY Zenon, ChainFrame DEF DInv
<1>2. RingsHoldCalls' /\ CallsCounted'
  BY Zenon, RingsFrame DEF DInv
<1> QED
  BY Zenon, <1>1, <1>2 DEF DInv

(* virtio_disk_rw() is called. *)
LEMMA CallInv ==
  ASSUME DInv, NEW p \in Procs, rw_call(p)
  PROVE  DInv'
<1>1. /\ pc[p] = "idle" /\ pc' = [pc EXCEPT ![p] = "alloc"]
      /\ \E r \in Reqs : req' = [req EXCEPT ![p] = r]
      /\ UNCHANGED <<driver, device, intr, panicked, killed>>
  BY Zenon DEF rw_call
<1>2. data' \in [Procs -> Values]
  BY ZenonT(60) DEF rw_call, DInv, TypeOK
<1>3. TypeOK'
  BY ZenonT(60), <1>1, <1>2 DEF driver, device, DInv, TypeOK, PCs
<1>4. NoPanic' /\ NoCompletionLost'
  BY Zenon, <1>1 DEF driver, device, DInv, NoPanic, NoCompletionLost
<1>5. p \notin Calls /\ Calls' = Calls
  BY Zenon, <1>1 DEF DInv, TypeOK, Calls, InCall
<1>6. \A q \in Calls : req'[q] = req[q]
  BY Zenon, <1>1, <1>5 DEF DInv, TypeOK, Calls
<1> QED
  BY Zenon, <1>1, <1>3, <1>4, <1>5, <1>6, QuietInv DEF driver, device

(* alloc3_desc() fails. *)
LEMMA FullInv ==
  ASSUME DInv, NEW p \in Procs, rw_full(p)
  PROVE  DInv'
<1>1. /\ pc[p] = "alloc"
      /\ pc' = [(IF free = {} THEN pc ELSE wakeup_free(pc)) EXCEPT ![p] = "asleep_desc"]
      /\ addr' = [d \in Descs |-> IF d \in free THEN 0 ELSE addr[d]]
      /\ next' = [d \in Descs |-> IF d \in free THEN NoDesc ELSE next[d]]
      /\ UNCHANGED <<free, ops, info, avail, availIdx, used_idx, bdisk, head, device, data, req,
                     intr, panicked, killed>>
  BY Zenon DEF rw_full
<1>2. /\ pc'[p] = "asleep_desc" /\ pc' \in [Procs -> PCs]
      /\ \A q \in Procs : pc'[q] = pc[q] \/ (~InCall(q) /\ pc'[q] \in {"alloc", "asleep_desc"})
  BY Zenon, <1>1 DEF DInv, TypeOK, PCs, wakeup_free, InCall
<1>3. addr' \in [Descs -> Descs \cup Procs] /\ next' \in [Descs -> Descs \cup {NoDesc}]
  <2>1. 0 \in Descs
    BY Sizes DEF Descs
  <2> QED
    BY Zenon, <1>1, <2>1 DEF DInv, TypeOK
<1>4. TypeOK'
  BY Zenon, <1>1, <1>2, <1>3 DEF device, DInv, TypeOK
<1>5. NoPanic' /\ NoCompletionLost'
  BY Zenon, <1>1 DEF device, DInv, NoPanic, NoCompletionLost
<1>6. Calls' = Calls
  BY Zenon, <1>2 DEF Calls, InCall
<1>7. \A d \in Descs \ free : next'[d] = next[d] /\ addr'[d] = addr[d]
  BY Zenon, <1>1
<1>8. \A q \in Calls : req'[q] = req[q]
  BY Zenon, <1>1
<1> QED
  BY Zenon, <1>1, <1>4, <1>5, <1>6, <1>7, <1>8, QuietInv DEF device

(* kill(), and an awakened caller that finds b->disk still set, move a      *)
(* process between two places of its call.                                  *)
LEMMA MoveInv ==
  ASSUME DInv, pc' \in [Procs -> PCs], killed' \subseteq Procs,
         \A q \in Procs : InCall(q)' <=> InCall(q),
         UNCHANGED <<driver, device, data, req, intr, panicked>>
  PROVE  DInv'
<1>1. Calls' = Calls
  BY Zenon DEF Calls
<1>2. TypeOK'
  BY Zenon DEF driver, device, DInv, TypeOK
<1>3. NoPanic' /\ NoCompletionLost'
  BY Zenon DEF driver, device, DInv, NoPanic, NoCompletionLost
<1> QED
  BY Zenon, <1>1, <1>2, <1>3, QuietInv DEF driver, device

(* kill() *)
LEMMA KillInv ==
  ASSUME DInv, NEW p \in Procs, kill(p)
  PROVE  DInv'
<1>1. pc' \in [Procs -> PCs] /\ \A q \in Procs : InCall(q)' <=> InCall(q)
  BY Zenon DEF kill, DInv, TypeOK, PCs, InCall
<1>2. killed' \subseteq Procs /\ UNCHANGED <<driver, device, data, req, intr, panicked>>
  BY Zenon DEF kill, DInv, TypeOK
<1> QED
  BY Zenon, <1>1, <1>2, MoveInv

(* virtio_disk_intr() begins and ends: an interrupt is acknowledged only    *)
(* by the handler that will look at the used ring.                          *)
LEMMA IntrEdgeInv ==
  ASSUME DInv, intr_begin \/ intr_end
  PROVE  DInv'
<1>1. /\ UNCHANGED <<driver, used, usedIdx, store, devIdx, inflight, data, req, pc, panicked,
                     killed>>
      /\ intr' \in BOOLEAN /\ isr' \in BOOLEAN
  BY Zenon DEF intr_begin, intr_end, device, DInv, TypeOK
<1>2. TypeOK'
  BY Zenon, <1>1 DEF driver, DInv, TypeOK
<1>3. NoPanic' /\ NoCompletionLost'
  BY Zenon, <1>1 DEF intr_begin, intr_end, intr_drained, driver, DInv, NoPanic, NoCompletionLost
<1>4. Calls' = Calls
  BY Zenon, <1>1 DEF Calls, InCall
<1> QED
  BY Zenon, <1>1, <1>2, <1>3, <1>4, QuietInv DEF driver

(* The rings as the invariant has them. *)
LEMMA RingsTyped ==
  ASSUME TypeOK
  PROVE  /\ avail \in [Ring -> Descs] /\ used \in [Ring -> Descs]
         /\ availIdx \in Index /\ devIdx \in Index /\ usedIdx \in Index /\ used_idx \in Index
BY Zenon DEF TypeOK, Index

(* How many requests are where. *)
LEMMA CountsNat ==
  ASSUME TypeOK, CallsCounted
  PROVE  /\ Dist(devIdx, availIdx) \in Nat /\ Dist(used_idx, usedIdx) \in Nat
         /\ IsFiniteSet(Calls) /\ IsFiniteSet(Done) /\ IsFiniteSet(inflight) /\ IsFiniteSet(free)
         /\ Cardinality(Calls) \in Nat /\ Cardinality(Done) \in Nat
         /\ Cardinality(inflight) \in Nat /\ Cardinality(free) \in Nat
<1>1. Dist(devIdx, availIdx) \in Nat /\ Dist(used_idx, usedIdx) \in Nat
  BY Zenon, RingsTyped, DistIs, IndexNat
<1>2. IsFiniteSet(Calls) /\ Done \in SUBSET Calls
  BY Zenon DEF CallsCounted, Done
<1>3. IsFiniteSet(Done)
  BY Zenon, <1>2, FS_Subset
<1>4. inflight \in SUBSET Descs /\ free \in SUBSET Descs
  BY Zenon DEF TypeOK
<1> QED
  BY Zenon, <1>1, <1>2, <1>3, <1>4, DescsFinite, FS_CardinalityType

(* A request stays where it is when its status byte and its caller do. *)
LEMMA WorkKept ==
  ASSUME NEW h, info'[h].status = info[h].status, Busy(h) => Busy(h)'
  PROVE  (Working(h) => Working(h)') /\ (Worked(h) => Worked(h)')
BY DEF Working, Worked, Busy

(* One completed request of virtio_disk_intr(): info[id].b is the caller    *)
(* whose request it is, and its status is good.                             *)
LEMMA IntrLoopInv ==
  ASSUME DInv, intr_loop
  PROVE  DInv'
<1>0. TypeOK /\ ChainsBuilt /\ OwnedOnce /\ RingsHoldCalls /\ CallsCounted
  BY Zenon DEF DInv
<1>1. /\ used_id \in Completed
      /\ Dist(Inc(used_idx), usedIdx) = Dist(used_idx, usedIdx) - 1
      /\ Entries(used, Inc(used_idx), usedIdx) = Completed \ {used_id}
      /\ EachOnce(used, Inc(used_idx), usedIdx)
  <2>1. used_idx # usedIdx /\ EachOnce(used, used_idx, usedIdx)
    BY Zenon, <1>0 DEF intr_loop, RingsHoldCalls
  <2>2. used_idx \in Index /\ usedIdx \in Index
    BY Zenon, <1>0, RingsTyped
  <2> QED
    BY <2>1, <2>2, RingTake DEF used_id, Completed
<1>2. Worked(used_id) /\ ~Working(used_id)
  BY Zenon, <1>0, <1>1, WorkIs DEF RingsHoldCalls
<1>3. PICK p \in Calls : head[p] = used_id /\ bdisk[p]
  BY Zenon, <1>2, WorkIs DEF Busy
<1>4. p \in Procs /\ p # NoProc /\ info[used_id].b = p /\ info[used_id].status = 0
  <2>1. p \in Procs /\ info[head[p]].b = p
    BY Zenon, <1>0, CallIs
  <2>2. info[used_id].status = 0
    BY <1>2 DEF Worked
  <2> QED
    BY Zenon, <1>3, <2>1, <2>2, Sizes
<1>5. /\ bdisk' = [bdisk EXCEPT ![p] = FALSE] /\ pc' = wakeup_buf(p, pc)
      /\ used_idx' = Inc(used_idx)
      /\ UNCHANGED <<panicked, free, addr, next, ops, info, avail, availIdx, head, device, data,
                     req, intr, killed>>
  BY <1>4 DEF intr_loop
<1>6. pc' \in [Procs -> PCs] /\ \A q \in Procs : InCall(q)' <=> InCall(q)
  BY Zenon, <1>0, <1>4, <1>5 DEF wakeup_buf, TypeOK, PCs, InCall
<1>7. Calls' = Calls
  BY Zenon, <1>6 DEF Calls
<1>8. /\ bdisk' \in [Procs -> BOOLEAN] /\ ~bdisk'[p]
      /\ \A q \in Calls \ {p} : bdisk'[q] = bdisk[q] /\ head[q] # used_id
  <2>1. \A q \in Calls \ {p} : q \in Procs /\ head[q] # used_id
    BY ZenonT(60), <1>0, <1>3, CallsApart, CallIs
  <2> QED
    BY Zenon, <1>0, <1>4, <1>5, <2>1 DEF TypeOK
<1>9. TypeOK'
  <2>1. {availIdx', usedIdx', used_idx', devIdx'} \subseteq 0 .. IdxMod - 1
    BY Zenon, <1>0, <1>5, RingsTyped, IncIs DEF device, Index
  <2> QED
    BY Zenon, <1>0, <1>5, <1>6, <1>8, <2>1 DEF device, TypeOK
<1>10. NoPanic' /\ NoCompletionLost'
  <2>1. intr /\ ~panicked
    BY Zenon DEF intr_loop
  <2> QED
    BY Zenon, <1>5, <2>1 DEF NoPanic, NoCompletionLost
<1>11. ChainsBuilt' /\ OwnedOnce'
  BY Zenon, <1>0, <1>5, <1>7, ChainFrame
<1>12. \A h : h # used_id => (Working(h) => Working(h)') /\ (Worked(h) => Worked(h)')
  <2> SUFFICES ASSUME NEW h, h # used_id
               PROVE  (Working(h) => Working(h)') /\ (Worked(h) => Worked(h)')
    BY Zenon
  <2>1. Busy(h) => Busy(h)'
    BY Zenon, <1>3, <1>5, <1>7, <1>8 DEF Busy
  <2>2. info'[h].status = info[h].status
    BY Zenon, <1>5
  <2> QED
    BY Zenon, <2>1, <2>2, WorkKept
<1>13. Done' = Done \cup {p} /\ p \notin Done
  BY Zenon, <1>3, <1>7, <1>8 DEF Done
<1>14. RingsHoldCalls'
  <2>1. Offered' = Offered /\ inflight' = inflight /\ used_id \notin Offered \cup inflight
    BY Zenon, <1>0, <1>2, <1>5 DEF device, Offered, RingsHoldCalls
  <2>2. Completed' = Completed \ {used_id} /\ EachOnce(used', used_idx', usedIdx')
    BY Zenon, <1>1, <1>5 DEF device, Completed
  <2>3. EachOnce(avail', devIdx', availIdx')
    BY Zenon, <1>0, <1>5 DEF device, RingsHoldCalls
  <2>4. \A q \in Done' : info'[head'[q]].status = 0
    BY ZenonT(60), <1>0, <1>3, <1>4, <1>5, <1>13 DEF RingsHoldCalls
  <2> QED
    BY Zenon, <1>0, <1>12, <2>1, <2>2, <2>3, <2>4 DEF RingsHoldCalls
<1>15. CallsCounted'
  <2>1. Cardinality(Done') = Cardinality(Done) + 1
    BY Zenon, <1>0, <1>13, CountsNat, FS_AddElement
  <2>2. /\ Dist(used_idx, usedIdx)' = Dist(used_idx, usedIdx) - 1
        /\ Dist(devIdx, availIdx)' = Dist(devIdx, availIdx) /\ inflight' = inflight /\ free' = free
    BY Zenon, <1>1, <1>5 DEF device, Dist
  <2> QED
    BY <1>0, <1>7, <2>1, <2>2, CountsNat DEF CallsCounted
<1> QED
  BY Zenon, <1>9, <1>10, <1>11, <1>14, <1>15 DEF DInv

(* The device fetches the next request that is offered to it. *)
LEMMA FetchInv ==
  ASSUME DInv, dev_fetch
  PROVE  DInv'
<1>0. TypeOK /\ ChainsBuilt /\ OwnedOnce /\ RingsHoldCalls /\ CallsCounted
  BY Zenon DEF DInv
<1>1. PICK h : h = avail[devIdx % RING]
  BY Zenon
<1>2. /\ h \in Offered
      /\ Dist(Inc(devIdx), availIdx) = Dist(devIdx, availIdx) - 1
      /\ Entries(avail, Inc(devIdx), availIdx) = Offered \ {h}
      /\ EachOnce(avail, Inc(devIdx), availIdx)
  <2>1. devIdx # availIdx /\ EachOnce(avail, devIdx, availIdx)
    BY Zenon, <1>0 DEF dev_fetch, RingsHoldCalls
  <2>2. devIdx \in Index /\ availIdx \in Index
    BY Zenon, <1>0, RingsTyped
  <2> QED
    BY <1>1, <2>1, <2>2, RingTake DEF Offered
<1>3. /\ inflight' = inflight \cup {h} /\ devIdx' = Inc(devIdx)
      /\ UNCHANGED <<driver, used, usedIdx, store, isr, data, req, pc, intr, panicked, killed>>
  BY Zenon, <1>1 DEF dev_fetch
<1>4. Calls' = Calls /\ Done' = Done
  BY Zenon, <1>3 DEF driver, Calls, Done, InCall
<1>5. h \in Descs /\ h \notin inflight
  <2>1. Working(h) /\ h \notin inflight
    BY Zenon, <1>0, <1>2 DEF RingsHoldCalls
  <2>2. PICK p \in Calls : head[p] = h
    BY Zenon, <2>1, WorkIs DEF Busy
  <2> QED
    BY Zenon, <1>0, <2>1, <2>2, CallIs
<1>6. TypeOK'
  <2>1. {availIdx', usedIdx', used_idx', devIdx'} \subseteq 0 .. IdxMod - 1
    BY Zenon, <1>0, <1>3, RingsTyped, IncIs DEF driver, Index
  <2> QED
    BY Zenon, <1>0, <1>3, <1>5, <2>1 DEF driver, TypeOK
<1>7. NoPanic' /\ NoCompletionLost'
  BY Zenon, <1>3 DEF driver, DInv, NoPanic, NoCompletionLost
<1>8. ChainsBuilt' /\ OwnedOnce'
  BY Zenon, <1>0, <1>3, <1>4, ChainFrame DEF driver
<1>9. \A g : (Working(g) => Working(g)') /\ (Worked(g) => Worked(g)')
  <2>1. \A g : Busy(g) => Busy(g)'
    BY Zenon, <1>3, <1>4 DEF driver, Busy
  <2>2. \A g : info'[g].status = info[g].status
    BY Zenon, <1>3 DEF driver
  <2> QED
    BY Zenon, <2>1, <2>2, WorkKept
<1>10. RingsHoldCalls'
  <2>1. Offered' = Offered \ {h} /\ EachOnce(avail', devIdx', availIdx')
    BY Zenon, <1>2, <1>3 DEF driver, Offered
  <2>2. Completed' = Completed /\ EachOnce(used', used_idx', usedIdx')
    BY Zenon, <1>0, <1>3 DEF driver, Completed, RingsHoldCalls
  <2>3. \A q \in Done' : info'[head'[q]].status = 0
    BY Zenon, <1>0, <1>3, <1>4 DEF driver, RingsHoldCalls
  <2>4. Offered' \cap inflight' = {} /\ Offered' \cup inflight' \subseteq Offered \cup inflight
    BY ZenonT(60), <1>0, <1>2, <1>3, <2>1 DEF RingsHoldCalls
  <2> QED
    BY Zenon, <1>0, <1>9, <2>1, <2>2, <2>3, <2>4 DEF RingsHoldCalls
<1>11. CallsCounted'
  <2>1. Cardinality(inflight') = Cardinality(inflight) + 1
    BY Zenon, <1>0, <1>3, <1>5, CountsNat, FS_AddElement
  <2>2. /\ Dist(devIdx, availIdx)' = Dist(devIdx, availIdx) - 1
        /\ Dist(used_idx, usedIdx)' = Dist(used_idx, usedIdx) /\ free' = free
    BY Zenon, <1>2, <1>3 DEF driver, Dist
  <2> QED
    BY <1>0, <1>4, <2>1, <2>2, CountsNat DEF CallsCounted
<1> QED
  BY Zenon, <1>6, <1>7, <1>8, <1>10, <1>11 DEF DInv

(* The arithmetic of it: c calls, of which o are offered, i in flight, u    *)
(* completed and d done, and f free descriptors.                            *)
LEMMA RoomIs ==
  ASSUME NEW c \in Nat, NEW o \in Nat, NEW i \in Nat, NEW u \in Nat, NEW d \in Nat, NEW f \in Nat,
         c = o + i + u + d, 3 * c + f = NUM
  PROVE  c <= RING /\ (f >= 3 => o < RING) /\ (i # 0 => u < RING)
BY Sizes

(* The rings have room: there are never more calls in progress than a ring  *)
(* has entries.                                                             *)
LEMMA CallsFit ==
  ASSUME TypeOK, CallsCounted
  PROVE  /\ Cardinality(Calls) <= RING
         /\ Cardinality(free) >= 3 => Dist(devIdx, availIdx) < RING
         /\ inflight # {} => Dist(used_idx, usedIdx) < RING
<1>1. /\ Dist(devIdx, availIdx) \in Nat /\ Dist(used_idx, usedIdx) \in Nat
      /\ Cardinality(Calls) \in Nat /\ Cardinality(Done) \in Nat
      /\ Cardinality(inflight) \in Nat /\ Cardinality(free) \in Nat
  BY Zenon, CountsNat
<1>2. inflight # {} => Cardinality(inflight) # 0
  BY Zenon, CountsNat, FS_EmptySet
<1>4. /\ Cardinality(Calls) = Dist(devIdx, availIdx) + Cardinality(inflight)
                                + Dist(used_idx, usedIdx) + Cardinality(Done)
      /\ 3 * Cardinality(Calls) + Cardinality(free) = NUM
  BY Zenon DEF CallsCounted
<1> QED
  BY Zenon, <1>1, <1>2, <1>4, RoomIs

(* What the device finds when it follows the chain of a request. *)
LEMMA RequestIs ==
  ASSUME TypeOK, ChainsBuilt, OwnedOnce, NEW p \in Calls
  PROVE  /\ ops[addr[head[p]]] = req[p] /\ addr[next[head[p]]] = p
         /\ addr[next[next[head[p]]]] = head[p]
BY ZenonT(60), CallIs

(* The device performs a request. *)
LEMMA CompleteInv ==
  ASSUME DInv, NEW h \in Descs, dev_complete(h)
  PROVE  DInv'
<1>0. TypeOK /\ ChainsBuilt /\ OwnedOnce /\ RingsHoldCalls /\ CallsCounted
  BY Zenon DEF DInv
<1>1. h \in inflight
  BY Zenon DEF dev_complete
<1>2. Working(h) /\ ~Worked(h)
  BY Zenon, <1>0, <1>1, WorkIs DEF RingsHoldCalls
<1>3. PICK p \in Calls : head[p] = h /\ bdisk[p]
  BY ZenonT(60), <1>2, WorkIs DEF Busy
<1>4. ops[addr[h]] = req[p] /\ addr[next[h]] = p /\ addr[next[next[h]]] = h /\ p \in Procs
  <2>1. /\ ops[addr[head[p]]] = req[p] /\ addr[next[head[p]]] = p
        /\ addr[next[next[head[p]]]] = head[p] /\ p \in Procs
    BY Zenon, <1>0, RequestIs, CallIs
  <2> QED
    BY Zenon, <1>3, <2>1
<1>5. /\ info' = [info EXCEPT ![h].status = 0]
      /\ used' = [used EXCEPT ![usedIdx % RING] = h]
      /\ usedIdx' = Inc(usedIdx) /\ inflight' = inflight \ {h} /\ isr' = TRUE
      /\ UNCHANGED <<free, addr, next, ops, avail, availIdx, used_idx, bdisk, head, devIdx,
                     req, pc, intr, panicked, killed>>
  BY <1>4 DEF dev_complete
<1>6. /\ Dist(used_idx, Inc(usedIdx)) = Dist(used_idx, usedIdx) + 1
      /\ Entries(used', used_idx, Inc(usedIdx)) = Completed \cup {h}
      /\ EachOnce(used', used_idx, Inc(usedIdx))
  <2>1. Dist(used_idx, usedIdx) < RING
    BY Zenon, <1>0, <1>1, CallsFit
  <2>2. used \in [Ring -> Descs] /\ used_idx \in Index /\ usedIdx \in Index
    BY Zenon, <1>0, RingsTyped
  <2>3. EachOnce(used, used_idx, usedIdx) /\ h \notin Completed
    BY Zenon, <1>0, <1>2 DEF RingsHoldCalls
  <2>5. \A s \in Ring : used'[s] = IF s = usedIdx % RING THEN h ELSE used[s]
    BY Zenon, <1>5, <2>2
  <2>4. /\ Dist(used_idx, Inc(usedIdx)) = Dist(used_idx, usedIdx) + 1
        /\ Entries(used', used_idx, Inc(usedIdx)) = Entries(used, used_idx, usedIdx) \cup {h}
        /\ EachOnce(used, used_idx, usedIdx) /\ h \notin Entries(used, used_idx, usedIdx)
              => EachOnce(used', used_idx, Inc(usedIdx))
    BY Zenon, <2>1, <2>2, <2>5, RingPut
  <2> QED
    BY Zenon, <2>3, <2>4 DEF Completed
<1>7. Calls' = Calls /\ Done' = Done
  BY Zenon, <1>5 DEF Calls, Done, InCall
<1>8. /\ info' \in [Descs -> Infos] /\ info'[h].status = 0
      /\ \A d \in Descs : info'[d].b = info[d].b /\ (d # h => info'[d] = info[d])
  <2>1. info \in [Descs -> Infos]
    BY Zenon, <1>0 DEF TypeOK
  <2> QED
    BY <1>5, <2>1 DEF Infos
<1>9. store' \in [Blocks -> Values] /\ data' \in [Procs -> Values]
  <2>1. req[p].block \in Blocks /\ req[p].write \in BOOLEAN
    BY Zenon, <1>0, <1>4 DEF TypeOK, Reqs
  <2>2. IF req[p].write THEN store' = [store EXCEPT ![req[p].block] = data[p]] /\ UNCHANGED data
                        ELSE data' = [data EXCEPT ![p] = store[req[p].block]] /\ UNCHANGED store
    BY <1>4 DEF dev_complete
  <2>3. store \in [Blocks -> Values] /\ data \in [Procs -> Values]
    BY Zenon, <1>0 DEF TypeOK
  <2> QED
    BY ZenonT(60), <1>4, <2>1, <2>2, <2>3
<1>10. TypeOK'
  <2>1. {availIdx', usedIdx', used_idx', devIdx'} \subseteq 0 .. IdxMod - 1
    BY ZenonT(60), <1>0, <1>5, RingsTyped, IncIs DEF Index
  <2>2. used' \in [Ring -> Descs] /\ inflight' \subseteq Descs /\ isr' \in BOOLEAN
    BY Zenon, <1>0, <1>5 DEF TypeOK
  <2> QED
    BY ZenonT(60), <1>0, <1>5, <1>8, <1>9, <2>1, <2>2 DEF TypeOK
<1>11. NoPanic' /\ NoCompletionLost'
  BY Zenon, <1>5 DEF DInv, NoPanic, NoCompletionLost
<1>12. ChainsBuilt' /\ OwnedOnce'
  BY Zenon, <1>0, <1>5, <1>7, <1>8, ChainFrame
<1>13. /\ \A g : Busy(g) => g \in Descs /\ Busy(g)'
       /\ \A g : g # h => (Working(g) => Working(g)') /\ (Worked(g) => Worked(g)')
       /\ Worked(h)'
  <2>1. ASSUME NEW g, Busy(g) PROVE g \in Descs /\ Busy(g)'
    <3>0. PICK q \in Calls : head[q] = g /\ bdisk[q]
      BY Zenon, <2>1 DEF Busy
    <3>1. g \in Descs
      BY Zenon, <1>0, <3>0, BusyIs
    <3> QED
      BY Zenon, <1>5, <1>7, <3>0, <3>1 DEF Busy
  <2>2. ASSUME NEW g, g # h PROVE (Working(g) => Working(g)') /\ (Worked(g) => Worked(g)')
    BY ZenonT(60), <1>8, <2>1, <2>2, WorkKept, WorkIs
  <2>3. Worked(h)'
    BY Zenon, <1>2, <1>8, <2>1, WorkIs DEF Worked, Busy
  <2> QED
    BY Zenon, <2>1, <2>2, <2>3
<1>14. RingsHoldCalls'
  <2>1. Offered' = Offered /\ EachOnce(avail', devIdx', availIdx') /\ h \notin Offered
    BY Zenon, <1>0, <1>1, <1>5 DEF Offered, RingsHoldCalls
  <2>2. Completed' = Completed \cup {h} /\ EachOnce(used', used_idx', usedIdx')
    BY Zenon, <1>5, <1>6 DEF Completed
  <2>3. \A q \in Done' : info'[head'[q]].status = 0
    <3>1. \A q \in Done : q \in Calls /\ info[head[q]].status = 0 /\ head[q] \in Descs
      BY Zenon, <1>0, CallIs DEF RingsHoldCalls, Done
    <3> QED
      BY Zenon, <1>5, <1>7, <1>8, <3>1
  <2>4. Completed \cap {h} = {}
    BY Zenon, <1>0, <1>2 DEF RingsHoldCalls
  <2> QED
    BY ZenonT(60), <1>0, <1>5, <1>13, <2>1, <2>2, <2>3, <2>4 DEF RingsHoldCalls
<1>15. CallsCounted'
  <2>1. Cardinality(inflight') = Cardinality(inflight) - 1
    BY Zenon, <1>0, <1>1, <1>5, CountsNat, FS_RemoveElement
  <2>2. /\ Dist(used_idx, usedIdx)' = Dist(used_idx, usedIdx) + 1
        /\ Dist(devIdx, availIdx)' = Dist(devIdx, availIdx) /\ free' = free
    BY Zenon, <1>5, <1>6 DEF Dist
  <2> QED
    BY <1>0, <1>7, <2>1, <2>2, CountsNat DEF CallsCounted
<1> QED
  BY Zenon, <1>10, <1>11, <1>12, <1>14, <1>15 DEF DInv

(* alloc3_desc() takes three descriptors, free_chain() gives three back. *)
LEMMA ThreeLess ==
  ASSUME NEW S, IsFiniteSet(S), NEW a \in S, NEW b \in S, NEW c \in S, a # b, a # c, b # c
  PROVE  Cardinality(S \ {a, b, c}) = Cardinality(S) - 3
<1>1. IsFiniteSet(S \ {a}) /\ Cardinality(S \ {a}) = Cardinality(S) - 1
  BY Zenon, FS_RemoveElement
<1>2. IsFiniteSet((S \ {a}) \ {b}) /\ Cardinality((S \ {a}) \ {b}) = Cardinality(S \ {a}) - 1
  BY Zenon, <1>1, FS_RemoveElement
<1>3. Cardinality(((S \ {a}) \ {b}) \ {c}) = Cardinality((S \ {a}) \ {b}) - 1
  BY ZenonT(60), <1>2, FS_RemoveElement
<1>4. S \ {a, b, c} = ((S \ {a}) \ {b}) \ {c}
  BY Zenon
<1>5. Cardinality(S) \in Nat
  BY Zenon, FS_CardinalityType
<1> QED
  BY <1>1, <1>2, <1>3, <1>4, <1>5

(* The other way. *)
LEMMA ThreeMore ==
  ASSUME NEW S, IsFiniteSet(S), NEW a, NEW b, NEW c, a # b, a # c, b # c,
         a \notin S, b \notin S, c \notin S
  PROVE  Cardinality(S \cup {a, b, c}) = Cardinality(S) + 3
<1>1. IsFiniteSet(S \cup {a}) /\ Cardinality(S \cup {a}) = Cardinality(S) + 1
  BY Zenon, FS_AddElement
<1>2. /\ IsFiniteSet((S \cup {a}) \cup {b})
      /\ Cardinality((S \cup {a}) \cup {b}) = Cardinality(S \cup {a}) + 1
  BY Zenon, <1>1, FS_AddElement
<1>3. Cardinality(((S \cup {a}) \cup {b}) \cup {c}) = Cardinality((S \cup {a}) \cup {b}) + 1
  BY Zenon, <1>2, FS_AddElement
<1>4. S \cup {a, b, c} = ((S \cup {a}) \cup {b}) \cup {c}
  BY Zenon
<1>5. Cardinality(S) \in Nat
  BY Zenon, FS_CardinalityType
<1> QED
  BY <1>1, <1>2, <1>3, <1>4, <1>5

(* A call whose descriptors a step leaves alone keeps its chain. *)
LEMMA ChainKept ==
  ASSUME TypeOK, ChainsBuilt, NEW q \in Calls, head'[q] = head[q], req'[q] = req[q],
         \A d \in Own(q) : /\ next'[d] = next[d] /\ addr'[d] = addr[d]
                           /\ ops'[d] = ops[d] /\ info'[d].b = info[d].b
  PROVE  /\ Own(q)' = Own(q)
         /\ LET h == head'[q]
                d == next'[h]
                e == next'[d]
            IN /\ d \in Descs /\ e \in Descs /\ next'[e] = NoDesc /\ h # d /\ h # e /\ d # e
               /\ addr'[h] = h /\ addr'[d] = q /\ addr'[e] = h
               /\ ops'[h] = req'[q] /\ info'[h].b = q
<1>1. head[q] \in Own(q) /\ next[head[q]] \in Own(q) /\ next[next[head[q]]] \in Own(q)
  BY Zenon DEF Own
<1>2. /\ next'[head[q]] = next[head[q]]
      /\ next'[next[head[q]]] = next[next[head[q]]]
      /\ next'[next[next[head[q]]]] = next[next[next[head[q]]]]
      /\ addr'[head[q]] = addr[head[q]] /\ addr'[next[head[q]]] = addr[next[head[q]]]
      /\ addr'[next[next[head[q]]]] = addr[next[next[head[q]]]]
      /\ ops'[head[q]] = ops[head[q]] /\ info'[head[q]].b = info[head[q]].b
  BY Zenon, <1>1
<1>3. next'[head'[q]] = next[head[q]] /\ next'[next'[head'[q]]] = next[next[head[q]]]
  BY ZenonT(60), <1>2
<1>4. next'[next'[next'[head'[q]]]] = next[next[next[head[q]]]]
  BY Zenon, <1>2, <1>3
<1>5. Own(q)' = Own(q)
  BY ZenonT(60), <1>3 DEF Own
<1>6. /\ addr'[head'[q]] = addr[head[q]] /\ addr'[next'[head'[q]]] = addr[next[head[q]]]
      /\ addr'[next'[next'[head'[q]]]] = addr[next[next[head[q]]]]
  BY Zenon, <1>2, <1>3
<1>7. ops'[head'[q]] = ops[head[q]] /\ info'[head'[q]].b = info[head[q]].b
  BY Zenon, <1>2
<1>8. /\ next[head[q]] \in Descs /\ next[next[head[q]]] \in Descs
      /\ head[q] # next[head[q]] /\ head[q] # next[next[head[q]]]
      /\ next[head[q]] # next[next[head[q]]] /\ next[next[next[head[q]]]] = NoDesc
      /\ addr[head[q]] = head[q] /\ addr[next[head[q]]] = q
      /\ addr[next[next[head[q]]]] = head[q]
      /\ ops[head[q]] = req[q] /\ info[head[q]].b = q
  BY Zenon, CallIs
<1> QED
  BY ZenonT(60), <1>3, <1>4, <1>5, <1>6, <1>7, <1>8

(* virtio_disk_rw() builds a chain of three free descriptors and offers it. *)
LEMMA SubmitInv ==
  ASSUME DInv, NEW p \in Procs, rw_submit(p)
  PROVE  DInv'
<1>0. TypeOK /\ ChainsBuilt /\ OwnedOnce /\ RingsHoldCalls /\ CallsCounted
  BY Zenon DEF DInv
<1>1. pc[p] = "alloc" /\ Cardinality(free) >= 3 /\ free \subseteq Descs
  BY Zenon, <1>0 DEF rw_submit, TypeOK
<1>2. PICK a, b, c \in free : alloc3 = <<a, b, c>> /\ a # b /\ a # c /\ b # c
  BY ZenonT(60), <1>1, Alloc3Is
<1>3. /\ free' = free \ {a, b, c}
      /\ ops' = [ops EXCEPT ![a] = req[p]]
      /\ addr' = [addr EXCEPT ![a] = a, ![b] = p, ![c] = a]
      /\ next' = [next EXCEPT ![a] = b, ![b] = c, ![c] = NoDesc]
      /\ info' = [info EXCEPT ![a] = NewInfo(p)]
      /\ head' = [head EXCEPT ![p] = a]
      /\ avail' = [avail EXCEPT ![availIdx % RING] = a]
  BY Zenon, <1>2 DEF rw_submit
<1>4. /\ availIdx' = Inc(availIdx)
      /\ bdisk' = [bdisk EXCEPT ![p] = TRUE]
      /\ pc' = [pc EXCEPT ![p] = "asleep_buf"]
      /\ UNCHANGED <<used_idx, device, data, req, intr, panicked, killed>>
  BY Zenon DEF rw_submit
<1>5. /\ a \in Descs /\ b \in Descs /\ c \in Descs
      /\ next'[a] = b /\ next'[b] = c /\ next'[c] = NoDesc
      /\ addr'[a] = a /\ addr'[b] = p /\ addr'[c] = a
      /\ ops'[a] = req[p] /\ info'[a] = NewInfo(p)
      /\ \A d \in Descs \ {a, b, c} : /\ next'[d] = next[d] /\ addr'[d] = addr[d]
                                      /\ ops'[d] = ops[d] /\ info'[d] = info[d]
  BY ZenonT(60), <1>0, <1>2, <1>3 DEF TypeOK
<1>6. /\ head'[p] = a /\ bdisk'[p] /\ pc'[p] = "asleep_buf"
      /\ \A q \in Procs \ {p} : head'[q] = head[q] /\ bdisk'[q] = bdisk[q] /\ pc'[q] = pc[q]
  BY ZenonT(60), <1>0, <1>3, <1>4 DEF TypeOK
<1>7. p \notin Calls /\ Calls' = Calls \cup {p} /\ Done' = Done
  BY ZenonT(60), <1>1, <1>6 DEF Calls, Done, InCall
<1>8. NewInfo(p) \in Infos /\ NewInfo(p).b = p /\ NewInfo(p).status = 255
  BY DEF NewInfo, Infos
<1>9. TypeOK'
  <2>1. {availIdx', usedIdx', used_idx', devIdx'} \subseteq 0 .. IdxMod - 1
    BY ZenonT(60), <1>0, <1>4, RingsTyped, IncIs DEF device, Index
  <2>2. /\ free' \subseteq Descs /\ addr' \in [Descs -> Descs \cup Procs]
        /\ next' \in [Descs -> Descs \cup {NoDesc}] /\ ops' \in [Descs -> Reqs]
        /\ info' \in [Descs -> Infos] /\ avail' \in [Ring -> Descs]
    BY ZenonT(60), <1>0, <1>3, <1>5, <1>8 DEF TypeOK
  <2>3. /\ bdisk' \in [Procs -> BOOLEAN] /\ pc' \in [Procs -> PCs] /\ head' \in [Procs -> Descs]
    BY Zenon, <1>0, <1>3, <1>4, <1>5 DEF TypeOK, PCs
  <2> QED
    BY ZenonT(60), <1>0, <1>4, <2>1, <2>2, <2>3 DEF device, TypeOK
<1>10. NoPanic' /\ NoCompletionLost'
  BY Zenon, <1>4 DEF device, DInv, NoPanic, NoCompletionLost
<1>11. ASSUME NEW q \in Calls
       PROVE  /\ q # p /\ q \in Procs /\ head'[q] = head[q] /\ req'[q] = req[q]
              /\ \A d \in Own(q) : d \in Descs \ {a, b, c}
  <2>1. q # p /\ q \in Procs
    BY ZenonT(60), <1>0, <1>7, CallIs
  <2>2. \A d \in Own(q) : d \in Descs \ free
    BY ZenonT(60), <1>0, CallsApart DEF Own
  <2> QED
    BY ZenonT(60), <1>2, <1>4, <1>6, <2>1, <2>2
<1>12. ASSUME NEW q \in Calls
       PROVE  /\ Own(q)' = Own(q)
              /\ LET h == head'[q]
                     d == next'[h]
                     e == next'[d]
                 IN /\ d \in Descs /\ e \in Descs /\ next'[e] = NoDesc /\ h # d /\ h # e /\ d # e
                    /\ addr'[h] = h /\ addr'[d] = q /\ addr'[e] = h
                    /\ ops'[h] = req'[q] /\ info'[h].b = q
  <2>1. \A d \in Own(q) : /\ next'[d] = next[d] /\ addr'[d] = addr[d]
                          /\ ops'[d] = ops[d] /\ info'[d].b = info[d].b
    BY ZenonT(60), <1>5, <1>11
  <2> QED
    BY Zenon, <1>0, <1>11, <2>1, ChainKept
<1>13. ChainsBuilt'
  <2>1. LET h == head'[p]
            d == next'[h]
            e == next'[d]
        IN /\ d \in Descs /\ e \in Descs /\ next'[e] = NoDesc /\ h # d /\ h # e /\ d # e
           /\ addr'[h] = h /\ addr'[d] = p /\ addr'[e] = h
           /\ ops'[h] = req'[p] /\ info'[h].b = p
    <3>1. head'[p] = a /\ next'[a] = b /\ next'[b] = c
      BY Zenon, <1>5, <1>6
    <3>2. next'[c] = NoDesc /\ addr'[a] = a /\ addr'[b] = p /\ addr'[c] = a
      BY Zenon, <1>5
    <3>3. ops'[a] = req'[p] /\ info'[a].b = p
      BY Zenon, <1>4, <1>5, <1>8
    <3>4. b \in Descs /\ c \in Descs /\ a # b /\ a # c /\ b # c
      BY Zenon, <1>2, <1>5
    <3> QED
      BY ONLY Zenon, <3>1, <3>2, <3>3, <3>4
  <2> QED
    BY ZenonT(60), <1>7, <1>12, <2>1 DEF ChainsBuilt
<1>14. OwnedOnce'
  <2>1. Own(p)' = {a, b, c}
    BY Zenon, <1>5, <1>6 DEF Own
  <2>0. /\ \A q, r \in Calls : q # r => Own(q) \cap Own(r) = {}
        /\ \A d \in Descs : d \in free <=> \A q \in Calls : d \notin Own(q)
    BY Zenon, <1>0 DEF OwnedOnce
  <2>4. \A q \in Calls : Own(q)' = Own(q) /\ Own(q) \cap {a, b, c} = {}
    BY ZenonT(60), <1>11, <1>12
  <2>2. ASSUME NEW q \in Calls', NEW r \in Calls', q # r PROVE Own(q)' \cap Own(r)' = {}
    <3>1. CASE q = p
      BY ZenonT(60), <1>7, <2>1, <2>2, <2>4, <3>1
    <3>2. CASE r = p
      BY ZenonT(60), <1>7, <2>1, <2>2, <2>4, <3>2
    <3>3. CASE q # p /\ r # p
      BY ZenonT(60), <1>7, <2>0, <2>2, <2>4, <3>3
    <3> QED
      BY Zenon, <3>1, <3>2, <3>3
  <2>3. ASSUME NEW d \in Descs PROVE d \in free' <=> \A q \in Calls' : d \notin Own(q)'
    <3>1. d \in free' <=> d \in free /\ d \notin {a, b, c}
      BY Zenon, <1>3
    <3>2. (\A q \in Calls' : d \notin Own(q)')
            <=> (\A q \in Calls : d \notin Own(q)) /\ d \notin {a, b, c}
      BY Zenon, <1>7, <2>1, <2>4
    <3> QED
      BY Zenon, <2>0, <3>1, <3>2
  <2> QED
    BY ZenonT(60), <2>2, <2>3 DEF OwnedOnce
<1>15. /\ Dist(devIdx, Inc(availIdx)) = Dist(devIdx, availIdx) + 1
       /\ Entries(avail', devIdx, Inc(availIdx)) = Entries(avail, devIdx, availIdx) \cup {a}
       /\ EachOnce(avail, devIdx, availIdx) /\ a \notin Entries(avail, devIdx, availIdx)
            => EachOnce(avail', devIdx, Inc(availIdx))
  <2>1. Dist(devIdx, availIdx) < RING
    BY Zenon, <1>0, <1>1, CallsFit
  <2>2. avail \in [Ring -> Descs] /\ devIdx \in Index /\ availIdx \in Index
    BY Zenon, <1>0, RingsTyped
  <2>3. \A s \in Ring : avail'[s] = IF s = availIdx % RING THEN a ELSE avail[s]
    BY Zenon, <1>3, <2>2
  <2> QED
    BY Zenon, <2>1, <2>2, <2>3, RingPut
<1>16. RingsHoldCalls'
  <2>1. \A g : Busy(g) => g \in Descs \ free /\ g # a /\ g # b /\ g # c /\ Busy(g)'
    <3> SUFFICES ASSUME NEW g, Busy(g)
                 PROVE  g \in Descs \ free /\ g # a /\ g # b /\ g # c /\ Busy(g)'
      BY Zenon
    <3>0. PICK q \in Calls : head[q] = g /\ bdisk[q]
      BY Zenon DEF Busy
    <3>1. g \in Descs \ free
      BY Zenon, <1>0, <3>0, CallsApart
    <3>2. q \in Calls' /\ head'[q] = g /\ bdisk'[q]
      BY Zenon, <1>6, <1>7, <1>11, <3>0
    <3>3. Busy(g)'
      BY Zenon, <3>2 DEF Busy
    <3> QED
      BY Zenon, <1>2, <3>1, <3>3
  <2>2. ASSUME NEW g PROVE (Working(g) => Working(g)') /\ (Worked(g) => Worked(g)')
    <3>1. CASE Busy(g)
      <4>1. info'[g] = info[g] /\ Busy(g)'
        BY ZenonT(60), <1>5, <2>1, <3>1
      <4> QED
        BY Zenon, <4>1, WorkKept
    <3>2. CASE ~Busy(g)
      BY Zenon, <3>2, WorkIs
    <3> QED
      BY Zenon, <3>1, <3>2
  <2>3. \A g \in Offered \cup inflight \cup Completed : Busy(g)
    BY Zenon, <1>0, WorkIs DEF RingsHoldCalls
  <2>4. a \notin Offered /\ a \notin inflight /\ a \notin Completed
    BY Zenon, <2>1, <2>3
  <2>5. Offered' = Offered \cup {a} /\ EachOnce(avail', devIdx', availIdx')
    BY ZenonT(60), <1>0, <1>4, <1>15, <2>4 DEF device, Offered, RingsHoldCalls
  <2>6. /\ Completed' = Completed /\ inflight' = inflight
        /\ EachOnce(used', used_idx', usedIdx')
    BY ZenonT(60), <1>0, <1>4 DEF device, Completed, RingsHoldCalls
  <2>7. Working(a)'
    BY ZenonT(60), <1>5, <1>6, <1>7, <1>8 DEF Working
  <2>8. \A q \in Done' : info'[head'[q]].status = 0
    <3> SUFFICES ASSUME NEW q \in Done PROVE info'[head'[q]].status = 0
      BY Zenon, <1>7
    <3>1. q \in Calls /\ info[head[q]].status = 0 /\ head[q] \in Own(q)
      BY Zenon, <1>0 DEF RingsHoldCalls, Done, Own
    <3>2. head[q] \in Descs \ {a, b, c} /\ head'[q] = head[q]
      BY Zenon, <1>11, <3>1
    <3>3. info'[head[q]] = info[head[q]]
      BY ZenonT(60), <1>5, <3>2
    <3> QED
      BY Zenon, <3>1, <3>2, <3>3
  <2> QED
    BY ZenonT(60), <1>0, <2>2, <2>4, <2>5, <2>6, <2>7, <2>8 DEF RingsHoldCalls
<1>17. CallsCounted'
  <2>1. IsFiniteSet(Calls') /\ Cardinality(Calls') = Cardinality(Calls) + 1
    BY Zenon, <1>0, <1>7, CountsNat, FS_AddElement
  <2>2. Cardinality(free') = Cardinality(free) - 3
    BY ZenonT(60), <1>0, <1>2, <1>3, CountsNat, ThreeLess
  <2>3. /\ Dist(devIdx, availIdx)' = Dist(devIdx, availIdx) + 1
        /\ Dist(used_idx, usedIdx)' = Dist(used_idx, usedIdx) /\ inflight' = inflight
    BY Zenon, <1>4, <1>15 DEF device, Dist
  <2> QED
    BY <1>0, <1>7, <2>1, <2>2, <2>3, CountsNat DEF CallsCounted
<1> QED
  BY ZenonT(60), <1>9, <1>10, <1>13, <1>14, <1>16, <1>17 DEF DInv

(* virtio_disk_rw() returns: it frees the chain of its own request only. *)
LEMMA ReturnInv ==
  ASSUME DInv, NEW p \in Procs, rw_wait(p), Finished(p)
  PROVE  DInv'
<1>0. TypeOK /\ ChainsBuilt /\ OwnedOnce /\ RingsHoldCalls /\ CallsCounted
  BY Zenon DEF DInv
<1>1. pc[p] = "awake" /\ ~bdisk[p] /\ p \in Calls /\ p \in Done
  BY Zenon DEF rw_wait, Finished, Calls, Done, InCall
<1>2. PICK a, b, c \in Descs \ free : /\ a = head[p] /\ Own(p) = {a, b, c}
                                      /\ a # b /\ a # c /\ b # c /\ Chain(head[p]) = Own(p)
  <2>1. /\ head[p] \in Descs \ free /\ next[head[p]] \in Descs \ free
        /\ next[next[head[p]]] \in Descs \ free
    BY Zenon, <1>0, <1>1, CallsApart
  <2>2. /\ head[p] # next[head[p]] /\ head[p] # next[next[head[p]]]
        /\ next[head[p]] # next[next[head[p]]]
    BY Zenon, <1>0, <1>1, CallIs
  <2>3. next[head[p]] # NoDesc /\ next[next[head[p]]] # NoDesc
    BY Zenon, <2>1, Sizes
  <2>4. Chain(head[p]) = Own(p)
    BY Zenon, <2>3, ChainIs DEF Own
  <2> QED
    BY Zenon, <2>1, <2>2, <2>4 DEF Own
<1>3. /\ info' = [info EXCEPT ![a].b = NoProc]
      /\ free' = free \cup {a, b, c} /\ panicked' = FALSE
      /\ addr' = [d \in Descs |-> IF d \in {a, b, c} THEN 0 ELSE addr[d]]
      /\ next' = [d \in Descs |-> IF d \in {a, b, c} THEN NoDesc ELSE next[d]]
      /\ pc' = [wakeup_free(pc) EXCEPT ![p] = "idle"]
      /\ head' = [head EXCEPT ![p] = 0]
      /\ UNCHANGED <<ops, avail, availIdx, used_idx, bdisk>>
  <2>1. {a, b, c} \cap free = {}
    BY Zenon, <1>2
  <2>2. Chain(head[p]) = {a, b, c} /\ head[p] = a
    BY Zenon, <1>2
  <2> QED
    BY ZenonT(60), <2>1, <2>2 DEF rw_wait, free_chain
<1>4. UNCHANGED <<device, data, req, intr, killed>>
  BY Zenon DEF rw_wait
<1>5. /\ pc' \in [Procs -> PCs] /\ pc'[p] = "idle"
      /\ \A q \in Procs \ {p} : InCall(q)' <=> InCall(q)
  BY Zenon, <1>0, <1>3 DEF wakeup_free, TypeOK, PCs, InCall
<1>6. Calls' = Calls \ {p} /\ Done' = Done \ {p}
  BY Zenon, <1>3, <1>5 DEF Calls, Done, InCall
<1>7. /\ info' \in [Descs -> Infos] /\ \A d \in Descs \ {a} : info'[d] = info[d]
      /\ \A d \in Descs : info'[d].status = info[d].status
  <2>1. info \in [Descs -> Infos]
    BY Zenon, <1>0 DEF TypeOK
  <2> QED
    BY <1>2, <1>3, <2>1 DEF Infos
<1>8. TypeOK'
  <2>1. 0 \in Descs
    BY Sizes DEF Descs
  <2>2. /\ addr' \in [Descs -> Descs \cup Procs] /\ next' \in [Descs -> Descs \cup {NoDesc}]
        /\ head' \in [Procs -> Descs] /\ free' \subseteq Descs /\ panicked' \in BOOLEAN
    BY ZenonT(60), <1>0, <1>2, <1>3, <2>1 DEF TypeOK
  <2> QED
    BY ZenonT(60), <1>0, <1>3, <1>4, <1>5, <1>7, <2>2 DEF device, TypeOK
<1>9. NoPanic' /\ NoCompletionLost'
  BY Zenon, <1>3, <1>4 DEF device, DInv, NoPanic, NoCompletionLost
<1>10. ASSUME NEW q \in Calls \ {p}
       PROVE  /\ q \in Procs /\ head'[q] = head[q] /\ req'[q] = req[q]
              /\ Own(q) \cap {a, b, c} = {} /\ Own(q) \subseteq Descs
  <2>1. q \in Procs
    BY Zenon DEF Calls
  <2>2. \A d \in Own(q) : d \in Descs
    BY ZenonT(60), <1>0, CallIs DEF Own
  <2>3. Own(q) \cap Own(p) = {}
    BY Zenon, <1>0, <1>1 DEF OwnedOnce
  <2>4. head'[q] = head[q]
    BY Zenon, <1>0, <1>3, <2>1 DEF TypeOK
  <2> QED
    BY ZenonT(60), <1>2, <1>4, <2>1, <2>2, <2>3, <2>4
<1>11. ASSUME NEW q \in Calls \ {p}
       PROVE  /\ Own(q)' = Own(q)
              /\ LET h == head'[q]
                     d == next'[h]
                     e == next'[d]
                 IN /\ d \in Descs /\ e \in Descs /\ next'[e] = NoDesc /\ h # d /\ h # e /\ d # e
                    /\ addr'[h] = h /\ addr'[d] = q /\ addr'[e] = h
                    /\ ops'[h] = req'[q] /\ info'[h].b = q
  <2>1. \A d \in Own(q) : d \in Descs /\ d \notin {a, b, c}
    BY Zenon, <1>10
  <2>2. \A d \in Own(q) : /\ next'[d] = next[d] /\ addr'[d] = addr[d]
                          /\ ops'[d] = ops[d] /\ info'[d].b = info[d].b
    BY Zenon, <1>3, <1>7, <2>1
  <2> QED
    BY Zenon, <1>0, <1>10, <2>2, ChainKept
<1>12. ChainsBuilt'
  BY ZenonT(60), <1>6, <1>11 DEF ChainsBuilt
<1>13. OwnedOnce'
  <2>0. /\ \A q, r \in Calls : q # r => Own(q) \cap Own(r) = {}
        /\ \A d \in Descs : d \in free <=> \A q \in Calls : d \notin Own(q)
    BY Zenon, <1>0 DEF OwnedOnce
  <2>1. \A q \in Calls \ {p} : Own(q)' = Own(q)
    BY Zenon, <1>11
  <2>2. ASSUME NEW q \in Calls', NEW r \in Calls', q # r PROVE Own(q)' \cap Own(r)' = {}
    BY ZenonT(60), <1>6, <2>0, <2>1, <2>2
  <2>3. ASSUME NEW d \in Descs PROVE d \in free' <=> \A q \in Calls' : d \notin Own(q)'
    <3>1. d \in free' <=> d \in free \/ d \in Own(p)
      BY Zenon, <1>2, <1>3
    <3>2. (\A q \in Calls' : d \notin Own(q)') <=> \A q \in Calls \ {p} : d \notin Own(q)
      BY Zenon, <1>6, <2>1
    <3>3. d \in Own(p) => \A q \in Calls \ {p} : d \notin Own(q)
      BY Zenon, <1>1, <2>0
    <3> QED
      BY ZenonT(60), <1>1, <2>0, <3>1, <3>2, <3>3
  <2> QED
    BY Zenon, <2>2, <2>3 DEF OwnedOnce
<1>14. RingsHoldCalls'
  <2>1. ASSUME NEW g, Busy(g) PROVE g \in Descs /\ Busy(g)'
    <3>0. PICK q \in Calls : head[q] = g /\ bdisk[q]
      BY Zenon, <2>1 DEF Busy
    <3>1. q # p /\ g \in Descs
      BY Zenon, <1>0, <1>1, <3>0, BusyIs
    <3>2. q \in Calls' /\ head'[q] = g /\ bdisk'[q]
      BY ZenonT(60), <1>3, <1>6, <1>10, <3>0, <3>1
    <3> QED
      BY Zenon, <3>1, <3>2 DEF Busy
  <2>2. \A g : (Working(g) => Working(g)') /\ (Worked(g) => Worked(g)')
    BY Zenon, <1>7, <2>1, WorkKept, WorkIs
  <2>3. Offered' = Offered /\ EachOnce(avail', devIdx', availIdx')
    BY Zenon, <1>0, <1>3, <1>4 DEF device, Offered, RingsHoldCalls
  <2>4. /\ Completed' = Completed /\ inflight' = inflight
        /\ EachOnce(used', used_idx', usedIdx')
    BY ZenonT(60), <1>0, <1>3, <1>4 DEF device, Completed, RingsHoldCalls
  <2>5. \A q \in Done' : info'[head'[q]].status = 0
    <3> SUFFICES ASSUME NEW q \in Done \ {p} PROVE info'[head'[q]].status = 0
      BY Zenon, <1>6
    <3>1. q \in Calls \ {p} /\ info[head[q]].status = 0 /\ head[q] \in Descs
      BY Zenon, <1>0, CallIs DEF RingsHoldCalls, Done
    <3>2. head'[q] = head[q] /\ info'[head[q]].status = info[head[q]].status
      BY ZenonT(60), <1>7, <1>10, <3>1
    <3> QED
      BY Zenon, <3>1, <3>2
  <2> QED
    BY ZenonT(60), <1>0, <2>2, <2>3, <2>4, <2>5 DEF RingsHoldCalls
<1>15. CallsCounted'
  <2>1. IsFiniteSet(Calls') /\ Cardinality(Calls') = Cardinality(Calls) - 1
    BY ZenonT(60), <1>0, <1>1, <1>6, CountsNat, FS_RemoveElement
  <2>2. Cardinality(Done') = Cardinality(Done) - 1
    BY ZenonT(60), <1>0, <1>1, <1>6, CountsNat, FS_RemoveElement
  <2>3. Cardinality(free') = Cardinality(free) + 3
    BY ZenonT(60), <1>0, <1>2, <1>3, CountsNat, ThreeMore
  <2>4. /\ Dist(devIdx, availIdx)' = Dist(devIdx, availIdx)
        /\ Dist(used_idx, usedIdx)' = Dist(used_idx, usedIdx) /\ inflight' = inflight
    BY Zenon, <1>3, <1>4 DEF device, Dist
  <2> QED
    BY <1>0, <2>1, <2>2, <2>3, <2>4, CountsNat DEF CallsCounted
<1> QED
  BY ZenonT(60), <1>8, <1>9, <1>12, <1>13, <1>14, <1>15 DEF DInv

(* After sleep(b). *)
LEMMA WaitInv ==
  ASSUME DInv, NEW p \in Procs, rw_wait(p)
  PROVE  DInv'
<1>1. CASE Finished(p)
  BY Zenon, <1>1, ReturnInv
<1>2. CASE ~Finished(p)
  <2>1. /\ pc[p] = "awake" /\ pc' = [pc EXCEPT ![p] = "asleep_buf"]
        /\ UNCHANGED <<driver, device, data, req, intr, panicked, killed>>
    BY Zenon, <1>2 DEF rw_wait
  <2>2. pc' \in [Procs -> PCs] /\ \A q \in Procs : InCall(q)' <=> InCall(q)
    BY Zenon, <2>1 DEF DInv, TypeOK, PCs, InCall
  <2>3. killed' \subseteq Procs
    BY Zenon, <2>1 DEF DInv, TypeOK
  <2> QED
    BY Zenon, <2>1, <2>2, <2>3, MoveInv
<1> QED
  BY Zenon, <1>1, <1>2

(* Every step of a process, the handler or the device keeps it. *)
LEMMA NextInv == DInv /\ [Next]_vars => DInv'
<1> SUFFICES ASSUME DInv, [Next]_vars PROVE DInv'
  BY Zenon
<1>1. ASSUME NEW p \in Procs, rw_call(p) \/ virtio_disk_rw(p) \/ kill(p) PROVE DInv'
  BY Zenon, <1>1, CallInv, FullInv, SubmitInv, WaitInv, KillInv DEF virtio_disk_rw
<1>2. CASE virtio_disk_intr
  BY Zenon, <1>2, IntrEdgeInv, IntrLoopInv DEF virtio_disk_intr
<1>3. CASE Device
  BY Zenon, <1>3, FetchInv, CompleteInv DEF Device
<1>4. CASE UNCHANGED vars
  <2>1. /\ pc' \in [Procs -> PCs] /\ killed' \subseteq Procs
        /\ \A q \in Procs : InCall(q)' <=> InCall(q)
        /\ UNCHANGED <<driver, device, data, req, intr, panicked>>
    BY Zenon, <1>4 DEF vars, DInv, TypeOK, InCall
  <2> QED
    BY Zenon, <2>1, MoveInv
<1> QED
  BY Zenon, <1>1, <1>2, <1>3, <1>4 DEF Next

(* DInv says what DriverInv does. *)
LEMMA InvIs == DInv => DriverInv
BY Zenon, OwnedIs DEF DInv, DriverInv

(* The invariant in the form the refinement uses. *)
LEMMA DriverInvariant == Spec => []DInv
<1>1. Init => DInv
  BY Zenon, InitInv
<1>2. DInv /\ [Next]_vars => DInv'
  BY Zenon, NextInv
<1> QED
  BY <1>1, <1>2, PTL DEF Spec

(* The driver and the device agree, for any number of processes,            *)
(* descriptors and ring entries: every descriptor has one owner, the rings  *)
(* are never overrun, no completion is left without an interrupt, and none  *)
(* of the panics of free_desc() and virtio_disk_intr() happens.             *)
THEOREM DriverInvHolds == Spec => []DriverInv
BY DriverInvariant, InvIs, PTL
-----------------------------------------------------------------------------
(* The refinement: Phase is what a caller can tell of its call. *)

(* Where a call is, before and after a step. *)
LEMMA PhaseIs ==
  ASSUME NEW p \in Procs
  PROVE  /\ pc[p] = "idle" => Phase[p] = "idle"
         /\ InCall(p) /\ info[head[p]].status = 0 => Phase[p] = "performed"
         /\ pc[p] # "idle" /\ ~(InCall(p) /\ info[head[p]].status = 0) => Phase[p] = "pending"
         /\ pc'[p] = "idle" => Phase'[p] = "idle"
         /\ InCall(p)' /\ info'[head'[p]].status = 0 => Phase'[p] = "performed"
         /\ pc'[p] # "idle" /\ ~(InCall(p)' /\ info'[head'[p]].status = 0)
              => Phase'[p] = "pending"
BY Zenon DEF Phase, InCall

(* A step that leaves a call where it is. *)
LEMMA PhaseKept ==
  ASSUME NEW p \in Procs, pc'[p] = "idle" <=> pc[p] = "idle", InCall(p)' <=> InCall(p),
         InCall(p) => (info'[head'[p]].status = 0 <=> info[head[p]].status = 0)
  PROVE  Phase'[p] = Phase[p]
BY Zenon, PhaseIs DEF InCall

(* What a step does to the phases, from what it does to each. *)
LEMMA PhaseSame ==
  ASSUME \A p \in Procs : Phase'[p] = Phase[p]
  PROVE  Phase' = Phase
<1>1. Phase = [p \in Procs |-> Phase[p]] /\ Phase' = [p \in Procs |-> Phase'[p]]
  BY DEF Phase
<1> QED
  BY Zenon, <1>1

(* The same for a step that moves one call on. *)
LEMMA PhaseMoved ==
  ASSUME NEW p \in Procs, \A q \in Procs \ {p} : Phase'[q] = Phase[q]
  PROVE  Phase' = [Phase EXCEPT ![p] = Phase'[p]]
<1>1. Phase = [q \in Procs |-> Phase[q]] /\ Phase' = [q \in Procs |-> Phase'[q]]
  BY DEF Phase
<1> QED
  BY Zenon, <1>1

(* The steps that no caller can tell from nothing. *)
LEMMA Stutters ==
  ASSUME UNCHANGED <<store, data, req>>, \A p \in Procs : Phase'[p] = Phase[p]
  PROVE  UNCHANGED Port!dpvars
BY Zenon, PhaseSame DEF Port!dpvars

(* The state that virtio_disk_init() leaves is one of an idle disk port. *)
LEMMA PortInit == Init => Port!DPInit
<1> SUFFICES ASSUME Init PROVE Port!DPInit
  BY Zenon
<1>1. store \in [Blocks -> Values] /\ data \in [Procs -> Values] /\ pc = [p \in Procs |-> "idle"]
  BY Zenon DEF Init
<1>2. req \in [Procs -> Port!Ops]
  <2>1. PICK k \in Blocks : req = [p \in Procs |-> [write |-> FALSE, block |-> k]]
    BY Zenon DEF Init
  <2>2. [write |-> FALSE, block |-> k] \in Port!Ops
    BY DEF Port!Ops
  <2> QED
    BY Zenon, <2>1, <2>2
<1>3. Phase = [p \in Procs |-> "idle"]
  <2>1. Phase = [p \in Procs |-> Phase[p]]
    BY DEF Phase
  <2>2. \A p \in Procs : Phase[p] = "idle"
    BY Zenon, <1>1, PhaseIs
  <2> QED
    BY Zenon, <2>1, <2>2
<1> QED
  BY Zenon, <1>1, <1>2, <1>3 DEF Port!DPInit

(* A call of virtio_disk_rw(). *)
LEMMA CallRefines ==
  ASSUME DInv, NEW p \in Procs, rw_call(p)
  PROVE  Port!DPNext
<1>1. /\ req \in [Procs -> Reqs] /\ data \in [Procs -> Values] /\ pc \in [Procs -> PCs]
  BY Zenon DEF DInv, TypeOK
<1>2. PICK r \in Reqs : /\ req' = [req EXCEPT ![p] = r]
                        /\ IF r.write THEN \E v \in Values : data' = [data EXCEPT ![p] = v]
                                      ELSE UNCHANGED data
  BY Zenon DEF rw_call
<1>3. \E v \in Values : data' = [data EXCEPT ![p] = v]
  <2>1. CASE r.write
    BY Zenon, <1>2, <2>1
  <2>2. CASE ~r.write
    <3>1. data' = [data EXCEPT ![p] = data[p]] /\ data[p] \in Values
      BY Zenon, <1>1, <1>2, <2>2
    <3> QED
      BY Zenon, <3>1
  <2> QED
    BY Zenon, <2>1, <2>2
<1>4. pc[p] = "idle" /\ pc' = [pc EXCEPT ![p] = "alloc"] /\ UNCHANGED <<store, info, head>>
  BY Zenon DEF rw_call, driver, device
<1>5. /\ pc'[p] # "idle" /\ ~InCall(p)' /\ \A q \in Procs \ {p} : pc'[q] = pc[q]
  BY Zenon, <1>1, <1>4 DEF InCall
<1>6. Phase[p] = "idle" /\ Phase'[p] = "pending"
  BY Zenon, <1>4, <1>5, PhaseIs
<1>7. \A q \in Procs \ {p} : Phase'[q] = Phase[q]
  BY Zenon, <1>4, <1>5, PhaseKept DEF InCall
<1>8. Phase' = [Phase EXCEPT ![p] = "pending"]
  BY Zenon, <1>6, <1>7, PhaseMoved
<1>9. r \in Port!Ops
  BY Zenon DEF Reqs, Port!Ops
<1> QED
  BY ZenonT(60), <1>2, <1>3, <1>4, <1>6, <1>8, <1>9 DEF Port!DPNext, Port!Call

(* Offering the request to the device: it is not performed yet. *)
LEMMA SubmitRefines ==
  ASSUME DInv, NEW p \in Procs, rw_submit(p)
  PROVE  UNCHANGED Port!dpvars
<1>0. TypeOK /\ ChainsBuilt /\ OwnedOnce
  BY Zenon DEF DInv
<1>1. PICK a, b, c \in free : alloc3 = <<a, b, c>>
  BY Zenon, <1>0, Alloc3Is DEF rw_submit, TypeOK
<1>2. /\ pc[p] = "alloc" /\ pc' = [pc EXCEPT ![p] = "asleep_buf"]
      /\ UNCHANGED <<store, data, req>>
  BY ZenonT(60) DEF rw_submit, device
<1>3. info' = [info EXCEPT ![a] = NewInfo(p)] /\ head' = [head EXCEPT ![p] = a]
  BY Zenon, <1>1 DEF rw_submit
<1>4. a \in Descs /\ head'[p] = a /\ info'[a] = NewInfo(p) /\ pc'[p] = "asleep_buf"
  BY ZenonT(60), <1>0, <1>1, <1>2, <1>3 DEF TypeOK
<1>5. NewInfo(p).status # 0
  BY DEF NewInfo
<1>6. Phase'[p] = Phase[p]
  <2>1. Phase[p] = "pending"
    BY Zenon, <1>2, PhaseIs DEF InCall
  <2>2. Phase'[p] = "pending"
    BY Zenon, <1>4, <1>5, PhaseIs DEF InCall
  <2> QED
    BY Zenon, <2>1, <2>2
<1>7. ASSUME NEW q \in Procs \ {p} PROVE Phase'[q] = Phase[q]
  <2>1. pc'[q] = pc[q] /\ head'[q] = head[q]
    BY ZenonT(60), <1>0, <1>2, <1>3 DEF TypeOK
  <2>2. InCall(q) => head[q] \in Descs \ free
    BY Zenon, <1>0, CallsApart DEF Calls
  <2>3. InCall(q) => info'[head[q]] = info[head[q]]
    BY ZenonT(60), <1>0, <1>1, <1>3, <2>2 DEF TypeOK
  <2> QED
    BY ZenonT(60), <2>1, <2>3, PhaseKept DEF InCall
<1> QED
  BY Zenon, <1>2, <1>6, <1>7, Stutters

(* The return: only of a call whose request was performed. *)
LEMMA WaitRefines ==
  ASSUME DInv, NEW p \in Procs, rw_wait(p)
  PROVE  Port!DPNext \/ UNCHANGED Port!dpvars
<1>0. /\ TypeOK /\ ChainsBuilt /\ RingsHoldCalls /\ UNCHANGED <<store, data, req>>
      /\ pc[p] = "awake"
  BY Zenon DEF DInv, rw_wait, device
<1>1. CASE ~Finished(p)
  <2>1. pc' = [pc EXCEPT ![p] = "asleep_buf"] /\ UNCHANGED <<info, head>>
    BY Zenon, <1>1 DEF rw_wait, driver
  <2>2. \A q \in Procs : (pc'[q] = "idle" <=> pc[q] = "idle") /\ (InCall(q)' <=> InCall(q))
    BY Zenon, <1>0, <2>1 DEF TypeOK, InCall
  <2>3. \A q \in Procs : Phase'[q] = Phase[q]
    BY Zenon, <2>1, <2>2, PhaseKept
  <2> QED
    BY ZenonT(60), <1>0, <2>3, Stutters
<1>2. CASE Finished(p)
  <2>1. /\ info' = [info EXCEPT ![head[p]].b = NoProc] /\ head' = [head EXCEPT ![p] = 0]
        /\ pc' = [wakeup_free(pc) EXCEPT ![p] = "idle"]
    BY Zenon, <1>2 DEF rw_wait
  <2>2. \A d \in Descs : info'[d].status = info[d].status
    <3>1. info \in [Descs -> Infos] /\ head[p] \in Descs
      BY Zenon, <1>0 DEF TypeOK
    <3> QED
      BY <2>1, <3>1 DEF Infos
  <2>3. /\ pc'[p] = "idle"
        /\ \A q \in Procs \ {p} : /\ pc'[q] = "idle" <=> pc[q] = "idle"
                                  /\ InCall(q)' <=> InCall(q)
                                  /\ head'[q] = head[q] /\ head[q] \in Descs
    BY Zenon, <1>0, <2>1 DEF TypeOK, wakeup_free, InCall
  <2>4. InCall(p) /\ info[head[p]].status = 0
    BY Zenon, <1>0, <1>2 DEF Finished, RingsHoldCalls, Done, Calls, InCall
  <2>5. Phase[p] = "performed" /\ Phase'[p] = "idle"
    BY Zenon, <2>3, <2>4, PhaseIs
  <2>6. ASSUME NEW q \in Procs \ {p} PROVE Phase'[q] = Phase[q]
    <3>1. info'[head'[q]].status = info[head[q]].status
      BY <2>2, <2>3
    <3> QED
      BY ZenonT(60), <2>3, <3>1, PhaseKept
  <2>7. Phase' = [Phase EXCEPT ![p] = "idle"]
    BY Zenon, <2>5, <2>6, PhaseMoved
  <2> QED
    BY Zenon, <1>0, <2>5, <2>7 DEF Port!DPNext, Port!Return
<1> QED
  BY Zenon, <1>1, <1>2

(* The device performs a request: the one its caller waits for, once. *)
LEMMA CompleteRefines ==
  ASSUME DInv, NEW h \in Descs, dev_complete(h)
  PROVE  Port!DPNext
<1>0. TypeOK /\ ChainsBuilt /\ OwnedOnce /\ RingsHoldCalls
  BY Zenon DEF DInv
<1>1. Working(h)
  BY Zenon, <1>0 DEF dev_complete, RingsHoldCalls
<1>2. PICK p \in Calls : head[p] = h
  BY ZenonT(60), <1>1, WorkIs DEF Busy
<1>3. ops[addr[h]] = req[p] /\ addr[next[h]] = p /\ addr[next[next[h]]] = h /\ p \in Procs
  <2>1. /\ ops[addr[head[p]]] = req[p] /\ addr[next[head[p]]] = p
        /\ addr[next[next[head[p]]]] = head[p] /\ p \in Procs
    BY ZenonT(60), <1>0, RequestIs, CallIs
  <2> QED
    BY <1>2, <2>1
<1>4. /\ info' = [info EXCEPT ![h].status = 0] /\ UNCHANGED <<req, pc, head>>
      /\ IF req[p].write THEN store' = [store EXCEPT ![req[p].block] = data[p]] /\ UNCHANGED data
                         ELSE data' = [data EXCEPT ![p] = store[req[p].block]] /\ UNCHANGED store
  BY Zenon, <1>3 DEF dev_complete
<1>5. info'[h].status = 0 /\ \A d \in Descs \ {h} : info'[d] = info[d]
  <2>1. info \in [Descs -> Infos]
    BY Zenon, <1>0 DEF TypeOK
  <2> QED
    BY <1>4, <2>1 DEF Infos
<1>6. info[h].status # 0
  BY <1>1 DEF Working
<1>7. Phase[p] = "pending" /\ Phase'[p] = "performed"
  <2>1. InCall(p) /\ InCall(p)' /\ head'[p] = h
    BY Zenon, <1>2, <1>4 DEF Calls, InCall
  <2>2. pc[p] # "idle"
    BY Zenon, <2>1 DEF InCall
  <2> QED
    BY ZenonT(60), <1>2, <1>3, <1>5, <1>6, <2>1, <2>2, PhaseIs
<1>8. ASSUME NEW q \in Procs \ {p} PROVE Phase'[q] = Phase[q]
  <2>1. InCall(q) => head[q] \in Descs \ {h}
    <3>1. InCall(q) => q \in Calls
      BY Zenon DEF Calls
    <3>2. q \in Calls => head[q] \in Own(q) /\ head[q] \in Descs
      BY Zenon, <1>0, CallIs DEF Own
    <3>3. h \in Own(p)
      BY Zenon, <1>2 DEF Own
    <3> QED
      BY ZenonT(60), <1>0, <3>1, <3>2, <3>3 DEF OwnedOnce
  <2>2. InCall(q)' <=> InCall(q)
    BY Zenon, <1>4 DEF InCall
  <2> QED
    BY ZenonT(60), <1>4, <1>5, <2>1, <2>2, PhaseKept
<1>9. Phase' = [Phase EXCEPT ![p] = "performed"]
  BY ZenonT(60), <1>3, <1>7, <1>8, PhaseMoved
<1> QED
  BY Zenon, <1>3, <1>4, <1>7, <1>9 DEF Port!DPNext, Port!Perform

(* The steps that keep the status bytes and only wake processes. *)
LEMMA WakesRefine ==
  ASSUME TypeOK, UNCHANGED <<store, data, req, info, head>>,
         \A q \in Procs : (pc'[q] = "idle" <=> pc[q] = "idle") /\ (InCall(q)' <=> InCall(q))
  PROVE  UNCHANGED Port!dpvars
BY Zenon, PhaseKept, Stutters

(* alloc3_desc() fails. *)
LEMMA FullRefines ==
  ASSUME DInv, NEW p \in Procs, rw_full(p)
  PROVE  UNCHANGED Port!dpvars
<1>1. /\ TypeOK /\ pc[p] = "alloc" /\ UNCHANGED <<store, data, req, info, head>>
      /\ pc' = [(IF free = {} THEN pc ELSE wakeup_free(pc)) EXCEPT ![p] = "asleep_desc"]
  BY Zenon DEF DInv, rw_full, device
<1>2. \A q \in Procs : (pc'[q] = "idle" <=> pc[q] = "idle") /\ (InCall(q)' <=> InCall(q))
  BY Zenon, <1>1 DEF TypeOK, wakeup_free, InCall
<1> QED
  BY Zenon, <1>1, <1>2, WakesRefine

(* kill(). *)
LEMMA KillRefines ==
  ASSUME DInv, NEW p \in Procs, kill(p)
  PROVE  UNCHANGED Port!dpvars
<1>1. /\ TypeOK /\ UNCHANGED <<store, data, req, info, head>>
      /\ pc' = [pc EXCEPT ![p] = CASE @ = "asleep_desc" -> "alloc"
                                   [] @ = "asleep_buf"  -> "awake"
                                   [] OTHER             -> @]
  BY Zenon DEF DInv, kill, driver, device
<1>2. \A q \in Procs : (pc'[q] = "idle" <=> pc[q] = "idle") /\ (InCall(q)' <=> InCall(q))
  BY <1>1 DEF TypeOK, InCall
<1> QED
  BY Zenon, <1>1, <1>2, WakesRefine

(* virtio_disk_intr(). *)
LEMMA IntrRefines ==
  ASSUME DInv, virtio_disk_intr
  PROVE  UNCHANGED Port!dpvars
<1>1. TypeOK /\ UNCHANGED <<store, data, req, info, head>>
  BY Zenon DEF DInv, virtio_disk_intr, intr_begin, intr_loop, intr_end, driver, device
<1>2. UNCHANGED pc \/ \E b : pc' = wakeup_buf(b, pc)
  BY Zenon DEF virtio_disk_intr, intr_begin, intr_loop, intr_end
<1>3. \A q \in Procs : (pc'[q] = "idle" <=> pc[q] = "idle") /\ (InCall(q)' <=> InCall(q))
  BY ZenonT(60), <1>1, <1>2 DEF TypeOK, wakeup_buf, InCall
<1> QED
  BY Zenon, <1>1, <1>3, WakesRefine

(* Every step of the driver and the device is one of the disk port, or none. *)
LEMMA NextRefines == DInv /\ [Next]_vars => [Port!DPNext]_(Port!dpvars)
<1> SUFFICES ASSUME DInv, [Next]_vars PROVE Port!DPNext \/ UNCHANGED Port!dpvars
  BY Zenon
<1>1. ASSUME NEW p \in Procs, rw_call(p) \/ virtio_disk_rw(p) \/ kill(p)
      PROVE  Port!DPNext \/ UNCHANGED Port!dpvars
  BY ZenonT(60), <1>1, CallRefines, FullRefines, SubmitRefines, WaitRefines, KillRefines
     DEF virtio_disk_rw
<1>2. CASE virtio_disk_intr
  BY Zenon, <1>2, IntrRefines
<1>3. CASE dev_fetch
  BY Zenon, <1>3, WakesRefine DEF DInv, dev_fetch, driver, InCall
<1>4. CASE \E h \in Descs : dev_complete(h)
  BY Zenon, <1>4, CompleteRefines
<1>5. CASE UNCHANGED vars
  BY Zenon, <1>5, WakesRefine DEF DInv, vars, driver, device, InCall
<1> QED
  BY ZenonT(60), <1>1, <1>2, <1>3, <1>4, <1>5 DEF Next, Device

(* The driver implements the disk port: each call of virtio_disk_rw() moves *)
(* its block once, between the call and the return, whatever the order of   *)
(* completions and whoever wakes the caller.                                *)
THEOREM IsDiskPortHolds == Spec => IsDiskPort
<1>1. Init => Port!DPInit
  BY Zenon, PortInit
<1>2. DInv /\ [Next]_vars => [Port!DPNext]_(Port!dpvars)
  BY Zenon, NextRefines
<1> QED
  BY <1>1, <1>2, DriverInvariant, PTL DEF Spec, IsDiskPort, Port!DPSpec
=============================================================================
