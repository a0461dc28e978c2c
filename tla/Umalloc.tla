------------------------------- MODULE Umalloc -------------------------------
(***************************************************************************)
(* The allocator of user programs, user/umalloc.c: one circular list of    *)
(* free blocks, each with a header, searched from where the last operation *)
(* left it.                                                                *)
(*                                                                         *)
(* Addresses count units of a Header; base is at 0, below the heap.        *)
(* Requests, and what sbrk() is asked for, are in bytes.                   *)
(***************************************************************************)
EXTENDS Integers, Sequences, FiniteSets, FiniteSetsExt

CONSTANTS
  HEAP,       \* bound: where sbrk() fails
  MINUNITS,   \* the least that morecore() asks for, 4096
  HDR,        \* sizeof(Header), 16
  INT,        \* how many values an int has, 2^32
  Requests    \* bound: sizes of the requests, in bytes

NULL == -1
base == 0
Heap == 1 .. HEAP
Addr == 0 .. HEAP

VARIABLES
  ptr, size,  \* the headers
  freep,
  brk,        \* the first address that sbrk() has not given out
  live,       \* blocks that the program has: address of the header -> bytes it asked for
  foreign,    \* units that the program took from sbrk() itself
  adrift      \* the request after which hp->s.size is not what sbrk() gave, or NULL

heapvars == <<ptr, size, freep, brk, live, foreign, adrift>>

HeapTypeOK ==
  /\ ptr \in [Addr -> Addr] /\ size \in [Addr -> Nat]
  /\ freep \in Addr \cup {NULL} /\ brk \in 1 .. HEAP + 1
  /\ DOMAIN live \subseteq Heap /\ \A b \in DOMAIN live : live[b] \in Nat
  /\ foreign \subseteq Heap /\ adrift \in Requests \cup {NULL}

HeapInit ==
  /\ ptr = [a \in Addr |-> 0] /\ size = [a \in Addr |-> 0]
  /\ freep = NULL /\ brk = 1
  /\ live = [b \in {} |-> 0] /\ foreign = {} /\ adrift = NULL
-----------------------------------------------------------------------------
(* A heap as a value, so that malloc() can call morecore() and that free(). *)
H == [ptr |-> ptr, size |-> size, freep |-> freep]

Set(h) == ptr' = h.ptr /\ size' = h.size /\ freep' = h.freep

(* Headers of no block have no meaning; they are kept at 0. *)
Clear(h, a) == [h EXCEPT !.ptr[a] = 0, !.size[a] = 0]

(* Where the walk from p ends, the first of the places where it may stop. *)
Walk(h, p, places) ==
  LET nth[k \in 0 .. HEAP + 1] == IF k = 0 THEN p ELSE h.ptr[nth[k - 1]]
      stops == {k \in 0 .. HEAP + 1 : nth[k] \in places \/ k = HEAP + 1}
  IN nth[Min(stops)]

(* free() looks for the p after which bp belongs. *)
Before(h, bp, p) ==
  \/ bp > p /\ bp < h.ptr[p]
  \/ p >= h.ptr[p] /\ (bp > p \/ bp < h.ptr[p])

JoinLower(h, p, bp) ==
  IF p + h.size[p] = bp
  THEN Clear([h EXCEPT !.size[p] = @ + h.size[bp], !.ptr[p] = h.ptr[bp]], bp)
  ELSE [h EXCEPT !.ptr[p] = bp]

JoinUpper(h, p, bp) ==
  LET q == h.ptr[p] IN
  IF bp + h.size[bp] = q
  THEN Clear([h EXCEPT !.size[bp] = @ + h.size[q], !.ptr[bp] = h.ptr[q]], q)
  ELSE [h EXCEPT !.ptr[bp] = q]

Free(h, bp) ==
  LET p == Walk(h, h.freep, {q \in Addr : Before(h, bp, q)})
  IN [JoinLower(JoinUpper(h, p, bp), p, bp) EXCEPT !.freep = p]

free ==
  /\ adrift = NULL
  /\ \E b \in DOMAIN live :
       /\ Set(Free(H, b))
       /\ live' = [c \in DOMAIN live \ {b} |-> live[c]]
  /\ UNCHANGED <<brk, foreign, adrift>>

Units(nunits) == Max({nunits, MINUNITS})

(* Mutant: part of a unit is not counted. *)
Nunits_down(n) == n \div HDR + 1

(* The units of n bytes and a header: computed in 64 bits, it does not wrap. *)
Nunits(n) == (n + HDR - 1) \div HDR + 1

(* The conversion of a size_t to the int that sbrk() takes. *)
ToInt(x) == LET y == x % INT IN IF y < INT \div 2 THEN y ELSE y - INT

(* Where the program ends after growproc(n), NULL when that fails.  Shrunk  *)
(* below 0, sz + n is a large unsigned number, and uvmdealloc() does        *)
(* nothing.                                                                 *)
growproc(n) ==
  LET to == brk + n \div HDR
  IN CASE n > 0 /\ to > HEAP + 1 -> NULL
       [] to < 0                 -> brk
       [] OTHER                  -> to

(* malloc() takes the units at p: all of the block, or its tail. *)
Take(h, prevp, nunits) ==
  LET p == h.ptr[prevp] IN
  IF h.size[p] = nunits
  THEN [h |-> [h EXCEPT !.ptr[prevp] = h.ptr[p], !.ptr[p] = 0, !.freep = prevp], at |-> p]
  ELSE LET at == p + h.size[p] - nunits IN
       [h |-> [h EXCEPT !.size[p] = @ - nunits, !.size[at] = nunits, !.freep = prevp], at |-> at]

(* The first use makes a list of base alone. *)
Started(h) == IF h.freep = NULL THEN [Clear(h, base) EXCEPT !.freep = base, !.ptr[base] = base] ELSE h

Fits(h, prevp, nunits) == h.size[h.ptr[prevp]] >= nunits

(* The walk from freep to the block before one that fits; or all the way    *)
(* round.                                                                   *)
Search(h, nunits) ==
  Walk(h, h.freep, {q \in Addr : Fits(h, q, nunits) \/ h.ptr[q] = h.freep})

(* morecore(): the new block goes to the list by way of free(). *)
morecore(h, nunits) == Free([h EXCEPT !.size[brk] = Units(nunits)], brk)

Give(t, n) == Set(t.h) /\ live' = [b \in DOMAIN live \cup {t.at} |-> IF b = t.at THEN n ELSE live[b]]

(* malloc() of n bytes, given the list and the end of the first walk.  When *)
(* the int passed to sbrk() is not the number of bytes wanted, sbrk() may   *)
(* succeed without them: the new block's header, or the block, is then      *)
(* outside the heap, and what the program does is not followed further.     *)
malloc_from(h, prevp, n) ==
  LET nunits == Nunits(n)
      want == brk + Units(nunits)
      end  == growproc(ToInt(Units(nunits) * HDR))
      more == morecore(h, nunits)
  IN \/ /\ Fits(h, prevp, nunits)
        /\ Give(Take(h, prevp, nunits), n)
        /\ UNCHANGED <<brk, adrift>>
     \/ /\ ~Fits(h, prevp, nunits) /\ end = want
        /\ Give(Take(more, Search(more, nunits), nunits), n)
        /\ brk' = end
        /\ UNCHANGED adrift
     \/ /\ ~Fits(h, prevp, nunits) /\ end = NULL       \* sbrk() fails
        /\ Set(h)
        /\ UNCHANGED <<brk, live, adrift>>
     \/ /\ ~Fits(h, prevp, nunits) /\ end \notin {want, NULL}
        /\ adrift' = n
        /\ UNCHANGED <<ptr, size, freep, brk, live>>

malloc ==
  /\ adrift = NULL
  /\ \E n \in Requests : malloc_from(Started(H), Search(Started(H), Nunits(n)), n)
  /\ UNCHANGED foreign

(* The program calls sbrk(), for a unit: the heap is not contiguous any     *)
(* more.                                                                    *)
sbrk ==
  /\ adrift = NULL
  /\ growproc(HDR) # NULL
  /\ brk' = growproc(HDR) /\ foreign' = foreign \cup {brk}
  /\ UNCHANGED <<ptr, size, freep, live, adrift>>

HeapNext == malloc \/ free \/ sbrk
-----------------------------------------------------------------------------
Block(b) == b .. b + size[b] - 1
FreeList ==
  LET nth[k \in 0 .. HEAP] == IF k = 0 THEN freep ELSE ptr[nth[k - 1]]
  IN IF freep = NULL THEN {} ELSE {nth[k] : k \in 0 .. HEAP}
FreeBlocks == FreeList \ {base}

(* Every unit that sbrk() gave is in one block, of the free list or of the  *)
(* program, or the program's own: none is lost, none handed out twice; and  *)
(* a block of the program has the bytes of its request behind its header.   *)
EveryUnitOnce ==
  LET blocks == FreeBlocks \cup DOMAIN live
      units(b) == size[b]
  IN /\ FreeBlocks \cap DOMAIN live = {}
     /\ UNION {Block(b) : b \in blocks} \cup foreign = 1 .. brk - 1
     /\ MapThenSumSet(units, blocks) + Cardinality(foreign) = brk - 1
     /\ \A b \in DOMAIN live : (size[b] - 1) * HDR >= live[b]

(* The list goes up in addresses and wraps once, which free() relies on to  *)
(* find the place of a block, and no two free blocks lie side by side: what *)
(* was split by malloc() is joined again, in whatever order it is freed.    *)
ListJoined ==
  /\ Cardinality({p \in FreeList : ptr[p] <= p}) <= 1
  /\ \A b, c \in FreeBlocks : b + size[b] # c

(* morecore() takes what sbrk() did for what it asked only when the block,  *)
(* header included, is of more bytes than an int can say: for every         *)
(* smaller request malloc() gives a block or returns 0.                     *)
AskedInInt == adrift # NULL => Nunits(adrift) * HDR >= INT \div 2
=============================================================================
