------------------------------- MODULE Blocks -------------------------------
(***************************************************************************)
(* Disk blocks and file contents: the image that mkfs/mkfs.c makes, and    *)
(* balloc, bfree, bmap, itrunc, readi and writei of kernel/fs.c under the  *)
(* read and write loops of kernel/file.c.                                  *)
(*                                                                         *)
(* A step is one transaction (begin_op to end_op) or one read: it holds    *)
(* the inode's lock throughout, and of what it shares with the others it   *)
(* changes the bitmap only, under the bitmap buffer's lock.  Blocks are    *)
(* those of the buffer cache; module Log makes them durable.               *)
(***************************************************************************)
EXTENDS Integers, Sequences, FiniteSets, FiniteSetsExt, SequencesExt

CONSTANTS
  Procs,
  Bytes,                  \* what programs write; 0 is what bzero() does
  BSIZE, NDIRECT, NINDIRECT, MAXOPBLOCKS,
  FSSIZE, NLOG, NINODES, IPB, BPB,
  Given,                  \* sizes of the files mkfs is given
  Writes,                 \* bound: file, byte and length of the write() calls
  Reads                   \* bound: file and length of the read() calls

ASSUME BlocksAssumption ==
  /\ {BSIZE, NDIRECT, NINDIRECT, NLOG, IPB, BPB} \subseteq Nat \ {0}
  /\ FSSIZE \in 0 .. BPB - 1 /\ NINODES \in Nat /\ MAXOPBLOCKS \in Nat
  /\ Given \in Seq(Nat) /\ Len(Given) < NINODES - 1
  /\ Bytes \subseteq Nat \ {0} /\ Reads \subseteq Nat \X Nat
  /\ Writes \subseteq Nat \X Bytes \X Nat

ROOTINO == 1
Inums   == 1 .. NINODES - 1
Opened  == Inums \ {ROOTINO}   \* the files that programs read and write
MAXFILE == NDIRECT + NINDIRECT
Word    == 4 * MAXFILE * BSIZE   \* uint: wraps here

(* The layout of mkfs: boot, super block, log, inodes, bitmap, data. *)
nbitmap      == FSSIZE \div BPB + 1
ninodeblocks == NINODES \div IPB + 1
logstart     == 2
inodestart   == 2 + NLOG
bmapstart    == 2 + NLOG + ninodeblocks
nmeta        == 2 + NLOG + ninodeblocks + nbitmap

IBLOCK(i) == i \div IPB + inodestart
BBLOCK(b) == b \div BPB + bmapstart

Disk    == 0 .. FSSIZE - 1
Data    == nmeta .. FSSIZE - 1
Content == [0 .. BSIZE - 1 -> Bytes \cup {0}]
Ptrs    == [0 .. NINDIRECT - 1 -> Disk]
Dinode  == [addrs : [0 .. NDIRECT -> Disk], size : 0 .. Word - 1]

NoData == [k \in 0 .. BSIZE - 1 |-> 0]
NoPtrs == [k \in 0 .. NINDIRECT - 1 |-> 0]
OldData == [k \in 0 .. BSIZE - 1 |-> Max(Bytes)]
OldPtrs == [k \in 0 .. NINDIRECT - 1 |-> FSSIZE - 1]
NoInode == [addrs |-> [k \in 0 .. NDIRECT |-> 0], size |-> 0]

VARIABLES
  fs,      \* the cached file system: bitmap, block contents as bytes and as
           \* block numbers, in-memory inodes, and whether fs.c has panicked
  dinode,  \* the inodes in their blocks
  off,     \* f->off of the open file on each inode, which processes share
  call     \* filewrite() of each process: what is left of it

vars == <<fs, dinode, off, call>>

Idle == [f |-> ROOTINO, left |-> 0, v |-> 0]

(* The layout, the dinodes and the calls of fs.c: no size, offset or count *)
(* leaves its range, whatever writei() and readi() are asked for.          *)
TypeOK ==
  /\ fs \in [used : SUBSET Disk, data : [Data -> Content], ptrs : [Data -> Ptrs],
             inode : [Inums -> Dinode], panic : BOOLEAN]
  /\ dinode \in [Inums -> Dinode]
  /\ off \in [Inums -> 0 .. Word - 1]
  /\ call \in [Procs -> [f : Inums, left : 0 .. Max({w[3] : w \in Writes}), v : Bytes \cup {0}]]
-----------------------------------------------------------------------------
(* A file system in the middle of a call: fs with the blocks it logged, and *)
(* addr, the block that was found or made for it (0: none).                 *)

Busy(s)  == [used |-> s.used, data |-> s.data, ptrs |-> s.ptrs, inode |-> s.inode,
             panic |-> s.panic, log |-> {}, addr |-> 0]
Quiet(s) == [used |-> s.used, data |-> s.data, ptrs |-> s.ptrs, inode |-> s.inode,
             panic |-> s.panic]

Log(s, b) == [s EXCEPT !.log = @ \cup {b}]

(* Mark the first free block and zero it. *)
balloc(s) ==
  LET free == Disk \ s.used
      b == Min(free)
  IN IF free = {} THEN [s EXCEPT !.addr = 0]
     ELSE [s EXCEPT !.used = @ \cup {b}, !.data[b] = NoData, !.ptrs[b] = NoPtrs,
                    !.log = @ \cup {BBLOCK(b), b}, !.addr = b]

(* What a free block still holds is not kept apart: it is some old content. *)
bfree(s, b) ==
  IF b \notin s.used THEN [s EXCEPT !.panic = TRUE]
  ELSE [s EXCEPT !.used = @ \ {b}, !.data[b] = OldData, !.ptrs[b] = OldPtrs,
                 !.log = @ \cup {BBLOCK(b)}]

(* The block at index k of ip->addrs, made if there is none. *)
Direct(s, i, k) ==
  IF s.inode[i].addrs[k] # 0 THEN [s EXCEPT !.addr = s.inode[i].addrs[k]]
  ELSE LET r == balloc(s)
       IN IF r.addr = 0 THEN r ELSE [r EXCEPT !.inode[i].addrs[k] = r.addr]

(* The block at index k of the indirect block a. *)
Indirect(s, a, k) ==
  IF s.ptrs[a][k] # 0 THEN [s EXCEPT !.addr = s.ptrs[a][k]]
  ELSE LET r == balloc(s)
       IN IF r.addr = 0 THEN r ELSE Log([r EXCEPT !.ptrs[a][k] = r.addr], a)

bmap(s, i, bn) ==
  IF bn < NDIRECT THEN Direct(s, i, bn)
  ELSE IF bn >= MAXFILE THEN [s EXCEPT !.panic = TRUE, !.addr = 0]
  ELSE LET r == Direct(s, i, NDIRECT)
       IN IF r.addr = 0 THEN r ELSE Indirect(r, r.addr, bn - NDIRECT)

(* One of the loops of itrunc(): free the blocks that as names. *)
FreeAll(s, as) == FoldLeft(LAMBDA t, b : IF b = 0 \/ t.panic THEN t ELSE bfree(t, b), s, as)

(* The block numbers in the first n places of f. *)
Addrs(f, n) == [k \in 1 .. n |-> f[k - 1]]

(* Mutant: the indirect block itself is not freed. *)
itrunc_keep(s, i) ==
  LET a   == s.inode[i].addrs
      ind == a[NDIRECT]
      r   == FreeAll(s, Addrs(a, NDIRECT) \o (IF ind = 0 THEN <<>> ELSE Addrs(s.ptrs[ind], NINDIRECT)))
  IN Log([r EXCEPT !.inode[i] = NoInode], IBLOCK(i))

(* Free every block of the file, the indirect block last. *)
itrunc(s, i) ==
  LET a   == s.inode[i].addrs
      ind == a[NDIRECT]
      low == IF ind = 0 THEN <<>> ELSE Append(Addrs(s.ptrs[ind], NINDIRECT), ind)
      r   == FreeAll(s, Addrs(a, NDIRECT) \o low)
  IN IF r.panic THEN r ELSE Log([r EXCEPT !.inode[i] = NoInode], IBLOCK(i))

(* The blocks of a file that n bytes at o are in, in order. *)
Span(o, n) == [k \in 1 .. (o + n - 1) \div BSIZE - o \div BSIZE + 1 |-> o \div BSIZE + k - 1]

(* Mutant: from the start of the block. *)
Piece_start(bn, lo, hi) == {k \in 0 .. BSIZE - 1 : k < hi - Max({lo, bn * BSIZE})}

(* The bytes from lo up to hi of the file that are in its block bn, as     *)
(* positions in that block.                                                *)
Piece(bn, lo, hi) == {k \in 0 .. BSIZE - 1 : lo <= bn * BSIZE + k /\ bn * BSIZE + k < hi}

Fill(s, b, ks, v) == [s EXCEPT !.data[b] = [k \in 0 .. BSIZE - 1 |-> IF k \in ks THEN v ELSE @[k]]]

(* One turn of writei's loop: n bytes v at o, of which the caller's buffer  *)
(* has good.  A buffer that ends inside the piece leaves the cached block   *)
(* changed up to there and not logged.  w adds off, and whether to go on.   *)
WriteBlock(w, i, v, bn, hi, good) ==
  LET s == bmap(w.s, i, bn)
      end == Min({hi, (bn + 1) * BSIZE})
  IN IF ~w.go THEN w
     ELSE IF s.addr = 0 THEN [w EXCEPT !.s = s, !.go = FALSE]
     ELSE IF end > good THEN [w EXCEPT !.s = Fill(s, s.addr, Piece(bn, w.off, good), v), !.go = FALSE]
     ELSE [s |-> Log(Fill(s, s.addr, Piece(bn, w.off, end), v), s.addr), off |-> end, go |-> TRUE]

(* writei(): [s, off] after it; the offset as it was stands for -1 and 0. *)
writei(s, i, v, o, n, good) ==
  LET w == FoldLeft(LAMBDA x, bn : WriteBlock(x, i, v, bn, o + n, o + good),
                    [s |-> s, off |-> o, go |-> TRUE], Span(o, n))
      size == Max({s.inode[i].size, w.off})
      sum  == (o + n) % Word
  IN IF o > s.inode[i].size \/ sum < o \/ sum > MAXFILE * BSIZE THEN [s |-> s, off |-> o]
     ELSE IF w.s.panic THEN [s |-> w.s, off |-> o]
     ELSE [s |-> Log([w.s EXCEPT !.inode[i].size = size], IBLOCK(i)), off |-> w.off]

(* readi(): the bytes, and none for a failure.  bmap() finds the block, or  *)
(* makes a zeroed one where the file has a hole.                            *)
ReadLen(s, i, o, n) ==
  LET size == s.inode[i].size
      sum == (o + n) % Word
  IN IF o > size \/ sum < o THEN 0 ELSE IF sum > size THEN size - o ELSE n

ReadByte(s, i, o) ==
  LET t == bmap(s, i, o \div BSIZE)
  IN IF t.addr = 0 THEN 0 ELSE t.data[t.addr][o % BSIZE]

readi(s, i, o, n) == [k \in 1 .. ReadLen(s, i, o, n) |-> ReadByte(s, i, o + k - 1)]

(* All the bytes of a file. *)
Bytesof(s, i) == readi(Busy(s), i, 0, s.inode[i].size)
-----------------------------------------------------------------------------
(* mkfs: an image is the file system with freeblock, the next block to use. *)

(* One turn of iappend's loop: the block for fbn, made at freeblock when    *)
(* there is none, gets its piece of n bytes v at o.                         *)
AppendBlock(im, i, v, fbn, o, n) ==
  LET at(k) == im.inode[i].addrs[k]
      top  == IF fbn < NDIRECT THEN fbn ELSE NDIRECT
      im1  == IF at(top) # 0 THEN im
              ELSE [im EXCEPT !.inode[i].addrs[top] = im.freeblock, !.freeblock = @ + 1]
      a    == im1.inode[i].addrs[top]
      im2  == IF fbn < NDIRECT \/ im1.ptrs[a][fbn - NDIRECT] # 0 THEN im1
              ELSE [im1 EXCEPT !.ptrs[a][fbn - NDIRECT] = im1.freeblock, !.freeblock = @ + 1]
      x    == IF fbn < NDIRECT THEN a ELSE im2.ptrs[a][fbn - NDIRECT]
  IN Fill(im2, x, Piece(fbn, o, o + n), v)

iappend(im, i, v, n) ==
  LET o == im.inode[i].size
      r == FoldLeft(LAMBDA x, fbn : AppendBlock(x, i, v, fbn, o, n), im, Span(o, n))
  IN [r EXCEPT !.inode[i].size = o + n]

(* A directory entry is one byte here; a file is read BSIZE bytes at a time. *)
Dirent(im) == iappend(im, ROOTINO, Min(Bytes), 1)

AddFile(im, i) ==
  LET n == Given[i - 1]
  IN FoldLeft(LAMBDA x, k : iappend(x, i, Max(Bytes), Min({BSIZE, n - k * BSIZE})), Dirent(im),
              [k \in 1 .. (n + BSIZE - 1) \div BSIZE |-> k - 1])

(* The root directory's size is rounded up, and the bitmap marks the first  *)
(* freeblock blocks.                                                        *)
RootSize(size) == (size \div BSIZE + 1) * BSIZE

mkfs ==
  LET im0 == [freeblock |-> nmeta, data |-> [b \in Data |-> NoData],
              ptrs |-> [b \in Data |-> NoPtrs], inode |-> [i \in Inums |-> NoInode]]
      im  == FoldLeft(AddFile, Dirent(Dirent(im0)), [k \in 1 .. Len(Given) |-> k + 1])
  IN [used  |-> 0 .. im.freeblock - 1, data |-> im.data, ptrs |-> im.ptrs, panic |-> FALSE,
      inode |-> [im.inode EXCEPT ![ROOTINO].size = RootSize(@)]]
-----------------------------------------------------------------------------
Init ==
  /\ fs = mkfs
  /\ dinode = mkfs.inode
  /\ off = [i \in Inums |-> 0]
  /\ call = [p \in Procs |-> Idle]

(* The end of a transaction on inode i, which iupdate() has written. *)
Commit(s, i) ==
  /\ fs' = Quiet(s)
  /\ dinode' = IF IBLOCK(i) \in s.log THEN [dinode EXCEPT ![i] = s.inode[i]] ELSE dinode

(* Mutant: one transaction for the whole write. *)
max_file == MAXFILE * BSIZE

(* The largest part of a write that one transaction takes. *)
max == ((MAXOPBLOCKS - 1 - 1 - 2) \div 2) * BSIZE

(* One turn of filewrite's loop, in a transaction of its own, with left     *)
(* bytes to go; the caller's buffer may turn out to end after good bytes.   *)
Chunk(p, f, left, v) ==
  LET n1 == Min({max, left})
  IN \E good \in n1 - 1 .. n1 :
       LET w == writei(Busy(fs), f, v, off[f], n1, good)
       IN /\ Commit(w.s, f)
          /\ off' = [off EXCEPT ![f] = w.off]
          /\ call' = [call EXCEPT ![p] =
                        IF w.off = off[f] + n1 /\ left > n1 THEN [f |-> f, left |-> left - n1, v |-> v]
                        ELSE Idle]

filewrite(p) ==
  /\ call[p] = Idle
  /\ \E w \in Writes : Chunk(p, w[1], w[3], w[2])

filewrite_more(p) ==
  /\ call[p] # Idle
  /\ Chunk(p, call[p].f, call[p].left, call[p].v)

(* A negative length is a large unsigned one; a bad buffer reads nothing. *)
fileread ==
  /\ \E r \in Reads : off' = [off EXCEPT ![r[1]] = @ + Len(readi(Busy(fs), r[1], @, r[2]))]
  /\ UNCHANGED <<fs, dinode, call>>

(* sys_open() of the file: an open file at 0 (new), or one beside ours;     *)
(* with O_TRUNC it empties the file.                                        *)
open(f, new, trunc) ==
  /\ off' = IF new THEN [off EXCEPT ![f] = 0] ELSE off
  /\ Commit(IF trunc THEN itrunc(Busy(fs), f) ELSE Busy(fs), f)
  /\ UNCHANGED call

Next ==
  \/ \E p \in Procs : ~fs.panic /\ (filewrite(p) \/ filewrite_more(p))
  \/ /\ ~fs.panic /\ Idle \in {call[p] : p \in Procs}
     /\ \/ fileread
        \/ \E f \in Opened, new, trunc \in BOOLEAN : (new \/ trunc) /\ open(f, new, trunc)

Spec == Init /\ [][Next]_vars
-----------------------------------------------------------------------------
(* The blocks that the inode maps, by where it names them. *)
Named(s, i) ==
  LET a == s.inode[i].addrs
  IN {<<i, k, a[k]>> : k \in {k \in 0 .. NDIRECT : a[k] # 0}}
       \cup (IF a[NDIRECT] = 0 THEN {}
             ELSE {<<i, NDIRECT + 1 + k, s.ptrs[a[NDIRECT]][k]>> :
                     k \in {k \in 0 .. NINDIRECT - 1 : s.ptrs[a[NDIRECT]][k] # 0}})

(* The bitmap is exact (balloc, bfree, and mkfs's first image): a block is  *)
(* marked when it is of the layout or some inode names it, it is named in   *)
(* one place only, and no inode names a block of the layout.                *)
BlocksOwned ==
  LET named == UNION {Named(fs, i) : i \in Inums}
      blocks == {t[3] : t \in named}
  IN /\ Cardinality(blocks) = Cardinality(named)
     /\ blocks \cap 0 .. nmeta - 1 = {}
     /\ fs.used = 0 .. nmeta - 1 \cup blocks

(* A file has a block for each byte below its size, whichever call of       *)
(* writei() failed at which block: so bmap() never allocates for readi(),   *)
(* which may run outside a transaction.                                     *)
NoHoles ==
  \A i \in Inums : \A bn \in 0 .. (fs.inode[i].size + BSIZE - 1) \div BSIZE - 1 :
    LET s == bmap(Busy(fs), i, bn) IN s.addr # 0 /\ s.log = {}

(* The inode on disk is the one in memory when its lock is free: bmap() may *)
(* have changed addrs where writei() left size alone.                       *)
InodeWritten == dinode = fs.inode

(* No transaction of filewrite() or open() writes more blocks than          *)
(* begin_op() reserved for it, wherever the file's offset stands and        *)
(* whatever blocks it has already.                                          *)
OpFits ==
  \A f \in Opened : LET s == Busy(fs) IN
    /\ Cardinality(itrunc(s, f).log) <= MAXOPBLOCKS
    /\ Cardinality(writei(s, f, Min(Bytes), off[f], max, max).s.log) <= MAXOPBLOCKS

(* mkfs lays out disjoint regions that are large enough: the log, a block   *)
(* for every inode, and one for every bit of the map; and the bitmap never  *)
(* has a block of them free, to be given to a file.                         *)
LayoutDisjoint ==
  LET log == logstart .. logstart + NLOG - 1
      inodes == {IBLOCK(i) : i \in 0 .. NINODES - 1}
      bits == {BBLOCK(b) : b \in Disk}
  IN /\ log \cap inodes = {} /\ log \cap bits = {} /\ inodes \cap bits = {}
     /\ log \cup inodes \cup bits \subseteq fs.used \ ({0, 1} \cup Data)

(* The file system is consistent after every transaction, of writei() or    *)
(* itrunc(), complete or cut short: the regions of mkfs are apart, each     *)
(* block has one owner, files have no holes, and inodes are on disk; so     *)
(* bfree() does not panic at a free block, nor bmap() at one out of range.  *)
Consistent == TypeOK /\ ~fs.panic /\ LayoutDisjoint /\ BlocksOwned /\ NoHoles /\ InodeWritten
=============================================================================
