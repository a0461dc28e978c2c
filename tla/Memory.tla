------------------------------- MODULE Memory -------------------------------
(***************************************************************************)
(* Memory: the page allocator kernel/kalloc.c, the user page tables of     *)
(* kernel/vm.c, and the calls that make, copy, resize and replace them:    *)
(* fork(), growproc(), exec() and the freeproc() of a child.               *)
(*                                                                         *)
(* Only the free list is shared, and kalloc() and kfree() are atomic on    *)
(* it, so a step is a whole call; what others hold decides at which of its *)
(* kalloc()s it runs out.                                                  *)
(***************************************************************************)
EXTENDS Integers, Sequences, FiniteSets, FiniteSetsExt, SequencesExt

CONSTANTS
  Procs, First,
  PHYS,        \* pages of memory
  PGSIZE, VPAGES, PERTABLE,   \* bytes of a page, user pages, entries of a table
  USERSTACK, MAXARG,
  Execs,       \* bound: files and argument vectors that exec() may be given
  Deltas,      \* bound: arguments of sbrk()
  Copies,      \* bound: address and length of what copyout() is asked to copy
  Bytes        \* what it copies

ASSUME MemoryAssumption ==
  /\ First \in Procs
  /\ {PGSIZE, PERTABLE, VPAGES, USERSTACK, MAXARG} \subseteq Nat \ {0} /\ PHYS \in Nat
  /\ Deltas \subseteq Int /\ Copies \subseteq Nat \X Nat /\ Bytes \subseteq Nat \ {0}
  /\ VPAGES >= PHYS - 6   \* memory runs out before the addresses below TRAPFRAME do

Pages  == 1 .. PHYS
NoPage == 0
Word   == 8 * VPAGES * PGSIZE    \* uint64: wraps here

TRAPFRAME  == VPAGES
TRAMPOLINE == VPAGES + 1
VPs        == 0 .. TRAMPOLINE
HIGH       == VPAGES             \* the tables of those two

(* The page-table page of level 1 or 0 on the way to vp; the root is the    *)
(* one of level 2.                                                          *)
Table(level, vp) ==
  <<level, IF vp >= VPAGES THEN HIGH ELSE vp \div (IF level = 1 THEN PERTABLE * PERTABLE ELSE PERTABLE)>>
Tables == {Table(level, vp) : level \in {0, 1}, vp \in VPs}

New    == "new"                  \* the page table that exec() is building
Spaces == Procs \cup {New}

Pte    == [v : BOOLEAN, pa : 0 .. PHYS, w : BOOLEAN, u : BOOLEAN]
NoPte  == [v |-> FALSE, pa |-> NoPage, w |-> FALSE, u |-> FALSE]
NoPt   == [root |-> NoPage, tbl |-> [t \in Tables |-> NoPage], pte |-> [vp \in VPs |-> NoPte]]

Zeros == [k \in 0 .. PGSIZE - 1 |-> 0]
Junk  == [k \in 0 .. PGSIZE - 1 |-> -1]

PGROUNDUP(sz) == ((sz + PGSIZE - 1) \div PGSIZE) * PGSIZE
NPages(sz)    == (sz + PGSIZE - 1) \div PGSIZE

VARIABLES
  m,          \* memory: free list, contents, page tables
  sz,         \* p->sz
  trapframe   \* p->trapframe, and with it whether the process exists

vars == <<m, sz, trapframe>>

(* Page tables, sizes and trap frames; sz stays below the trap frame,       *)
(* whatever growproc() and exec() are asked for.                            *)
TypeOK ==
  /\ m.free \subseteq Pages
  /\ m.mem \in [Pages -> [0 .. PGSIZE - 1 -> Bytes \cup {0, -1}]]
  /\ m.pt \in [Spaces -> [root : 0 .. PHYS, tbl : [Tables -> 0 .. PHYS], pte : [VPs -> Pte]]]
  /\ sz \in [Procs -> 0 .. VPAGES * PGSIZE]
  /\ trapframe \in [Procs -> 0 .. PHYS]
-----------------------------------------------------------------------------
(* Memory in the middle of a call has got, the page of the last kalloc() or *)
(* walk(), and whether the call goes well; panic stays.                     *)

Got(s, pa) == [s EXCEPT !.got = pa, !.ok = pa # NoPage]
PanicIf(s, bad) == [s EXCEPT !.panic = @ \/ bad]

kalloc(s) ==
  IF s.free = {} THEN Got(s, NoPage)
  ELSE LET pa == Min(s.free)
       IN Got([s EXCEPT !.free = @ \ {pa}, !.mem[pa] = Junk], pa)

kfree(s, pa) ==
  IF pa \in Pages THEN [s EXCEPT !.free = @ \cup {pa}, !.mem[pa] = Junk] ELSE PanicIf(s, TRUE)

(* walk(alloc = 1): the tables on the way to vp, each made if there is      *)
(* none; the first stays when there is no page for the second.              *)
NewTable(s, q, t) == IF s.ok THEN [s EXCEPT !.pt[q].tbl[t] = s.got] ELSE s

WalkLevel(s, q, t) ==
  IF ~s.ok THEN s
  ELSE IF s.pt[q].tbl[t] # NoPage THEN Got(s, s.pt[q].tbl[t])
  ELSE NewTable(kalloc(s), q, t)

walk(s, q, vp) == WalkLevel(WalkLevel(s, q, Table(1, vp)), q, Table(0, vp))

SetPte(s, q, vp, e) ==
  IF s.ok THEN [PanicIf(s, s.pt[q].pte[vp].v) EXCEPT !.pt[q].pte[vp] = e] ELSE s

mappages(s, q, vp, pa, w, u) ==
  SetPte(walk(s, q, vp), q, vp, [v |-> TRUE, pa |-> pa, w |-> w, u |-> u])

UnmapPage(s, q, vp, do_free) ==
  IF vp \notin VPs \/ ~s.pt[q].pte[vp].v THEN PanicIf(s, TRUE)
  ELSE [(IF do_free THEN kfree(s, s.pt[q].pte[vp].pa) ELSE s) EXCEPT !.pt[q].pte[vp] = NoPte]

(* n pages from vp on. *)
uvmunmap(s, q, vp, n, do_free) ==
  FoldLeft(LAMBDA t, k : UnmapPage(t, q, vp + k - 1, do_free), s, [k \in 1 .. n |-> k])

NewRoot(s, q) == IF s.ok THEN [s EXCEPT !.pt[q].root = s.got] ELSE s

uvmcreate(s, q) == NewRoot(kalloc(s), q)

(* [s, sz]: memory and the new size after it. *)
uvmdealloc(s, q, oldsz, newsz) ==
  IF newsz >= oldsz THEN [s |-> s, sz |-> oldsz]
  ELSE [s |-> uvmunmap(s, q, NPages(newsz), NPages(oldsz) - NPages(newsz), TRUE), sz |-> newsz]

(* A page that a loop got from kalloc(), filled and mapped at vp.  When     *)
(* there is none, or no table for it, the pages mapped from first on go.    *)
Unwind(s, q, first, vp) == [uvmunmap(s, q, first, vp - first, TRUE) EXCEPT !.ok = FALSE]

(* Mutant: the page that found no table is forgotten. *)
Keep_leak(s, q, first, vp, pa) == IF s.ok THEN s ELSE Unwind(s, q, first, vp)

Keep(s, q, first, vp, pa) == IF s.ok THEN s ELSE Unwind(kfree(s, pa), q, first, vp)

Fill(s, q, first, vp, content, w, u) ==
  IF s.ok THEN Keep(mappages([s EXCEPT !.mem[s.got] = content], q, vp, s.got, w, u), q, first, vp, s.got)
  ELSE Unwind(s, q, first, vp)

(* Mutant: new pages are not zeroed. *)
AllocPage_junk(s, q, first, vp, w) ==
  IF s.ok THEN Fill(kalloc(s), q, first, vp, Junk, w, TRUE) ELSE s

AllocPage(s, q, first, vp, w) == IF s.ok THEN Fill(kalloc(s), q, first, vp, Zeros, w, TRUE) ELSE s

(* Its answer 0, which stands for failure, is ok = FALSE here; the one      *)
(* other call that would answer 0 asks for 0 bytes, and fails likewise.     *)
uvmalloc(s, q, oldsz, newsz, w) ==
  IF newsz < oldsz THEN [s |-> s, sz |-> oldsz]
  ELSE [s |-> FoldLeft(LAMBDA t, k : AllocPage(t, q, NPages(oldsz), NPages(oldsz) + k - 1, w),
                       [s EXCEPT !.ok = newsz > 0],
                       [k \in 1 .. NPages(newsz) - NPages(oldsz) |-> k]),
        sz |-> newsz]

(* All leaf mappings must be gone. *)
freewalk(s, q) ==
  [FoldSet(LAMBDA pa, x : kfree(x, pa), PanicIf(s, \E vp \in VPs : s.pt[q].pte[vp].v),
           ({s.pt[q].tbl[k] : k \in Tables} \cup {s.pt[q].root}) \ {NoPage})
     EXCEPT !.pt[q] = NoPt]

uvmfree(s, q, size) == freewalk(uvmunmap(s, q, 0, NPages(size), TRUE), q)

(* One page of uvmcopy(). *)
CopyPage(s, new, vp, e) ==
  IF ~s.ok THEN s
  ELSE IF ~e.v THEN [PanicIf(s, TRUE) EXCEPT !.ok = FALSE]
  ELSE Fill(kalloc(s), new, 0, vp, s.mem[e.pa], e.w, e.u)

uvmcopy(s, old, new, size) ==
  FoldLeft(LAMBDA t, k : CopyPage(t, new, k - 1, t.pt[old].pte[k - 1]), [s EXCEPT !.ok = TRUE],
           [k \in 1 .. NPages(size) |-> k])

uvmclear(s, q, vp) == [s EXCEPT !.pt[q].pte[vp].u = FALSE]
-----------------------------------------------------------------------------
(* Page tables of processes (kernel/proc.c). *)

Fail(s) == [s EXCEPT !.ok = FALSE]

WithTrapframe(s, q) == IF s.ok THEN s ELSE Fail(uvmfree(uvmunmap(s, q, TRAMPOLINE, 1, FALSE), q, 0))

WithTrampoline(s, q, tf) ==
  IF s.ok THEN WithTrapframe(mappages(s, q, TRAPFRAME, tf, TRUE, FALSE), q) ELSE Fail(uvmfree(s, q, 0))

WithRoot(s, q, tf) ==
  IF s.ok THEN WithTrampoline(mappages(s, q, TRAMPOLINE, NoPage, FALSE, FALSE), q, tf) ELSE s

proc_pagetable(s, q, tf) == WithRoot(uvmcreate(s, q), q, tf)

proc_freepagetable(s, q, size) ==
  uvmfree(uvmunmap(uvmunmap(s, q, TRAMPOLINE, 1, FALSE), q, TRAPFRAME, 1, FALSE), q, size)

FreeTable(s, q, size) == IF s.pt[q].root # NoPage THEN proc_freepagetable(s, q, size) ELSE s

freeproc(s, p, tf, size) == FreeTable(IF tf # NoPage THEN kfree(s, tf) ELSE s, p, size)

Busy(s)  == [free |-> s.free, mem |-> s.mem, pt |-> s.pt, panic |-> s.panic, got |-> NoPage, ok |-> TRUE]
Quiet(s) == [free |-> s.free, mem |-> s.mem, pt |-> s.pt, panic |-> s.panic]

(* A process that has nothing, with its new trapframe and page table. *)
WithTable(s, p, tf) ==
  IF s.ok THEN [s |-> s, tf |-> tf] ELSE [s |-> Fail(freeproc(s, p, tf, 0)), tf |-> NoPage]

WithFrame(s, p) ==
  IF s.ok THEN WithTable(proc_pagetable(s, p, s.got), p, s.got) ELSE [s |-> s, tf |-> NoPage]

allocproc(s, p) == WithFrame(kalloc(s), p)

(* userinit(): a process of one page. *)
FirstPage(s) == mappages([s EXCEPT !.mem[s.got] = Zeros], First, 0, s.got, TRUE, TRUE)

Boot == allocproc(Busy([free |-> Pages, mem |-> [pa \in Pages |-> Junk],
                        pt |-> [q \in Spaces |-> NoPt], panic |-> FALSE]), First)

Init ==
  /\ m = Quiet(FirstPage(kalloc(Boot.s)))
  /\ trapframe = [p \in Procs |-> IF p = First THEN Boot.tf ELSE NoPage]
  /\ sz = [p \in Procs |-> IF p = First THEN PGSIZE ELSE 0]

Exists(p) == trapframe[p] # NoPage

(* A process without memory can only fault, and exit. *)
Runs(p) == Exists(p) /\ sz[p] > 0

(* sys_sbrk() *)
Resized(p, r) ==
  /\ m' = Quiet(r.s)
  /\ sz' = IF r.s.ok THEN [sz EXCEPT ![p] = r.sz] ELSE sz
  /\ UNCHANGED trapframe

growproc(p, n) ==
  LET newsz == (sz[p] + n) % Word
  IN /\ Runs(p)
     /\ p = First => newsz > 0        \* init does not give all its memory up
     /\ \/ n > 0 /\ Resized(p, uvmalloc(Busy(m), p, sz[p], newsz, TRUE))
        \/ n < 0 /\ Resized(p, uvmdealloc(Busy(m), p, sz[p], newsz))

Copied(p, c, s, tf) ==
  /\ m' = Quiet(IF s.ok THEN s ELSE freeproc(s, c, tf, 0))
  /\ sz' = [sz EXCEPT ![c] = IF s.ok THEN sz[p] ELSE 0]
  /\ trapframe' = [trapframe EXCEPT ![c] = IF s.ok THEN tf ELSE NoPage]

Forked(p, c, a) ==
  \/ a.s.ok /\ Copied(p, c, uvmcopy(a.s, p, c, sz[p]), a.tf)
  \/ ~a.s.ok /\ m' = Quiet(a.s) /\ UNCHANGED <<sz, trapframe>>

fork(p, c) == Runs(p) /\ ~Exists(c) /\ Forked(p, c, allocproc(Busy(m), c))

(* exit(), and the parent's wait() with its freeproc(). *)
exit(p) ==
  /\ Exists(p) /\ p # First
  /\ m' = Quiet(freeproc(Busy(m), p, trapframe[p], sz[p]))
  /\ sz' = [sz EXCEPT ![p] = 0]
  /\ trapframe' = [trapframe EXCEPT ![p] = NoPage]
-----------------------------------------------------------------------------
(* copyout() of n bytes v to va: page by page, up to one that is not the    *)
(* user's to write.                                                         *)
OutPage(s, va, hi, vp, v, e) ==
  IF ~s.ok THEN s
  ELSE IF ~(e.v /\ e.u /\ e.w) THEN Fail(s)
  ELSE [s EXCEPT !.mem[e.pa] =
          [k \in DOMAIN @ |-> IF va <= vp * PGSIZE + k /\ vp * PGSIZE + k < hi THEN v ELSE @[k]]]

(* The pages that n bytes at va are in. *)
Span(va, n) == [k \in 1 .. (va + n - 1) \div PGSIZE - va \div PGSIZE + 1 |-> va \div PGSIZE + k - 1]

copyout(s, q, va, n, v) ==
  FoldLeft(LAMBDA t, vp : OutPage(t, va, va + n, vp, v, t.pt[q].pte[vp]), [s EXCEPT !.ok = TRUE], Span(va, n))

(* walkaddr(): the page that the user may read at vp. *)
walkaddr(s, q, vp) == IF vp \in VPs /\ s.pt[q].pte[vp].u THEN s.pt[q].pte[vp].pa ELSE NoPage

(* Mutant: every page is read from its start. *)
InPage_start(s, q, va, hi, got, vp) ==
  LET pa == walkaddr(s, q, vp)
      n == Min({PGSIZE, hi - vp * PGSIZE})
  IN IF ~got.ok \/ pa = NoPage THEN [ok |-> FALSE, bytes |-> <<>>]
     ELSE [got EXCEPT !.bytes = @ \o [k \in 1 .. n |-> s.mem[pa][k - 1]]]

(* copyin(), one page after the other: the bytes, or not ok for -1. *)
InPage(s, q, va, hi, got, vp) ==
  LET pa == walkaddr(s, q, vp)
      lo == IF va > vp * PGSIZE THEN va - vp * PGSIZE ELSE 0
      n == Min({PGSIZE - lo, hi - (vp * PGSIZE + lo)})
  IN IF ~got.ok \/ pa = NoPage THEN [ok |-> FALSE, bytes |-> <<>>]
     ELSE [got EXCEPT !.bytes = @ \o [k \in 1 .. n |-> s.mem[pa][lo + k - 1]]]

copyin(s, q, va, n) ==
  FoldLeft(LAMBDA got, vp : InPage(s, q, va, va + n, got, vp), [ok |-> TRUE, bytes |-> <<>>], Span(va, n))

(* copyinstr() stops in the page that has a 0, or at max bytes. *)
copyinstr(s, q, va, max) ==
  LET Step(got, vp) ==
        IF \E k \in DOMAIN got.bytes : got.bytes[k] = 0 THEN got
        ELSE InPage(s, q, va, va + max, got, vp)
      got == FoldLeft(Step, [ok |-> TRUE, bytes |-> <<>>], Span(va, max))
      nul == {k \in DOMAIN got.bytes : got.bytes[k] = 0}
  IN IF nul = {} THEN [ok |-> FALSE, bytes |-> <<>>]
     ELSE [ok |-> TRUE, bytes |-> SubSeq(got.bytes, 1, Min(nul) - 1)]

(* A system call's answer, or the process's own store. *)
write(p) ==
  /\ Runs(p)
  /\ \E c \in Copies : m' = Quiet(copyout(Busy(m), p, c[1], c[2], Min(Bytes)))
  /\ UNCHANGED <<sz, trapframe>>
-----------------------------------------------------------------------------
(* A file is an executable, or none that exec() can read; an executable is  *)
(* its program headers: kind "load", "other" or one that cannot be read,    *)
(* address, sizes in memory and in the file, whether it is written to and   *)
(* whether reading the segment fails.                                       *)

(* loadseg(): the pages are there, since uvmalloc() made them. *)
LoadPage(s, seg, vp, pa, v) ==
  IF pa = NoPage THEN PanicIf(s, TRUE)
  ELSE [s EXCEPT !.mem[pa] = [k \in DOMAIN @ |-> IF vp * PGSIZE + k < seg.vaddr + seg.filesz THEN v ELSE @[k]]]

loadseg(s, q, seg, v) ==
  [FoldLeft(LAMBDA t, vp : LoadPage(t, seg, vp, walkaddr(t, q, vp), v), s, Span(seg.vaddr, seg.filesz))
     EXCEPT !.ok = ~seg.short]

(* One program header: x has the memory and the size so far. *)
Loaded(x, seg, a) ==
  IF a.s.ok THEN [s |-> loadseg(a.s, New, seg, Max(Bytes)), sz |-> a.sz] ELSE [x EXCEPT !.s = a.s]

Refused(seg) ==
  \/ seg.kind = "unreadable"
  \/ seg.memsz < seg.filesz
  \/ (seg.vaddr + seg.memsz) % Word < seg.vaddr
  \/ seg.vaddr % PGSIZE # 0

Header(x, seg) ==
  IF ~x.s.ok \/ seg.kind = "other" THEN x
  ELSE IF Refused(seg) THEN [x EXCEPT !.s = Fail(@)]
  ELSE Loaded(x, seg, uvmalloc(x.s, New, x.sz, seg.vaddr + seg.memsz, seg.w))

(* exec() up to its commit: the segments, a guard page and the stack, and   *)
(* the arguments from the top of the stack down.                            *)
Push(c, oldsz, args) ==
  IF ~c.s.ok THEN [s |-> c.s, sz |-> oldsz]
  ELSE IF args > USERSTACK * PGSIZE THEN [c EXCEPT !.s = Fail(@)]
  ELSE [c EXCEPT !.s = copyout(uvmclear(@, New, NPages(c.sz) - (USERSTACK + 1)),
                               New, c.sz - args, args, Min(Bytes))]

Stack(b, args) ==
  IF ~b.s.ok THEN b
  ELSE Push(uvmalloc(b.s, New, PGROUNDUP(b.sz), PGROUNDUP(b.sz) + (USERSTACK + 1) * PGSIZE, TRUE),
            PGROUNDUP(b.sz), args)

Image(s, segs, args) == Stack(FoldLeft(Header, [s |-> s, sz |-> 0], segs), args)

(* kfree() of the argument strings. *)
FreeArgv(s, argv) == FoldLeft(kfree, s, argv)

(* The commit, or bad: free what there is of the new page table.  Then the  *)
(* argument strings go, in either case.                                     *)
Replace(p, x, argv) ==
  \/ /\ x.s.ok
     /\ m' = Quiet(FreeArgv([proc_freepagetable(x.s, p, sz[p]) EXCEPT !.pt[p] = x.s.pt[New],
                                                                    !.pt[New] = NoPt], argv))
     /\ sz' = [sz EXCEPT ![p] = x.sz]
  \/ /\ ~x.s.ok
     /\ m' = Quiet(FreeArgv(FreeTable(x.s, New, x.sz), argv))
     /\ UNCHANGED sz

exec(p, s, argv, e) ==
  Replace(p, IF e.file.elf THEN Image(proc_pagetable(s, New, trapframe[p]), e.file.segs, e.bytes)
             ELSE [s |-> Fail(s), sz |-> 0],
          argv)

(* One turn of sys_exec()'s loop, the i-th, on what the user's array has    *)
(* there: "string", "null", a pointer to no string ("badstr"), or nothing   *)
(* that can be read ("badaddr").  a is the pages got so far and whether the *)
(* loop goes on, is done or is bad.                                         *)
Fetched(a, s, u) ==
  IF ~s.ok THEN [a EXCEPT !.s = s, !.loop = "bad"]
  ELSE [s |-> s, argv |-> Append(a.argv, s.got), loop |-> IF u = "badstr" THEN "bad" ELSE "on"]

FetchArg(a, i, u) ==
  IF a.loop # "on" THEN a
  ELSE IF i > MAXARG \/ u = "badaddr" THEN [a EXCEPT !.loop = "bad"]
  ELSE IF u = "null" THEN [a EXCEPT !.loop = "done"]
  ELSE Fetched(a, kalloc(a.s), u)

FetchArgv(s, uargv) ==
  FoldLeft(LAMBDA a, i : FetchArg(a, i, uargv[i]), [s |-> s, argv |-> <<>>, loop |-> "on"],
           [i \in DOMAIN uargv |-> i])

ExecWith(p, e, a) ==
  \/ a.loop = "done" /\ exec(p, a.s, a.argv, e)
  \/ a.loop = "bad" /\ m' = Quiet(FreeArgv(a.s, a.argv)) /\ UNCHANGED sz

sys_exec(p) ==
  /\ Runs(p)
  /\ \E e \in Execs : ExecWith(p, e, FetchArgv(Busy(m), e.uargv))
  /\ UNCHANGED trapframe

Next ==
  \E p \in Procs :
    \/ exit(p) \/ write(p) \/ sys_exec(p)
    \/ \E n \in Deltas : growproc(p, n)
    \/ \E c \in Procs : fork(p, c)

Spec == Init /\ [][Next]_vars
-----------------------------------------------------------------------------
(* The pages in use, by what uses them. *)
Uses ==
  UNION {  {<<q, "root", m.pt[q].root>>}
           \cup {<<q, "table", t, m.pt[q].tbl[t]>> : t \in Tables}
           \cup {<<q, "page", vp, m.pt[q].pte[vp].pa>> : vp \in 0 .. VPAGES - 1} : q \in Spaces}
    \cup {<<p, "trapframe", trapframe[p]>> : p \in Procs}

(* Every page is on the free list or in one use, at the end of every call   *)
(* whichever kalloc() of it failed: none is lost, freed twice or shared.    *)
PagesOwned ==
  LET uses == {u \in Uses : u[Len(u)] # NoPage}
      used == {u[Len(u)] : u \in uses}
  IN /\ Cardinality(used) = Cardinality(uses)
     /\ m.free = Pages \ used

(* The pages below the size of a process are mapped, and no others but its  *)
(* trapframe: what uvmunmap(), uvmcopy(), mappages() and freewalk() panic   *)
(* over otherwise never happens, on error paths either.                     *)
MappedToSize ==
  /\ ~m.panic
  /\ \A p \in Procs : Exists(p) =>
       /\ \A vp \in 0 .. VPAGES - 1 : m.pt[p].pte[vp].v <=> vp < NPages(sz[p])
       /\ m.pt[p].pte[TRAPFRAME].pa = trapframe[p]
  /\ m.pt[New] = NoPt

(* The bytes of a process. *)
ByteAt(s, pa, k) == IF pa = NoPage THEN -1 ELSE s.mem[pa][k % PGSIZE]

Space(s, p, size) == [k \in 1 .. size |-> ByteAt(s, s.pt[p].pte[(k - 1) \div PGSIZE].pa, k - 1)]

(* copyin() and copyinstr() give the bytes that are there, across pages, or *)
(* fail when a page is missing or is the guard page.                        *)
CopiesWhatIsThere ==
  \A p \in Procs, c \in Copies : Exists(p) =>
    LET readable == \A va \in c[1] .. c[1] + c[2] - 1 : walkaddr(m, p, va \div PGSIZE) # NoPage
        all == SubSeq(Space(m, p, sz[p]), c[1] + 1, c[1] + c[2])
        in == copyin(m, p, c[1], c[2])
        str == copyinstr(m, p, c[1], c[2])
    IN /\ in.ok <=> readable
       /\ in.ok /\ c[1] + c[2] <= sz[p] => in.bytes = all
       /\ str.ok /\ c[1] + c[2] <= sz[p]
            => /\ str.bytes = SubSeq(all, 1, Len(str.bytes))
               /\ all[Len(str.bytes) + 1] = 0 /\ \A k \in DOMAIN str.bytes : str.bytes[k] # 0

(* After every call, whichever kalloc() of it failed, each page has one use *)
(* and each process its pages, and no more.                                 *)
PagesAccounted == TypeOK /\ PagesOwned /\ MappedToSize
=============================================================================
