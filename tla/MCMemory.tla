------------------------------ MODULE MCMemory ------------------------------
(* Memory for TLC: programs that run, and programs that exec() refuses. *)
EXTENDS Memory

Seg(kind, vaddr, memsz, filesz, w, short) ==
  [kind |-> kind, vaddr |-> vaddr, memsz |-> memsz, filesz |-> filesz, w |-> w, short |-> short]
Load(vaddr, memsz, filesz) == Seg("load", vaddr, memsz, filesz, TRUE, FALSE)

Text     == Seg("load", 0, 2, 2, FALSE, FALSE)
Elf(segs) == [elf |-> TRUE, segs |-> segs]
Program  == Elf(<<Text, Seg("other", 1, 1, 2, FALSE, FALSE), Load(2, 2, 1)>>)
Short    == Elf(<<Text, Seg("load", 2, 2, 2, TRUE, TRUE)>>)
NoFile   == [elf |-> FALSE, segs |-> <<>>]

Exec(file, uargv, bytes) == [file |-> file, uargv |-> uargv, bytes |-> bytes]
One   == <<"string", "null">>

(* No executable; too long arguments; a second segment that cannot be read  *)
(* in full; a segment that is longer in the file than in memory, goes round *)
(* the address space, is not aligned, or has a header that cannot be read;  *)
(* and argument vectors that sys_exec() does not get to the end of.         *)
Calls ==
  {Exec(Program, One, 1), Exec(NoFile, One, 1), Exec(Program, <<"null">>, 3), Exec(Short, <<"null">>, 1)}
    \cup {Exec(Elf(<<s>>), <<"null">>, 1) :
             s \in {Load(2, 1, 2), Load(Word - 2, 4, 1), Load(3, 2, 1),
                    Seg("unreadable", 2, 2, 1, TRUE, FALSE)}}
    \cup {Exec(Program, u, 1) :
             u \in {<<"string", "badstr">>, <<"string", "badaddr">>, <<"string", "string", "string">>}}
Sbrks  == {5, -3, -100}
Ranges == {<<3, 2>>}

(* The one program that runs: text, data and bss, guard page, stack. *)
Images == {<<2, 2>> \o <<2, 0>> \o <<0, 0>> \o <<0, 1>>}

VARIABLE space   \* the bytes of each process, kept beside the state

Spaced(s, size) == [p \in Procs |-> Space(s, p, size[p])]

MCInit == Init /\ space = Spaced(m, sz)
MCNext == Next /\ space' = Spaced(m', sz')
MCSpec == MCInit /\ [][MCNext]_<<vars, space>>

(* Which page serves for what makes no difference: while every page has    *)
(* one use, states that differ in no more than that count as one.           *)
Shape(q) == <<[vp \in VPs |-> [m.pt[q].pte[vp] EXCEPT !.pa = @ # NoPage]],
              [t \in Tables |-> m.pt[q].tbl[t] # NoPage], m.pt[q].root # NoPage>>
View == IF PagesOwned /\ MappedToSize
        THEN <<[q \in Spaces |-> Shape(q)], sz, Spaced(m, [p \in Procs |-> PGROUNDUP(sz[p])])>>
        ELSE <<vars>>

Private == INSTANCE AddressSpaces

(* Address spaces are private (module AddressSpaces): no call changes the   *)
(* bytes of another process, new memory holds nothing of an earlier owner,  *)
(* a child starts with its parent's bytes, and a call that fails changes    *)
(* none.                                                                    *)
IsAddressSpaces == Private!Spec
=============================================================================
