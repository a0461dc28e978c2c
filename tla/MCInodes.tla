------------------------------ MODULE MCInodes ------------------------------
(* Calls that meet in a small tree: two processes make, enter and remove    *)
(* directories b, make, open and remove files b, and link them to /a.  In   *)
(* the table there is room for all but one of the inodes on the disk.       *)
EXTENDS Inodes, TLC

Root(elems)   == [abs |-> TRUE, elems |-> elems]
Here(elems)  == [abs |-> FALSE, elems |-> elems]
Call(c, path) == [call |-> c, path |-> path, new |-> NoPath]

Tree == {Call(c, Here(<<"b">>)) : c \in {"mkdir", "create", "chdir", "unlink"}}
        \cup {Call(c, Root(<<"a">>)) : c \in {"open", "unlink"}}
        \cup {Call("unlink", Root(<<>>)), Call("unlink", Here(<<".">>)),
              [call |-> "link", path |-> Here(<<"b">>), new |-> Root(<<"a">>)]}

(* Inode numbers other than the root's are alike: ialloc() may find any. *)
Perms == Permutations(Procs) \cup Permutations(Inums \ {ROOTINO})

(* Which entry of the table an inode is in makes no difference to any call: *)
(* states are told apart by the entries and the pointers to each of them.   *)
Ptrs(s) == {x \in Procs \X {"cwd", "fd", "ip", "dp", "put"} :
              s = CASE x[2] = "cwd" -> cwd[x[1]] [] x[2] = "fd" -> fd[x[1]] [] OTHER -> me[x[1]][x[2]]}
View == <<ondisk, {<<ic[s], lk[s], Ptrs(s)>> : s \in Slots},
          [p \in Procs |-> [me[p] EXCEPT !.ip = NoSlot, !.dp = NoSlot, !.put = NoSlot]], panicked>>
=============================================================================
