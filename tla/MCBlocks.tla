------------------------------ MODULE MCBlocks ------------------------------
(***************************************************************************)
(* Blocks for TLC: the files that mkfs is given, the writes, and file, the *)
(* bytes that reading each file would return, kept beside the state so     *)
(* that they are computed once.                                            *)
(***************************************************************************)
EXTENDS Blocks, TLC

VARIABLE file

GivenFiles == <<1>>
Written    == {<<2, 1, 3>>, <<3, 2, 2>>}
Reading    == {<<2, Word - 1>>}
Perms      == Permutations(Procs)

MCInit == Init /\ file = [i \in Inums |-> Bytesof(fs, i)]
MCNext == Next /\ file' = IF fs' = fs THEN file ELSE [i \in Inums |-> Bytesof(fs', i)]
MCSpec == MCInit /\ [][MCNext]_<<vars, file>>

Store == INSTANCE FileStore WITH pos <- off

(* Files are byte sequences (module FileStore): what readi() returns is     *)
(* what writei() put there, of this file and no other, at the shared offset *)
(* of the open file, whatever failed on the way.                            *)
IsFileStore == Store!Spec
=============================================================================
