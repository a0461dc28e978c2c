SPECIFICATION Spec
CONSTANTS
  Procs = {p1, p2}
  NoProc = NoProc
  Inums = {i1, i2, i3, i4}
  ROOTINO = i1
  NoInum = NoInum
  NINODE = 3
  NFILE = 1
  Names = {"a", "b"}
  Requests <- Tree
SYMMETRY Perms
VIEW View
INVARIANTS TableExact CallsGoOn NamesCounted
PROPERTIES FreedUnused
