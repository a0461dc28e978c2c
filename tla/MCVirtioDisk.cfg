SPECIFICATION Spec
CONSTANTS
  Procs = {p1, p2}
  Blocks = {k1}
  Values = {v1, v2}
  NUM = 8
  RING = 2
  IdxMod = 4
  NoProc = NoProc
  NoDesc = NoDesc
SYMMETRY Perms
INVARIANTS DriverInv
PROPERTIES IsDiskPort
