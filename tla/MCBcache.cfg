SPECIFICATION Spec
CONSTANTS
  Procs = {p1, p2, p3}
  Blocks = {k1, k2, k3}
  Values = {v1, v2}
  NBUF = 2
  NoProc = NoProc
  NoBlock = NoBlock
SYMMETRY Perms
INVARIANTS BcacheInv
PROPERTIES IsBlockStore RecyclesLru
CHECK_DEADLOCK FALSE
