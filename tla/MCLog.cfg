SPECIFICATION Spec
CONSTANTS
  Procs = {p1, p2}
  Blocks = {b1, b2, b3}
  Values = {v1, v2}
  LOGSIZE = 4
  MAXOPBLOCKS = 2
  NLOG = 4
  NotCached = NotCached
SYMMETRY Perms
INVARIANTS LogInv ReservedSpace
PROPERTIES WriteAhead AtomicDurable
