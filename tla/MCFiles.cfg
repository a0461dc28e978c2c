SPECIFICATION MCSpec
CONSTANTS
  Procs = {p1, p2, p3}
  Bytes = {x, y}
  PIPESIZE = 2
  Word = 4
  MaxN = 2
  Killable = {p1}
  Users = {u1, u2}
  First = u1
  NFILE = 3
  NOFILE = 2
  NPIPE = 1
SYMMETRY Perms
INVARIANTS PipeInv RefsExact
PROPERTIES IsByteStream IoStaysOpen
CHECK_DEADLOCK FALSE
