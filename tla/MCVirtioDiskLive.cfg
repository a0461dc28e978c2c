SPECIFICATION FairSpec
CONSTANTS
  Procs = {p1, p2, p3}
  Blocks = {k1}
  Values = {v1}
  NUM = 4
  RING = 2
  IdxMod = 4
  NoProc = NoProc
  NoDesc = NoDesc
PROPERTIES EveryCallReturns
