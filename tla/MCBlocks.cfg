SPECIFICATION MCSpec
CONSTANTS
  p1 = p1
  p2 = p2
  Procs = {p1, p2}
  Bytes = {1, 2}
  BSIZE = 2
  NDIRECT = 2
  NINDIRECT = 2
  MAXOPBLOCKS = 6
  FSSIZE = 14
  NLOG = 2
  NINODES = 4
  IPB = 3
  BPB = 16
  Given <- GivenFiles
  Writes <- Written
  Reads <- Reading
SYMMETRY Perms
INVARIANTS Consistent OpFits
PROPERTIES IsFileStore
