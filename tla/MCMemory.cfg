SPECIFICATION MCSpec
CONSTANTS
  p1 = p1
  p2 = p2
  Procs = {p1, p2}
  First = p1
  PHYS = 23
  PGSIZE = 2
  VPAGES = 17
  PERTABLE = 2
  USERSTACK = 1
  MAXARG = 2
  Execs <- Calls
  Deltas <- Sbrks
  Copies <- Ranges
  Bytes = {1, 2}
VIEW View
INVARIANTS PagesAccounted CopiesWhatIsThere
PROPERTIES IsAddressSpaces
