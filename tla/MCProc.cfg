SPECIFICATION Spec
CONSTANTS
  NPROC = 3
  CPUs = {c1, c2}
  MaxPid = 3
  KillPids = {1, 2}
INVARIANTS SwtchSafe ParentsWait
SYMMETRY Perms
