SPECIFICATION FairSpec
CONSTANTS
  NPROC = 3
  CPUs = {c1}
  MaxPid = 3
  KillPids = {2}
PROPERTIES RunnableRuns WaitReturns KilledExits
