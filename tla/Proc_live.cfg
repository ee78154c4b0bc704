SPECIFICATION FairSpec
CONSTANTS
  NPROC = 3
  NCPU = 1
  MaxPid = 3
  KillPids = {2}
  SleepArgs = {1}
PROPERTIES NoStarvation OrphanReaped KilledDies
