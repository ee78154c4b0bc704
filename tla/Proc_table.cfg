SPECIFICATION Spec
CONSTANTS
  NPROC = 3
  NCPU = 2
  MaxPid = 3
  KillPids = {2}
  SleepArgs = {1}
INVARIANTS StackExclusive NoMissedWakeup ParentAlive
