SPECIFICATION FairSpec
CONSTANTS
  Process = {p1, p2}
  Block = {b1, b2, b3}
  Val = {v1, v2}
  Absent = Absent
  Nobody = Nobody
  LOGSIZE = 3
  nlog = 3
INVARIANTS SleepersHaveOwner
PROPERTIES AtomicTransactions WriteAhead RecoveryEnds
