SPECIFICATION Spec
CONSTANTS
  Process = {p1, p2, p3}
  Sector = {s1, s2, s3}
  Val = {v1, v2}
  NBUF = 2
  MaxPinned = 2
  MaxFailed = 1
INVARIANTS ReadsLatest SleepersWait
SYMMETRY Symmetry
