SPECIFICATION Spec
CONSTANTS
  Slot = {1, 2}
  initproc = 1
  NPAGE = 12
  NPTE = 2
  MaxSz = 3
  Images = {1}
INVARIANTS OwnedOnce SizeIsMapped
PROPERTIES LostOnly
