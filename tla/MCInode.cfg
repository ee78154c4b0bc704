SPECIFICATION Spec
CONSTANTS
  Process = {p1, p2}
  Name = {"a", "b"}
  Inode = {1, 2, 3}
  root = 1
  Nobody = Nobody
  Calls <- MCCalls
INVARIANTS RefCount LinkCount FreedWithLastReference NoInodePanic
SYMMETRY Symmetry
