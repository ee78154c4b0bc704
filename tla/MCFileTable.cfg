SPECIFICATION Spec
CONSTANTS
  Process = {p1, p2}
  init = p1
  NFILE = 4
  NOFILE = 2
  Page = {o1, o2}
INVARIANTS RefCount LastCloseOnce
SYMMETRY Pages
