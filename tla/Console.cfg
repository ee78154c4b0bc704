SPECIFICATION Spec
CONSTANTS
  Process = {p1, p2}
  INPUT_BUF = 3
  UintMod = 6
  Counts = {1, 4}
INVARIANTS InputNotStuck
PROPERTIES InputIsLines
