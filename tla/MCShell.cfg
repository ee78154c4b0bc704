SPECIFICATION Spec
CONSTANTS
  Word <- MCWord
  Lines <- MCLines
  Overlap <- MCOverlap
  MaxTokens = 3
  MAXARGS = 3
  NPROC = 7
  Slots = {4, 7}
  NPIPE = 2
  PIPESIZE = 1
  Chunks = 2
CHECK_DEADLOCK FALSE
INVARIANTS ParsesGrammar Plumbing ForegroundDone
PROPERTIES PromptReturns
