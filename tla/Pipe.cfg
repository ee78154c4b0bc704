SPECIFICATION FairSpec
CONSTANTS
  Reader = {r1}
  Writer = {w1}
  Byte = {0, 1}
  PIPESIZE = 2
  UintMod = 4
  Counts = {0, 1, 3}
  Kills = {r1, w1}
  Nobody = Nobody
INVARIANTS SleepersBlocked
PROPERTIES PipeIsFifo PeerCloseUnblocks KilledReturns
CHECK_DEADLOCK FALSE
