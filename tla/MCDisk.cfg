CONSTANTS
  Word = 2
  BlockSize = 2
  DiskBytes = 6
  DiskSize = 3
  MemBytes = 7
  Lbas = {0, 1}
  Counts = {0, 2}
  Buffers = {0, 1}
  MaxOps = 2
SPECIFICATION FairSpec
INVARIANT InterruptMeansDone
PROPERTIES TransfersAreWhole OperationsEnd
CHECK_DEADLOCK FALSE
