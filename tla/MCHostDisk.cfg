CONSTANTS
  Word = 2
  BlockSize = 1
  DiskBytes = 6
  DiskSize = 3
  MemBytes = 4
  Lbas = {0, 1, 2, 3, 4}
  Counts = {0, 1, 2}
  Buffers = {0}
  MaxOps = 3
  Descriptors = {d1, d2}
  BufferSize = 2
  Sizes = {0, 1, 3}
  Positions = {0, 1}
SPECIFICATION HostSpec
INVARIANT StateIsRight
PROPERTY RefinesFile
CHECK_DEADLOCK FALSE
