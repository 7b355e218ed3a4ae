SPECIFICATION KernelsSpec
CONSTANTS
  Widths = {1}
  Samples = {1, 2}
  Positions = {0, 63, 64, 127}
  Shapes <- MCShapes
  MaxSize = 2
  MaxCalls = 1
  MaxIoCalls = 1
  Lengths = {0, 1, 3, 9}
  BlockBytes = 4
  PointerBytes = 2
  AES_BATCH_SIZE = 2
  HASH_BUFFER_SIZE = 3
  Align = 3
INVARIANT ArmIsAes
