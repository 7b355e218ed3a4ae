SPECIFICATION KernelsSpec
CONSTANTS
  Widths = {1, 2, 3, 4, 5}
  Samples = {1, 2}
  Positions = {0, 63, 64, 127}
  Shapes <- MCShapes
  MaxSize = 9
  MaxCalls = 3
  MaxIoCalls = 5
  Lengths = {0, 1, 3, 9}
  BlockBytes = 4
  PointerBytes = 2
  AES_BATCH_SIZE = 2
  HASH_BUFFER_SIZE = 3
  Align = 3
INVARIANTS
  RingOfResidues SignedAsC
  AesIsFips IntrinsicsAgree FieldProduct Transposes HashesEach
  KeystreamOnce DigestOfStream BytesArrive
