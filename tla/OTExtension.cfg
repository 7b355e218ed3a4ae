SPECIFICATION FairSpec
CONSTANTS
  Width = 2
  BlockSize = 4
  OTBatch = 2
  Order = 3
  Streams <- MCStreams
  Delta <- MCDelta
  Seeds <- MCSeeds
  Exponents <- MCExponents
  Starts = {1}
  GFMul <- MCMul
  Modes = {TRUE, FALSE}
  Chosen <- MCChosen
  Combiners <- MCCombiners
  Calls <- MCCalls
  MaxCalls = 2
INVARIANTS Transferred HonestPasses InStep
PROPERTIES ImplementsCorrelatedOT Termination
