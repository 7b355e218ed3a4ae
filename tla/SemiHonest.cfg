SPECIFICATION FairSpec
CONSTANTS
  Width = 2
  Hashes <- MCHashes
  PrgBlocks <- MCBlocks
  OTBlocks <- MCBlocks
  Fresh <- MCFresh
  Batch = 2
  Inputs <- Strings
  Shapes <- MCShapes
INVARIANTS LabelsMatch ReadsItsOwn InStep
PROPERTIES ImplementsClearProgram Termination
