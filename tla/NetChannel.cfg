SPECIFICATION FairSpec
CONSTANTS
  B = 2
  StdioCap = 1
  WireCap = 2
  Lens = {0, 1, 2, 5}
  MaxItems = 3
  MayCrash = TRUE
INVARIANTS IInv InOrder WaitsFlushed CloseIsClean
PROPERTIES DropsOnlyPadding ImplementsByteStream CrashFate Termination
