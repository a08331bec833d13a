SPECIFICATION FairSpec
CONSTANTS
  g = g
  a1 = a1
  a2 = a2
  a3 = a3
  b1 = b1
  b2 = b2
  Block <- TallBlock
  Genesis = g
  Parent <- TallParent
  Height <- TallHeight
  UnwindBufLen = 2
  SkipSave = 0
  Chunks = 2
  ChanCap = 1
  DiskKeepsUp = TRUE
  Reorgs = TRUE
  CreateMayFail = FALSE
  MaxSaves = 2
  MayCrash = FALSE
  MaxEnds = 1
  None = None
CHECK_DEADLOCK FALSE
INVARIANTS TypeOK UtxoIsExact SnapshotsAreWhole SavesWhatIsThere CloseFlushes 
PROPERTIES AbortReturns CloseReturns
