SPECIFICATION Spec
CONSTANTS
  g = g
  a1 = a1
  a2 = a2
  a3 = a3
  b1 = b1
  b2 = b2
  Block <- ForkBlock
  Genesis = g
  Parent <- ForkParent
  Height <- ForkHeight
  UnwindBufLen = 1
  SkipSave = 0
  Chunks = 2
  ChanCap = 1
  DiskKeepsUp = TRUE
  Reorgs = TRUE
  CreateMayFail = TRUE
  MaxSaves = 2
  MayCrash = TRUE
  MaxEnds = 2
  None = None
CHECK_DEADLOCK FALSE
INVARIANTS NoStaleAbort
PROPERTIES SnapshotSurvives
