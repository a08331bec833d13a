SPECIFICATION Spec
CONSTANTS
  b1 = b1
  b2 = b2
  b3 = b3
  r1 = r1
  Block = {b1, b2, b3}
  Bad = {}
  Reader = {r1}
  MaxCached = 1
  MaxToWrite = 2
  FileCap = 2
  Keep = 1
  Backup = TRUE
  MaxDat = 2
  MaxCrash = 2
  NoRec = NoRec
  NoData = NoData
SYMMETRY Symmetry
INVARIANTS ReadReturnsTheBlock
PROPERTIES StoredIsKept
