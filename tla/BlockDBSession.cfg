SPECIFICATION FairSpec
CONSTANTS
  b1 = b1
  b2 = b2
  b3 = b3
  r1 = r1
  Block = {b1, b2, b3}
  Bad = {b3}
  Reader = {r1}
  MaxCached = 1
  MaxToWrite = 2
  FileCap = 1
  Keep = 1
  Backup = FALSE
  MaxDat = 3
  MaxCrash = 0
  NoRec = NoRec
  NoData = NoData
INVARIANTS UnwrittenIsCached FlushedIsDurable
PROPERTIES ImplementsBlockStore EveryBlockIsWritten
