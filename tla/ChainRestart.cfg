SPECIFICATION FairSpec
CONSTANTS
  g = g
  s = s
  a1 = a1
  a2 = a2
  a3 = a3
  b1 = b1
  b2 = b2
  b3 = b3
  c2 = c2
  c3 = c3
  Block <- ForkBlock
  Root = g
  Parent <- ForkParent
  Work <- ForkWork
  Bad = {}
  Malformed = {}
  Start <- SmallStart
  Tip = s
  MovingCheckpointDepth = 3
  HeadersFirst = TRUE
  MayFlush = TRUE
  SaveCommand = FALSE
  MaxCrash = 1
  None = None
CHECK_DEADLOCK FALSE
INVARIANTS MostWorkWins SavedIsOnDisk
PROPERTIES NetworkResumes
