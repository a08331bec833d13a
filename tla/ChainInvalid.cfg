SPECIFICATION FairSpec
CONSTANTS
  g = g
  s = s
  a1 = a1
  a2 = a2
  a3 = a3
  b1 = b1
  b2 = b2
  b3 = b3
  c2 = c2
  c3 = c3
  Block <- SideBlock
  Root = g
  Parent <- SideParent
  Work <- SideWork
  Bad = {b1}
  Malformed = {}
  Start <- SmallStart
  Tip = s
  MovingCheckpointDepth = 3
  HeadersFirst = TRUE
  MayFlush = TRUE
  SaveCommand = FALSE
  MaxCrash = 1
  None = None
CHECK_DEADLOCK FALSE
INVARIANTS NoBadBlockActive FallsBack
PROPERTIES ReorgEnds
