SPECIFICATION FairSpec
CONSTANTS
  c1 = c1 c2 = c2 p1 = p1 p2 = p2 None = None
  Clients <- Two
  Pcbs <- Blocks
  MaxPixels = 2
  Depth = 2
  SndBuf = 1
  Polite = FALSE
CHECK_DEADLOCK FALSE
PROPERTY EveryRequestIsServed
