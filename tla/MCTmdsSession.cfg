SPECIFICATION FairSpec
CONSTANTS
  c1 = c1 c2 = c2 p1 = p1 p2 = p2 None = None
  Clients <- Two
  Pcbs <- Blocks
  MaxPixels = 5
  Depth = 1
  SndBuf = 2
  Polite = TRUE
CHECK_DEADLOCK FALSE
INVARIANTS TypeOK EveryClientGetsItsOwn
PROPERTIES CaptureIsHandedOver EveryRequestIsServed
