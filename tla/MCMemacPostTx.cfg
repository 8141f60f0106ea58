SPECIFICATION SpecPost
CONSTANTS
  DEPTH_LOG2 = 2
  DEPTH <- MCDepth
  Code <- MCCode
  Gray <- MCGray
  Bin <- MCBin
  Mix <- MCMix
  Data = {0, 1}
  Zero = 0
  Enables <- Slow
  W_GATED = 1
  R_GATED = 0
INVARIANTS EachPostOnce OffersTheOldest
