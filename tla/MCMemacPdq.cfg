SPECIFICATION FairSpec
CONSTANTS
  DEPTH_LOG2 = 2
  DEPTH <- MCDepth
  Code <- MCCode
  Gray <- MCGray
  Bin <- MCBin
  Mix <- MCMix
  Data = {0, 1}
  Zero = 0
INVARIANTS TypeOK NoOverflow ReaderIsShownTheHead
PROPERTIES ReadyHolds ImplementsFifo ReadyIsOffered
