SPECIFICATION Spec
CONSTANTS
  BUF_SIZE = 2
  LEN_MOD = 2
  COUNT_MAX = 8
  IPG_MIN = 4
  pre_inc = 0
  fcs_inc = 0
  PRQ_SIZE = 1
  PFQ_SIZE = 1
  Frames <- PhyFrames
  Frame <- PhyFrame
  HOLD = 1
  GAP = 2
  LOST_MAX = 0
INVARIANTS GoodMeansChecked ErrorGoesWithItsPacket FlagsTellThePreamble
