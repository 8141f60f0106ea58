SPECIFICATION Spec
CONSTANTS
  BUF_SIZE = 6
  LEN_MOD = 6
  COUNT_MAX = 3
  IPG_MIN = 4
  pre_inc = 1
  fcs_inc = 1
  PRQ_SIZE = 2
  PFQ_SIZE = 1
  Frames <- GoodFrames
  Frame <- GoodFrame
  HOLD = 1
  GAP = 1
  LOST_MAX = 1
INVARIANTS TruncationIsFlagged
