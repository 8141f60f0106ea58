SPECIFICATION Spec
CONSTANTS
  BUF_SIZE = 6
  LEN_MOD = 6
  COUNT_MAX = 3
  IPG_MIN = 4
  pre_inc = 1
  fcs_inc = 1
  PRQ_SIZE = 1
  PFQ_SIZE = 1
  Frames <- GoodFrames
  Frame <- GoodFrame
  HOLD = 1
  GAP = 2
  LOST_MAX = 1
INVARIANTS TypeOK IntactUnlessTruncated PostsOnlyToRoom SpaceIsAccounted
PROPERTIES NeverOverwritesAPacket
