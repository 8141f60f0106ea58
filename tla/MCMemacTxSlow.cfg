SPECIFICATION Spec
CONSTANTS
  N = 2
  idx <- MCidx
  room <- MCroom
  Lens <- MCLens
  BUF_SIZE = 8
  QUEUE_LEN = 4
  DESC_LEN = 8
  PRE_LEN = 3
  FCS_AUTO = 1
  CYCLES = 10
  PRQ_SIZE = 1
  PFQ_SIZE = 1
INVARIANTS FrameIsWellFormed
