SPECIFICATION ClientSpec
CONSTANTS
  PRE_LEN = 2
  GB_LEN = 2
  PACKET_LEN = 2
  PACKET_MAX = 2
  CTRL_PERIOD_LEN_MIN = 4
  outfile_dec = TRUE
  PacketLen = 2
  BlockLen = 5
  Captures <- MCCaptures
  TimingCaptures <- MCTimingCaptures
  PacketCaptures <- MCPacketCaptures
INVARIANTS CaptureIsDecoded OneFaultDoesNotSpread MeasurementIsRight PacketsAreTheSources StopsExactlyAtFaults
PROPERTY RereadIsTheSame
CHECK_DEADLOCK FALSE
