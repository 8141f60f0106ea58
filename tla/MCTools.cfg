SPECIFICATION ToolsSpec
CONSTANTS
  n = 5
  LINE = 3
  BodyLengths = {3, 7}
  MaxErrors = 3
  BANKS = 4
  ROW = 2
  K = 16
  SIZES = {1, 2}
  LOW = 24
  CommandLines <- RamCommandLines
  BYTE = 16
  CHARS = 4
  Calls <- RomCalls
  Types <- ModeTypeRow
  Names <- ModeNameRow
  Sheet <- ModeSheet
  Encodings = {"cp1252"}
  OPCODES = 3
  LPM_WIDTH = 6
  Number <- DecoderNumber
  Sheets <- DecoderSheets
INVARIANTS
  TableIsRight CodeTablesAgree DamageIsSeen ProcessorSeesTheFiles RomShowsTheImage ModeIsTheSheets DecoderShowsTheSheet
CHECK_DEADLOCK FALSE
