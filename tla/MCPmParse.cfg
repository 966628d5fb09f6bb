\* Identity and diagnostics pages: QSFP+ and QSFP28 classification, OUI format, speed and cable columns, checksum, DOM decode and the serial-ID layouts, written logic
CONSTANTS
  AsBuilt = FALSE
  BaseEnd = 1
  BaseCheck = 2
  ExtStart = 3
  ExtEnd = 3
  ExtCheck = 4
  ByteValues = {0, 1, 128, 255}
  CharSigned = TRUE
SPECIFICATION Spec
INVARIANTS QsfpClassifyMatchesSpec OuiFormatMatchesSpec ChecksumMatchesSpec DomDecodeMatchesSpec TemperatureSignMatchesSpec SerialIdLayoutMatchesSff ColumnsMatchSpec
