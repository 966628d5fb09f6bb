\* pm_set_a2 temperatures against the contract's whole-plus-fraction reading; plain char signed on the target
CONSTANTS
  AsBuilt = FALSE
  BaseEnd = 1
  BaseCheck = 2
  ExtStart = 3
  ExtEnd = 3
  ExtCheck = 4
  ByteValues = {0, 1, 128, 255}
  CharSigned = TRUE
SPECIFICATION Spec
INVARIANTS TemperatureMatchesSpec
