\* pm_parse against the contract of spec section 4.2, written logic (line 173 kept)
CONSTANTS
  AsBuilt = FALSE
  BaseEnd = 1
  BaseCheck = 2
  ExtStart = 3
  ExtEnd = 3
  ExtCheck = 4
  ByteValues = {0, 1, 128, 255}
  CharSigned = TRUE
SPECIFICATION Spec
INVARIANT ParseMatchesSpec
