SPECIFICATION Spec
CONSTANTS
  MaxLen = 6
  Sections <- MCSections
  Sizes = {0, 1, 2, 4, 8}
INVARIANTS
  OffsetMatchesData
PROPERTIES
  ZerosAfterError
