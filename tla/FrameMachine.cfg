SPECIFICATION Spec
CONSTANTS
  DataAlignmentFactor = 2
  Deltas = {0, 1, 2}
  Offsets = {1, 2}
  PCs = {2, 3, 4}
  Starts = {1, 3}
  Sizes = {0, 2, 3}
  MaxLocation = 6
  MaxRows = 4
INVARIANTS
  OffsetInForce
CHECK_DEADLOCK FALSE
