SPECIFICATION Spec
CONSTANTS
  MaxEntries = 6
  Sections <- MCSections
INVARIANTS
  SkipsSubtree
  ScanIsOwn
PROPERTIES
  NextInOrder
