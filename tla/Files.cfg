SPECIFICATION Spec
CONSTANTS
  Handles = {h1, h2, h3, h4, h5}
  Nil = Nil
INVARIANTS
  TableIsOpenFiles
  TableAsLongAsPeak
CHECK_DEADLOCK FALSE
