SPECIFICATION TypesSpec
CONSTANTS
  MaxDies = 2
  MaxReads = 1
  AddressSize = 8
  MaxStack = 9
INVARIANTS
  TypeReadReturns
CHECK_DEADLOCK FALSE
