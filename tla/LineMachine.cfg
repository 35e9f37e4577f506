SPECIFICATION Spec
CONSTANTS
  OpcodeBase = 14
  LineBase <- MCLineBase
  LineRange = 60
  MinInstructionLength = 1
  MaxOpsPerInstruction = 2
  SpecialOpcodes = {136}
  Advances = {1}
  LineAdvances = {1}
  Files = {1, 2}
  Addresses = {1, 2}
  MaxAddress = 2
  MaxLine = 2
  MaxRows = 3
INVARIANTS
  PCToLineIsFirstCover
  LineReportedBack
CHECK_DEADLOCK FALSE
