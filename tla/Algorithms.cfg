SPECIFICATION Spec
CONSTANTS
  Word = 32768
  Octets = {0, 1, 63, 64, 127, 128, 129, 191, 192, 255}
  MaxBytes = 4
  Names <- MCNames
  NoName <- MCNoName
  Dirs <- MCDirs
  MaxFiles = 3
  Split <- MCSplit
  HasPrefix <- MCHasPrefix
  Length <- MCLength
  ByteBits = 2
  BigBits = 18
  BucketCnt = 2
  LoadFactor = 1
  PointerSize = 8
  MaxString = 2
  Round <- MCRound
  NumberOperands <- MCNumberOperands
  Types <- MCTypes
  Mem <- MCMem
  Hmaps <- MCHmaps
  Funcs <- MCFuncs
  Globals <- MCGlobals
  BaseTypes = {"int", "uint8", "string"}
  MaxExpr = 2
  MaxChain = 2
  MaxMapOps = 6
  Buffer = 100
  Stride = 2
  MaxCapacity = 3
  MaxQueueOps = 6
  MaxArray = 2
  MaxMap = 1
  MaxText = 1
  Headers = 3
  MaxDies = 3
  MaxReads = 2
  AddressSize = 8
  MaxStack = 9
  MaxSteps = 9
  MaxGs = 3
  MaxCode = 4
  MaxSyms = 5
  MaxAline = 7
INVARIANTS
  IntDecodes
  DecodersAgree
  
  NoUnknownError
  SlicesDenote
  StringsArePrefixes
  ComparisonsCompare
  FoldingAgrees
  MapElementsExact
  ChannelElementsInOrder
  PrintsReachableOnce
  TypesFaithful
  WalkIsCallChain
  GoroutinesComplete
  
  FunctionsOfSymbols
CHECK_DEADLOCK FALSE
