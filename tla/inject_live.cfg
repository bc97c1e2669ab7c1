SPECIFICATION CoreFairSpec
CONSTANTS
  BaseIdBits = 1
  ExtIdBits = 1
  ByteBits = 1
  CrcClassic = 2
  CrcFdShort = 5
  CrcFdLong = 5
  IdModulus = 4
  TreeDepth = 1
  IdBits = 2
  SegCnt = 2
  Bank0Segs = 1
  SegStride = 2
  Words = {0}
  VectorBits = 16
  BitEdges = 11
  Boundary = 2
  Psp = 8
  Fip = 9
  SlotTables <- MCKinds
  SentFormats <- MCClassicFormat
PROPERTY MatchAnswered
