SPECIFICATION MemSpec
CONSTANTS
  BaseIdBits = 1
  ExtIdBits = 1
  ByteBits = 1
  CrcClassic = 3
  CrcFdShort = 5
  CrcFdLong = 5
  IdModulus = 2
  TreeDepth = 2
  IdBits = 1
  SegCnt = 2
  Bank0Segs = 1
  SegStride = 2
  Words = {0}
  Slots <- MCSlots
  Rewritten = {1, 2}
INVARIANTS SlotSelected ServedInTime
