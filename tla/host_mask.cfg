SPECIFICATION HostBusSpec
CONSTANTS
  BaseIdBits = 1
  ExtIdBits = 1
  ByteBits = 1
  CrcClassic = 3
  CrcFdShort = 5
  CrcFdLong = 5
  IdModulus = 2
  TreeDepth = 1
  IdBits = 1
  SegCnt = 3
  Bank0Segs = 2
  SegStride = 4
  Words = {0, 1, 2}
  ResetTiming <- MCResetTiming
  ProbeBrp = 16
  NoMask = 99
  CanOptions <- MCCanOptions
  FiOptions <- MCFiOptions
  FiLines <- MCMaskLines
  VecLines = {}
INVARIANT AllBitsCompared
