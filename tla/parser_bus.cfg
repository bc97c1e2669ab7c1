SPECIFICATION BusFairSpec
CONSTANTS
  BaseIdBits = 2
  ExtIdBits = 2
  ByteBits = 1
  CrcClassic = 6
  CrcFdShort = 9
  CrcFdLong = 13
  IdModulus = 2
  MinGap = 2
INVARIANTS BusTypeOK CounterInField WidthsFresh StufferInStep FrameStartsClean
PROPERTIES IdStable SilentBusReleases
