SPECIFICATION PathSpec
CONSTANTS
  BaseIdBits = 2
  ExtIdBits = 1
  ByteBits = 1
  CrcClassic = 15
  CrcFdShort = 17
  CrcFdLong = 21
  IdModulus = 8
  MinGap = 2
INVARIANTS ParserAligned Decoded AnnouncedInTime ReleasedInTime
