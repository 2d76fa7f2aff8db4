SPECIFICATION Spec
CONSTANTS
  Bits32 = 2
  Bits64 = 4
  DoubleBits = 3
  FloatBits = 1
  Unit = 6
  Step = 3
  Tokens <- MCTokens
  MaxText = 9
  MaxMembers = 2
  Names <- MCNames
  Ints <- MCInts
  Reals <- MCReals
  Strings <- MCStrings
CHECK_DEADLOCK FALSE
INVARIANTS ParseExact CopyEqual ValuesKept
