SPECIFICATION Spec
CONSTANTS
  Byte <- MCByte
  Zero = 0
  kCheapPrepend = 2
  kInitialSize = 2
  ExtraSize = 2
  Data <- MCData
  Lengths <- MCLengths
  MaxSize = 7
INVARIANTS Ordered SpaceAsserts
PROPERTIES GrowsOnlyIfNeeded Implements
