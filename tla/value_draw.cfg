CONSTANTS
  ByteBits = 2
  LongBytes = 4
  IntBits = 4
  MantissaBits = 6
  Arguments <- Plain
SPECIFICATION Spec
INVARIANT AllowedUnlessOne
CHECK_DEADLOCK FALSE
