\* An argument of three floats, whose cast is rounded up to a 128-bit integer.
SPECIFICATION Spec
CONSTANTS
  Families = {"calls"}
  ByteBits = 2
  IntBits = 3
  LongBits = 4
  MaxBits = 5
  Lanes = 2
  EdgeLanes = {2}
  HelperBits = 1
  FullBits = 2
  MaxExponent = 8
  HelperCalls <- MCCalls
  MinFunnelShift = 1
  DestWidths = {6}
  Signatures <- ThreeFloats
  Repeats = {}
  NaN = NaN
  Inf = Inf
  NegInf = NegInf
  NoResult = NoResult
INVARIANTS StoresStayInside
CHECK_DEADLOCK FALSE
