\* Floats to 64-bit integers.
SPECIFICATION Spec
CONSTANTS
  Families = {"floats"}
  ByteBits = 2
  IntBits = 3
  LongBits = 4
  MaxBits = 5
  Lanes = 2
  EdgeLanes = {2}
  HelperBits = 1
  FullBits = 2
  MaxExponent = 8
  HelperCalls <- MCCalls
  MinFunnelShift = 1
  DestWidths = {6}
  Signatures = {}
  Repeats = {}
  NaN = NaN
  Inf = Inf
  NegInf = NegInf
  NoResult = NoResult
INVARIANTS FloatToIntExact
CHECK_DEADLOCK FALSE
