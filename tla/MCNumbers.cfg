\* All families; the helpers without the deviating calls, floats to integers of
\* up to 32 bits.
SPECIFICATION Spec
CONSTANTS
  Families <- AllFamilies
  ByteBits = 2
  IntBits = 3
  LongBits = 4
  MaxBits = 5
  Lanes = 2
  EdgeLanes = {2}
  HelperBits = 1
  FullBits = 2
  MaxExponent = 8
  HelperCalls <- MCCalls
  MinFunnelShift = 1
  DestWidths = {2, 3}
  Signatures <- MCSignatures
  Repeats <- MCRepeats
  NaN = NaN
  Inf = Inf
  NegInf = NegInf
  NoResult = NoResult
INVARIANTS OperatorsExact BitsExact OverflowExact FloatsExact VectorsExact
  BytesArrive StoresStayInside
CHECK_DEADLOCK FALSE
