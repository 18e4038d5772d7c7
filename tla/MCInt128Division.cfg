\* Six bits instead of 128: all dividends and divisors, all four functions.
SPECIFICATION Spec
CONSTANTS
  Bits <- MCBits
  Half = 3
  Pow <- MCPow
INVARIANTS NoBitLost PartialQuotient DivisionExact
CHECK_DEADLOCK FALSE
