------------------------------- MODULE BitOps -------------------------------
(***************************************************************************)
(* Bit counting and byte swapping: the portable helpers of the preamble    *)
(* and the expressions that the intrinsics build around them.              *)
(*                                                                         *)
(* The helpers halve and mask; the scale keeps their structure.  ByteBits, *)
(* ShortBits, IntBits and LongBits stand for 8, 16, 32 and 64 bits.  A     *)
(* 128-bit number is only ever used by halves and is given as two of them. *)
(***************************************************************************)
EXTENDS CArith, FiniteSets

CONSTANTS ByteBits, ShortBits, NoResult

(* What the scaled widths must have in common with the real ones. *)
ScaleOK ==
  /\ ByteBits \in Nat \ {0}
  /\ ShortBits = 2 * ByteBits /\ IntBits = 2 * ShortBits
  /\ LongBits = 2 * IntBits /\ MaxBits = 2 * LongBits

VARIABLES call, out
vars == <<call, out>>

Narrow == {ByteBits, ShortBits, IntBits, LongBits}
Patterns(bits) == 0 .. 2^bits - 1

(* 0x5555..., 0x3333..., 0x0F0F...: every second field of k bits. *)
Fields(bits, k) == (2^bits - 1) \div (2^k + 1)

-----------------------------------------------------------------------------
(* The five steps of a binary search, over half the width, a quarter, ...; *)
(* on a scaled width the last ones are steps of 0 bits and do nothing.     *)
Search(step(_, _), s) ==
  step(step(step(step(step(s, IntBits \div 2), IntBits \div 4), IntBits \div 8),
            IntBits \div 16), IntBits \div 32)

clz32(x0) ==
  LET step(s, k) == IF s.x \div 2^(IntBits - k) = 0
                    THEN [n |-> s.n + k, x |-> Pattern(IntBits, s.x * 2^k)] ELSE s
  IN Search(step, [n |-> 0, x |-> x0]).n

clz64(x) ==
  LET hi == x \div 2^IntBits
  IN IF hi # 0 THEN clz32(hi) ELSE IntBits + clz32(Pattern(IntBits, x))

ctz32(x0) ==
  LET step(s, k) == IF Pattern(k, s.x) = 0 THEN [n |-> s.n + k, x |-> s.x \div 2^k] ELSE s
  IN Search(step, [n |-> 0, x |-> x0]).n

ctz64(x) ==
  LET lo == Pattern(IntBits, x)
  IN IF lo # 0 THEN ctz32(lo) ELSE IntBits + ctz32(x \div 2^IntBits)

(* The fields of 8 bits that the multiplication adds up are not scaled. *)
popcount(bits, x) ==
  LET Masked(y, k) == AndBits(bits, y, Fields(bits, k))
      x1 == Pattern(bits, x - Masked(x \div 2, 1))
      x2 == Masked(x1, 2) + Masked(x1 \div 4, 2)
      x3 == Masked(x2 + (x2 \div 16), 4)
  IN Pattern(bits, x3 * ((2^bits - 1) \div 255)) \div 2^(bits - 8)

(* Swap neighbouring fields of k bits. *)
SwapFields(bits, k, x) ==
  OrBits(bits, AndBits(bits, x \div 2^k, Fields(bits, k)), AndBits(bits, x, Fields(bits, k)) * 2^k)

bswap16(x) == OrBits(ShortBits, x \div 2^ByteBits, x * 2^ByteBits)
bswap32(x) == SwapFields(IntBits, ShortBits, SwapFields(IntBits, ByteBits, x))

bswap64(x) ==
  SwapFields(LongBits, IntBits, SwapFields(LongBits, ShortBits, SwapFields(LongBits, ByteBits, x)))

-----------------------------------------------------------------------------
(* The intrinsics.  v is a C value; its conversion to uint32_t or uint64_t *)
(* extends the sign of a signed type.                                      *)
U32(v) == Cast(Type(IntBits, FALSE), v).v
U64(v) == Cast(Type(LongBits, FALSE), v).v

(* Mutant of codegen_ctlz: the sign extension is not masked off. *)
codegen_ctlzUnmasked(bits, v) ==
  IF v.v = 0 THEN bits
  ELSE IF bits <= IntBits THEN clz32(U32(v)) - (IntBits - bits)
  ELSE clz64(U64(v)) - (LongBits - bits)

codegen_ctlz(bits, v) ==
  IF v.v = 0 THEN bits
  ELSE IF bits < IntBits THEN clz32(Pattern(bits, U32(v))) - (IntBits - bits)
  ELSE IF bits <= IntBits THEN clz32(U32(v)) - (IntBits - bits)
  ELSE clz64(U64(v)) - (LongBits - bits)

codegen_ctlz128(hi, lo) ==
  IF hi # 0 THEN clz64(hi) ELSE LongBits + (IF lo = 0 THEN LongBits ELSE clz64(lo))

codegen_cttz(bits, v) ==
  IF v.v = 0 THEN bits ELSE IF bits <= IntBits THEN ctz32(U32(v)) ELSE ctz64(U64(v))

codegen_cttz128(hi, lo) ==
  IF lo # 0 THEN ctz64(lo) ELSE LongBits + (IF hi = 0 THEN LongBits ELSE ctz64(hi))

codegen_ctpop(bits, v) ==
  IF bits < IntBits THEN popcount(IntBits, Pattern(bits, U32(v)))
  ELSE IF bits <= IntBits THEN popcount(IntBits, U32(v))
  ELSE popcount(LongBits, U64(v))

codegen_ctpop128(hi, lo) == popcount(LongBits, lo) + popcount(LongBits, hi)

codegen_bswap(bits, v) ==
  LET p == Pattern(bits, v.v)
  IN CASE bits = ByteBits -> p
       [] bits = ShortBits -> bswap16(p)
       [] bits = IntBits -> bswap32(p)
       [] bits = LongBits -> bswap64(p)

codegen_bswap128(hi, lo) == <<bswap64(lo), bswap64(hi)>>

-----------------------------------------------------------------------------
Ops == {"ctlz", "cttz", "ctpop", "bswap"}

(* Halves of 128-bit numbers: the ends, single bits, runs of ones. *)
Halves == {0, 2^LongBits - 1, 2^(LongBits - 1) + 1, Fields(LongBits, ByteBits) + ByteBits}
            \cup {2^k : k \in 0 .. LongBits - 1}

Init ==
  /\ \/ \E op \in Ops, bits \in Narrow, sgn \in BOOLEAN : \E p \in Patterns(bits) :
          call = [op |-> op, bits |-> bits, sgn |-> sgn, hi |-> 0, lo |-> p]
     \/ \E op \in Ops : \E h, l \in Halves :
          call = [op |-> op, bits |-> MaxBits, sgn |-> FALSE, hi |-> h, lo |-> l]
  /\ out = NoResult

Evaluate(c) ==
  LET v == Val(Type(c.bits, c.sgn), c.lo)
  IN IF c.bits = MaxBits
     THEN CASE c.op = "ctlz" -> codegen_ctlz128(c.hi, c.lo)
            [] c.op = "cttz" -> codegen_cttz128(c.hi, c.lo)
            [] c.op = "ctpop" -> codegen_ctpop128(c.hi, c.lo)
            [] c.op = "bswap" -> codegen_bswap128(c.hi, c.lo)
     ELSE CASE c.op = "ctlz" -> codegen_ctlz(c.bits, v)
            [] c.op = "cttz" -> codegen_cttz(c.bits, v)
            [] c.op = "ctpop" -> codegen_ctpop(c.bits, v)
            [] c.op = "bswap" -> codegen_bswap(c.bits, v)

Next == out = NoResult /\ out' = Evaluate(call) /\ UNCHANGED call

Spec == Init /\ [][Next]_vars

-----------------------------------------------------------------------------
(* Bit i of a call's operand. *)
OperandBit(c, i) ==
  IF i < LongBits THEN (c.lo \div 2^i) % 2 ELSE (c.hi \div 2^(i - LongBits)) % 2

Ones(c) == {i \in 0 .. c.bits - 1 : OperandBit(c, i) = 1}

(* Leading zeros, trailing zeros and ones are counted in the operand's own *)
(* width, 0 and negative operands included.                                *)
CountsExact ==
  (out # NoResult /\ call.op # "bswap") =>
    LET ones == Ones(call)
    IN out = CASE call.op = "ctpop" -> Cardinality(ones)
               [] ones = {} -> call.bits
               [] call.op = "ctlz" -> call.bits - 1 - (CHOOSE i \in ones : \A j \in ones : j <= i)
               [] call.op = "cttz" -> CHOOSE i \in ones : \A j \in ones : i <= j

(* Byte k of the result is byte n - 1 - k of the operand. *)
SwapsExact ==
  (out # NoResult /\ call.op = "bswap") =>
    LET n == call.bits \div ByteBits
        byte(hi, lo, k) == LET i == k * ByteBits
                           IN Pattern(ByteBits, IF i < LongBits THEN lo \div 2^i
                                                ELSE hi \div 2^(i - LongBits))
        r == IF call.bits = MaxBits THEN out ELSE <<0, out>>
    IN \A k \in 0 .. n - 1 : byte(r[1], r[2], k) = byte(call.hi, call.lo, n - 1 - k)
=============================================================================
