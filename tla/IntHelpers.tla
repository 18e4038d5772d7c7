----------------------------- MODULE IntHelpers -----------------------------
(***************************************************************************)
(* Integer intrinsics of more than one C expression: checked and           *)
(* saturating arithmetic, rotation, funnel shifts, bit reversal and the    *)
(* multiplication with carry, with the helpers of the preamble.            *)
(*                                                                         *)
(* Every type is half as wide as the next, as in C: ShortBits, IntBits,    *)
(* LongBits and MaxBits stand for 16, 32, 64 and 128 bits.                 *)
(***************************************************************************)
EXTENDS CArith

CONSTANTS ShortBits,
          Calls,           \* the operations and types of a run: pairs <<op, type>>
          MinFunnelShift,  \* the least amount of the funnel shifts
          FullBits,        \* up to this width, all operands are characteristic
          NoResult

(* What the scaled widths must have in common with the real ones. *)
ScaleOK ==
  /\ ShortBits \in Nat \ {0} /\ MinFunnelShift \in Nat
  /\ IntBits = 2 * ShortBits /\ LongBits = 2 * IntBits /\ MaxBits = 2 * LongBits

VARIABLES call, out
vars == <<call, out>>

Widths == {ShortBits, IntBits, LongBits, MaxBits}
Types == {Type(b, s) : b \in Widths, s \in BOOLEAN}
Patterns(bits) == 0 .. 2^bits - 1

Wide(ty) == Type(2 * ty.bits, ty.sgn)
U128 == Type(MaxBits, FALSE)
I128 == Type(MaxBits, TRUE)
One == Val(Type(IntBits, TRUE), 1)

(* C's |, & and ^ of two values. *)
BitOr(x, y) == Bin("|", x, y)
BitAnd(x, y) == Bin("&", x, y)
BitXor(x, y) == Bin("^", x, y)

-----------------------------------------------------------------------------
(* Overflow detection; a result is <<value, overflow>>.                    *)

CBinOp(op) == CASE op = "add" -> "+" [] op = "sub" -> "-" [] op = "mul" -> "*"

(* Mutant of widening: the overflow test in the narrow type. *)
wideningNarrow(op, ty, a, b) ==
  LET w == Cast(ty, Bin(CBinOp(op), Cast(Wide(ty), a), Cast(Wide(ty), b)))
  IN <<Cast(ty, w), Compare("!=", w, Cast(ty, w))>>

widening(op, ty, a, b) ==
  LET w == Cast(Wide(ty), Bin(CBinOp(op), Cast(Wide(ty), a), Cast(Wide(ty), b)))
      r == Cast(ty, w)
  IN <<r, Compare("!=", w, Cast(Wide(ty), r))>>

overflow_u128(op, a, b) ==
  LET r == Bin(CBinOp(op), a, b)
  IN <<r, CASE op = "add" -> r.v < a.v
            [] op = "sub" -> a.v < b.v
            [] op = "mul" -> a.v # 0 /\ Bin("/", r, a).v # b.v>>

overflow_i128(op, a, b) ==
  LET ua == Cast(U128, a)
      ub == Cast(U128, b)
      r == Cast(I128, Bin(CBinOp(op), ua, ub))
      same == IF op = "add" THEN BitNot(BitXor(ua, ub)) ELSE BitXor(ua, ub)
      m == Bin("*", a, b)
  IN IF op = "mul" THEN <<m, a.v # 0 /\ Bin("/", m, a).v # b.v>>
     ELSE <<r, Cast(I128, BitAnd(same, BitXor(Cast(U128, r), ua))).v < 0>>

checked_binop(op, ty, a, b) ==
  CASE ty = U128 -> overflow_u128(op, a, b)
    [] ty = I128 -> overflow_i128(op, a, b)
    [] OTHER -> widening(op, ty, a, b)

(* Mutant of Clamp: subtraction clamps as addition. *)
ClampAsAdd(op, ty, b) ==
  IF ty.sgn
  THEN IF ty.bits > LongBits THEN 0
       ELSE IF b.v > 0 THEN 2^(ty.bits - 1) - 1 ELSE -(2^(ty.bits - 1))
  ELSE 2^ty.bits - 1

(* There are no clamp constants for signed 128-bit integers. *)
Clamp(op, ty, b) ==
  IF ty.sgn
  THEN IF ty.bits > LongBits THEN 0
       ELSE IF (op = "add") = (b.v > 0) THEN 2^(ty.bits - 1) - 1 ELSE -(2^(ty.bits - 1))
  ELSE IF op = "add" THEN 2^ty.bits - 1 ELSE 0

codegen_saturating(op, ty, a, b) ==
  LET c == checked_binop(op, ty, a, b) IN IF c[2] THEN Val(ty, Clamp(op, ty, b)) ELSE c[1]

-----------------------------------------------------------------------------
(* Shifts.  s is the shift amount, a uint32_t, here a number.              *)

(* Mutant of codegen_rotate: a signed value is not made unsigned. *)
codegen_rotateSigned(left, ty, x, s) ==
  LET n == s % ty.bits
      k == (ty.bits - s) % ty.bits
  IN {Cast(ty, IF left THEN BitOr(Shl(x, n), Shr(x, k)) ELSE BitOr(Shr(x, n), Shl(x, k)))}

codegen_rotate(left, ty, x, s) ==
  LET u == Cast(Unsigned(ty), x)
      n == s % ty.bits
      k == (ty.bits - s) % ty.bits
  IN {Cast(ty, IF left THEN BitOr(Shl(u, n), Shr(u, k)) ELSE BitOr(Shr(u, n), Shl(u, k)))}

(* A shift by at least the width of the promoted type is undefined in C:   *)
(* any value may come out.                                                 *)
codegen_funnel_shift(left, ty, a, b, s) ==
  LET ua == Cast(Unsigned(ty), a)
      ub == Cast(Unsigned(ty), b)
      k == ty.bits - s
  IN IF k >= Promote(ub).ty.bits THEN {Val(ty, p) : p \in Patterns(ty.bits)}
     ELSE {Cast(ty, IF left THEN BitOr(Shl(ua, s), Shr(ub, k)) ELSE BitOr(Shr(ua, s), Shl(ub, k)))}

(* The loop: one bit of v is shifted into the result per round. *)
codegen_bitreverse(ty, v) ==
  LET u == Cast(Unsigned(ty), v)
      r[i \in 0 .. ty.bits] ==
        IF i = 0 THEN Val(ty, 0)
        ELSE Cast(ty, BitOr(Shl(Cast(Unsigned(ty), r[i - 1]), 1), BitAnd(Shr(u, i - 1), One)))
  IN r[ty.bits]

-----------------------------------------------------------------------------
(* a * b + c + d, as <<low, high>>.                                        *)

mul_add_wide(ty, a, b, c, d) ==
  LET W(x) == Cast(Wide(ty), x)
      wide == Cast(Wide(ty), Bin("+", Bin("+", Bin("*", W(a), W(b)), W(c)), W(d)))
  IN <<Cast(ty, wide), Cast(ty, Shr(wide, ty.bits))>>

(* Mutant of CarryMid: the carry of the middle sum is lost. *)
NoCarryMid(mid, hi_lo) == 0
CarryMid(mid, hi_lo) == IF mid < hi_lo THEN 2^LongBits ELSE 0

(* The 128-bit case: four products of halves, all unsigned, and a carry of *)
(* every sum found by comparison.                                          *)
mul_add128(ty, a, b, c, d) ==
  LET half == 2^LongBits
      all == 2^MaxBits
      ua == Pattern(MaxBits, a.v)
      ub == Pattern(MaxBits, b.v)
      uc == Pattern(MaxBits, c.v)
      ud == Pattern(MaxBits, d.v)
      lo_lo == (ua % half) * (ub % half)
      hi_lo == (ua \div half) * (ub % half)
      lo_hi == (ua % half) * (ub \div half)
      hi_hi == (ua \div half) * (ub \div half)
      mid == (hi_lo + lo_hi) % all
      low1 == (lo_lo + mid * half) % all
      carry_low == IF low1 < lo_lo THEN 1 ELSE 0
      low2 == (low1 + uc) % all
      low3 == (low2 + ud) % all
      high == hi_hi + mid \div half + CarryMid(mid, hi_lo) + carry_low
                + (IF low2 < uc THEN 1 ELSE 0) + (IF low3 < ud THEN 1 ELSE 0)
  IN <<Val(ty, low3), Val(ty, high)>>

codegen_carrying_mul_add(ty, a, b, c, d) ==
  IF ty.bits <= LongBits THEN mul_add_wide(ty, a, b, c, d) ELSE mul_add128(ty, a, b, c, d)

-----------------------------------------------------------------------------
CheckedOps == {"checked_add", "checked_sub", "checked_mul"}
SaturatingOps == {"saturating_add", "saturating_sub"}
BinaryOps == CheckedOps \cup SaturatingOps
FunnelOps == {"funnel_shl", "funnel_shr"}
RotateOps == {"rotate_left", "rotate_right"}
AllOps == BinaryOps \cup FunnelOps \cup RotateOps \cup {"bitreverse", "carrying_mul_add"}

(* The operands of the multiplication with carry, and of the funnel shifts *)
(* of the widest type, are the characteristic ones.                        *)
Corners(bits) ==
  IF bits <= FullBits THEN Patterns(bits)
  ELSE {0, 1, 2^(bits \div 2) - 1, 2^(bits \div 2), 2^(bits - 1) - 1, 2^(bits - 1),
        2^bits - 2, 2^bits - 1}

HelperCall ==
  \E c \in Calls :
    LET op == c[1]
        ty == c[2]
    IN \/ /\ op \in BinaryOps
          /\ \E a, b \in Patterns(ty.bits) : call = [op |-> op, ty |-> ty, a |-> a, b |-> b]
       \/ /\ op \in RotateOps
          /\ \E a \in Patterns(ty.bits), s \in 0 .. 2 * ty.bits :
               call = [op |-> op, ty |-> ty, a |-> a, s |-> s]
       \/ /\ op \in FunnelOps
          /\ \E a, b \in Corners(ty.bits), s \in MinFunnelShift .. ty.bits - 1 :
               call = [op |-> op, ty |-> ty, a |-> a, b |-> b, s |-> s]
       \/ /\ op = "bitreverse"
          /\ \E a \in Patterns(ty.bits) : call = [op |-> op, ty |-> ty, a |-> a]
       \/ /\ op = "carrying_mul_add"
          /\ \E a, b, x, y \in Corners(ty.bits) :
               call = [op |-> op, ty |-> ty, a |-> a, b |-> b, c |-> x, d |-> y]

Init == HelperCall /\ out = NoResult

ArithOp(op) == CASE op \in {"checked_add", "saturating_add"} -> "add"
                 [] op \in {"checked_sub", "saturating_sub"} -> "sub"
                 [] op = "checked_mul" -> "mul"

(* The possible results of a call. *)
Outcomes(c) ==
  LET V(p) == Val(c.ty, p)
  IN CASE c.op \in CheckedOps -> {checked_binop(ArithOp(c.op), c.ty, V(c.a), V(c.b))}
       [] c.op \in SaturatingOps -> {codegen_saturating(ArithOp(c.op), c.ty, V(c.a), V(c.b))}
       [] c.op \in RotateOps -> codegen_rotate(c.op = "rotate_left", c.ty, V(c.a), c.s)
       [] c.op \in FunnelOps ->
            codegen_funnel_shift(c.op = "funnel_shl", c.ty, V(c.a), V(c.b), c.s)
       [] c.op = "bitreverse" -> {codegen_bitreverse(c.ty, V(c.a))}
       [] c.op = "carrying_mul_add" ->
            {codegen_carrying_mul_add(c.ty, V(c.a), V(c.b), V(c.c), V(c.d))}

Next == out = NoResult /\ out' \in Outcomes(call) /\ UNCHANGED call

Spec == Init /\ [][Next]_vars

-----------------------------------------------------------------------------
(* The exact result, a number, of an addition, subtraction or product. *)
Exact(c) ==
  LET a == Wrap(c.ty, c.a)
      b == Wrap(c.ty, c.b)
  IN CASE ArithOp(c.op) = "add" -> a + b
       [] ArithOp(c.op) = "sub" -> a - b
       [] ArithOp(c.op) = "mul" -> a * b

Least(ty) == IF ty.sgn THEN -(2^(ty.bits - 1)) ELSE 0
Greatest(ty) == IF ty.sgn THEN 2^(ty.bits - 1) - 1 ELSE 2^ty.bits - 1

(* Checked arithmetic gives the wrapped result and reports overflow        *)
(* exactly when the result was wrapped.                                    *)
CheckedExact ==
  (out # NoResult /\ call.op \in CheckedOps) =>
    /\ out[1].v = Wrap(call.ty, Exact(call))
    /\ out[2] = (Exact(call) # Wrap(call.ty, Exact(call)))

(* Saturating arithmetic gives the representable number nearest to the     *)
(* exact result.                                                           *)
SaturatingExact ==
  (out # NoResult /\ call.op \in SaturatingOps) =>
    out.v = IF Exact(call) > Greatest(call.ty) THEN Greatest(call.ty)
            ELSE IF Exact(call) < Least(call.ty) THEN Least(call.ty) ELSE Exact(call)

(* Bit i of a pattern. *)
BitOf(p, i) == (p \div 2^i) % 2

(* Rotations move bit i to i + s or i - s, bit reversal to the mirrored    *)
(* place, whatever the amount.                                             *)
RotationsExact ==
  (out # NoResult /\ call.op \in RotateOps \cup {"bitreverse"}) =>
    LET n == call.ty.bits
        to(i) == CASE call.op = "rotate_left" -> (i + call.s) % n
                   [] call.op = "rotate_right" -> (i + 2 * n - call.s) % n
                   [] call.op = "bitreverse" -> n - 1 - i
    IN \A i \in 0 .. n - 1 : BitOf(Pattern(n, out.v), to(i)) = BitOf(call.a, i)

(* A funnel shift takes one word out of the double word a:b - the upper    *)
(* one after a shift to the left, the lower one after a shift to the right *)
FunnelExact ==
  (out # NoResult /\ call.op \in FunnelOps) =>
    LET n == call.ty.bits
        double == call.a * 2^n + call.b
    IN Pattern(n, out.v) = IF call.op = "funnel_shl"
                           THEN ((double * 2^call.s) \div 2^n) % 2^n
                           ELSE (double \div 2^call.s) % 2^n

(* The two words of the multiplication with carry are those of the exact   *)
(* a * b + c + d.                                                          *)
CarryingExact ==
  (out # NoResult /\ call.op = "carrying_mul_add") =>
    LET n == call.ty.bits
        N(p) == Wrap(call.ty, p)
        exact == N(call.a) * N(call.b) + N(call.c) + N(call.d)
    IN /\ Pattern(n, out[1].v) = exact % 2^n
       /\ Pattern(n, out[2].v) = (exact \div 2^n) % 2^n
=============================================================================
