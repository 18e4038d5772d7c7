------------------------------- MODULE CArith -------------------------------
(***************************************************************************)
(* Integer expressions of C as the generated code relies on them: two's    *)
(* complement, wrapping (the C compiler is called with -fwrapv), the       *)
(* integer promotions and the usual arithmetic conversions.                *)
(*                                                                         *)
(* Widths are scaled: IntBits, LongBits and MaxBits stand for the 32 bits  *)
(* of int, the 64 of long long and the 128 of __int128.                    *)
(***************************************************************************)
EXTENDS Integers

CONSTANTS IntBits, LongBits, MaxBits

(* A C type is [bits, sgn]; a C value is [ty, v] with v in ty's range. *)
Type(bits, sgn) == [bits |-> bits, sgn |-> sgn]
Unsigned(ty) == Type(ty.bits, FALSE)
Signed(ty) == Type(ty.bits, TRUE)

Pattern(bits, v) == v % 2^bits
Wrap(ty, v) ==
  LET p == Pattern(ty.bits, v) IN IF ty.sgn /\ p >= 2^(ty.bits - 1) THEN p - 2^ty.bits ELSE p

Val(ty, v) == [ty |-> ty, v |-> Wrap(ty, v)]

(* _Bool is not an integer of 1 bit: a conversion to it compares with 0. *)
Bool == [bits |-> 1, sgn |-> FALSE, truth |-> TRUE]
Cast(ty, x) == IF ty = Bool THEN Val(Bool, IF x.v = 0 THEN 0 ELSE 1) ELSE Val(ty, x.v)

Promote(x) == IF x.ty.bits < IntBits THEN Cast(Type(IntBits, TRUE), x) ELSE x

CommonType(s, t) ==
  IF s.bits = t.bits THEN Type(s.bits, s.sgn /\ t.sgn)
  ELSE IF s.bits > t.bits THEN s ELSE t

(* Bit i of a number, and the number with the bits f[0], ..., f[n - 1]. *)
Bit(p, i) == (p \div 2^i) % 2
FromBits(n, f) ==
  LET sum[k \in 0 .. n] == IF k = 0 THEN 0 ELSE sum[k - 1] + f[k - 1] * 2^(k - 1) IN sum[n]

AndBits(n, a, b) == FromBits(n, [i \in 0 .. n - 1 |-> Bit(a, i) * Bit(b, i)])
OrBits(n, a, b) == FromBits(n, [i \in 0 .. n - 1 |-> IF Bit(a, i) + Bit(b, i) = 0 THEN 0 ELSE 1])
XorBits(n, a, b) == FromBits(n, [i \in 0 .. n - 1 |-> IF Bit(a, i) = Bit(b, i) THEN 0 ELSE 1])

(* Division truncates toward zero. *)
Quot(a, b) ==
  LET q == (IF a < 0 THEN -a ELSE a) \div (IF b < 0 THEN -b ELSE b)
  IN IF (a < 0) = (b < 0) THEN q ELSE -q

Apply(op, bits, a, b) ==
  CASE op = "+" -> a + b
    [] op = "-" -> a - b
    [] op = "*" -> a * b
    [] op = "/" -> Quot(a, b)
    [] op = "%" -> a - b * Quot(a, b)
    [] op = "&" -> AndBits(bits, Pattern(bits, a), Pattern(bits, b))
    [] op = "|" -> OrBits(bits, Pattern(bits, a), Pattern(bits, b))
    [] op = "^" -> XorBits(bits, Pattern(bits, a), Pattern(bits, b))

Bin(op, x, y) ==
  LET t == CommonType(Promote(x).ty, Promote(y).ty)
  IN Val(t, Apply(op, t.bits, Cast(t, x).v, Cast(t, y).v))

Holds(op, a, b) ==
  CASE op = "==" -> a = b [] op = "!=" -> a # b
    [] op = "<" -> a < b [] op = "<=" -> a <= b [] op = ">" -> a > b [] op = ">=" -> a >= b

Compare(op, x, y) ==
  LET t == CommonType(Promote(x).ty, Promote(y).ty)
  IN Holds(op, Cast(t, x).v, Cast(t, y).v)

(* Shifts keep the promoted type of the left operand. *)
Shl(x, s) == LET p == Promote(x) IN Val(p.ty, p.v * 2^s)
Shr(x, s) == LET p == Promote(x) IN Val(p.ty, p.v \div 2^s)

LogNot(x) == Val(Type(IntBits, TRUE), IF x.v = 0 THEN 1 ELSE 0)
BitNot(x) == LET p == Promote(x) IN Val(p.ty, -p.v - 1)
Neg(x) == LET p == Promote(x) IN Val(p.ty, -p.v)
=============================================================================
