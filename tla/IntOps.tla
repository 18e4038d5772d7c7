------------------------------- MODULE IntOps -------------------------------
(***************************************************************************)
(* The C expressions that the builder emits for integer operations, on     *)
(* variables and on literals, evaluated by the rules of C.                 *)
(*                                                                         *)
(* rustc's operations know no signedness: an operation gets bit patterns   *)
(* and its name says how to read them.  A C operand has a signed or an     *)
(* unsigned type and is promoted; a literal even has a type of its own, LL *)
(* or ULL.  The casts in the builder must undo all of that.                *)
(*                                                                         *)
(* Pointer-width types are types of LongBits bits.                         *)
(***************************************************************************)
EXTENDS CArith

CONSTANTS ByteBits,    \* the scaled width of the types narrower than int
          NoResult

(* What the scaled widths must have in common with the real ones. *)
ScaleOK ==
  /\ ByteBits \in Nat /\ IntBits \in Nat /\ LongBits \in Nat /\ MaxBits \in Nat
  /\ 1 < ByteBits /\ ByteBits < IntBits /\ IntBits < LongBits /\ LongBits < MaxBits

VARIABLES call,   \* the operation, its operands' type, form and bit patterns
          out     \* the value of the C expression, once evaluated

vars == <<call, out>>

Widths == {ByteBits, IntBits, LongBits, MaxBits}
Types == {Type(b, s) : b \in Widths, s \in BOOLEAN}

(* const_uint, const_uint_big: the literal of a signed type is sign-       *)
(* extended from the pattern; rendered as LL or ULL if 64 bits hold it.    *)
Literal(ty, p) ==
  LET v == Wrap(ty, p)
      l == Type(LongBits, ty.sgn)
  IN IF Wrap(l, v) = v THEN Val(l, v) ELSE Val(Type(MaxBits, ty.sgn), v)

(* The forms of two operands: variable or constant. *)
Forms == {"vv", "vc", "cv"}
Left(c) == IF c.form = "cv" THEN Literal(c.ty, c.a) ELSE Val(c.ty, c.a)
Right(c) == IF c.form = "vc" THEN Literal(c.ty, c.b) ELSE Val(c.ty, c.b)

-----------------------------------------------------------------------------
(* The builder's expressions; each is assigned to a temporary of type ty.  *)

binop(op, ty, l, r) == Cast(ty, Bin(op, l, r))

unsigned_binop(op, ty, l, r) ==
  IF ty.sgn THEN Cast(ty, Bin(op, Cast(Unsigned(ty), l), Cast(Unsigned(ty), r)))
            ELSE binop(op, ty, l, r)

(* The shift amount is below the width: rustc masks or checks it. *)
shl(ty, l, r) == Cast(ty, Shl(Cast(ty, l), r.v))
ashr(ty, l, r) == Cast(ty, Shr(Cast(ty, l), r.v))

(* Mutant of lshr: as ashr. *)
lshrSigned(ty, l, r) == Cast(ty, Shr(Cast(ty, l), r.v))
lshr(ty, l, r) == Cast(ty, Shr(Cast(IF ty.sgn THEN Unsigned(ty) ELSE ty, l), r.v))

not(ty, x) == Cast(ty, IF ty = Bool THEN LogNot(x) ELSE BitNot(x))
neg(ty, x) == Cast(ty, Neg(x))

(* Mutant of icmp: no casts. *)
icmpUncast(pred, ty, l, r) ==
  LET op == CASE pred = "eq" -> "==" [] pred = "ne" -> "!="
              [] pred \in {"ult", "slt"} -> "<" [] pred \in {"ule", "sle"} -> "<="
              [] pred \in {"ugt", "sgt"} -> ">" [] pred \in {"uge", "sge"} -> ">="
  IN Compare(op, l, r)

(* Both sides are cast to the wider of the operands' types, which are one  *)
(* here: unsigned for the unsigned predicates, else signed.                *)
icmp(pred, ty, l, r) ==
  LET op == CASE pred = "eq" -> "==" [] pred = "ne" -> "!="
              [] pred \in {"ult", "slt"} -> "<" [] pred \in {"ule", "sle"} -> "<="
              [] pred \in {"ugt", "sgt"} -> ">" [] pred \in {"uge", "sge"} -> ">="
      t == Type(ty.bits, pred \notin {"ult", "ule", "ugt", "uge"})
  IN Compare(op, Cast(t, l), Cast(t, r))

(* switch on an unsigned value; C converts the case constant, a ULL or     *)
(* uint128_t literal with the pattern's value, to the promoted type.       *)
switch(ty, x, p) ==
  LET v == Promote(IF ty.sgn THEN Cast(Unsigned(ty), x) ELSE x)
  IN Cast(v.ty, Literal(Type(MaxBits, FALSE), p)) = v

trunc(ty, dest, x) == Cast(dest, x)

(* Mutant of zext: a plain cast. *)
zextPlain(ty, dest, x) == Cast(dest, x)
zext(ty, dest, x) == Cast(dest, IF ty.sgn THEN Cast(Unsigned(ty), x) ELSE x)

intcast(ty, dest, x, isSigned) ==
  IF ~isSigned THEN zext(ty, dest, x)
  ELSE Cast(dest, IF ty.sgn THEN x ELSE Cast(Signed(ty), x))

-----------------------------------------------------------------------------
Preds == {"eq", "ne", "ult", "ule", "ugt", "uge", "slt", "sle", "sgt", "sge"}
SignedOps == {"sdiv", "srem", "ashr"}
BinaryOps == {"add", "sub", "mul", "and", "or", "xor", "udiv", "urem", "shl", "lshr"} \cup SignedOps
Conversions == {"trunc", "zext", "intcast_s", "intcast_u"}

CBinOp(op) == CASE op = "add" -> "+" [] op = "sub" -> "-" [] op = "mul" -> "*"
                [] op \in {"udiv", "sdiv"} -> "/" [] op \in {"urem", "srem"} -> "%"
                [] op = "and" -> "&" [] op = "or" -> "|" [] op = "xor" -> "^"

Patterns(ty) == 0 .. 2^ty.bits - 1

(* What Rust guarantees of the operands: no division by zero, no           *)
(* overflowing signed division, shifts below the width.                    *)
Allowed(op, ty, a, b) ==
  /\ op \in {"udiv", "urem", "sdiv", "srem"} => b # 0
  /\ op \in {"sdiv", "srem"} => ~(a = 2^(ty.bits - 1) /\ b = 2^ty.bits - 1)
  /\ op \in {"shl", "lshr", "ashr"} => b < ty.bits
  /\ op \in SignedOps => ty.sgn

BinaryCall ==
  \E op \in BinaryOps \cup Preds \cup {"switch"}, ty \in Types, form \in Forms :
    \E a, b \in Patterns(ty) :
      /\ op = "switch" => form = "vv"   \* a switch tests a variable
      /\ Allowed(op, ty, a, b)
      /\ call = [op |-> op, ty |-> ty, form |-> form, a |-> a, b |-> b]

UnaryCall ==
  \E op \in {"not", "neg"}, ty \in Types \cup {Bool} : \E a \in Patterns(ty) :
    /\ ty = Bool => op = "not"
    /\ call = [op |-> op, ty |-> ty, form |-> "vv", a |-> a]

ConversionCall ==
  \E op \in Conversions, ty, dest \in Types, form \in {"vv", "cv"} : \E a \in Patterns(ty) :
    /\ op = "trunc" => dest.bits < ty.bits
    /\ op = "zext" => dest.bits > ty.bits
    /\ call = [op |-> op, ty |-> ty, form |-> form, a |-> a, dest |-> dest]

Init == (BinaryCall \/ UnaryCall \/ ConversionCall) /\ out = NoResult

Evaluate(c) ==
  LET l == Left(c)
      r == Right(c)
  IN CASE c.op \in {"add", "sub", "mul", "and", "or", "xor", "sdiv", "srem"} ->
            binop(CBinOp(c.op), c.ty, l, r)
       [] c.op \in {"udiv", "urem"} -> unsigned_binop(CBinOp(c.op), c.ty, l, r)
       [] c.op = "shl" -> shl(c.ty, l, r)
       [] c.op = "lshr" -> lshr(c.ty, l, r)
       [] c.op = "ashr" -> ashr(c.ty, l, r)
       [] c.op = "not" -> not(c.ty, l)
       [] c.op = "neg" -> neg(c.ty, l)
       [] c.op \in Preds -> icmp(c.op, c.ty, l, r)
       [] c.op = "switch" -> switch(c.ty, l, c.b)
       [] c.op = "trunc" -> trunc(c.ty, c.dest, l)
       [] c.op = "zext" -> zext(c.ty, c.dest, l)
       [] c.op = "intcast_s" -> intcast(c.ty, c.dest, l, TRUE)
       [] c.op = "intcast_u" -> intcast(c.ty, c.dest, l, FALSE)

Next == out = NoResult /\ out' = Evaluate(call) /\ UNCHANGED call

Spec == Init /\ [][Next]_vars

-----------------------------------------------------------------------------
(* What the operations mean, on bit patterns.                              *)
SignedOf(bits, p) == IF p < 2^(bits - 1) THEN p ELSE p - 2^bits

Meaning(op, n, a, b) ==
  LET sa == SignedOf(n, a)
      sb == SignedOf(n, b)
  IN Pattern(n, CASE op = "add" -> a + b [] op = "sub" -> a - b [] op = "mul" -> a * b
                  [] op = "udiv" -> a \div b [] op = "urem" -> a % b
                  [] op = "sdiv" -> Quot(sa, sb) [] op = "srem" -> sa - sb * Quot(sa, sb)
                  [] op = "shl" -> a * 2^b [] op = "lshr" -> a \div 2^b [] op = "ashr" -> sa \div 2^b)

(* Bitwise operations, by the two bits of one place. *)
BitwiseOps == {"and", "or", "xor"}
MeaningOfBits(op, i, j) ==
  CASE op = "and" -> i * j [] op = "or" -> i + j - i * j [] op = "xor" -> i + j - 2 * i * j

Relation(pred, n, a, b) ==
  LET sa == SignedOf(n, a)
      sb == SignedOf(n, b)
  IN CASE pred \in {"eq", "switch"} -> a = b [] pred = "ne" -> a # b
       [] pred = "ult" -> a < b [] pred = "ule" -> a <= b
       [] pred = "ugt" -> a > b [] pred = "uge" -> a >= b
       [] pred = "slt" -> sa < sb [] pred = "sle" -> sa <= sb
       [] pred = "sgt" -> sa > sb [] pred = "sge" -> sa >= sb

Result(n) == Pattern(n, out.v)

(* The arithmetic operations, the shifts and the negations compute their   *)
(* bit pattern, whatever C types and literals carry the operands.          *)
ArithmeticExact ==
  (out # NoResult /\ call.op \in BinaryOps \cup {"not", "neg"}) =>
    LET n == call.ty.bits
    IN CASE call.op = "not" -> Result(n) = 2^n - 1 - call.a
         [] call.op = "neg" -> Result(n) = Pattern(n, -call.a)
         [] call.op \in BitwiseOps -> \A i \in 0 .. n - 1 :
              Bit(Result(n), i) = MeaningOfBits(call.op, Bit(call.a, i), Bit(call.b, i))
         [] OTHER -> Result(n) = Meaning(call.op, n, call.a, call.b)

(* Comparisons and switches read the patterns as their predicate says; no  *)
(* promotion and no literal's type changes that.                           *)
ComparisonsExact ==
  (out # NoResult /\ call.op \in Preds \cup {"switch"}) =>
    out = Relation(call.op, call.ty.bits, call.a, call.b)

(* A conversion extends by sign exactly when it is told to. *)
ConversionsExact ==
  (out # NoResult /\ call.op \in Conversions) =>
    Result(call.dest.bits) =
      Pattern(call.dest.bits, IF call.op = "intcast_s" THEN SignedOf(call.ty.bits, call.a)
                                                       ELSE call.a)
=============================================================================
