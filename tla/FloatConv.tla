------------------------------ MODULE FloatConv ------------------------------
(***************************************************************************)
(* Conversions between integers and floating-point numbers (the saturating *)
(* casts of Rust's `as`, the unchecked ones, integers to floats) and the   *)
(* comparisons of floats.                                                  *)
(*                                                                         *)
(* A float is NaN, an infinity or a number that its precision can hold, in *)
(* halves, so that there is something to truncate.  Exponents are not      *)
(* bounded: u128 to f32 cannot overflow here.  ShortBits, IntBits,        *)
(* LongBits and MaxBits stand for 16, 32, 64 and 128 bits, SingleBits and  *)
(* DoubleBits for the 24 and 53 bits of a significand; only their order    *)
(* matters.                                                                *)
(***************************************************************************)
EXTENDS CArith

CONSTANTS ShortBits, SingleBits, DoubleBits,
          DestWidths,      \* the widths of the integers that floats become in a run
          NaN, Inf, NegInf, NoResult

Widths == {ShortBits, IntBits, LongBits, MaxBits}

(* What the scaled widths must have in common with the real ones. *)
ScaleOK ==
  /\ SingleBits < IntBits /\ IntBits < DoubleBits /\ DoubleBits < LongBits
  /\ 1 < ShortBits /\ ShortBits < IntBits /\ LongBits < MaxBits
  /\ DestWidths \subseteq Widths

VARIABLES call, out
vars == <<call, out>>

Least(ty) == IF ty.sgn THEN -(2^(ty.bits - 1)) ELSE 0
Greatest(ty) == IF ty.sgn THEN 2^(ty.bits - 1) - 1 ELSE 2^ty.bits - 1
Range(ty) == Least(ty) .. Greatest(ty)

Abs(n) == IF n < 0 THEN -n ELSE n

(* The number nearest to n with prec significant bits, ties to even. *)
Round(prec, n) ==
  IF Abs(n) < 2^prec THEN n
  ELSE LET e == CHOOSE e \in 1 .. Abs(n) : 2^(prec + e - 1) <= Abs(n) /\ Abs(n) < 2^(prec + e)
           q == Abs(n) \div 2^e
           r == Abs(n) % 2^e
           up == 2 * r > 2^e \/ (2 * r = 2^e /\ q % 2 = 1)
           m == 2^e * (IF up THEN q + 1 ELSE q)
       IN IF n < 0 THEN -m ELSE m

(* A number of halves, truncated to an integer. *)
Truncated(h) == IF h < 0 THEN -(-h \div 2) ELSE h \div 2

(* C's conversion of a float: what comes out of a number outside the       *)
(* type's range, of an infinity or of NaN is undefined.                    *)
CastFloat(ty, f) ==
  IF f \notin {NaN, Inf, NegInf} /\ Truncated(f) \in Range(ty) THEN {Truncated(f)} ELSE Range(ty)

Greater(f, h) == f = Inf \/ (f \notin {NaN, Inf, NegInf} /\ f > h)
Less(f, h) == f = NegInf \/ (f \notin {NaN, Inf, NegInf} /\ f < h)

(* A bound written as a double literal, in halves. *)
Bound(n) == 2 * Round(DoubleBits, n)

-----------------------------------------------------------------------------
(* Mutant of fptoui_sat: NaN is not tested. *)
fptoui_satNoNaN(ty, f) ==
  IF ty.bits > LongBits THEN CastFloat(ty, f)
  ELSE IF Less(f, 0) THEN {0}
  ELSE CastFloat(ty, IF Greater(f, Bound(Greatest(ty))) THEN Bound(Greatest(ty)) ELSE f)

fptoui_sat(ty, f) ==
  IF ty.bits > LongBits THEN CastFloat(ty, f)
  ELSE IF f = NaN \/ Less(f, 0) THEN {0}
  ELSE CastFloat(ty, IF Greater(f, Bound(Greatest(ty))) THEN Bound(Greatest(ty)) ELSE f)

fptosi_sat(ty, f) ==
  IF ty.bits > LongBits THEN CastFloat(ty, f)
  ELSE IF f = NaN THEN {0}
  ELSE CastFloat(ty, IF Less(f, Bound(Least(ty))) THEN Bound(Least(ty))
                     ELSE IF Greater(f, Bound(Greatest(ty))) THEN Bound(Greatest(ty)) ELSE f)

fptoui(ty, f) == CastFloat(ty, f)
fptosi(ty, f) == CastFloat(ty, f)

(* The integer may sit in a variable of either signedness. *)
(* Mutant of uitofp: converted as it is. *)
uitofpPlain(prec, x) == {2 * Round(prec, x.v)}
uitofp(prec, x) == {2 * Round(prec, Cast(Unsigned(x.ty), x).v)}
sitofp(prec, x) == {2 * Round(prec, x.v)}

(* C's comparison: NaN is different from everything and in no order. *)
IsLess(f, g) == NaN \notin {f, g} /\ (IF g \in {Inf, NegInf} THEN g = Inf /\ f # Inf ELSE Less(f, g))
CCompare(op, f, g) ==
  CASE op = "==" -> f = g /\ f # NaN
    [] op = "!=" -> f # g \/ f = NaN
    [] op = "<" -> IsLess(f, g)
    [] op = ">" -> IsLess(g, f)
    [] op = "<=" -> IsLess(f, g) \/ (f = g /\ f # NaN)
    [] op = ">=" -> IsLess(g, f) \/ (f = g /\ f # NaN)

(* The unordered predicates are compared as the ordered ones; of them,     *)
(* rustc_codegen_ssa uses RealUNE only.                                    *)
fcmp(op, f, g) ==
  CASE op \in {"RealOEQ", "RealUEQ"} -> CCompare("==", f, g)
    [] op \in {"RealONE", "RealUNE"} -> CCompare("!=", f, g)
    [] op \in {"RealOGT", "RealUGT"} -> CCompare(">", f, g)
    [] op \in {"RealOGE", "RealUGE"} -> CCompare(">=", f, g)
    [] op \in {"RealOLT", "RealULT"} -> CCompare("<", f, g)
    [] op \in {"RealOLE", "RealULE"} -> CCompare("<=", f, g)
    [] op = "RealPredicateFalse" -> FALSE
    [] op = "RealPredicateTrue" -> TRUE
    [] op = "RealORD" -> ~CCompare("!=", f, f) /\ ~CCompare("!=", g, g)
    [] op = "RealUNO" -> CCompare("!=", f, f) \/ CCompare("!=", g, g)

-----------------------------------------------------------------------------
(* Numbers around everything that matters to a type: all small ones, and   *)
(* those next to its bounds.                                               *)
Halves(ty) ==
  LET edge(n) == {2 * n + d : d \in -3 .. 3}
  IN (-6 .. 6) \cup edge(Least(ty)) \cup edge(Greatest(ty)) \cup edge(2^ty.bits)
       \cup {2 * Greatest(ty) + 2^k : k \in 1 .. ty.bits + 1}

(* The predicates of Rust's comparison operators. *)
Predicates == {"RealOEQ", "RealUNE", "RealOLT", "RealOLE", "RealOGT", "RealOGE"}

Floats(prec, ty) == {NaN, Inf, NegInf} \cup {Round(prec, h) : h \in Halves(ty)}

Init ==
  /\ \E bits \in Widths, prec \in {SingleBits, DoubleBits}, sgn \in BOOLEAN :
       LET ty == Type(bits, sgn)
       IN \/ \E f \in Floats(prec, ty), sat \in BOOLEAN :
               /\ bits \in DestWidths
               /\ ~sat => f \notin {NaN, Inf, NegInf} /\ Truncated(f) \in Range(ty)
               /\ call = [op |-> "fptoint", ty |-> ty, prec |-> prec, sat |-> sat, f |-> f]
          \/ \E p \in 0 .. 2^bits - 1, from \in BOOLEAN :
               /\ sgn => from
               /\ call = [op |-> "inttofp", ty |-> ty, prec |-> prec,
                          x |-> Val(Type(bits, from), p)]
          \/ \E f, g \in Floats(prec, ty), op \in Predicates :
               /\ bits = ShortBits /\ sgn
               /\ call = [op |-> "fcmp", predicate |-> op, f |-> f, g |-> g]
  /\ out = NoResult

Outcomes(c) ==
  IF c.op = "fcmp" THEN {fcmp(c.predicate, c.f, c.g)}
  ELSE IF c.op = "fptoint"
  THEN IF c.ty.sgn THEN IF c.sat THEN fptosi_sat(c.ty, c.f) ELSE fptosi(c.ty, c.f)
                   ELSE IF c.sat THEN fptoui_sat(c.ty, c.f) ELSE fptoui(c.ty, c.f)
  ELSE IF c.ty.sgn THEN sitofp(c.prec, c.x) ELSE uitofp(c.prec, c.x)

Next == out = NoResult /\ out' \in Outcomes(call) /\ UNCHANGED call

Spec == Init /\ [][Next]_vars

-----------------------------------------------------------------------------
(* Rust's `as`: the truncated number if the type has it, else the bound it *)
(* lies beyond; NaN is 0.  The unchecked casts are used within range only. *)
FloatToIntExact ==
  (out # NoResult /\ call.op = "fptoint") =>
    out = CASE call.f = NaN -> 0
            [] call.f = Inf -> Greatest(call.ty)
            [] call.f = NegInf -> Least(call.ty)
            [] OTHER -> LET n == Truncated(call.f)
                        IN IF n > Greatest(call.ty) THEN Greatest(call.ty)
                           ELSE IF n < Least(call.ty) THEN Least(call.ty) ELSE n

(* An integer becomes a float that no other float of the format is nearer  *)
(* to; the integer is read as its Rust type says, not its C variable.      *)
IntToFloatNearest ==
  (out # NoResult /\ call.op = "inttofp") =>
    LET n == 2 * Wrap(call.ty, call.x.v)
        representable == {s * m * 2^e : s \in {1, -1}, m \in 0 .. 2^call.prec - 1,
                                        e \in 0 .. call.ty.bits + 1}
    IN out \in representable /\ \A f \in representable : Abs(out - n) <= Abs(f - n)

(* Floats are ordered with the infinities at the ends, and NaN is outside  *)
(* the order: of Rust's operators only != holds for it.                    *)
ComparisonsOrdered ==
  (out # NoResult /\ call.op = "fcmp") =>
    LET far == 2^(MaxBits + 2)
        pos(f) == IF f = Inf THEN far ELSE IF f = NegInf THEN -far ELSE f
    IN out = IF NaN \in {call.f, call.g} THEN call.predicate = "RealUNE"
             ELSE CASE call.predicate = "RealOEQ" -> pos(call.f) = pos(call.g)
                    [] call.predicate = "RealUNE" -> pos(call.f) # pos(call.g)
                    [] call.predicate = "RealOLT" -> pos(call.f) < pos(call.g)
                    [] call.predicate = "RealOLE" -> pos(call.f) <= pos(call.g)
                    [] call.predicate = "RealOGT" -> pos(call.f) > pos(call.g)
                    [] call.predicate = "RealOGE" -> pos(call.f) >= pos(call.g)
=============================================================================
