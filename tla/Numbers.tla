------------------------------ MODULE Numbers -------------------------------
(***************************************************************************)
(* The operations on values, six families of calls.  The numeric ones are  *)
(* on scaled widths: each family has the widths that keep its structure    *)
(* (the helpers double a width, the bit operations halve it, the floats    *)
(* need it next to their precisions, lanes are narrower than int or not).  *)
(* The calls of functions have the real sizes of a 64-bit target.          *)
(***************************************************************************)
EXTENDS Integers

CONSTANTS Families,     \* the families of a run
          ByteBits, IntBits, LongBits, MaxBits,   \* the widths of operators and lanes
          Lanes, EdgeLanes,
          HelperBits,   \* the narrowest width of the helpers
          HelperCalls,  \* the calls of IntHelpers
          FullBits,
          MinFunnelShift,
          DestWidths,   \* the widths of integers converted from floats
          Signatures, Repeats,   \* the calls of CallAbi
          MaxExponent,  \* no width is greater
          NaN, Inf, NegInf, NoResult

VARIABLES family, call, out
vars == <<family, call, out>>

Ops == INSTANCE IntOps
Bits == INSTANCE BitOps
  WITH ByteBits <- 2, ShortBits <- 4, IntBits <- 8, LongBits <- 16, MaxBits <- 32
Helpers == INSTANCE IntHelpers
  WITH ShortBits <- HelperBits, IntBits <- 2 * HelperBits, LongBits <- 4 * HelperBits,
       MaxBits <- 8 * HelperBits, Calls <- HelperCalls
Floats == INSTANCE FloatConv
  WITH ShortBits <- 2, IntBits <- 3, LongBits <- 6, MaxBits <- 7,
       SingleBits <- 2, DoubleBits <- 4
Vectors == INSTANCE VectorOps
Abi == INSTANCE CallAbi WITH WordSize <- 8

ASSUME ScalesAreFaithful ==
  /\ Ops!ScaleOK /\ Bits!ScaleOK /\ Helpers!ScaleOK
  /\ Floats!ScaleOK /\ Vectors!ScaleOK

ASSUME HelperCallsAreKnown == HelperCalls \subseteq Helpers!AllOps \X Helpers!Types

(* The arithmetic helpers that do not give the results Rust specifies. *)
Deviating ==
  {"saturating_add", "saturating_sub", "checked_mul", "carrying_mul_add"}
    \X {[bits |-> 8 * HelperBits, sgn |-> TRUE]}

(* The powers of 2 up to the widest type. *)
ASSUME PowersOfTwo ==
  /\ MaxExponent \in Nat /\ MaxBits <= MaxExponent /\ 8 * HelperBits <= MaxExponent
  /\ 2^0 = 1 /\ \A n \in 0 .. MaxExponent - 1 : 2^(n + 1) = 2 * 2^n

Init ==
  /\ family \in Families
  /\ \/ family = "ops" /\ Ops!Init
     \/ family = "bits" /\ Bits!Init
     \/ family = "helpers" /\ Helpers!Init
     \/ family = "floats" /\ Floats!Init
     \/ family = "vectors" /\ Vectors!Init
     \/ family = "calls" /\ Abi!Init

Next ==
  /\ \/ family = "ops" /\ Ops!Next
     \/ family = "bits" /\ Bits!Next
     \/ family = "helpers" /\ Helpers!Next
     \/ family = "floats" /\ Floats!Next
     \/ family = "vectors" /\ Vectors!Next
     \/ family = "calls" /\ Abi!Next
  /\ UNCHANGED family

Spec == Init /\ [][Next]_vars

-----------------------------------------------------------------------------
(* The builder's arithmetic, shifts and negations compute their bit        *)
(* pattern, whatever C types and literals carry the operands; comparisons  *)
(* and switches read the patterns as their predicate says; a conversion    *)
(* extends by sign exactly when it is told to.                             *)
OperatorsExact ==
  family = "ops" => Ops!ArithmeticExact /\ Ops!ComparisonsExact /\ Ops!ConversionsExact

(* Rotations turn, bit reversal mirrors, and a funnel shift takes the      *)
(* right word out of the double word.                                      *)
MovesExact == family = "helpers" => Helpers!RotationsExact /\ Helpers!FunnelExact

(* Every bit is where it belongs: zeros and ones are counted in the        *)
(* operand's own width, 0 and negative operands included, byte swaps and   *)
(* bit reversal mirror, rotations turn, and a funnel shift takes the right *)
(* word out of the double word.                                            *)
BitsExact ==
  /\ family = "bits" => Bits!CountsExact /\ Bits!SwapsExact
  /\ MovesExact

(* Checked arithmetic reports overflow exactly when it wraps, saturating   *)
(* arithmetic gives the representable number nearest to the exact result,  *)
(* and the multiplication with carry is exact in its two words.            *)
OverflowExact ==
  family = "helpers" => Helpers!CheckedExact /\ Helpers!SaturatingExact /\ Helpers!CarryingExact

(* Rust's `as` from float to integer: truncated, saturated, NaN is 0.      *)
FloatToIntExact == family = "floats" => Floats!FloatToIntExact

(* Floats become integers as Rust's `as` says, integers the nearest float, *)
(* and comparisons put NaN outside the order.                              *)
FloatsExact ==
  /\ FloatToIntExact
  /\ family = "floats" => Floats!IntToFloatNearest /\ Floats!ComparisonsOrdered

(* The SIMD intrinsics give every lane what Rust specifies for it, in the  *)
(* lane type of the result, promotions of narrow lanes notwithstanding.    *)
VectorsExact == family = "vectors" => Vectors!LanesExact

(* Every data byte of the arguments is where the callee expects it, of the *)
(* result where the caller does, and of a repeated element in every place. *)
BytesArrive == family = "calls" => Abi!BytesArrive

(* No store of a parameter or result, however its C type was rounded up,   *)
(* writes behind the local or the buffer it is for.                        *)
StoresStayInside == family = "calls" => Abi!StoresStayInside
=============================================================================
