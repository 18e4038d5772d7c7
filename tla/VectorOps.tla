----------------------------- MODULE VectorOps ------------------------------
(***************************************************************************)
(* The SIMD intrinsics the backend translates: a vector is a C struct with *)
(* an array of lanes, and every lane is an expression of its own, with C's *)
(* promotions.  Widths are scaled as in CArith.  The backend turns the     *)
(* other simd_ intrinsics into zeros, and casts float lanes with a plain C *)
(* cast: neither is modelled.                                              *)
(***************************************************************************)
EXTENDS CArith, Sequences

CONSTANTS ByteBits, Lanes,
          EdgeLanes,   \* the lanes that only take the edges
          NoResult

ScaleOK == 0 < ByteBits /\ ByteBits < IntBits /\ IntBits < LongBits /\ Lanes \in Nat \ {0}

VARIABLES call, out
vars == <<call, out>>

Indices == 1 .. Lanes
LaneTypes == {Type(b, s) : b \in {ByteBits, IntBits, LongBits}, s \in BOOLEAN}
Vector(ty, f) == [i \in Indices |-> Val(ty, f[i])]

codegen_simd_extract(vec, idx) == vec[idx]
codegen_simd_insert(vec, idx, x) == [vec EXCEPT ![idx] = Cast(@.ty, x)]

CompareOp(name) ==
  CASE name = "simd_eq" -> "==" [] name = "simd_ne" -> "!=" [] name = "simd_lt" -> "<"
    [] name = "simd_le" -> "<=" [] name = "simd_gt" -> ">" [] name = "simd_ge" -> ">="

(* Lanes of all ones or all zeros, in the lane type ty of the result. *)
codegen_simd_cmp(name, ty, a, b) ==
  [i \in Indices |-> Val(ty, IF Compare(CompareOp(name), a[i], b[i]) THEN -1 ELSE 0)]

codegen_simd_bitwise(name, a, b) ==
  LET op == CASE name = "simd_and" -> "&" [] name = "simd_or" -> "|" [] name = "simd_xor" -> "^"
  IN [i \in Indices |-> Cast(a[i].ty, Bin(op, a[i], b[i]))]

codegen_simd_shift(name, a, b) ==
  [i \in Indices |->
     Cast(a[i].ty, IF name = "simd_shl" THEN Shl(a[i], b[i].v) ELSE Shr(a[i], b[i].v))]

codegen_simd_cast(ty, a) == [i \in Indices |-> Cast(ty, a[i])]

(* Mutant: both halves of the joined array are the first vector. *)
codegen_simd_shuffleFirst(a, b, idx) == [i \in DOMAIN idx |-> (a \o a)[idx[i] + 1]]

(* The lanes are picked out of both vectors joined. *)
codegen_simd_shuffle(a, b, idx) == [i \in DOMAIN idx |-> (a \o b)[idx[i] + 1]]

-----------------------------------------------------------------------------
Comparisons == {"simd_eq", "simd_ne", "simd_lt", "simd_le", "simd_gt", "simd_ge"}
Binary == Comparisons \cup {"simd_and", "simd_or", "simd_xor", "simd_shl", "simd_shr"}

(* The other lanes take all values. *)
Vectors(ty) ==
  {Vector(ty, f) : f \in {g \in [Indices -> 0 .. 2^ty.bits - 1] :
     \A i \in EdgeLanes \cap Indices : g[i] \in {1, 2^ty.bits - 1}}}

SimdCall ==
  \E ty, to \in LaneTypes : \E a, b \in Vectors(ty) :
    \/ \E name \in Binary :
         /\ to = Signed(ty)
         /\ name \in {"simd_shl", "simd_shr"} => \A i \in Indices : b[i].v \in 0 .. ty.bits - 1
         /\ call = [name |-> name, to |-> to, a |-> a, b |-> b]
    \/ /\ b = a
       /\ call = [name |-> "simd_cast", to |-> to, a |-> a]
    \/ \E i \in Indices, name \in {"simd_extract", "simd_insert"} :
         /\ ty = to
         /\ call = [name |-> name, a |-> a, idx |-> i, x |-> b[1]]
    \/ \E idx \in [1 .. Lanes -> 0 .. 2 * Lanes - 1] :
         /\ ty = to /\ ty.bits = ByteBits
         /\ call = [name |-> "simd_shuffle", a |-> a, b |-> b, idx |-> idx]

Init == SimdCall /\ out = NoResult

Result(c) ==
  CASE c.name = "simd_extract" -> <<codegen_simd_extract(c.a, c.idx)>>
    [] c.name = "simd_insert" -> codegen_simd_insert(c.a, c.idx, c.x)
    [] c.name \in {"simd_and", "simd_or", "simd_xor"} -> codegen_simd_bitwise(c.name, c.a, c.b)
    [] c.name \in {"simd_shl", "simd_shr"} -> codegen_simd_shift(c.name, c.a, c.b)
    [] c.name = "simd_cast" -> codegen_simd_cast(c.to, c.a)
    [] c.name = "simd_shuffle" -> codegen_simd_shuffle(c.a, c.b, c.idx)
    [] OTHER -> codegen_simd_cmp(c.name, c.to, c.a, c.b)

Next == out = NoResult /\ out' = Result(call) /\ UNCHANGED call

Spec == Init /\ [][Next]_vars

-----------------------------------------------------------------------------
(* What Rust says of a lane, by numbers and by bits. *)
BitOf(x, k) == (Pattern(x.ty.bits, x.v) \div 2^k) % 2

LaneExact(i) ==
  LET a == call.a[i]
      b == call.b[i]
      bit(x, k) == BitOf(x, k) = 1
      r == out[i]
      bits == 0 .. a.ty.bits - 1
      truth(p) == r.v = (IF p THEN -1 ELSE 0)
  IN CASE call.name = "simd_eq" -> truth(a.v = b.v)
       [] call.name = "simd_ne" -> truth(a.v # b.v)
       [] call.name = "simd_lt" -> truth(a.v < b.v)
       [] call.name = "simd_le" -> truth(a.v <= b.v)
       [] call.name = "simd_gt" -> truth(a.v > b.v)
       [] call.name = "simd_ge" -> truth(a.v >= b.v)
       [] call.name = "simd_and" -> \A k \in bits : bit(r, k) = (bit(a, k) /\ bit(b, k))
       [] call.name = "simd_or" -> \A k \in bits : bit(r, k) = (bit(a, k) \/ bit(b, k))
       [] call.name = "simd_xor" -> \A k \in bits : bit(r, k) = (bit(a, k) # bit(b, k))
       [] call.name = "simd_shl" -> \A k \in bits : bit(r, k) = (k >= b.v /\ bit(a, k - b.v))
       [] call.name = "simd_shr" ->
            \A k \in bits : bit(r, k) = IF k + b.v \in bits THEN bit(a, k + b.v)
                                        ELSE a.ty.sgn /\ a.v < 0

(* Every lane of the result is what Rust specifies for that lane, of the   *)
(* lane type of the result, and depends on no other lane: narrow lanes are *)
(* not widened by C's promotions, a shuffle takes lanes of both vectors.   *)
LanesExact ==
  out # NoResult =>
    CASE call.name \in Binary -> \A i \in Indices :
           LaneExact(i) /\ out[i].ty = IF call.name \in Comparisons THEN call.to ELSE call.a[i].ty
      [] call.name = "simd_cast" -> \A i \in Indices :
           out[i].ty = call.to /\ (out[i].v - call.a[i].v) % 2^call.to.bits = 0
      [] call.name = "simd_extract" -> out = <<call.a[call.idx]>>
      [] call.name = "simd_insert" -> \A i \in Indices :
           out[i] = IF i = call.idx THEN call.x ELSE call.a[i]
      [] call.name = "simd_shuffle" -> \A i \in DOMAIN call.idx :
           out[i] = IF call.idx[i] < Lanes THEN call.a[call.idx[i] + 1]
                    ELSE call.b[call.idx[i] - Lanes + 1]
=============================================================================
