--------------------------- MODULE Int128Division ---------------------------
(***************************************************************************)
(* The portable 128-bit division: __udivti3 and __umodti3, which shift and *)
(* subtract one bit per round, and the signed __divti3 and __modti3, which *)
(* divide magnitudes.                                                      *)
(*                                                                         *)
(* Bits stands for 128 and Half for 64.  Pow[k] is 2^k; it is a constant   *)
(* so that the proofs need no exponentiation.                              *)
(***************************************************************************)
EXTENDS Integers

CONSTANTS Bits, Half, Pow

ASSUME BitsAssumption == Bits \in Nat /\ Half \in 1 .. Bits - 1

ASSUME PowAssumption ==
  /\ Pow \in [0 .. Bits -> Nat \ {0}]
  /\ Pow[0] = 1
  /\ \A k \in 0 .. Bits - 1 : Pow[k + 1] = 2 * Pow[k]

VARIABLES fun,      \* the function called
          x, y,     \* its arguments
          n, d,     \* the unsigned dividend and divisor
          q, r, i,  \* the loop's variables
          result,
          pc

vars == <<fun, x, y, n, d, q, r, i, result, pc>>

Funs == {"udivti3", "umodti3", "divti3", "modti3"}
SignedFuns == {"divti3", "modti3"}

M == Pow[Bits]           \* 2^128
SMin == -Pow[Bits - 1]   \* the least int128_t
U128 == 0 .. M - 1
I128 == SMin .. -SMin - 1

(* Conversions between int128_t and uint128_t, and the two negations. *)
ToUnsigned(s) == IF s < 0 THEN s + M ELSE s
ToSigned(u) == IF u < -SMin THEN u ELSE u - M
UNeg(u) == IF u = 0 THEN 0 ELSE M - u
SNeg(s) == IF s = SMin THEN SMin ELSE -s

Magnitude(s) == IF s < 0 THEN UNeg(ToUnsigned(s)) ELSE ToUnsigned(s)

(* Division by zero and the overflowing signed division are excluded by    *)
(* the checks that Rust compiles in front of the division.                 *)
Init ==
  /\ fun \in Funs
  /\ IF fun \in SignedFuns
     THEN /\ x \in I128 /\ y \in I128 /\ ~(x = SMin /\ y = -1)
          /\ n = Magnitude(x) /\ d = Magnitude(y)
     ELSE /\ x \in U128 /\ y \in U128
          /\ n = x /\ d = y
  /\ y # 0
  /\ q = 0 /\ r = 0 /\ i = Bits - 1
  /\ result = 0
  /\ pc = "test"

(* Both fit in 64 bits: the hardware divides. *)
DivideHalf ==
  /\ pc = "test"
  /\ n < Pow[Half] /\ d < Pow[Half]
  /\ q' = n \div d /\ r' = n % d
  /\ pc' = "return"
  /\ UNCHANGED <<fun, x, y, n, d, i, result>>

EnterLoop ==
  /\ pc = "test"
  /\ ~(n < Pow[Half] /\ d < Pow[Half])
  /\ pc' = "loop"
  /\ UNCHANGED <<fun, x, y, n, d, q, r, i, result>>

(* Mutant of Bit: without the mask. *)
BitUnmasked(k) == n \div Pow[k]
Bit(k) == (n \div Pow[k]) % 2

(* r << 1 | bit, in 128 bits. *)
Shifted == LET s == 2 * r + Bit(i) IN IF s < M THEN s ELSE s - M

(* Mutant of Iterate: subtracts only when the remainder is greater. *)
IterateGreater ==
  /\ pc = "loop" /\ i >= 0
  /\ IF Shifted > d THEN r' = Shifted - d /\ q' = q + Pow[i]
                    ELSE r' = Shifted /\ q' = q
  /\ i' = i - 1
  /\ UNCHANGED <<fun, x, y, n, d, result, pc>>

(* One round; bit i of q is still 0, so setting it is an addition. *)
Iterate ==
  /\ pc = "loop" /\ i >= 0
  /\ IF Shifted >= d THEN r' = Shifted - d /\ q' = q + Pow[i]
                     ELSE r' = Shifted /\ q' = q
  /\ i' = i - 1
  /\ UNCHANGED <<fun, x, y, n, d, result, pc>>

LeaveLoop ==
  /\ pc = "loop" /\ i < 0
  /\ pc' = "return"
  /\ UNCHANGED <<fun, x, y, n, d, q, r, i, result>>

(* Mutant of Return: the remainder takes the sign of the quotient. *)
ReturnQuotientSign ==
  /\ pc = "return"
  /\ result' = CASE fun = "udivti3" -> q
                 [] fun = "umodti3" -> r
                 [] fun = "divti3" -> IF (x < 0) # (y < 0) THEN SNeg(ToSigned(q)) ELSE ToSigned(q)
                 [] fun = "modti3" -> IF (x < 0) # (y < 0) THEN SNeg(ToSigned(r)) ELSE ToSigned(r)
  /\ pc' = "done"
  /\ UNCHANGED <<fun, x, y, n, d, q, r, i>>

Return ==
  /\ pc = "return"
  /\ result' = CASE fun = "udivti3" -> q
                 [] fun = "umodti3" -> r
                 [] fun = "divti3" -> IF (x < 0) # (y < 0) THEN SNeg(ToSigned(q)) ELSE ToSigned(q)
                 [] fun = "modti3" -> IF x < 0 THEN SNeg(ToSigned(r)) ELSE ToSigned(r)
  /\ pc' = "done"
  /\ UNCHANGED <<fun, x, y, n, d, q, r, i>>

Next == DivideHalf \/ EnterLoop \/ Iterate \/ LeaveLoop \/ Return

Spec == Init /\ [][Next]_vars

-----------------------------------------------------------------------------
TypeOK ==
  /\ fun \in Funs
  /\ x \in Int /\ y \in Int
  /\ n \in U128 /\ d \in U128 \ {0}
  /\ q \in Nat /\ r \in Nat
  /\ i \in -1 .. Bits - 1
  /\ result \in Int
  /\ pc \in {"test", "loop", "return", "done"}

(* The shift of the remainder to the left never loses its top bit, however *)
(* large the divisor.                                                      *)
NoBitLost == (pc = "loop" /\ i >= 0) => 2 * r + Bit(i) < M

(* The bits read so far, as a number, are the quotient's bits so far times *)
(* the divisor plus the remainder; the quotient's other bits are 0.        *)
PartialQuotient ==
  pc = "loop" =>
    LET h == q \div Pow[i + 1]
    IN /\ r < d
       /\ q = h * Pow[i + 1]
       /\ n \div Pow[i + 1] = h * d + r

AbsY == IF y < 0 THEN -y ELSE y

(* m is a remainder of the signed division of x by y. *)
IsRemainder(m) ==
  /\ -AbsY < m /\ m < AbsY
  /\ m = 0 \/ (m < 0) = (x < 0)

(* What the four functions return: for the signed ones, the quotient       *)
(* rounded toward zero and the remainder with the sign of the dividend.    *)
DivisionExact ==
  pc = "done" =>
    /\ fun = "udivti3" => result = x \div y
    /\ fun = "umodti3" => result = x % y
    /\ fun = "divti3" => IsRemainder(x - result * y)
    /\ fun = "modti3" => IsRemainder(result) /\ (x - result) % AbsY = 0
=============================================================================
