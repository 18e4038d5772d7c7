------------------------ MODULE Int128Division_proofs ------------------------
(***************************************************************************)
(* The shift-and-subtract division is exact, for any number of bits.       *)
(***************************************************************************)
EXTENDS Int128Division, TLAPS

-----------------------------------------------------------------------------
(* Facts about \div and %.                                                 *)

(* Quotient and remainder recompose the dividend. *)
LEMMA DivFacts ==
  ASSUME NEW a \in Nat, NEW b \in Nat \ {0}
  PROVE  /\ a \div b \in Nat /\ a % b \in Nat
         /\ a = (a \div b) * b + (a % b)
         /\ a % b < b
  OBVIOUS

(* Quotient and remainder are unique. *)
LEMMA DivUnique ==
  ASSUME NEW a \in Nat, NEW b \in Nat \ {0}, NEW c \in Nat, NEW s \in Nat,
         a = c * b + s, s < b
  PROVE  a \div b = c /\ a % b = s
<1>1. PICK c2 \in Nat, s2 \in Nat : c2 = a \div b /\ s2 = a % b /\ a = c2 * b + s2 /\ s2 < b
  BY DivFacts
<1>2. (c2 - c) * b = s - s2
  BY <1>1
<1>3. ~(c2 >= c + 1)
  <2>1. SUFFICES ASSUME c2 - c >= 1 PROVE FALSE
    OBVIOUS
  <2>2. (c2 - c) * b >= b
    BY <2>1
  <2> QED BY <2>2, <1>1, <1>2
<1>4. ~(c >= c2 + 1)
  <2>1. SUFFICES ASSUME c - c2 >= 1 PROVE FALSE
    OBVIOUS
  <2>2. (c - c2) * b >= b
    BY <2>1
  <2> QED BY <2>2, <1>1, <1>2
<1>5. c2 = c
  BY <1>3, <1>4
<1> QED BY <1>1, <1>5

(* A quotient is at most the dividend. *)
LEMMA DivSmaller ==
  ASSUME NEW a \in Nat, NEW b \in Nat \ {0}
  PROVE  a \div b <= a
<1> DEFINE u == a \div b
           v == a % b
<1>1. u \in Nat /\ v \in Nat /\ a = u * b + v
  BY DivFacts
<1> HIDE DEF u, v
<1>2. u * b >= u
  BY <1>1
<1>3. u <= a
  BY <1>1, <1>2
<1> QED BY <1>3 DEF u

(* A multiple leaves no remainder. *)
LEMMA ModMultiple ==
  ASSUME NEW k \in Int, NEW b \in Nat \ {0}
  PROVE  (k * b) % b = 0
<1> DEFINE a == k * b
           u == a \div b
           v == a % b
<1>1. a \in Int /\ a = k * b
  OBVIOUS
<1> HIDE DEF a
<1>2. u \in Int /\ v \in 0 .. b - 1 /\ a = u * b + v
  BY <1>1
<1> HIDE DEF u, v
<1>3. (k - u) * b = v
  BY <1>1, <1>2
<1>4. ~(k - u >= 1)
  <2>1. SUFFICES ASSUME k - u >= 1 PROVE FALSE
    OBVIOUS
  <2>2. (k - u) * b >= b
    BY <2>1, <1>2
  <2> QED BY <2>2, <1>2, <1>3
<1>5. ~(u - k >= 1)
  <2>1. SUFFICES ASSUME u - k >= 1 PROVE FALSE
    OBVIOUS
  <2>2. (u - k) * b >= b
    BY <2>1, <1>2
  <2> QED BY <2>2, <1>2, <1>3
<1>6. v = 0
  BY <1>2, <1>3, <1>4, <1>5
<1> QED BY <1>6 DEF v, a

(* One more bit of the dividend: a >> k is 2 * (a >> k + 1) plus bit k. *)
LEMMA HalfStep ==
  ASSUME NEW a \in Nat, NEW b \in Nat \ {0}
  PROVE  a \div b = 2 * (a \div (2 * b)) + ((a \div b) % 2)
<1> DEFINE u == a \div b
           v == a % b
           w == u \div 2
           e == u % 2
<1>1. u \in Nat /\ v \in Nat /\ a = u * b + v /\ v < b
  BY DivFacts
<1>2. w \in Nat /\ e \in Nat /\ e < 2 /\ u = w * 2 + e
  BY <1>1
<1>3. e * b + v \in Nat /\ e * b + v < 2 * b
  <2>1. e = 0 \/ e = 1
    BY <1>2
  <2> QED BY <2>1, <1>1
<1> HIDE DEF u, v, w, e
<1>4. a = w * (2 * b) + (e * b + v)
  BY <1>1, <1>2
<1>5. a \div (2 * b) = w
  <2>1. 2 * b \in Nat \ {0}
    OBVIOUS
  <2> QED BY <1>2, <1>3, <1>4, <2>1, DivUnique
<1>6. u = 2 * (a \div (2 * b)) + e
  BY <1>2, <1>5
<1> QED BY <1>6 DEF u, e

-----------------------------------------------------------------------------
(* Facts about the constants and the conversions.                          *)

LEMMA PowFacts ==
  /\ \A k \in 0 .. Bits : Pow[k] \in Nat \ {0}
  /\ \A k \in 0 .. Bits - 1 : Pow[k + 1] = 2 * Pow[k]
  /\ Pow[0] = 1
  /\ M \in Nat \ {0} /\ SMin \in Int /\ SMin < 0 /\ M = 2 * (-SMin)
<1>1. \A k \in 0 .. Bits : Pow[k] \in Nat \ {0}
  BY PowAssumption
<1>2. \A k \in 0 .. Bits - 1 : Pow[k + 1] = 2 * Pow[k]
  BY PowAssumption
<1>3. Bits - 1 \in 0 .. Bits - 1 /\ Bits \in 0 .. Bits /\ Bits = (Bits - 1) + 1
  BY BitsAssumption
<1>4. Pow[Bits] = 2 * Pow[Bits - 1]
  BY <1>2, <1>3
<1>5. Pow[Bits] \in Nat \ {0} /\ Pow[Bits - 1] \in Nat \ {0}
  BY <1>1, <1>3
<1>6. M \in Nat \ {0} /\ SMin \in Int /\ SMin < 0 /\ M = 2 * (-SMin)
  BY <1>4, <1>5 DEF M, SMin
<1> QED BY <1>1, <1>2, <1>6, PowAssumption

(* The magnitude of a signed number is its absolute value, for the least   *)
(* one too, and fits in the unsigned type.                                 *)
LEMMA MagnitudeFacts ==
  ASSUME NEW s \in I128
  PROVE  /\ Magnitude(s) = IF s < 0 THEN -s ELSE s
         /\ Magnitude(s) \in U128
         /\ Magnitude(s) <= -SMin
  BY PowFacts DEF Magnitude, UNeg, ToUnsigned, I128, U128

-----------------------------------------------------------------------------
(* The inductive invariant.                                                *)

Arguments ==
  /\ fun \in SignedFuns => /\ x \in I128 /\ y \in I128 /\ ~(x = SMin /\ y = -1)
                           /\ n = Magnitude(x) /\ d = Magnitude(y)
  /\ fun \notin SignedFuns => x = n /\ y = d

AtTest == pc = "test" => q = 0 /\ r = 0 /\ i = Bits - 1

(* When the loop has ended, q and r are quotient and remainder. *)
Divided == pc \in {"return", "done"} => n = q * d + r /\ r < d

IInv == TypeOK /\ Arguments /\ AtTest /\ PartialQuotient /\ Divided /\ DivisionExact

(* The bits above the first Bits are 0. *)
LEMMA NothingAbove ==
  ASSUME NEW a \in U128
  PROVE  a \div M = 0
<1>1. a \in Nat /\ M \in Nat \ {0} /\ a = 0 * M + a /\ a < M
  BY PowFacts DEF U128
<1> QED BY <1>1, DivUnique

LEMMA InitIInv == Init => IInv
<1> SUFFICES ASSUME Init PROVE IInv
  OBVIOUS
<1>1. Arguments
  BY DEF Init, Arguments
<1>2. n \in U128 /\ d \in U128 \ {0}
  <2>1. CASE fun \in SignedFuns
    <3>1. n \in U128 /\ d \in U128
      BY <2>1, MagnitudeFacts DEF Init
    <3>2. d # 0
      BY <2>1, MagnitudeFacts, PowFacts DEF Init, I128
    <3> QED BY <3>1, <3>2
  <2>2. CASE fun \notin SignedFuns
    BY <2>2 DEF Init
  <2> QED BY <2>1, <2>2
<1>3. x \in Int /\ y \in Int
  BY PowFacts DEF Init, I128, U128
<1>4. TypeOK
  BY <1>2, <1>3, BitsAssumption DEF Init, TypeOK
<1> QED BY <1>1, <1>4 DEF Init, IInv, AtTest, PartialQuotient, Divided, DivisionExact

(* In the loop no shift loses a bit, and Shifted is 2 * r + Bit(i). *)
LEMMA LoopFacts ==
  ASSUME TypeOK, PartialQuotient, pc = "loop", i >= 0
  PROVE  /\ Pow[i] \in Nat \ {0} /\ Pow[i + 1] = 2 * Pow[i]
         /\ q \div Pow[i + 1] \in Nat
         /\ Bit(i) \in {0, 1}
         /\ n \div Pow[i] = 2 * ((q \div Pow[i + 1]) * d + r) + Bit(i)
         /\ 2 * r + Bit(i) < M
         /\ Shifted = 2 * r + Bit(i)
<1>1. i \in 0 .. Bits - 1 /\ i \in 0 .. Bits /\ i + 1 \in 0 .. Bits
  BY BitsAssumption DEF TypeOK
<1>2. Pow[i] \in Nat \ {0} /\ Pow[i + 1] = 2 * Pow[i] /\ Pow[i + 1] \in Nat \ {0}
  BY <1>1, PowFacts
<1>3. n \in Nat /\ d \in Nat /\ q \in Nat /\ r \in Nat /\ n < M /\ M \in Nat
  BY PowFacts DEF TypeOK, U128
<1> DEFINE h == q \div Pow[i + 1]
<1>4. h \in Nat
  BY <1>2, <1>3, DivFacts
<1>5. n \div Pow[i + 1] = h * d + r
  BY DEF PartialQuotient
<1>6. n \div Pow[i] \in Nat
  BY <1>2, <1>3, DivFacts
<1>7. Bit(i) \in {0, 1}
  BY <1>6 DEF Bit
<1>8. n \div Pow[i] = 2 * (n \div Pow[i + 1]) + Bit(i)
  BY <1>2, <1>3, HalfStep DEF Bit
<1>9. n \div Pow[i] <= n
  BY <1>2, <1>3, DivSmaller
<1> HIDE DEF h
<1>10. h * d \in Nat
  BY <1>3, <1>4
<1>11. 2 * r + Bit(i) < M
  BY <1>3, <1>5, <1>6, <1>7, <1>8, <1>9, <1>10
<1>12. Shifted = 2 * r + Bit(i)
  BY <1>11, <1>3, <1>7 DEF Shifted
<1> QED BY <1>2, <1>4, <1>5, <1>7, <1>8, <1>11, <1>12 DEF h

LEMMA DivideHalfIInv == IInv /\ DivideHalf => IInv'
<1> SUFFICES ASSUME IInv, DivideHalf PROVE IInv'
  OBVIOUS
<1> USE DEF IInv, DivideHalf
<1>1. n \in Nat /\ d \in Nat \ {0}
  BY PowFacts DEF TypeOK, U128
<1>2. q' \in Nat /\ r' \in Nat /\ n = q' * d + r' /\ r' < d
  BY <1>1, DivFacts
<1>3. TypeOK'
  BY <1>2 DEF TypeOK, U128, M, SMin
<1>4. Arguments'
  BY DEF Arguments, SMin, M, I128, Magnitude, UNeg, ToUnsigned
<1>5. AtTest' /\ PartialQuotient' /\ DivisionExact'
  BY DEF AtTest, PartialQuotient, DivisionExact
<1>6. Divided'
  BY <1>2 DEF Divided
<1> QED BY <1>3, <1>4, <1>5, <1>6

LEMMA EnterLoopIInv == IInv /\ EnterLoop => IInv'
<1> SUFFICES ASSUME IInv, EnterLoop PROVE IInv'
  OBVIOUS
<1> USE DEF IInv, EnterLoop
<1>1. n \in U128 /\ n \in Nat /\ d \in Nat \ {0}
  BY PowFacts DEF TypeOK, U128
<1>2. TypeOK' /\ Arguments'
  BY DEF TypeOK, U128, Arguments, SMin, M, I128, Magnitude, UNeg, ToUnsigned
<1>3. AtTest' /\ Divided' /\ DivisionExact'
  BY DEF AtTest, Divided, DivisionExact
<1>4. PartialQuotient'
  <2>1. q = 0 /\ r = 0 /\ i + 1 = Bits
    BY BitsAssumption DEF AtTest
  <2>2. M \in Nat \ {0} /\ 0 \div M = 0 /\ n \div M = 0
    BY <1>1, PowFacts, NothingAbove DEF U128
  <2>3. 0 = 0 * M /\ 0 = 0 * d + 0 /\ 0 < d
    BY <1>1, <2>2
  <2> QED BY <2>1, <2>2, <2>3 DEF PartialQuotient, M
<1> QED BY <1>2, <1>3, <1>4

LEMMA IterateIInv == IInv /\ Iterate => IInv'
<1> SUFFICES ASSUME IInv, Iterate PROVE IInv'
  OBVIOUS
<1> USE DEF IInv, Iterate
<1> DEFINE h == q \div Pow[i + 1]
           g == IF Shifted >= d THEN 2 * h + 1 ELSE 2 * h
<1>1. /\ Pow[i] \in Nat \ {0} /\ Pow[i + 1] = 2 * Pow[i]
      /\ h \in Nat /\ Bit(i) \in {0, 1}
      /\ n \div Pow[i] = 2 * (h * d + r) + Bit(i)
      /\ Shifted = 2 * r + Bit(i)
  BY LoopFacts
<1>2. n \in Nat /\ d \in Nat \ {0} /\ q \in Nat /\ r \in Nat /\ r < d /\ i \in Int
  BY PowFacts, BitsAssumption DEF TypeOK, U128, PartialQuotient
<1>3. q = h * (2 * Pow[i])
  BY <1>1 DEF PartialQuotient
<1>4. Pow' = Pow /\ i' + 1 = i
  BY <1>2
<1> HIDE DEF h
<1>5. /\ q' \in Nat /\ r' \in Nat /\ r' < d /\ g \in Nat
      /\ q' = g * Pow[i]
      /\ n \div Pow[i] = g * d + r'
  <2>1. CASE Shifted >= d
    <3>1. r' = (2 * r + Bit(i)) - d /\ q' = q + Pow[i] /\ g = 2 * h + 1
      BY <1>1, <2>1
    <3>2. r' \in Nat /\ r' < d
      BY <3>1, <1>1, <1>2, <2>1
    <3>3. q' = (2 * h + 1) * Pow[i] /\ q' \in Nat
      BY <3>1, <1>1, <1>2, <1>3
    <3>4. n \div Pow[i] = (2 * h + 1) * d + r'
      BY <3>1, <1>1, <1>2
    <3> QED BY <3>1, <3>2, <3>3, <3>4, <1>1
  <2>2. CASE ~(Shifted >= d)
    <3>1. r' = 2 * r + Bit(i) /\ q' = q /\ g = 2 * h
      BY <1>1, <2>2
    <3>2. r' \in Nat /\ r' < d
      BY <3>1, <1>1, <1>2, <2>2
    <3>3. q' = (2 * h) * Pow[i] /\ q' \in Nat
      BY <3>1, <1>1, <1>2, <1>3
    <3>4. n \div Pow[i] = (2 * h) * d + r'
      BY <3>1, <1>1, <1>2
    <3> QED BY <3>1, <3>2, <3>3, <3>4, <1>1
  <2> QED BY <2>1, <2>2
<1> HIDE DEF g
<1>6. q' \div Pow[i] = g
  BY <1>1, <1>5, DivUnique
<1>7. PartialQuotient'
  BY <1>4, <1>5, <1>6 DEF PartialQuotient
<1>8. TypeOK'
  BY <1>2, <1>5, BitsAssumption DEF TypeOK, U128, M
<1>9. Arguments' /\ AtTest' /\ Divided' /\ DivisionExact'
  BY DEF Arguments, SMin, M, I128, Magnitude, UNeg, ToUnsigned, AtTest, Divided, DivisionExact
<1> QED BY <1>7, <1>8, <1>9

LEMMA LeaveLoopIInv == IInv /\ LeaveLoop => IInv'
<1> SUFFICES ASSUME IInv, LeaveLoop PROVE IInv'
  OBVIOUS
<1> USE DEF IInv, LeaveLoop
<1>1. n \in Nat /\ d \in Nat \ {0} /\ q \in Nat /\ r \in Nat /\ i + 1 = 0
  BY PowFacts, BitsAssumption DEF TypeOK, U128
<1>2. n \div 1 = (q \div 1) * d + r /\ r < d
  BY <1>1, PowFacts DEF PartialQuotient
<1>3. n \div 1 = n /\ q \div 1 = q
  BY <1>1
<1>4. Divided'
  BY <1>2, <1>3 DEF Divided
<1>5. TypeOK' /\ Arguments'
  BY DEF TypeOK, U128, Arguments, SMin, M, I128, Magnitude, UNeg, ToUnsigned
<1>6. AtTest' /\ PartialQuotient' /\ DivisionExact'
  BY DEF AtTest, PartialQuotient, DivisionExact
<1> QED BY <1>4, <1>5, <1>6

(* The signed results: the sign is put back without overflow, because a    *)
(* quotient of 2^127 occurs only with a negative result.                   *)
LEMMA SignedResults ==
  ASSUME TypeOK, Arguments, fun \in SignedFuns, n = q * d + r, r < d
  PROVE  /\ (x < 0) # (y < 0) => SNeg(ToSigned(q)) = -q
         /\ (x < 0) = (y < 0) => ToSigned(q) = q
         /\ SNeg(ToSigned(r)) = -r
         /\ ToSigned(r) = r
<1>1. /\ x \in Int /\ y \in Int /\ ~(x = SMin /\ y = -1)
      /\ n = (IF x < 0 THEN -x ELSE x) /\ d = (IF y < 0 THEN -y ELSE y)
      /\ n <= -SMin /\ d <= -SMin /\ x < -SMin
  BY MagnitudeFacts, PowFacts DEF Arguments, I128
<1>2. n \in Nat /\ d \in Nat \ {0} /\ q \in Nat /\ r \in Nat
  BY PowFacts DEF TypeOK, U128
<1>3. SMin \in Int /\ SMin < 0 /\ M = 2 * (-SMin)
  BY PowFacts
<1>4. q <= n
  <2>1. q * d >= q
    BY <1>2
  <2> QED BY <1>2, <2>1
<1>5. ASSUME q = -SMin, (x < 0) = (y < 0) PROVE FALSE
  <2>1. n = -SMin /\ x = SMin
    BY <1>1, <1>2, <1>3, <1>4, <1>5
  <2>2. d < 2
    <3>1. SUFFICES ASSUME d >= 2 PROVE FALSE
      BY <1>2
    <3>2. q * d >= q * 2
      BY <1>2, <3>1
    <3> QED BY <1>2, <1>3, <2>1, <3>2, <1>5
  <2>3. y = -1
    BY <1>1, <1>2, <1>3, <1>5, <2>1, <2>2
  <2> QED BY <1>1, <2>1, <2>3
<1>6. (x < 0) # (y < 0) => SNeg(ToSigned(q)) = -q
  BY <1>1, <1>2, <1>3, <1>4 DEF SNeg, ToSigned
<1>7. (x < 0) = (y < 0) => ToSigned(q) = q
  BY <1>1, <1>2, <1>3, <1>4, <1>5 DEF ToSigned
<1>8. SNeg(ToSigned(r)) = -r /\ ToSigned(r) = r
  BY <1>1, <1>2, <1>3 DEF SNeg, ToSigned
<1> QED BY <1>6, <1>7, <1>8

(* A signed quotient leaves the remainder r with the sign of the dividend. *)
LEMMA SignedQuotient ==
  ASSUME NEW a \in Int, NEW b \in Int, NEW c \in Nat, NEW s \in Nat, NEW t \in Int,
         NEW abs \in Nat,
         abs = IF b < 0 THEN -b ELSE b,
         (IF a < 0 THEN -a ELSE a) = c * abs + s,
         t = IF (a < 0) # (b < 0) THEN -c ELSE c
  PROVE  a - t * b = IF a < 0 THEN -s ELSE s
<1>1. CASE a < 0 /\ b < 0
  <2>1. abs = -b /\ t = c /\ -a = c * abs + s
    BY <1>1
  <2> QED BY <1>1, <2>1
<1>2. CASE a < 0 /\ ~(b < 0)
  <2>1. abs = b /\ t = -c /\ -a = c * abs + s
    BY <1>2
  <2> QED BY <1>2, <2>1
<1>3. CASE ~(a < 0) /\ b < 0
  <2>1. abs = -b /\ t = -c /\ a = c * abs + s
    BY <1>3
  <2> QED BY <1>3, <2>1
<1>4. CASE ~(a < 0) /\ ~(b < 0)
  <2>1. abs = b /\ t = c /\ a = c * abs + s
    BY <1>4
  <2> QED BY <1>4, <2>1
<1> QED BY <1>1, <1>2, <1>3, <1>4

LEMMA ReturnIInv == IInv /\ Return => IInv'
<1> SUFFICES ASSUME IInv, Return PROVE IInv'
  OBVIOUS
<1> USE DEF IInv, Return
<1>1. n \in Nat /\ d \in Nat \ {0} /\ q \in Nat /\ r \in Nat /\ n = q * d + r /\ r < d
  BY PowFacts DEF TypeOK, U128, Divided
<1>2. fun \in Funs /\ x \in Int /\ y \in Int
  BY DEF TypeOK
<1>3. ASSUME fun \in SignedFuns
      PROVE  /\ n = (IF x < 0 THEN -x ELSE x) /\ d = AbsY
             /\ fun = "divti3" => result' = IF (x < 0) # (y < 0) THEN -q ELSE q
             /\ fun = "modti3" => result' = IF x < 0 THEN -r ELSE r
  <2>1. n = (IF x < 0 THEN -x ELSE x) /\ d = AbsY
    BY <1>3, MagnitudeFacts DEF Arguments, AbsY
  <2>2. fun = "divti3" => result' = IF (x < 0) # (y < 0) THEN -q ELSE q
    BY <1>1, <1>3, SignedResults
  <2>3. fun = "modti3" => result' = IF x < 0 THEN -r ELSE r
    BY <1>1, <1>3, SignedResults
  <2> QED BY <2>1, <2>2, <2>3
<1>4. /\ fun = "udivti3" => result' = q
      /\ fun = "umodti3" => result' = r
  OBVIOUS
<1>5. result' \in Int
  BY <1>1, <1>2, <1>3, <1>4 DEF Funs, SignedFuns
<1> HIDE DEF IInv, Return
<1>6. DivisionExact'
  <2>1. CASE fun \in {"udivti3", "umodti3"}
    <3>1. x = n /\ y = d
      BY <2>1 DEF Arguments, SignedFuns, IInv
    <3>2. n \div d = q /\ n % d = r
      BY <1>1, DivUnique
    <3> QED BY <2>1, <3>1, <3>2, <1>4 DEF DivisionExact, Return
  <2>2. CASE fun = "divti3"
    <3>1. /\ (IF x < 0 THEN -x ELSE x) = q * AbsY + r /\ AbsY \in Nat /\ r < AbsY
          /\ AbsY = (IF y < 0 THEN -y ELSE y)
          /\ result' = IF (x < 0) # (y < 0) THEN -q ELSE q
      BY <2>2, <1>1, <1>3 DEF SignedFuns, AbsY
    <3>2. x - result' * y = IF x < 0 THEN -r ELSE r
      BY <3>1, <1>1, <1>2, <1>5, SignedQuotient
    <3>3. IsRemainder(x - result' * y)
      <4>1. CASE x < 0
        BY <4>1, <3>1, <3>2, <1>1 DEF IsRemainder
      <4>2. CASE ~(x < 0)
        BY <4>2, <3>1, <3>2, <1>1, <1>2 DEF IsRemainder
      <4> QED BY <4>1, <4>2
    <3> QED BY <2>2, <3>3 DEF DivisionExact, IsRemainder, AbsY, Return
  <2>3. CASE fun = "modti3"
    <3>1. /\ (IF x < 0 THEN -x ELSE x) = q * AbsY + r /\ AbsY \in Nat \ {0} /\ r < AbsY
          /\ result' = IF x < 0 THEN -r ELSE r
      BY <2>3, <1>1, <1>3 DEF SignedFuns
    <3>2. IsRemainder(result')
      <4>1. CASE x < 0
        BY <4>1, <3>1, <1>1 DEF IsRemainder
      <4>2. CASE ~(x < 0)
        BY <4>2, <3>1, <1>1, <1>2 DEF IsRemainder
      <4> QED BY <4>1, <4>2
    <3>3. (x - result') % AbsY = 0
      <4>1. CASE x < 0
        <5>1. x - result' = (-q) * AbsY /\ -q \in Int
          BY <4>1, <3>1, <1>1, <1>2
        <5> QED BY <5>1, <3>1, ModMultiple
      <4>2. CASE ~(x < 0)
        <5>1. x - result' = q * AbsY
          BY <4>2, <3>1, <1>1, <1>2
        <5> QED BY <5>1, <3>1, <1>1, ModMultiple
      <4> QED BY <4>1, <4>2
    <3> QED BY <2>3, <3>2, <3>3 DEF DivisionExact, IsRemainder, AbsY, Return
  <2> QED BY <2>1, <2>2, <2>3, <1>2 DEF Funs
<1> USE DEF IInv, Return
<1>7. TypeOK' /\ Arguments'
  BY <1>5 DEF TypeOK, U128, Arguments, SMin, M, I128, Magnitude, UNeg, ToUnsigned
<1>8. AtTest' /\ PartialQuotient' /\ Divided'
  BY DEF AtTest, PartialQuotient, Divided
<1> QED BY <1>6, <1>7, <1>8

LEMMA NextIInv == IInv /\ [Next]_vars => IInv'
<1> SUFFICES ASSUME IInv, [Next]_vars PROVE IInv'
  OBVIOUS
<1>1. CASE DivideHalf
  BY <1>1, DivideHalfIInv
<1>2. CASE EnterLoop
  BY <1>2, EnterLoopIInv
<1>3. CASE Iterate
  BY <1>3, IterateIInv
<1>4. CASE LeaveLoop
  BY <1>4, LeaveLoopIInv
<1>5. CASE Return
  BY <1>5, ReturnIInv
<1>6. CASE UNCHANGED vars
  BY <1>6 DEF IInv, vars, TypeOK, U128, Arguments, SMin, M, I128, Magnitude, UNeg, ToUnsigned,
     AtTest, PartialQuotient, Divided, DivisionExact, IsRemainder, AbsY
<1> QED BY <1>1, <1>2, <1>3, <1>4, <1>5, <1>6 DEF Next

(* The invariant holds in every state of every call. *)
THEOREM Invariance == Spec => []IInv
<1>1. Init => IInv
  BY InitIInv
<1>2. IInv /\ [Next]_vars => IInv'
  BY NextIInv
<1> QED BY <1>1, <1>2, PTL DEF Spec

(* Shifting the remainder never loses a bit, for any number of bits. *)
THEOREM ShiftsLoseNothing == Spec => []NoBitLost
<1>1. IInv => NoBitLost
  BY LoopFacts DEF IInv, NoBitLost
<1> QED BY <1>1, Invariance, PTL

(* The loop's invariant holds at the head of every round. *)
THEOREM LoopCorrect == Spec => []PartialQuotient
<1>1. IInv => PartialQuotient
  BY DEF IInv
<1> QED BY <1>1, Invariance, PTL

(* All four functions return the exact quotient or remainder. *)
THEOREM DivisionCorrect == Spec => []DivisionExact
<1>1. IInv => DivisionExact
  BY DEF IInv
<1> QED BY <1>1, Invariance, PTL
=============================================================================
