--------------------------- MODULE Numbers_proofs ---------------------------
(***************************************************************************)
(* The builder's integer operations, the SIMD intrinsics and the helpers   *)
(* of arithmetic, rotation and bit reversal are exact for all widths       *)
(* of the C types.  First powers of 2 and remainders, then bits, then C's  *)
(* operators, then each emitted expression.  The last part is about calls: *)
(* all bytes of arguments and results arrive, and none is written behind   *)
(* its place.                                                              *)
(***************************************************************************)
EXTENDS Numbers, Sequences, WellFoundedInduction, TLAPS

-----------------------------------------------------------------------------
(* Numbers                                                                 *)

(* A property of numbers that each inherits from the one before holds for  *)
(* all, up to a bound: there is no least exception.  T is the set of those *)
(* that have it.                                                           *)
LEMMA UpTo ==
  ASSUME NEW N \in Nat, NEW T, 0 \in T, \A k \in 0 .. N - 1 : k \in T => k + 1 \in T
  PROVE  \A k \in 0 .. N : k \in T
<1> DEFINE I == {k \in 0 .. N : k \notin T}
           Less == {p \in Nat \X Nat : p[1] < p[2]}
<1> SUFFICES ASSUME I # {} PROVE FALSE
  OBVIOUS
<1>1. IsWellFoundedOn(Less, Nat) BY NatLessThanWellFounded DEF OpToRel
<1>2. I \subseteq Nat OBVIOUS
<1>3. PICK i \in I : \A j \in I : ~(<<j, i>> \in Less) BY <1>1, <1>2, WFMin
<1>4. i \in Nat /\ i # 0 /\ i <= N /\ i \notin T BY <1>3
<1>5. i - 1 \in 0 .. N - 1 /\ (i - 1) + 1 = i BY <1>4
<1>6. i - 1 \notin T BY <1>4, <1>5
<1>7. i - 1 \in I BY <1>5, <1>6
<1>8. <<i - 1, i>> \in Less BY <1>4, <1>5
<1> QED BY <1>3, <1>7, <1>8

Exponents == 0 .. MaxExponent

LEMMA PowerType == \A n \in Exponents : 2^n \in Nat \ {0}
<1> DEFINE T == {n \in Exponents : 2^n \in Nat \ {0}}
<1>1. 0 \in T BY PowersOfTwo DEF Exponents
<1>2. ASSUME NEW k \in 0 .. MaxExponent - 1, k \in T PROVE k + 1 \in T
  <2>1. 2^(k + 1) = 2 * 2^k BY PowersOfTwo
  <2>2. 2^k \in Nat \ {0} BY <1>2
  <2> QED BY <2>1, <2>2, PowersOfTwo DEF Exponents
<1>3. MaxExponent \in Nat BY PowersOfTwo
<1> HIDE DEF T
<1>4. \A k \in 0 .. MaxExponent : k \in T BY <1>1, <1>2, <1>3, UpTo
<1> QED BY <1>4 DEF T, Exponents

LEMMA PowerStep ==
  ASSUME NEW n \in Exponents, n # 0
  PROVE  n - 1 \in Exponents /\ 2^n = 2 * 2^(n - 1)
<1>1. n - 1 \in 0 .. MaxExponent - 1 /\ (n - 1) + 1 = n BY PowersOfTwo DEF Exponents
<1>2. 2^((n - 1) + 1) = 2 * 2^(n - 1) BY <1>1, PowersOfTwo
<1>3. n - 1 \in Exponents BY PowersOfTwo DEF Exponents
<1> QED BY <1>1, <1>2, <1>3

(* 2^(m + n) = 2^m * 2^n. *)
LEMMA PowerSum ==
  ASSUME NEW m \in Nat, NEW n \in Nat, m + n \in Exponents
  PROVE  m \in Exponents /\ n \in Exponents /\ 2^(m + n) = 2^m * 2^n
<1>0. m \in Exponents /\ n \in Exponents BY PowersOfTwo DEF Exponents
<1> DEFINE T == {k \in 0 .. n : 2^(m + k) = 2^m * 2^k}
<1>1. 0 \in T
  <2>1. 2^m \in Nat /\ m + 0 = m BY <1>0, PowerType
  <2>2. 2^(m + 0) = 2^m * 2^0 BY <2>1, PowersOfTwo
  <2> QED BY <2>2
<1>2. ASSUME NEW k \in 0 .. n - 1, k \in T PROVE k + 1 \in T
  <2>1. m + k \in 0 .. MaxExponent - 1 /\ k \in 0 .. MaxExponent - 1 /\ (m + k) + 1 = m + (k + 1)
    BY <1>0, PowersOfTwo DEF Exponents
  <2>2. 2^(k + 1) = 2 * 2^k BY <2>1, PowersOfTwo
  <2>3. 2^(m + (k + 1)) = 2 * 2^(m + k)
    <3>1. 2^((m + k) + 1) = 2 * 2^(m + k) BY <2>1, PowersOfTwo
    <3> QED BY <3>1, <2>1
  <2>4. 2^(m + k) = 2^m * 2^k BY <1>2
  <2>5. 2^m \in Nat /\ 2^k \in Nat
    <3>1. k \in Exponents BY <2>1, PowersOfTwo DEF Exponents
    <3> QED BY <3>1, <1>0, PowerType
  <2>6. 2^(m + (k + 1)) = 2^m * 2^(k + 1) BY <2>2, <2>3, <2>4, <2>5
  <2> QED BY <2>6
<1> HIDE DEF T
<1>3. n \in T BY <1>1, <1>2, UpTo
<1> QED BY <1>0, <1>3 DEF T

LEMMA PowerLess ==
  ASSUME NEW n \in Exponents
  PROVE  n < 2^n
<1> DEFINE T == {k \in Exponents : k < 2^k}
<1>1. 0 \in T BY PowersOfTwo DEF Exponents
<1>2. ASSUME NEW k \in 0 .. MaxExponent - 1, k \in T PROVE k + 1 \in T
  <2>1. 2^(k + 1) = 2 * 2^k /\ k + 1 \in Exponents /\ k \in Exponents BY PowersOfTwo DEF Exponents
  <2>2. 2^k \in Nat /\ k < 2^k BY <1>2, <2>1, PowerType
  <2>3. k + 1 < 2^(k + 1) BY <2>1, <2>2
  <2> QED BY <2>1, <2>3
<1> HIDE DEF T
<1>3. \A k \in 0 .. MaxExponent : k \in T BY <1>1, <1>2, PowersOfTwo, UpTo
<1> QED BY <1>3 DEF T, Exponents

(* Quotient and remainder, of any integer, and that they are unique. *)
LEMMA ModFacts ==
  ASSUME NEW a \in Int, NEW b \in Nat \ {0}
  PROVE  a \div b \in Int /\ a % b \in 0 .. b - 1 /\ a = (a \div b) * b + (a % b)
  OBVIOUS

LEMMA ModUnique ==
  ASSUME NEW a \in Int, NEW b \in Nat \ {0}, NEW c \in Int, NEW s \in 0 .. b - 1, a = c * b + s
  PROVE  a \div b = c /\ a % b = s
<1>1. PICK d \in Int, t \in 0 .. b - 1 : d = a \div b /\ t = a % b /\ a = d * b + t
  BY ModFacts
<1>2. (d - c) * b = s - t BY <1>1
<1>3. ~(d - c >= 1)
  <2>1. SUFFICES ASSUME d - c >= 1 PROVE FALSE OBVIOUS
  <2>2. (d - c) * b >= b BY <2>1
  <2> QED BY <2>2, <1>1, <1>2
<1>4. ~(c - d >= 1)
  <2>1. SUFFICES ASSUME c - d >= 1 PROVE FALSE OBVIOUS
  <2>2. (c - d) * b >= b BY <2>1
  <2> QED BY <2>2, <1>1, <1>2
<1>5. d = c BY <1>3, <1>4
<1> QED BY <1>1, <1>5

(* Numbers next to 0. *)
LEMMA ModSmall ==
  ASSUME NEW b \in Nat \ {0}, NEW a \in Int, -b <= a, a < b
  PROVE  /\ a >= 0 => a \div b = 0 /\ a % b = a
         /\ a < 0 => a \div b = -1 /\ a % b = a + b
<1>1. ASSUME a >= 0 PROVE a \div b = 0 /\ a % b = a
  <2>1. PICK c \in Int : c = 0 OBVIOUS
  <2>2. a = c * b + a /\ a \in 0 .. b - 1 BY <1>1, <2>1
  <2>3. a \div b = c /\ a % b = a BY <2>2, ModUnique
  <2> QED BY <2>1, <2>3
<1>2. ASSUME a < 0 PROVE a \div b = -1 /\ a % b = a + b
  <2>1. PICK c \in Int : c = -1 OBVIOUS
  <2>2. a = c * b + (a + b) /\ a + b \in 0 .. b - 1 BY <1>2, <2>1
  <2>3. a \div b = c /\ a % b = a + b BY <2>2, ModUnique
  <2> QED BY <2>1, <2>3
<1> QED BY <1>1, <1>2

(* Two numbers with the same n lowest bits. *)
Same(n, u, v) == \E k \in Int : u = v + k * 2^n

LEMMA SameItself ==
  ASSUME NEW n \in Exponents, NEW u \in Int
  PROVE  Same(n, u, u)
<1>1. 2^n \in Nat BY PowerType
<1>2. u = u + 0 * 2^n BY <1>1
<1> QED BY <1>2 DEF Same

LEMMA SameBoth ==
  ASSUME NEW n \in Exponents, NEW u \in Int, NEW v \in Int, NEW w \in Int
  PROVE  /\ Same(n, u, v) => Same(n, v, u)
         /\ Same(n, u, v) /\ Same(n, v, w) => Same(n, u, w)
<1> PICK P \in Nat : P = 2^n BY PowerType
<1>1. ASSUME Same(n, u, v) PROVE Same(n, v, u)
  <2>1. PICK k \in Int : u = v + k * P BY <1>1 DEF Same
  <2>2. v = u + (-k) * P /\ -k \in Int BY <2>1
  <2> QED BY <2>2 DEF Same
<1>2. ASSUME Same(n, u, v), Same(n, v, w) PROVE Same(n, u, w)
  <2>1. PICK k \in Int : u = v + k * P BY <1>2 DEF Same
  <2>2. PICK j \in Int : v = w + j * P BY <1>2 DEF Same
  <2>3. u = w + (k + j) * P /\ k + j \in Int BY <2>1, <2>2
  <2> QED BY <2>3 DEF Same
<1> QED BY <1>1, <1>2

LEMMA SameArith ==
  ASSUME NEW n \in Exponents, NEW u \in Int, NEW v \in Int, NEW x \in Int, NEW y \in Int,
         Same(n, u, v), Same(n, x, y)
  PROVE  Same(n, u + x, v + y) /\ Same(n, u - x, v - y) /\ Same(n, u * x, v * y)
<1> PICK P \in Nat : P = 2^n BY PowerType
<1>1. PICK k \in Int : u = v + k * P BY DEF Same
<1>2. PICK j \in Int : x = y + j * P BY DEF Same
<1>3. u + x = (v + y) + (k + j) * P /\ k + j \in Int BY <1>1, <1>2
<1>4. u - x = (v - y) + (k - j) * P /\ k - j \in Int BY <1>1, <1>2
<1>5. u * x = v * y + (v * j + k * y + k * (j * P)) * P
  <2>1. PICK kP \in Int : kP = k * P OBVIOUS
  <2>2. PICK jP \in Int : jP = j * P OBVIOUS
  <2>3. u * x = v * y + v * jP + kP * y + kP * jP BY <1>1, <1>2, <2>1, <2>2
  <2>4. v * jP = (v * j) * P /\ kP * y = (k * y) * P /\ kP * jP = (k * (j * P)) * P
    BY <2>1, <2>2
  <2>5. PICK e1 \in Int, e2 \in Int, e3 \in Int : e1 = v * j /\ e2 = k * y /\ e3 = k * (j * P)
    OBVIOUS
  <2>6. e1 * P + e2 * P + e3 * P = (e1 + e2 + e3) * P OBVIOUS
  <2>7. u * x = v * y + (e1 * P + e2 * P + e3 * P)
    <3>1. v * jP = e1 * P /\ kP * y = e2 * P /\ kP * jP = e3 * P BY <2>4, <2>5
    <3>2. PICK f1 \in Int, f2 \in Int, f3 \in Int, f4 \in Int :
            f1 = v * jP /\ f2 = kP * y /\ f3 = kP * jP /\ f4 = v * y
      OBVIOUS
    <3>3. u * x = f4 + f1 + f2 + f3 BY <2>3, <3>2
    <3> QED BY <3>1, <3>2, <3>3
  <2> QED BY <2>5, <2>6, <2>7
<1>6. v * j + k * y + k * (j * P) \in Int OBVIOUS
<1> QED BY <1>3, <1>4, <1>5, <1>6 DEF Same

LEMMA SameNarrow ==
  ASSUME NEW m \in Nat, NEW n \in Exponents, m <= n, NEW u \in Int, NEW v \in Int, Same(n, u, v)
  PROVE  Same(m, u, v)
<1>1. PICK d \in Nat : d = n - m /\ n = m + d BY DEF Exponents
<1>2. m \in Exponents /\ d \in Exponents /\ 2^n = 2^m * 2^d BY <1>1, PowerSum
<1> PICK P \in Nat, Q \in Nat : P = 2^m /\ Q = 2^d BY <1>2, PowerType
<1>3. PICK k \in Int : u = v + k * (P * Q) BY <1>2 DEF Same
<1>4. k * (P * Q) = (k * Q) * P /\ k * Q \in Int OBVIOUS
<1> QED BY <1>3, <1>4 DEF Same

LEMMA SameMod ==
  ASSUME NEW n \in Exponents, NEW u \in Int, NEW v \in Int
  PROVE  /\ u % 2^n \in 0 .. 2^n - 1
         /\ Same(n, u % 2^n, u)
         /\ Same(n, u, v) <=> u % 2^n = v % 2^n
<1> PICK P \in Nat \ {0} : P = 2^n BY PowerType
<1>1. PICK c \in Int, s \in 0 .. P - 1 : s = u % P /\ u = c * P + s
  <2>1. u \div P \in Int /\ u % P \in 0 .. P - 1 /\ u = (u \div P) * P + (u % P) BY ModFacts
  <2> QED BY <2>1
<1>2. PICK d \in Int, t \in 0 .. P - 1 : t = v % P /\ v = d * P + t
  <2>1. v \div P \in Int /\ v % P \in 0 .. P - 1 /\ v = (v \div P) * P + (v % P) BY ModFacts
  <2> QED BY <2>1
<1>3. s = u + (-c) * P /\ -c \in Int BY <1>1
<1>4. Same(n, u % 2^n, u) BY <1>1, <1>3 DEF Same
<1>5. ASSUME Same(n, u, v) PROVE s = t
  <2>1. PICK k \in Int : u = v + k * P BY <1>5 DEF Same
  <2>2. u = (d + k) * P + t /\ d + k \in Int BY <1>2, <2>1
  <2>3. u % P = t BY <2>2, ModUnique
  <2> QED BY <2>3, <1>1
<1>6. ASSUME s = t PROVE Same(n, u, v)
  <2>1. u = v + (c - d) * P /\ c - d \in Int BY <1>1, <1>2, <1>6
  <2> QED BY <2>1 DEF Same
<1> QED BY <1>1, <1>2, <1>4, <1>5, <1>6

-----------------------------------------------------------------------------
(* Bits                                                                    *)

LEMMA BitType ==
  ASSUME NEW u \in Int, NEW i \in Exponents
  PROVE  Ops!Bit(u, i) \in {0, 1}
<1> PICK P \in Nat \ {0} : P = 2^i BY PowerType
<1>1. u \div P \in Int BY ModFacts
<1>2. (u \div P) % 2 \in 0 .. 1 BY <1>1
<1> QED BY <1>2 DEF Ops!Bit

(* Bit i is the same in numbers that are the same above it. *)
LEMMA SameBits ==
  ASSUME NEW n \in Exponents, NEW u \in Int, NEW v \in Int, Same(n, u, v), NEW i \in 0 .. n - 1
  PROVE  Ops!Bit(u, i) = Ops!Bit(v, i)
<1>1. PICK d \in Nat : d = (n - 1) - i BY DEF Exponents
<1>2. n # 0 /\ n \in Nat /\ i \in Nat /\ i + d = n - 1 BY <1>1 DEF Exponents
<1>3. n - 1 \in Exponents /\ 2^n = 2 * 2^(n - 1) BY <1>2, PowerStep
<1>4. i \in Exponents /\ d \in Exponents /\ 2^(n - 1) = 2^i * 2^d
  <2>1. i + d \in Exponents BY <1>2, <1>3
  <2>2. i \in Exponents /\ d \in Exponents /\ 2^(i + d) = 2^i * 2^d BY <1>2, <2>1, PowerSum
  <2> QED BY <2>2, <1>2
<1> PICK I \in Nat \ {0}, D \in Nat : I = 2^i /\ D = 2^d BY <1>4, PowerType
<1>5. PICK k \in Int : u = v + k * (2 * (I * D)) BY <1>3, <1>4 DEF Same
<1>6. PICK c \in Int, s \in 0 .. I - 1 : c = v \div I /\ v = c * I + s
  <2>1. v \div I \in Int /\ v % I \in 0 .. I - 1 /\ v = (v \div I) * I + (v % I) BY ModFacts
  <2> QED BY <2>1
<1>7. PICK kD \in Int : kD = k * D OBVIOUS
<1>8. k * (2 * (I * D)) = (2 * kD) * I BY <1>7
<1>9. u = (c + 2 * kD) * I + s /\ c + 2 * kD \in Int
  <2>1. u = v + (2 * kD) * I BY <1>5, <1>8
  <2>2. (c + 2 * kD) * I = c * I + (2 * kD) * I OBVIOUS
  <2> QED BY <1>6, <2>1, <2>2
<1>10. u \div I = c + 2 * kD BY <1>9, ModUnique
<1>11. (c + 2 * kD) % 2 = c % 2 OBVIOUS
<1> QED BY <1>6, <1>10, <1>11 DEF Ops!Bit

(* The highest bit. *)
LEMMA TopBit ==
  ASSUME NEW n \in Exponents \ {0}, NEW p \in 0 .. 2^n - 1
  PROVE  Ops!Bit(p, n - 1) = IF p >= 2^(n - 1) THEN 1 ELSE 0
<1>1. n - 1 \in Exponents /\ 2^n = 2 * 2^(n - 1) BY PowerStep
<1> PICK P \in Nat \ {0} : P = 2^(n - 1) BY <1>1, PowerType
<1>2. p \in Int /\ 0 <= p /\ p < 2 * P BY <1>1
<1>3. CASE p >= P
  <2>1. p = 1 * P + (p - P) /\ p - P \in 0 .. P - 1 BY <1>2, <1>3
  <2>2. p \div P = 1 BY <2>1, <1>2, ModUnique
  <2> QED BY <2>2, <1>3 DEF Ops!Bit
<1>4. CASE p < P
  <2>1. p = 0 * P + p /\ p \in 0 .. P - 1 BY <1>2, <1>4
  <2>2. p \div P = 0 BY <2>1, <1>2, ModUnique
  <2> QED BY <2>2, <1>2, <1>4 DEF Ops!Bit
<1> QED BY <1>2, <1>3, <1>4

(* The partial sums of FromBits. *)
IsSum(n, f, g) == g = [k \in 0 .. n |-> IF k = 0 THEN 0 ELSE g[k - 1] + f[k - 1] * 2^(k - 1)]

LEMMA SumExists ==
  ASSUME NEW n \in Nat, NEW f
  PROVE  \E g : IsSum(n, f, g)
<1> DEFINE T == {m \in 0 .. n : \E g : IsSum(m, f, g)}
<1>1. 0 \in T
  <2> DEFINE g == [k \in 0 .. 0 |-> 0]
  <2>1. IsSum(0, f, g) BY DEF IsSum
  <2> HIDE DEF g
  <2> QED BY <2>1
<1>2. ASSUME NEW m \in 0 .. n - 1, m \in T PROVE m + 1 \in T
  <2>1. PICK g : IsSum(m, f, g) BY <1>2
  <2> DEFINE h == [k \in 0 .. m + 1 |-> IF k = m + 1 THEN g[m] + f[m] * 2^m ELSE g[k]]
  <2>2. ASSUME NEW k \in 0 .. m + 1
        PROVE  h[k] = IF k = 0 THEN 0 ELSE h[k - 1] + f[k - 1] * 2^(k - 1)
    <3>1. CASE k = m + 1
      <4>1. m \in 0 .. m + 1 /\ m # m + 1 /\ k - 1 = m /\ k # 0 BY <3>1
      <4>2. h[k] = g[m] + f[m] * 2^m /\ h[m] = g[m] BY <3>1, <4>1
      <4> QED BY <4>1, <4>2
    <3>2. CASE k # m + 1
      <4>1. k \in 0 .. m BY <3>2
      <4>2. h[k] = g[k] BY <3>2
      <4>3. g[k] = IF k = 0 THEN 0 ELSE g[k - 1] + f[k - 1] * 2^(k - 1)
        BY <2>1, <4>1 DEF IsSum
      <4>4. k # 0 => h[k - 1] = g[k - 1] BY <4>1
      <4> QED BY <4>2, <4>3, <4>4
    <3> QED BY <3>1, <3>2
  <2>3. h = [k \in 0 .. m + 1 |-> h[k]] OBVIOUS
  <2> HIDE DEF h
  <2>4. h = [k \in 0 .. m + 1 |-> IF k = 0 THEN 0 ELSE h[k - 1] + f[k - 1] * 2^(k - 1)]
    BY <2>2, <2>3
  <2>5. IsSum(m + 1, f, h) BY <2>4 DEF IsSum
  <2> QED BY <2>5
<1> HIDE DEF T
<1>3. n \in T BY <1>1, <1>2, UpTo
<1> QED BY <1>3 DEF T

LEMMA FromBitsSum ==
  ASSUME NEW n \in Nat, NEW f
  PROVE  \E g : IsSum(n, f, g) /\ Ops!FromBits(n, f) = g[n]
<1> DEFINE g == CHOOSE s : s = [k \in 0 .. n |-> IF k = 0 THEN 0 ELSE s[k - 1] + f[k - 1] * 2^(k - 1)]
<1>1. IsSum(n, f, g) BY SumExists DEF IsSum
<1>2. Ops!FromBits(n, f) = g[n] BY DEF Ops!FromBits
<1> QED BY <1>1, <1>2

(* FromBits(n, f) is a number of n bits, and they are those of f. *)
LEMMA FromBitsFacts ==
  ASSUME NEW n \in Exponents, NEW f \in [0 .. n - 1 -> {0, 1}]
  PROVE  /\ Ops!FromBits(n, f) \in 0 .. 2^n - 1
         /\ \A i \in 0 .. n - 1 : Ops!Bit(Ops!FromBits(n, f), i) = f[i]
<1>1. n \in Nat BY DEF Exponents
<1>2. PICK g : IsSum(n, f, g) /\ Ops!FromBits(n, f) = g[n] BY <1>1, FromBitsSum
<1> DEFINE T == {k \in 0 .. n : g[k] \in 0 .. 2^k - 1 /\ \A i \in 0 .. k - 1 : Ops!Bit(g[k], i) = f[i]}
<1>3. 0 \in T
  <2>1. g[0] = 0 BY <1>1, <1>2 DEF IsSum
  <2> QED BY <1>1, <2>1, PowersOfTwo
<1>4. ASSUME NEW k \in 0 .. n - 1, k \in T PROVE k + 1 \in T
  <2>1. k \in Exponents /\ k + 1 \in Exponents /\ k + 1 \in 0 .. n /\ k + 1 # 0 /\ (k + 1) - 1 = k
    BY PowersOfTwo DEF Exponents
  <2> PICK P \in Nat \ {0} : P = 2^k BY <2>1, PowerType
  <2>2. 2^(k + 1) = 2 * P BY <2>1, PowerStep
  <2>3. g[k + 1] = g[k] + f[k] * P BY <1>2, <2>1 DEF IsSum
  <2>4. PICK x \in 0 .. P - 1, y \in {0, 1} : x = g[k] /\ y = f[k] BY <1>4
  <2>5. PICK z \in Int : z = g[k + 1] /\ z = y * P + x BY <2>3, <2>4
  <2>6. z \in 0 .. 2 * P - 1 BY <2>4, <2>5
  <2>7. Ops!Bit(z, k) = y
    <3>1. y \in Int BY <2>4
    <3>2. z \div P = y BY <2>5, <3>1, ModUnique
    <3>3. y % 2 = y BY <2>4
    <3> QED BY <3>2, <3>3 DEF Ops!Bit
  <2>8. ASSUME NEW i \in 0 .. k - 1 PROVE Ops!Bit(z, i) = f[i]
    <3>1. Same(k, z, x)
      <4>1. y \in Int /\ x \in Int BY <2>4
      <4>2. z = x + y * 2^k BY <2>5, <4>1
      <4> QED BY <4>1, <4>2 DEF Same
    <3>2. Ops!Bit(z, i) = Ops!Bit(x, i)
      <4>1. x \in Int /\ z \in Int OBVIOUS
      <4>2. k \in Exponents BY <2>1
      <4> QED BY <3>1, <4>1, <4>2, SameBits
    <3>3. Ops!Bit(x, i) = f[i] BY <1>4, <2>4
    <3> QED BY <3>2, <3>3
  <2>9. \A i \in 0 .. (k + 1) - 1 : Ops!Bit(z, i) = f[i] BY <2>4, <2>7, <2>8
  <2> QED BY <2>1, <2>2, <2>5, <2>6, <2>9
<1> HIDE DEF T
<1>5. n \in T BY <1>1, <1>3, <1>4, UpTo
<1> QED BY <1>2, <1>5 DEF T

(* C's bitwise operators, bit by bit. *)
LEMMA BitwiseFacts ==
  ASSUME NEW n \in Exponents, NEW a \in Int, NEW b \in Int
  PROVE  /\ Ops!AndBits(n, a, b) \in 0 .. 2^n - 1
         /\ Ops!OrBits(n, a, b) \in 0 .. 2^n - 1
         /\ Ops!XorBits(n, a, b) \in 0 .. 2^n - 1
         /\ \A i \in 0 .. n - 1 :
              /\ Ops!Bit(Ops!AndBits(n, a, b), i) = Ops!Bit(a, i) * Ops!Bit(b, i)
              /\ Ops!Bit(Ops!OrBits(n, a, b), i) = IF Ops!Bit(a, i) + Ops!Bit(b, i) = 0 THEN 0 ELSE 1
              /\ Ops!Bit(Ops!XorBits(n, a, b), i) = IF Ops!Bit(a, i) = Ops!Bit(b, i) THEN 0 ELSE 1
<1>1. \A i \in 0 .. n - 1 : Ops!Bit(a, i) \in {0, 1} /\ Ops!Bit(b, i) \in {0, 1}
  <2>1. \A i \in 0 .. n - 1 : i \in Exponents BY PowersOfTwo DEF Exponents
  <2> QED BY <2>1, BitType
<1> DEFINE f == [i \in 0 .. n - 1 |-> Ops!Bit(a, i) * Ops!Bit(b, i)]
           g == [i \in 0 .. n - 1 |-> IF Ops!Bit(a, i) + Ops!Bit(b, i) = 0 THEN 0 ELSE 1]
           h == [i \in 0 .. n - 1 |-> IF Ops!Bit(a, i) = Ops!Bit(b, i) THEN 0 ELSE 1]
<1>2. \A i \in 0 .. n - 1 : Ops!Bit(a, i) * Ops!Bit(b, i) \in {0, 1} BY <1>1
<1>3. f \in [0 .. n - 1 -> {0, 1}] BY <1>2
<1>4. g \in [0 .. n - 1 -> {0, 1}] OBVIOUS
<1>5. h \in [0 .. n - 1 -> {0, 1}] OBVIOUS
<1>6. Ops!AndBits(n, a, b) = Ops!FromBits(n, f) BY DEF Ops!AndBits
<1>7. Ops!OrBits(n, a, b) = Ops!FromBits(n, g) BY DEF Ops!OrBits
<1>8. Ops!XorBits(n, a, b) = Ops!FromBits(n, h) BY DEF Ops!XorBits
<1>9. \A i \in 0 .. n - 1 : /\ f[i] = Ops!Bit(a, i) * Ops!Bit(b, i)
                            /\ g[i] = IF Ops!Bit(a, i) + Ops!Bit(b, i) = 0 THEN 0 ELSE 1
                            /\ h[i] = IF Ops!Bit(a, i) = Ops!Bit(b, i) THEN 0 ELSE 1
  OBVIOUS
<1> HIDE DEF f, g, h
<1> QED BY <1>3, <1>4, <1>5, <1>6, <1>7, <1>8, <1>9, FromBitsFacts

LEMMA PowerMono ==
  ASSUME NEW n \in Exponents, NEW m \in Nat, m <= n
  PROVE  2^m <= 2^n
<1>1. PICK d \in Nat : n = m + d BY DEF Exponents
<1>2. m \in Exponents /\ d \in Exponents /\ 2^n = 2^m * 2^d BY <1>1, PowerSum
<1> PICK P \in Nat \ {0}, Q \in Nat \ {0} : P = 2^m /\ Q = 2^d BY <1>2, PowerType
<1>3. P * Q >= P OBVIOUS
<1> QED BY <1>2, <1>3

-----------------------------------------------------------------------------
(* Types and values of C                                                   *)

CTypes == [bits : Exponents \ {0}, sgn : BOOLEAN]

(* The numbers that a type has. *)
Fits(ty, v) ==
  /\ v \in Int
  /\ ty.sgn => -(2^(ty.bits - 1)) <= v /\ v < 2^(ty.bits - 1)
  /\ ~ty.sgn => 0 <= v /\ v < 2^ty.bits

(* _Bool is none of the integer types. *)
LEMMA NotBool ==
  ASSUME NEW ty \in CTypes
  PROVE  ty # Ops!Bool
<1>1. DOMAIN ty = {"bits", "sgn"} BY DEF CTypes
<1>2. DOMAIN Ops!Bool = {"bits", "sgn", "truth"} BY DEF Ops!Bool
<1> QED BY <1>1, <1>2

(* A wrapped number is one of the type, with the same bits; a number of    *)
(* the type is not changed.                                                *)
LEMMA WrapFacts ==
  ASSUME NEW ty \in CTypes, NEW v \in Int
  PROVE  /\ Fits(ty, Ops!Wrap(ty, v))
         /\ Same(ty.bits, Ops!Wrap(ty, v), v)
         /\ Fits(ty, v) => Ops!Wrap(ty, v) = v
<1> PICK n \in Exponents \ {0} : n = ty.bits BY DEF CTypes
<1>1. n - 1 \in Exponents /\ 2^n = 2 * 2^(n - 1) BY PowerStep
<1> PICK H \in Nat \ {0} : H = 2^(n - 1) BY <1>1, PowerType
<1> PICK M \in Nat \ {0} : M = 2 * H /\ M = 2^n BY <1>1
<1>2. PICK c \in Int, p \in 0 .. M - 1 : p = v % M /\ v = c * M + p
  <2>1. v \div M \in Int /\ v % M \in 0 .. M - 1 /\ v = (v \div M) * M + (v % M) BY ModFacts
  <2> QED BY <2>1
<1>3. Ops!Wrap(ty, v) = IF ty.sgn /\ p >= H THEN p - M ELSE p
  BY <1>2 DEF Ops!Wrap, Ops!Pattern
<1>4. PICK w \in Int : w = Ops!Wrap(ty, v) BY <1>2, <1>3
<1>5. Fits(ty, w)
  <2>1. CASE ty.sgn
    <3>1. -H <= w /\ w < H BY <1>3, <1>4, <2>1
    <3> QED BY <2>1, <3>1 DEF Fits
  <2>2. CASE ~ty.sgn
    <3>1. 0 <= w /\ w < M BY <1>3, <1>4, <2>2
    <3> QED BY <2>2, <3>1 DEF Fits
  <2> QED BY <2>1, <2>2
<1>6. Same(n, w, v)
  <2>1. PICK cM \in Int : cM = c * M OBVIOUS
  <2>4. (-c) * M = -cM /\ (-c - 1) * M = -cM - M BY <2>1
  <2>5. p = v - cM BY <1>2, <2>1
  <2>2. p = v + (-c) * M /\ p - M = v + (-c - 1) * M BY <2>4, <2>5
  <2>3. -c \in Int /\ -c - 1 \in Int OBVIOUS
  <2> QED BY <1>3, <1>4, <2>2, <2>3 DEF Same
<1>7. ASSUME Fits(ty, v) PROVE w = v
  <2>1. CASE v >= 0
    <3>1. v \in 0 .. M - 1 /\ (ty.sgn => v < H) BY <1>7, <2>1 DEF Fits
    <3>2. v % M = v BY <3>1, <2>1, ModSmall
    <3>3. p = v BY <1>2, <3>2
    <3> QED BY <3>1, <3>3, <1>3, <1>4
  <2>2. CASE v < 0
    <3>1. ty.sgn /\ -H <= v BY <1>7, <2>2 DEF Fits
    <3>2. v % M = v + M BY <3>1, <2>2, ModSmall
    <3>3. p = v + M BY <1>2, <3>2
    <3> QED BY <3>1, <3>3, <1>3, <1>4
  <2> QED BY <2>1, <2>2
<1>8. ty.bits = n OBVIOUS
<1> QED BY <1>4, <1>5, <1>6, <1>7, <1>8

(* Numbers with the same bits are one if the type has both. *)
LEMMA FitsOnce ==
  ASSUME NEW ty \in CTypes, NEW u, NEW v, Fits(ty, u), Fits(ty, v), Same(ty.bits, u, v)
  PROVE  u = v
<1> PICK n \in Exponents \ {0} : n = ty.bits BY DEF CTypes
<1>1. n - 1 \in Exponents /\ 2^n = 2 * 2^(n - 1) BY PowerStep
<1> PICK H \in Nat \ {0} : H = 2^(n - 1) BY <1>1, PowerType
<1>2. u \in Int /\ v \in Int BY DEF Fits
<1>3. PICK k \in Int : u = v + k * (2 * H) BY <1>1 DEF Same
<1>4. u - v < 2 * H /\ v - u < 2 * H BY <1>1 DEF Fits
<1>5. ~(k >= 1)
  <2>1. SUFFICES ASSUME k >= 1 PROVE FALSE OBVIOUS
  <2>2. k * (2 * H) >= 2 * H BY <2>1
  <2> QED BY <2>2, <1>2, <1>3, <1>4
<1>6. ~(k <= -1)
  <2>1. SUFFICES ASSUME -k >= 1 PROVE FALSE OBVIOUS
  <2>2. (-k) * (2 * H) >= 2 * H BY <2>1
  <2>3. k * (2 * H) = -((-k) * (2 * H)) OBVIOUS
  <2> QED BY <2>2, <2>3, <1>2, <1>3, <1>4
<1>7. k = 0 BY <1>5, <1>6
<1> QED BY <1>2, <1>3, <1>7

(* A value of C is one that its type has. *)
CVal(x) == x \in [ty : CTypes, v : Int] /\ Fits(x.ty, x.v)

LEMMA ValFacts ==
  ASSUME NEW ty \in CTypes, NEW v \in Int
  PROVE  /\ CVal(Ops!Val(ty, v)) /\ Ops!Val(ty, v).ty = ty
         /\ Ops!Val(ty, v).v = Ops!Wrap(ty, v)
         /\ Fits(ty, v) => Ops!Val(ty, v).v = v
         /\ Same(ty.bits, Ops!Val(ty, v).v, v)
<1>1. Fits(ty, Ops!Wrap(ty, v)) BY WrapFacts
<1>2. Ops!Wrap(ty, v) \in Int BY <1>1 DEF Fits
<1>3. Ops!Val(ty, v) = [ty |-> ty, v |-> Ops!Wrap(ty, v)] BY DEF Ops!Val
<1> QED BY <1>1, <1>2, <1>3, WrapFacts DEF CVal

LEMMA CastFacts ==
  ASSUME NEW ty \in CTypes, NEW x
  PROVE  Ops!Cast(ty, x) = Ops!Val(ty, x.v)
  BY NotBool DEF Ops!Cast

LEMMA TypeFacts ==
  ASSUME NEW n \in Exponents \ {0}, NEW s \in BOOLEAN
  PROVE  Ops!Type(n, s) \in CTypes /\ Ops!Type(n, s).bits = n /\ Ops!Type(n, s).sgn = s
  BY DEF Ops!Type, CTypes

(* A wider type has all numbers of a narrower one, but for the negative    *)
(* ones.                                                                   *)
LEMMA FitsWider ==
  ASSUME NEW s \in CTypes, NEW t \in CTypes, s.bits < t.bits, t.sgn \/ ~s.sgn,
         NEW v, Fits(s, v)
  PROVE  Fits(t, v)
<1> PICK m \in Exponents \ {0}, n \in Exponents \ {0} : m = s.bits /\ n = t.bits BY DEF CTypes
<1>1. m \in Nat /\ m - 1 \in Nat /\ n - 1 \in Exponents /\ m - 1 <= n - 1 /\ m <= n - 1 /\ m <= n
  BY PowerStep DEF Exponents
<1>2. 2^(m - 1) <= 2^(n - 1) /\ 2^m <= 2^(n - 1) /\ 2^m <= 2^n BY <1>1, PowerMono
<1>3. m - 1 \in Exponents BY PowerStep
<1> PICK A \in Nat, B \in Nat, C \in Nat, D \in Nat : A = 2^(m - 1) /\ B = 2^m /\ C = 2^(n - 1) /\ D = 2^n
  BY <1>1, <1>3, PowerType
<1>4. A <= C /\ B <= C /\ B <= D BY <1>2
<1>5. v \in Int BY DEF Fits
<1>6. s.sgn => -A <= v /\ v < A BY DEF Fits
<1>7. ~s.sgn => 0 <= v /\ v < B BY DEF Fits
<1>8. t.sgn => -C <= v /\ v < C BY <1>4, <1>5, <1>6, <1>7
<1>9. ~t.sgn => 0 <= v /\ v < D BY <1>4, <1>5, <1>7
<1> QED BY <1>5, <1>8, <1>9 DEF Fits

(* Promotion to an int of any width. *)
PromoteAt(int, x) == IF x.ty.bits < int THEN Ops!Cast(Ops!Type(int, TRUE), x) ELSE x

LEMMA PromoteFacts ==
  ASSUME NEW int \in Exponents \ {0}, NEW x, CVal(x)
  PROVE  /\ CVal(PromoteAt(int, x)) /\ PromoteAt(int, x).v = x.v
         /\ x.ty.bits < int => PromoteAt(int, x).ty = Ops!Type(int, TRUE)
         /\ x.ty.bits >= int => PromoteAt(int, x) = x
<1>1. x.ty \in CTypes /\ x.v \in Int /\ Fits(x.ty, x.v) /\ x.ty.bits \in Nat BY DEF CVal, CTypes, Exponents
<1>2. CASE x.ty.bits < int
  <2>1. Ops!Type(int, TRUE) \in CTypes /\ Ops!Type(int, TRUE).bits = int /\ Ops!Type(int, TRUE).sgn
    BY TypeFacts
  <2>2. Fits(Ops!Type(int, TRUE), x.v)
    <3>1. PICK t \in CTypes : t = Ops!Type(int, TRUE) BY <2>1
    <3>2. t.bits = int /\ t.sgn BY <2>1, <3>1
    <3>3. Fits(t, x.v) BY <1>1, <1>2, <3>2, FitsWider
    <3> QED BY <3>1, <3>3
  <2>3. PromoteAt(int, x) = Ops!Val(Ops!Type(int, TRUE), x.v) BY <1>2, <2>1, CastFacts DEF PromoteAt
  <2>4. ~(x.ty.bits >= int) BY <1>1, <1>2 DEF Exponents
  <2>5. CVal(PromoteAt(int, x)) /\ PromoteAt(int, x).v = x.v
        /\ PromoteAt(int, x).ty = Ops!Type(int, TRUE)
    <3> PICK t \in CTypes, v \in Int : t = Ops!Type(int, TRUE) /\ v = x.v BY <1>1, <2>1
    <3>1. CVal(Ops!Val(t, v)) /\ Ops!Val(t, v).ty = t /\ Ops!Val(t, v).v = v BY <2>2, ValFacts
    <3> QED BY <2>3, <3>1
  <2> QED BY <2>4, <2>5
<1>3. CASE ~(x.ty.bits < int)
  BY <1>3 DEF PromoteAt
<1> QED BY <1>2, <1>3

CommonAt(int, x, y) == Ops!CommonType(PromoteAt(int, x).ty, PromoteAt(int, y).ty)

(* Two operands with numbers of one type: one operand has this type, the   *)
(* other may be a literal, with a type of its own.                         *)
Operands(ty, x, y) ==
  /\ CVal(x) /\ CVal(y) /\ Fits(ty, x.v) /\ Fits(ty, y.v)
  /\ x.ty.sgn = ty.sgn /\ y.ty.sgn = ty.sgn
  /\ x.ty = ty \/ y.ty = ty

LEMMA CommonTypeFacts ==
  ASSUME NEW s \in CTypes, NEW t \in CTypes
  PROVE  LET u == Ops!CommonType(s, t)
         IN /\ u \in CTypes /\ u.bits >= s.bits /\ u.bits >= t.bits
            /\ s.sgn /\ t.sgn => u.sgn
            /\ ~s.sgn => u.bits > s.bits \/ ~u.sgn
            /\ ~t.sgn => u.bits > t.bits \/ ~u.sgn
<1> PICK m \in Exponents \ {0}, n \in Exponents \ {0} : m = s.bits /\ n = t.bits BY DEF CTypes
<1>0. m \in Nat /\ n \in Nat BY DEF Exponents
<1> DEFINE u == Ops!CommonType(s, t)
<1>1. CASE m = n
  <2>1. u = Ops!Type(m, s.sgn /\ t.sgn) BY <1>1 DEF Ops!CommonType
  <2>2. u \in CTypes /\ u.bits = m /\ u.sgn = (s.sgn /\ t.sgn) BY <2>1, TypeFacts
  <2>3. (s.sgn /\ t.sgn => u.sgn) /\ (~s.sgn => ~u.sgn) /\ (~t.sgn => ~u.sgn) BY <2>2
  <2>4. u.bits >= m /\ u.bits >= n BY <1>0, <1>1, <2>2
  <2> QED BY <2>2, <2>3, <2>4
<1>2. CASE m > n
  <2>1. u = s BY <1>0, <1>2 DEF Ops!CommonType
  <2> QED BY <1>0, <1>2, <2>1
<1>3. CASE m < n
  <2>1. u = t BY <1>0, <1>3 DEF Ops!CommonType
  <2> QED BY <1>0, <1>3, <2>1
<1> QED BY <1>0, <1>1, <1>2, <1>3

LEMMA CommonFacts ==
  ASSUME NEW int \in Exponents \ {0}, NEW ty \in CTypes, NEW x, NEW y, Operands(ty, x, y)
  PROVE  /\ CommonAt(int, x, y) \in CTypes
         /\ CommonAt(int, x, y).bits >= ty.bits
         /\ \A v : Fits(ty, v) => Fits(CommonAt(int, x, y), v)
<1>1. CVal(x) /\ CVal(y) /\ (x.ty.sgn <=> ty.sgn) /\ (y.ty.sgn <=> ty.sgn) /\ (x.ty = ty \/ y.ty = ty)
  BY DEF Operands
<1>2. PICK s : s = PromoteAt(int, x).ty OBVIOUS
<1>3. PICK t : t = PromoteAt(int, y).ty OBVIOUS
<1>4. PICK u : u = CommonAt(int, x, y) OBVIOUS
<1>5. s \in CTypes /\ t \in CTypes BY <1>1, <1>2, <1>3, PromoteFacts DEF CVal
<1>6. s.bits \in Nat /\ t.bits \in Nat /\ ty.bits \in Nat /\ int \in Nat BY <1>5 DEF CTypes, Exponents
<1>7. /\ u \in CTypes /\ u.bits >= s.bits /\ u.bits >= t.bits
      /\ s.sgn /\ t.sgn => u.sgn
      /\ ~s.sgn => u.bits > s.bits \/ ~u.sgn
      /\ ~t.sgn => u.bits > t.bits \/ ~u.sgn
  BY <1>2, <1>3, <1>4, <1>5, CommonTypeFacts DEF CommonAt
<1>8. u.bits \in Nat BY <1>7 DEF CTypes, Exponents
<1>9. /\ s = x.ty \/ (s.sgn /\ s.bits = int /\ x.ty.bits < int)
      /\ t = y.ty \/ (t.sgn /\ t.bits = int /\ y.ty.bits < int)
  <2>1. x.ty.bits \in Nat /\ y.ty.bits \in Nat BY <1>1 DEF CVal, CTypes, Exponents
  <2>2. Ops!Type(int, TRUE).bits = int /\ Ops!Type(int, TRUE).sgn BY TypeFacts
  <2>3. s = x.ty \/ (s = Ops!Type(int, TRUE) /\ x.ty.bits < int)
    <3>1. x.ty.bits < int => PromoteAt(int, x).ty = Ops!Type(int, TRUE) BY <1>1, PromoteFacts
    <3>2. x.ty.bits >= int => PromoteAt(int, x) = x BY <1>1, PromoteFacts
    <3>3. x.ty.bits < int \/ x.ty.bits >= int BY <1>6, <2>1
    <3> QED BY <1>2, <3>1, <3>2, <3>3
  <2>4. t = y.ty \/ (t = Ops!Type(int, TRUE) /\ y.ty.bits < int)
    <3>1. y.ty.bits < int => PromoteAt(int, y).ty = Ops!Type(int, TRUE) BY <1>1, PromoteFacts
    <3>2. y.ty.bits >= int => PromoteAt(int, y) = y BY <1>1, PromoteFacts
    <3>3. y.ty.bits < int \/ y.ty.bits >= int BY <1>6, <2>1
    <3> QED BY <1>3, <3>1, <3>2, <3>3
  <2> QED BY <2>2, <2>3, <2>4
<1>10. u.bits >= ty.bits BY <1>1, <1>6, <1>7, <1>8, <1>9
<1>11. CASE ty.sgn
  <2>1. u.sgn BY <1>1, <1>7, <1>9, <1>11
  <2>2. ASSUME NEW v, Fits(ty, v) PROVE Fits(u, v)
    <3>1. CASE u.bits > ty.bits BY <1>6, <1>7, <1>8, <2>1, <2>2, <3>1, FitsWider
    <3>2. CASE u.bits = ty.bits BY <1>11, <2>1, <2>2, <3>2 DEF Fits
    <3> QED BY <1>6, <1>8, <1>10, <3>1, <3>2
  <2> QED BY <1>4, <1>7, <1>10, <2>2
<1>12. CASE ~ty.sgn
  <2>1. u.bits > ty.bits \/ ~u.sgn BY <1>1, <1>6, <1>7, <1>8, <1>9, <1>12
  <2>2. ASSUME NEW v, Fits(ty, v) PROVE Fits(u, v)
    <3>1. CASE u.bits > ty.bits BY <1>6, <1>7, <1>8, <1>12, <2>2, <3>1, FitsWider
    <3>2. CASE u.bits = ty.bits /\ ~u.sgn BY <1>12, <2>2, <3>2 DEF Fits
    <3> QED BY <1>6, <1>8, <1>10, <2>1, <3>1, <3>2
  <2> QED BY <1>4, <1>7, <1>10, <2>2
<1> QED BY <1>11, <1>12

BinAt(int, op, x, y) ==
  LET t == CommonAt(int, x, y)
  IN Ops!Val(t, Ops!Apply(op, t.bits, Ops!Cast(t, x).v, Ops!Cast(t, y).v))
CompareAt(int, op, x, y) ==
  LET t == CommonAt(int, x, y) IN Ops!Holds(op, Ops!Cast(t, x).v, Ops!Cast(t, y).v)

(* C's operators compute with the operands' own numbers, in a type that is *)
(* wide enough: no conversion changes them.                                *)
LEMMA BinExact ==
  ASSUME NEW int \in Exponents \ {0}, NEW ty \in CTypes, NEW x, NEW y, Operands(ty, x, y), NEW op
  PROVE  /\ \E t \in CTypes : /\ t.bits >= ty.bits
                              /\ BinAt(int, op, x, y) = Ops!Val(t, Ops!Apply(op, t.bits, x.v, y.v))
         /\ CompareAt(int, op, x, y) = Ops!Holds(op, x.v, y.v)
<1>1. PICK t : t = CommonAt(int, x, y) OBVIOUS
<1>2. t \in CTypes /\ t.bits >= ty.bits /\ Fits(t, x.v) /\ Fits(t, y.v)
  BY <1>1, CommonFacts DEF Operands
<1>3. x.v \in Int /\ y.v \in Int BY <1>2 DEF Fits
<1>4. Ops!Cast(t, x) = Ops!Val(t, x.v) /\ Ops!Cast(t, y) = Ops!Val(t, y.v) BY <1>2, CastFacts
<1>5. Ops!Cast(t, x).v = x.v /\ Ops!Cast(t, y).v = y.v
  <2>1. Ops!Val(t, x.v).v = x.v BY <1>2, <1>3, ValFacts
  <2>2. Ops!Val(t, y.v).v = y.v BY <1>2, <1>3, ValFacts
  <2> QED BY <1>4, <2>1, <2>2
<1>6. BinAt(int, op, x, y) = Ops!Val(t, Ops!Apply(op, t.bits, x.v, y.v)) BY <1>1, <1>5 DEF BinAt
<1>7. CompareAt(int, op, x, y) = Ops!Holds(op, x.v, y.v) BY <1>1, <1>5 DEF CompareAt
<1> QED BY <1>2, <1>6, <1>7

LEMMA QuotType ==
  ASSUME NEW a \in Int, NEW b \in Int \ {0}
  PROVE  Ops!Quot(a, b) \in Int
<1> PICK m \in Nat, n \in Nat \ {0} : m = (IF a < 0 THEN -a ELSE a) /\ n = (IF b < 0 THEN -b ELSE b)
  OBVIOUS
<1>1. m \div n \in Int BY ModFacts
<1> QED BY <1>1 DEF Ops!Quot

COps == {"+", "-", "*", "/", "%", "&", "|", "^"}

LEMMA ApplyFacts ==
  ASSUME NEW m \in Exponents, NEW a \in Int, NEW b \in Int
  PROVE  /\ Ops!Apply("+", m, a, b) = a + b
         /\ Ops!Apply("-", m, a, b) = a - b
         /\ Ops!Apply("*", m, a, b) = a * b
         /\ Ops!Apply("/", m, a, b) = Ops!Quot(a, b)
         /\ Ops!Apply("%", m, a, b) = a - b * Ops!Quot(a, b)
         /\ Ops!Apply("&", m, a, b) = Ops!AndBits(m, a % 2^m, b % 2^m)
         /\ Ops!Apply("|", m, a, b) = Ops!OrBits(m, a % 2^m, b % 2^m)
         /\ Ops!Apply("^", m, a, b) = Ops!XorBits(m, a % 2^m, b % 2^m)
  BY DEF Ops!Apply, Ops!Pattern

LEMMA ApplyType ==
  ASSUME NEW m \in Exponents, NEW a \in Int, NEW b \in Int, NEW op \in COps,
         op \in {"/", "%"} => b # 0
  PROVE  Ops!Apply(op, m, a, b) \in Int
<1>1. b # 0 => Ops!Quot(a, b) \in Int BY QuotType
<1>2. b # 0 => a - b * Ops!Quot(a, b) \in Int BY <1>1
<1>3. a % 2^m \in Int /\ b % 2^m \in Int
  <2> PICK P \in Nat \ {0} : P = 2^m BY PowerType
  <2>1. a % P \in 0 .. P - 1 /\ b % P \in 0 .. P - 1 BY ModFacts
  <2> QED BY <2>1
<1>4. PICK u \in Int, v \in Int : u = a % 2^m /\ v = b % 2^m BY <1>3
<1>5. Ops!AndBits(m, u, v) \in Int /\ Ops!OrBits(m, u, v) \in Int /\ Ops!XorBits(m, u, v) \in Int
  BY BitwiseFacts
<1>6. a + b \in Int /\ a - b \in Int /\ a * b \in Int OBVIOUS
<1> QED BY <1>1, <1>2, <1>4, <1>5, <1>6, ApplyFacts DEF COps

(* An operation, cast to a type: the lowest bits are those of the          *)
(* operation on the operands' own numbers.                                 *)
LEMMA CastBin ==
  ASSUME NEW int \in Exponents \ {0}, NEW ty \in CTypes, NEW x, NEW y, Operands(ty, x, y),
         NEW op \in COps, op \in {"/", "%"} => y.v # 0,
         NEW dest \in CTypes, dest.bits <= ty.bits
  PROVE  \E t \in CTypes :
           /\ t.bits >= ty.bits
           /\ Ops!Apply(op, t.bits, x.v, y.v) \in Int
           /\ BinAt(int, op, x, y) = Ops!Val(t, Ops!Apply(op, t.bits, x.v, y.v))
           /\ CVal(Ops!Cast(dest, BinAt(int, op, x, y)))
           /\ Ops!Cast(dest, BinAt(int, op, x, y)).ty = dest
           /\ Same(dest.bits, Ops!Cast(dest, BinAt(int, op, x, y)).v, Ops!Apply(op, t.bits, x.v, y.v))
<1>1. PICK t \in CTypes : /\ t.bits >= ty.bits
                          /\ BinAt(int, op, x, y) = Ops!Val(t, Ops!Apply(op, t.bits, x.v, y.v))
  BY BinExact
<1>2. x.v \in Int /\ y.v \in Int BY DEF Operands, Fits
<1>3. t.bits \in Exponents \ {0} /\ ty.bits \in Exponents \ {0} /\ dest.bits \in Exponents \ {0}
  BY DEF CTypes
<1> PICK w \in Int : w = Ops!Apply(op, t.bits, x.v, y.v) BY <1>2, <1>3, ApplyType
<1> PICK z : z = BinAt(int, op, x, y) OBVIOUS
<1>4. z.v \in Int /\ Same(t.bits, z.v, w) BY <1>1, ValFacts DEF CVal
<1>5. Same(dest.bits, z.v, w)
  <2>1. dest.bits \in Nat /\ dest.bits <= t.bits BY <1>1, <1>3 DEF Exponents
  <2> QED BY <1>3, <1>4, <2>1, SameNarrow
<1>6. Ops!Cast(dest, z) = Ops!Val(dest, z.v) BY CastFacts
<1>7. /\ CVal(Ops!Val(dest, z.v)) /\ Ops!Val(dest, z.v).ty = dest
      /\ Same(dest.bits, Ops!Val(dest, z.v).v, z.v)
  BY <1>4, ValFacts
<1>8. Ops!Val(dest, z.v).v \in Int BY <1>7 DEF CVal
<1>9. Same(dest.bits, Ops!Val(dest, z.v).v, w) BY <1>3, <1>4, <1>5, <1>7, <1>8, SameBoth
<1> QED BY <1>1, <1>6, <1>7, <1>9

-----------------------------------------------------------------------------
(* The operands of the builder's operations                                *)

LEMMA OpsScale ==
  /\ \A n \in Ops!Widths : n \in Exponents \ {0, 1}
  /\ IntBits \in Exponents \ {0} /\ LongBits \in Exponents \ {0} /\ MaxBits \in Exponents \ {0}
  /\ \A n \in Ops!Widths : n <= MaxBits
  BY ScalesAreFaithful, PowersOfTwo DEF Ops!ScaleOK, Ops!Widths, Exponents

LEMMA OpsTypes ==
  ASSUME NEW ty \in Ops!Types
  PROVE  ty \in CTypes /\ ty.bits \in Ops!Widths /\ ty.bits \in Exponents \ {0, 1}
<1>1. PICK n \in Ops!Widths, s \in BOOLEAN : ty = Ops!Type(n, s) BY DEF Ops!Types
<1>2. n \in Exponents \ {0, 1} BY OpsScale
<1>3. ty \in CTypes /\ ty.bits = n BY <1>1, <1>2, TypeFacts
<1> QED BY <1>2, <1>3

(* What a pattern stands for in a type. *)
LEMMA PatternValue ==
  ASSUME NEW ty \in CTypes, NEW p \in 0 .. 2^ty.bits - 1
  PROVE  /\ Fits(ty, Ops!Wrap(ty, p)) /\ Same(ty.bits, Ops!Wrap(ty, p), p)
         /\ ~ty.sgn => Ops!Wrap(ty, p) = p
         /\ ty.sgn => Ops!Wrap(ty, p) = Ops!SignedOf(ty.bits, p)
<1> PICK n \in Exponents \ {0} : n = ty.bits BY DEF CTypes
<1>1. n - 1 \in Exponents /\ 2^n = 2 * 2^(n - 1) BY PowerStep
<1> PICK H \in Nat \ {0}, M \in Nat \ {0} : H = 2^(n - 1) /\ M = 2^n BY <1>1, PowerType
<1>2. p \in Int /\ 0 <= p /\ p < M BY <1>1
<1>3. p % M = p BY <1>2, ModSmall
<1>4. Ops!Wrap(ty, p) = IF ty.sgn /\ p >= H THEN p - M ELSE p BY <1>3 DEF Ops!Wrap, Ops!Pattern
<1>5. Ops!SignedOf(n, p) = IF p < H THEN p ELSE p - M BY DEF Ops!SignedOf
<1>6. ty.sgn => Ops!Wrap(ty, p) = Ops!SignedOf(n, p) BY <1>2, <1>4, <1>5
<1> QED BY <1>2, <1>4, <1>6, WrapFacts

(* A literal has the number that the pattern stands for. *)
LEMMA LiteralFacts ==
  ASSUME NEW ty \in CTypes, ty.bits <= MaxBits, NEW p \in 0 .. 2^ty.bits - 1
  PROVE  /\ CVal(Ops!Literal(ty, p)) /\ Ops!Literal(ty, p).v = Ops!Wrap(ty, p)
         /\ Ops!Literal(ty, p).ty.sgn = ty.sgn
<1> PICK v : v = Ops!Wrap(ty, p) OBVIOUS
<1>1. v \in Int /\ Fits(ty, v) BY PatternValue DEF Fits
<1>2. PICK s \in BOOLEAN : s = ty.sgn BY DEF CTypes
<1>3. ty.bits \in Nat /\ MaxBits \in Nat BY OpsScale DEF CTypes, Exponents
<1> PICK l : l = Ops!Type(LongBits, s) OBVIOUS
<1> PICK m : m = Ops!Type(MaxBits, s) OBVIOUS
<1>4. l \in CTypes /\ l.sgn = s /\ m \in CTypes /\ m.sgn = s /\ m.bits = MaxBits BY OpsScale, TypeFacts
<1>5. Fits(m, v)
  <2>1. CASE ty.bits < MaxBits
    <3>1. m.sgn \/ ~ty.sgn BY <1>2, <1>4
    <3> QED BY <1>1, <1>4, <2>1, <3>1, FitsWider
  <2>2. CASE ty.bits = MaxBits
    <3>1. m.bits = ty.bits /\ (m.sgn <=> ty.sgn) BY <1>2, <1>4, <2>2
    <3> QED BY <1>1, <3>1 DEF Fits
  <2> QED BY <1>3, <2>1, <2>2
<1>6. Ops!Literal(ty, p) = IF Ops!Wrap(l, v) = v THEN Ops!Val(l, v) ELSE Ops!Val(m, v)
  BY <1>2 DEF Ops!Literal
<1>7. CASE Ops!Wrap(l, v) = v
  <2>1. CVal(Ops!Val(l, v)) /\ Ops!Val(l, v).ty = l /\ Ops!Val(l, v).v = v BY <1>1, <1>4, <1>7, ValFacts
  <2> QED BY <1>2, <1>4, <1>6, <1>7, <2>1
<1>8. CASE Ops!Wrap(l, v) # v
  <2>1. CVal(Ops!Val(m, v)) /\ Ops!Val(m, v).ty = m /\ Ops!Val(m, v).v = v BY <1>1, <1>4, <1>5, ValFacts
  <2> QED BY <1>2, <1>4, <1>6, <1>8, <2>1
<1> QED BY <1>7, <1>8

(* A call of two operands, and what its expression gets. *)
IsCall(c, op, ty, form, a, b) ==
  /\ c = [op |-> op, ty |-> ty, form |-> form, a |-> a, b |-> b]
  /\ ty \in Ops!Types /\ form \in Ops!Forms /\ a \in Ops!Patterns(ty) /\ b \in Ops!Patterns(ty)

LEMMA CallOperands ==
  ASSUME NEW c, NEW op, NEW ty, NEW form, NEW a, NEW b, IsCall(c, op, ty, form, a, b)
  PROVE  /\ ty \in CTypes /\ ty.bits \in Exponents \ {0, 1}
         /\ a \in 0 .. 2^ty.bits - 1 /\ b \in 0 .. 2^ty.bits - 1
         /\ Operands(ty, Ops!Left(c), Ops!Right(c))
         /\ Ops!Left(c).v = Ops!Wrap(ty, a) /\ Ops!Right(c).v = Ops!Wrap(ty, b)
<1>1. ty \in CTypes /\ ty.bits \in Ops!Widths /\ ty.bits \in Exponents \ {0, 1} /\ ty.bits <= MaxBits
  BY OpsTypes, OpsScale DEF IsCall
<1>2. a \in 0 .. 2^ty.bits - 1 /\ b \in 0 .. 2^ty.bits - 1 BY DEF IsCall, Ops!Patterns
<1>3. c.ty = ty /\ c.form = form /\ c.a = a /\ c.b = b BY DEF IsCall
<1>4. a \in Int /\ b \in Int
  <2>1. 2^ty.bits \in Nat BY <1>1, PowerType
  <2> QED BY <1>2, <2>1
<1>5. /\ CVal(Ops!Val(ty, a)) /\ Ops!Val(ty, a).ty = ty /\ Ops!Val(ty, a).v = Ops!Wrap(ty, a)
      /\ CVal(Ops!Val(ty, b)) /\ Ops!Val(ty, b).ty = ty /\ Ops!Val(ty, b).v = Ops!Wrap(ty, b)
  BY <1>1, <1>4, ValFacts
<1>6. /\ CVal(Ops!Literal(ty, a)) /\ Ops!Literal(ty, a).v = Ops!Wrap(ty, a)
      /\ Ops!Literal(ty, a).ty.sgn = ty.sgn
  BY <1>1, <1>2, LiteralFacts
<1>7. /\ CVal(Ops!Literal(ty, b)) /\ Ops!Literal(ty, b).v = Ops!Wrap(ty, b)
      /\ Ops!Literal(ty, b).ty.sgn = ty.sgn
  BY <1>1, <1>2, LiteralFacts
<1>8. Fits(ty, Ops!Wrap(ty, a)) /\ Fits(ty, Ops!Wrap(ty, b)) BY <1>1, <1>2, PatternValue
<1>9. Ops!Left(c) = IF form = "cv" THEN Ops!Literal(ty, a) ELSE Ops!Val(ty, a)
  BY <1>3 DEF Ops!Left
<1>10. Ops!Right(c) = IF form = "vc" THEN Ops!Literal(ty, b) ELSE Ops!Val(ty, b)
  BY <1>3 DEF Ops!Right
<1>11. form \in {"vv", "vc", "cv"} BY DEF IsCall, Ops!Forms
<1>12. CASE form = "vv" BY <1>1, <1>2, <1>5, <1>8, <1>9, <1>10, <1>12 DEF Operands
<1>13. CASE form = "vc" BY <1>1, <1>2, <1>5, <1>7, <1>8, <1>9, <1>10, <1>13 DEF Operands
<1>14. CASE form = "cv" BY <1>1, <1>2, <1>5, <1>6, <1>8, <1>9, <1>10, <1>14 DEF Operands
<1> QED BY <1>11, <1>12, <1>13, <1>14

LEMMA OpsC ==
  ASSUME NEW op, NEW x, NEW y
  PROVE  /\ Ops!Promote(x) = PromoteAt(IntBits, x)
         /\ Ops!Bin(op, x, y) = BinAt(IntBits, op, x, y)
         /\ Ops!Compare(op, x, y) = CompareAt(IntBits, op, x, y)
<1>1. \A z : Ops!Promote(z) = PromoteAt(IntBits, z) BY DEF Ops!Promote, PromoteAt
<1>2. Ops!Bin(op, x, y) = BinAt(IntBits, op, x, y) BY <1>1 DEF Ops!Bin, BinAt, CommonAt
<1>3. Ops!Compare(op, x, y) = CompareAt(IntBits, op, x, y) BY <1>1 DEF Ops!Compare, CompareAt, CommonAt
<1> QED BY <1>1, <1>2, <1>3

(* Patterns are those of numbers with the same bits. *)
LEMMA PatternSame ==
  ASSUME NEW n \in Exponents, NEW u \in Int, NEW v \in Int, Same(n, u, v)
  PROVE  Ops!Pattern(n, u) = Ops!Pattern(n, v)
  BY SameMod DEF Ops!Pattern

(* The builder's operations, on the operands' numbers. *)
LEMMA BinSame ==
  ASSUME NEW ty \in CTypes, NEW x, NEW y, Operands(ty, x, y),
         NEW op \in COps, op \in {"/", "%"} => y.v # 0,
         NEW dest \in CTypes, dest.bits = ty.bits
  PROVE  \E t \in CTypes :
           /\ t.bits >= ty.bits
           /\ Ops!Apply(op, t.bits, x.v, y.v) \in Int
           /\ Ops!Cast(dest, Ops!Bin(op, x, y)).v \in Int
           /\ Same(ty.bits, Ops!Cast(dest, Ops!Bin(op, x, y)).v, Ops!Apply(op, t.bits, x.v, y.v))
<1>1. IntBits \in Exponents \ {0} /\ dest.bits <= ty.bits BY OpsScale DEF CTypes, Exponents
<1>2. Ops!Bin(op, x, y) = BinAt(IntBits, op, x, y) BY OpsC
<1>3. PICK t \in CTypes :
        /\ t.bits >= ty.bits
        /\ Ops!Apply(op, t.bits, x.v, y.v) \in Int
        /\ CVal(Ops!Cast(dest, BinAt(IntBits, op, x, y)))
        /\ Same(dest.bits, Ops!Cast(dest, BinAt(IntBits, op, x, y)).v, Ops!Apply(op, t.bits, x.v, y.v))
  BY <1>1, CastBin
<1> QED BY <1>2, <1>3 DEF CVal

(* A cast to a type reads the lowest bits as the type says. *)
LEMMA CastPattern ==
  ASSUME NEW ty \in CTypes, NEW p \in 0 .. 2^ty.bits - 1, NEW x, x.v \in Int, Same(ty.bits, x.v, p)
  PROVE  /\ CVal(Ops!Cast(ty, x)) /\ Ops!Cast(ty, x).ty = ty
         /\ Ops!Cast(ty, x).v = Ops!Wrap(ty, p)
<1>1. ty.bits \in Exponents /\ 2^ty.bits \in Nat BY PowerType DEF CTypes
<1>2. p \in Int BY <1>1
<1>3. Fits(ty, Ops!Wrap(ty, x.v)) /\ Same(ty.bits, Ops!Wrap(ty, x.v), x.v) BY WrapFacts
<1>4. Fits(ty, Ops!Wrap(ty, p)) /\ Same(ty.bits, Ops!Wrap(ty, p), p) BY <1>2, WrapFacts
<1>5. Ops!Wrap(ty, x.v) \in Int /\ Ops!Wrap(ty, p) \in Int BY <1>3, <1>4 DEF Fits
<1>6. Same(ty.bits, Ops!Wrap(ty, x.v), p) BY <1>1, <1>2, <1>3, <1>5, SameBoth
<1>7. Same(ty.bits, p, Ops!Wrap(ty, p)) BY <1>1, <1>2, <1>4, <1>5, SameBoth
<1>8. Same(ty.bits, Ops!Wrap(ty, x.v), Ops!Wrap(ty, p)) BY <1>1, <1>2, <1>5, <1>6, <1>7, SameBoth
<1>9. Ops!Wrap(ty, x.v) = Ops!Wrap(ty, p) BY <1>3, <1>4, <1>8, FitsOnce
<1> QED BY <1>9, CastFacts, ValFacts

LEMMA SignedFacts ==
  ASSUME NEW n \in Exponents \ {0}, NEW p \in 0 .. 2^n - 1
  PROVE  /\ Ops!SignedOf(n, p) \in Int
         /\ Ops!SignedOf(n, p) = 0 => p = 0
         /\ Same(n, Ops!SignedOf(n, p), p)
<1>1. n - 1 \in Exponents /\ 2^n = 2 * 2^(n - 1) BY PowerStep
<1> PICK H \in Nat \ {0}, M \in Nat \ {0} : H = 2^(n - 1) /\ M = 2^n BY <1>1, PowerType
<1>2. p \in Int /\ 0 <= p /\ p < M BY <1>1
<1>3. Ops!SignedOf(n, p) = IF p < H THEN p ELSE p - M BY DEF Ops!SignedOf
<1>4. p = p + 0 * M /\ p - M = p + (-1) * M BY <1>2
<1>5. Same(n, p, p) /\ Same(n, p - M, p) BY <1>2, <1>4 DEF Same
<1> QED BY <1>2, <1>3, <1>5

-----------------------------------------------------------------------------
(* The builder's operations                                                *)

LEMMA EvaluateBinary ==
  ASSUME NEW c
  PROVE  /\ c.op = "add" => Ops!Evaluate(c) = Ops!Cast(c.ty, Ops!Bin("+", Ops!Left(c), Ops!Right(c)))
         /\ c.op = "sub" => Ops!Evaluate(c) = Ops!Cast(c.ty, Ops!Bin("-", Ops!Left(c), Ops!Right(c)))
         /\ c.op = "mul" => Ops!Evaluate(c) = Ops!Cast(c.ty, Ops!Bin("*", Ops!Left(c), Ops!Right(c)))
         /\ c.op = "sdiv" => Ops!Evaluate(c) = Ops!Cast(c.ty, Ops!Bin("/", Ops!Left(c), Ops!Right(c)))
         /\ c.op = "srem" => Ops!Evaluate(c) = Ops!Cast(c.ty, Ops!Bin("%", Ops!Left(c), Ops!Right(c)))
         /\ c.op = "and" => Ops!Evaluate(c) = Ops!Cast(c.ty, Ops!Bin("&", Ops!Left(c), Ops!Right(c)))
         /\ c.op = "or" => Ops!Evaluate(c) = Ops!Cast(c.ty, Ops!Bin("|", Ops!Left(c), Ops!Right(c)))
         /\ c.op = "xor" => Ops!Evaluate(c) = Ops!Cast(c.ty, Ops!Bin("^", Ops!Left(c), Ops!Right(c)))
         /\ c.op = "udiv" => Ops!Evaluate(c) = Ops!unsigned_binop("/", c.ty, Ops!Left(c), Ops!Right(c))
         /\ c.op = "urem" => Ops!Evaluate(c) = Ops!unsigned_binop("%", c.ty, Ops!Left(c), Ops!Right(c))
<1>1. /\ Ops!CBinOp("add") = "+" /\ Ops!CBinOp("sub") = "-" /\ Ops!CBinOp("mul") = "*"
      /\ Ops!CBinOp("sdiv") = "/" /\ Ops!CBinOp("srem") = "%"
      /\ Ops!CBinOp("udiv") = "/" /\ Ops!CBinOp("urem") = "%"
      /\ Ops!CBinOp("and") = "&" /\ Ops!CBinOp("or") = "|" /\ Ops!CBinOp("xor") = "^"
  BY DEF Ops!CBinOp
<1>2. c.op \in {"add", "sub", "mul", "and", "or", "xor", "sdiv", "srem"} =>
        Ops!Evaluate(c) = Ops!binop(Ops!CBinOp(c.op), c.ty, Ops!Left(c), Ops!Right(c))
  BY DEF Ops!Evaluate, Ops!Preds
<1>3. c.op \in {"udiv", "urem"} =>
        Ops!Evaluate(c) = Ops!unsigned_binop(Ops!CBinOp(c.op), c.ty, Ops!Left(c), Ops!Right(c))
  BY DEF Ops!Evaluate, Ops!Preds
<1> QED BY <1>1, <1>2, <1>3 DEF Ops!binop

LEMMA EvaluateOther ==
  ASSUME NEW c
  PROVE  /\ c.op = "shl" => Ops!Evaluate(c) = Ops!shl(c.ty, Ops!Left(c), Ops!Right(c))
         /\ c.op = "lshr" => Ops!Evaluate(c) = Ops!lshr(c.ty, Ops!Left(c), Ops!Right(c))
         /\ c.op = "ashr" => Ops!Evaluate(c) = Ops!ashr(c.ty, Ops!Left(c), Ops!Right(c))
         /\ c.op = "not" => Ops!Evaluate(c) = Ops!not(c.ty, Ops!Left(c))
         /\ c.op = "neg" => Ops!Evaluate(c) = Ops!neg(c.ty, Ops!Left(c))
         /\ c.op \in Ops!Preds => Ops!Evaluate(c) = Ops!icmp(c.op, c.ty, Ops!Left(c), Ops!Right(c))
         /\ c.op = "switch" => Ops!Evaluate(c) = Ops!switch(c.ty, Ops!Left(c), c.b)
         /\ c.op = "trunc" => Ops!Evaluate(c) = Ops!trunc(c.ty, c.dest, Ops!Left(c))
         /\ c.op = "zext" => Ops!Evaluate(c) = Ops!zext(c.ty, c.dest, Ops!Left(c))
         /\ c.op = "intcast_s" => Ops!Evaluate(c) = Ops!intcast(c.ty, c.dest, Ops!Left(c), TRUE)
         /\ c.op = "intcast_u" => Ops!Evaluate(c) = Ops!intcast(c.ty, c.dest, Ops!Left(c), FALSE)
  BY DEF Ops!Evaluate, Ops!Preds

LEMMA MeaningCases ==
  ASSUME NEW n, NEW a, NEW b
  PROVE  /\ Ops!Meaning("add", n, a, b) = Ops!Pattern(n, a + b)
         /\ Ops!Meaning("sub", n, a, b) = Ops!Pattern(n, a - b)
         /\ Ops!Meaning("mul", n, a, b) = Ops!Pattern(n, a * b)
         /\ Ops!Meaning("udiv", n, a, b) = Ops!Pattern(n, a \div b)
         /\ Ops!Meaning("urem", n, a, b) = Ops!Pattern(n, a % b)
         /\ Ops!Meaning("sdiv", n, a, b) = Ops!Pattern(n, Ops!Quot(Ops!SignedOf(n, a), Ops!SignedOf(n, b)))
         /\ Ops!Meaning("srem", n, a, b) =
              Ops!Pattern(n, Ops!SignedOf(n, a)
                               - Ops!SignedOf(n, b) * Ops!Quot(Ops!SignedOf(n, a), Ops!SignedOf(n, b)))
         /\ Ops!Meaning("shl", n, a, b) = Ops!Pattern(n, a * 2^b)
         /\ Ops!Meaning("lshr", n, a, b) = Ops!Pattern(n, a \div 2^b)
         /\ Ops!Meaning("ashr", n, a, b) = Ops!Pattern(n, Ops!SignedOf(n, a) \div 2^b)
  BY DEF Ops!Meaning

(* Additions, subtractions and products: the bits above the width do not   *)
(* matter.                                                                 *)
LEMMA SumsExact ==
  ASSUME NEW c, NEW op \in {"add", "sub", "mul"}, NEW ty, NEW form, NEW a, NEW b,
         IsCall(c, op, ty, form, a, b)
  PROVE  Ops!Pattern(ty.bits, Ops!Evaluate(c).v) = Ops!Meaning(op, ty.bits, a, b)
<1> PICK x : x = Ops!Left(c) OBVIOUS
<1> PICK y : y = Ops!Right(c) OBVIOUS
<1>1. /\ ty \in CTypes /\ ty.bits \in Exponents \ {0, 1}
      /\ a \in 0 .. 2^ty.bits - 1 /\ b \in 0 .. 2^ty.bits - 1
      /\ Operands(ty, x, y) /\ x.v = Ops!Wrap(ty, a) /\ y.v = Ops!Wrap(ty, b)
  BY CallOperands
<1> PICK n \in Exponents \ {0, 1} : n = ty.bits BY <1>1
<1>2. a \in Int /\ b \in Int
  <2>1. 2^n \in Nat BY PowerType
  <2> QED BY <1>1, <2>1
<1>3. x.v \in Int /\ y.v \in Int /\ Same(n, x.v, a) /\ Same(n, y.v, b)
  BY <1>1, PatternValue DEF Operands, Fits
<1>4. Same(n, x.v + y.v, a + b) /\ Same(n, x.v - y.v, a - b) /\ Same(n, x.v * y.v, a * b)
  BY <1>2, <1>3, SameArith
<1> DEFINE cop == IF op = "add" THEN "+" ELSE IF op = "sub" THEN "-" ELSE "*"
<1>5. cop \in COps /\ cop \notin {"/", "%"} BY DEF COps
<1>6. c.op = op /\ c.ty = ty BY DEF IsCall
<1>7. Ops!Evaluate(c) = Ops!Cast(ty, Ops!Bin(cop, x, y)) BY <1>6, EvaluateBinary
<1> HIDE DEF cop
<1>8. PICK t \in CTypes :
        /\ Ops!Apply(cop, t.bits, x.v, y.v) \in Int
        /\ Ops!Evaluate(c).v \in Int
        /\ Same(n, Ops!Evaluate(c).v, Ops!Apply(cop, t.bits, x.v, y.v))
  BY <1>1, <1>5, <1>7, BinSame
<1>9. t.bits \in Exponents BY DEF CTypes
<1>10. Ops!Pattern(n, Ops!Evaluate(c).v) = Ops!Pattern(n, Ops!Apply(cop, t.bits, x.v, y.v))
  BY <1>8, PatternSame
<1>11. CASE op = "add"
  <2>1. Ops!Apply(cop, t.bits, x.v, y.v) = x.v + y.v BY <1>3, <1>9, <1>11, ApplyFacts DEF cop
  <2>2. Ops!Pattern(n, x.v + y.v) = Ops!Pattern(n, a + b) BY <1>2, <1>3, <1>4, PatternSame
  <2> QED BY <1>10, <1>11, <2>1, <2>2, MeaningCases
<1>12. CASE op = "sub"
  <2>1. Ops!Apply(cop, t.bits, x.v, y.v) = x.v - y.v BY <1>3, <1>9, <1>12, ApplyFacts DEF cop
  <2>2. Ops!Pattern(n, x.v - y.v) = Ops!Pattern(n, a - b) BY <1>2, <1>3, <1>4, PatternSame
  <2> QED BY <1>10, <1>12, <2>1, <2>2, MeaningCases
<1>13. CASE op = "mul"
  <2>1. Ops!Apply(cop, t.bits, x.v, y.v) = x.v * y.v BY <1>3, <1>9, <1>13, ApplyFacts DEF cop
  <2>2. x.v * y.v \in Int /\ a * b \in Int BY <1>2, <1>3
  <2>3. Ops!Pattern(n, x.v * y.v) = Ops!Pattern(n, a * b) BY <1>4, <2>2, PatternSame
  <2> QED BY <1>10, <1>13, <2>1, <2>3, MeaningCases
<1> QED BY <1>11, <1>12, <1>13

(* Signed division. *)
LEMMA SignedDivisionExact ==
  ASSUME NEW c, NEW op \in {"sdiv", "srem"}, NEW ty, NEW form, NEW a, NEW b,
         IsCall(c, op, ty, form, a, b), ty.sgn, b # 0
  PROVE  Ops!Pattern(ty.bits, Ops!Evaluate(c).v) = Ops!Meaning(op, ty.bits, a, b)
<1> PICK x : x = Ops!Left(c) OBVIOUS
<1> PICK y : y = Ops!Right(c) OBVIOUS
<1>1. /\ ty \in CTypes /\ ty.bits \in Exponents \ {0, 1}
      /\ a \in 0 .. 2^ty.bits - 1 /\ b \in 0 .. 2^ty.bits - 1
      /\ Operands(ty, x, y) /\ x.v = Ops!Wrap(ty, a) /\ y.v = Ops!Wrap(ty, b)
  BY CallOperands
<1> PICK n \in Exponents \ {0, 1} : n = ty.bits BY <1>1
<1>2. x.v = Ops!SignedOf(n, a) /\ y.v = Ops!SignedOf(n, b) BY <1>1, PatternValue
<1>3. x.v \in Int /\ y.v \in Int /\ y.v # 0 BY <1>1, <1>2, SignedFacts
<1> DEFINE cop == IF op = "sdiv" THEN "/" ELSE "%"
<1>5. cop \in COps BY DEF COps
<1>6. c.op = op /\ c.ty = ty BY DEF IsCall
<1>7. Ops!Evaluate(c) = Ops!Cast(ty, Ops!Bin(cop, x, y)) BY <1>6, EvaluateBinary
<1> HIDE DEF cop
<1>8. PICK t \in CTypes :
        /\ Ops!Apply(cop, t.bits, x.v, y.v) \in Int
        /\ Ops!Evaluate(c).v \in Int
        /\ Same(n, Ops!Evaluate(c).v, Ops!Apply(cop, t.bits, x.v, y.v))
  BY <1>1, <1>3, <1>5, <1>7, BinSame
<1>9. t.bits \in Exponents BY DEF CTypes
<1>10. Ops!Pattern(n, Ops!Evaluate(c).v) = Ops!Pattern(n, Ops!Apply(cop, t.bits, x.v, y.v))
  BY <1>8, PatternSame
<1>11. CASE op = "sdiv"
  <2>1. Ops!Apply(cop, t.bits, x.v, y.v) = Ops!Quot(x.v, y.v) BY <1>3, <1>9, <1>11, ApplyFacts DEF cop
  <2> QED BY <1>2, <1>10, <1>11, <2>1, MeaningCases
<1>12. CASE op = "srem"
  <2>1. Ops!Apply(cop, t.bits, x.v, y.v) = x.v - y.v * Ops!Quot(x.v, y.v)
    BY <1>3, <1>9, <1>12, ApplyFacts DEF cop
  <2> QED BY <1>2, <1>10, <1>12, <2>1, MeaningCases
<1> QED BY <1>11, <1>12

(* Unsigned division: a signed operand is made unsigned first. *)
LEMMA NaturalQuot ==
  ASSUME NEW a \in Nat, NEW b \in Nat \ {0}
  PROVE  Ops!Quot(a, b) = a \div b /\ a - b * Ops!Quot(a, b) = a % b
<1>1. Ops!Quot(a, b) = a \div b BY DEF Ops!Quot
<1>2. PICK q \in Int, s \in Int : q = a \div b /\ s = a % b /\ a = q * b + s
  <2>1. a \div b \in Int /\ a % b \in 0 .. b - 1 /\ a = (a \div b) * b + (a % b) BY ModFacts
  <2> QED BY <2>1
<1>3. a - b * q = s BY <1>2
<1> QED BY <1>1, <1>2, <1>3

(* Both operands cast to a type of the same width. *)
LEMMA CastOperands ==
  ASSUME NEW ty \in CTypes, NEW x, NEW y, Operands(ty, x, y),
         NEW a \in 0 .. 2^ty.bits - 1, NEW b \in 0 .. 2^ty.bits - 1,
         x.v = Ops!Wrap(ty, a), y.v = Ops!Wrap(ty, b),
         NEW u \in CTypes, u.bits = ty.bits
  PROVE  /\ Operands(u, Ops!Cast(u, x), Ops!Cast(u, y))
         /\ Ops!Cast(u, x).v = Ops!Wrap(u, a) /\ Ops!Cast(u, y).v = Ops!Wrap(u, b)
<1>1. Same(ty.bits, Ops!Wrap(ty, a), a) /\ Same(ty.bits, Ops!Wrap(ty, b), b) BY PatternValue
<1>2. x.v \in Int /\ y.v \in Int BY DEF Operands, Fits
<1>3. CVal(Ops!Cast(u, x)) /\ Ops!Cast(u, x).ty = u /\ Ops!Cast(u, x).v = Ops!Wrap(u, a)
  BY <1>1, <1>2, CastPattern
<1>4. CVal(Ops!Cast(u, y)) /\ Ops!Cast(u, y).ty = u /\ Ops!Cast(u, y).v = Ops!Wrap(u, b)
  BY <1>1, <1>2, CastPattern
<1>5. Fits(u, Ops!Cast(u, x).v) /\ Fits(u, Ops!Cast(u, y).v) BY <1>3, <1>4 DEF CVal
<1>6. Operands(u, Ops!Cast(u, x), Ops!Cast(u, y)) BY <1>3, <1>4, <1>5 DEF Operands
<1> QED BY <1>3, <1>4, <1>6

LEMMA UnsignedDivisionExact ==
  ASSUME NEW c, NEW op \in {"udiv", "urem"}, NEW ty, NEW form, NEW a, NEW b,
         IsCall(c, op, ty, form, a, b), b # 0
  PROVE  Ops!Pattern(ty.bits, Ops!Evaluate(c).v) = Ops!Meaning(op, ty.bits, a, b)
<1>1. /\ ty \in CTypes /\ ty.bits \in Exponents \ {0, 1}
      /\ a \in 0 .. 2^ty.bits - 1 /\ b \in 0 .. 2^ty.bits - 1
      /\ Operands(ty, Ops!Left(c), Ops!Right(c))
      /\ Ops!Left(c).v = Ops!Wrap(ty, a) /\ Ops!Right(c).v = Ops!Wrap(ty, b)
  BY CallOperands
<1> PICK n \in Exponents \ {0, 1} : n = ty.bits BY <1>1
<1>2. a \in Nat /\ b \in Nat \ {0}
  <2>1. 2^n \in Nat BY PowerType
  <2> QED BY <1>1, <2>1
<1> DEFINE cop == IF op = "udiv" THEN "/" ELSE "%"
<1>3. cop \in COps BY DEF COps
<1>4. c.op = op /\ c.ty = ty BY DEF IsCall
<1>5. Ops!Evaluate(c) = Ops!unsigned_binop(cop, ty, Ops!Left(c), Ops!Right(c)) BY <1>4, EvaluateBinary
<1> HIDE DEF cop
<1>6. \E u \in CTypes : \E x, y : /\ u.bits = n /\ Operands(u, x, y) /\ x.v = a /\ y.v = b
                                  /\ Ops!Evaluate(c) = Ops!Cast(ty, Ops!Bin(cop, x, y))
  <2>1. CASE ty.sgn
    <3> DEFINE u == Ops!Type(n, FALSE)
    <3>2. u = Ops!Unsigned(ty) BY DEF Ops!Unsigned
    <3>5. u \in CTypes /\ u.bits = n /\ ~u.sgn BY TypeFacts
    <3> HIDE DEF u
    <3>1. /\ Operands(u, Ops!Cast(u, Ops!Left(c)), Ops!Cast(u, Ops!Right(c)))
          /\ Ops!Cast(u, Ops!Left(c)).v = Ops!Wrap(u, a) /\ Ops!Cast(u, Ops!Right(c)).v = Ops!Wrap(u, b)
      BY <1>1, <3>5, CastOperands
    <3>3. Ops!Evaluate(c) = Ops!Cast(ty, Ops!Bin(cop, Ops!Cast(u, Ops!Left(c)), Ops!Cast(u, Ops!Right(c))))
      BY <1>5, <2>1, <3>2 DEF Ops!unsigned_binop
    <3>4. Ops!Wrap(u, a) = a /\ Ops!Wrap(u, b) = b BY <1>1, <3>5, PatternValue
    <3> QED BY <3>1, <3>3, <3>4, <3>5
  <2>2. CASE ~ty.sgn
    <3>1. Ops!Evaluate(c) = Ops!Cast(ty, Ops!Bin(cop, Ops!Left(c), Ops!Right(c)))
      BY <1>5, <2>2 DEF Ops!unsigned_binop, Ops!binop
    <3>2. Ops!Wrap(ty, a) = a /\ Ops!Wrap(ty, b) = b BY <1>1, <2>2, PatternValue
    <3> QED BY <1>1, <3>1, <3>2
  <2> QED BY <2>1, <2>2
<1>7. PICK u \in CTypes : \E x, y : /\ u.bits = n /\ Operands(u, x, y) /\ x.v = a /\ y.v = b
                                    /\ Ops!Evaluate(c) = Ops!Cast(ty, Ops!Bin(cop, x, y))
  BY <1>6
<1>8. PICK x, y : /\ u.bits = n /\ Operands(u, x, y) /\ x.v = a /\ y.v = b
                  /\ Ops!Evaluate(c) = Ops!Cast(ty, Ops!Bin(cop, x, y))
  BY <1>7
<1>9. PICK t \in CTypes :
        /\ Ops!Apply(cop, t.bits, a, b) \in Int
        /\ Ops!Evaluate(c).v \in Int
        /\ Same(n, Ops!Evaluate(c).v, Ops!Apply(cop, t.bits, a, b))
  BY <1>1, <1>2, <1>3, <1>8, BinSame
<1>10. t.bits \in Exponents BY DEF CTypes
<1>11. Ops!Pattern(n, Ops!Evaluate(c).v) = Ops!Pattern(n, Ops!Apply(cop, t.bits, a, b))
  BY <1>9, PatternSame
<1>12. CASE op = "udiv"
  <2>1. Ops!Apply(cop, t.bits, a, b) = Ops!Quot(a, b) BY <1>2, <1>10, <1>12, ApplyFacts DEF cop
  <2>2. Ops!Quot(a, b) = a \div b BY <1>2, NaturalQuot
  <2> QED BY <1>11, <1>12, <2>1, <2>2, MeaningCases
<1>13. CASE op = "urem"
  <2>1. Ops!Apply(cop, t.bits, a, b) = a - b * Ops!Quot(a, b) BY <1>2, <1>10, <1>13, ApplyFacts DEF cop
  <2>2. a - b * Ops!Quot(a, b) = a % b BY <1>2, NaturalQuot
  <2> QED BY <1>11, <1>13, <2>1, <2>2, MeaningCases
<1> QED BY <1>12, <1>13

(* The bits of a pattern, and of numbers with the same bits. *)
LEMMA PatternBits ==
  ASSUME NEW n \in Exponents, NEW r \in Int, NEW w \in Int, Same(n, r, w), NEW i \in 0 .. n - 1
  PROVE  Ops!Bit(Ops!Pattern(n, r), i) = Ops!Bit(w, i)
<1>1. r % 2^n \in 0 .. 2^n - 1 /\ Same(n, r % 2^n, r) BY SameMod
<1>2. PICK q \in Int : q = r % 2^n
  <2>1. 2^n \in Nat BY PowerType
  <2> QED BY <1>1, <2>1
<1>3. Same(n, q, w) BY <1>1, <1>2, SameBoth
<1>4. Ops!Bit(q, i) = Ops!Bit(w, i) BY <1>3, SameBits
<1> QED BY <1>2, <1>4 DEF Ops!Pattern

(* Promotions and conversions do not touch the bits that a cast keeps. *)
LEMMA BitwiseCast ==
  ASSUME NEW int \in Exponents \ {0}, NEW ty \in CTypes, NEW x, NEW y, Operands(ty, x, y),
         NEW op \in {"&", "|", "^"}, NEW dest \in CTypes, dest.bits = ty.bits,
         NEW i \in 0 .. ty.bits - 1
  PROVE  LET r == Ops!Cast(dest, BinAt(int, op, x, y))
             j == Ops!Bit(x.v, i)
             k == Ops!Bit(y.v, i)
         IN /\ CVal(r) /\ r.ty = dest
            /\ op = "&" => Ops!Bit(r.v, i) = j * k
            /\ op = "|" => Ops!Bit(r.v, i) = IF j + k = 0 THEN 0 ELSE 1
            /\ op = "^" => Ops!Bit(r.v, i) = IF j = k THEN 0 ELSE 1
<1> PICK n \in Exponents \ {0} : n = ty.bits BY DEF CTypes
<1>1. x.v \in Int /\ y.v \in Int BY DEF Operands, Fits
<1>2. op \in COps /\ op \notin {"/", "%"} /\ dest.bits <= ty.bits BY DEF COps, Exponents
<1> PICK z : z = Ops!Cast(dest, BinAt(int, op, x, y)) OBVIOUS
<1>3. PICK t \in CTypes :
        /\ t.bits >= n
        /\ Ops!Apply(op, t.bits, x.v, y.v) \in Int
        /\ CVal(z) /\ z.ty = dest
        /\ Same(n, z.v, Ops!Apply(op, t.bits, x.v, y.v))
  BY <1>2, CastBin
<1> PICK m \in Exponents : m = t.bits BY DEF CTypes
<1> PICK r \in Int : r = z.v BY <1>3 DEF CVal
<1> PICK w \in Int : w = Ops!Apply(op, m, x.v, y.v) BY <1>3
<1>4. n \in Nat /\ m \in Nat /\ n <= m /\ i \in 0 .. n - 1 /\ i \in 0 .. m - 1 BY <1>3 DEF Exponents
<1>5. Ops!Bit(r, i) = Ops!Bit(w, i) BY <1>3, <1>4, SameBits
<1>6. PICK u \in Int, v \in Int : u = x.v % 2^m /\ v = y.v % 2^m
  <2> PICK P \in Nat \ {0} : P = 2^m BY PowerType
  <2>1. x.v % P \in 0 .. P - 1 /\ y.v % P \in 0 .. P - 1 BY <1>1, ModFacts
  <2> QED BY <2>1
<1>7. Ops!Bit(u, i) = Ops!Bit(x.v, i) /\ Ops!Bit(v, i) = Ops!Bit(y.v, i)
  <2>1. Same(m, u, x.v) /\ Same(m, v, y.v) BY <1>1, <1>6, SameMod
  <2> QED BY <1>1, <1>4, <2>1, SameBits
<1>8. CASE op = "&"
  <2>1. w = Ops!AndBits(m, u, v) BY <1>1, <1>6, <1>8, ApplyFacts
  <2>2. Ops!Bit(w, i) = Ops!Bit(u, i) * Ops!Bit(v, i) BY <1>4, <2>1, BitwiseFacts
  <2> QED BY <1>3, <1>5, <1>7, <1>8, <2>2
<1>9. CASE op = "|"
  <2>1. w = Ops!OrBits(m, u, v) BY <1>1, <1>6, <1>9, ApplyFacts
  <2>2. Ops!Bit(w, i) = IF Ops!Bit(u, i) + Ops!Bit(v, i) = 0 THEN 0 ELSE 1 BY <1>4, <2>1, BitwiseFacts
  <2> QED BY <1>3, <1>5, <1>7, <1>9, <2>2
<1>10. CASE op = "^"
  <2>1. w = Ops!XorBits(m, u, v) BY <1>1, <1>6, <1>10, ApplyFacts
  <2>2. Ops!Bit(w, i) = IF Ops!Bit(u, i) = Ops!Bit(v, i) THEN 0 ELSE 1 BY <1>4, <2>1, BitwiseFacts
  <2> QED BY <1>3, <1>5, <1>7, <1>10, <2>2
<1> QED BY <1>8, <1>9, <1>10

(* Bitwise operations. *)
LEMMA BitwiseExact ==
  ASSUME NEW c, NEW op \in Ops!BitwiseOps, NEW ty, NEW form, NEW a, NEW b,
         IsCall(c, op, ty, form, a, b), NEW i \in 0 .. ty.bits - 1
  PROVE  Ops!Bit(Ops!Pattern(ty.bits, Ops!Evaluate(c).v), i)
           = Ops!MeaningOfBits(op, Ops!Bit(a, i), Ops!Bit(b, i))
<1> PICK x : x = Ops!Left(c) OBVIOUS
<1> PICK y : y = Ops!Right(c) OBVIOUS
<1>1. /\ ty \in CTypes /\ ty.bits \in Exponents \ {0, 1}
      /\ a \in 0 .. 2^ty.bits - 1 /\ b \in 0 .. 2^ty.bits - 1
      /\ Operands(ty, x, y) /\ x.v = Ops!Wrap(ty, a) /\ y.v = Ops!Wrap(ty, b)
  BY CallOperands
<1> PICK n \in Exponents \ {0, 1} : n = ty.bits BY <1>1
<1>2. a \in Int /\ b \in Int
  <2>1. 2^n \in Nat BY PowerType
  <2> QED BY <1>1, <2>1
<1>3. x.v \in Int /\ y.v \in Int /\ Same(n, x.v, a) /\ Same(n, y.v, b)
  BY <1>1, PatternValue DEF Operands, Fits
<1> DEFINE cop == IF op = "and" THEN "&" ELSE IF op = "or" THEN "|" ELSE "^"
<1>4. cop \in {"&", "|", "^"} OBVIOUS
<1>5. c.op = op /\ c.ty = ty /\ op \in {"and", "or", "xor"} BY DEF IsCall, Ops!BitwiseOps
<1> PICK z : z = Ops!Evaluate(c) OBVIOUS
<1>6. z = Ops!Cast(ty, BinAt(IntBits, cop, x, y)) BY <1>5, EvaluateBinary, OpsC
<1>7. i \in 0 .. n - 1 /\ i \in Exponents BY PowersOfTwo DEF Exponents
<1>8. Ops!Bit(x.v, i) = Ops!Bit(a, i) /\ Ops!Bit(y.v, i) = Ops!Bit(b, i) BY <1>2, <1>3, <1>7, SameBits
<1>9. Ops!Bit(a, i) \in {0, 1} /\ Ops!Bit(b, i) \in {0, 1} BY <1>2, <1>7, BitType
<1> PICK j \in {0, 1}, k \in {0, 1} : j = Ops!Bit(a, i) /\ k = Ops!Bit(b, i) BY <1>9
<1>10. IntBits \in Exponents \ {0} BY OpsScale
<1>11. /\ CVal(z)
       /\ cop = "&" => Ops!Bit(z.v, i) = j * k
       /\ cop = "|" => Ops!Bit(z.v, i) = IF j + k = 0 THEN 0 ELSE 1
       /\ cop = "^" => Ops!Bit(z.v, i) = IF j = k THEN 0 ELSE 1
  <2> HIDE DEF cop
  <2>1. LET r == Ops!Cast(ty, BinAt(IntBits, cop, x, y))
        IN /\ CVal(r)
           /\ cop = "&" => Ops!Bit(r.v, i) = Ops!Bit(x.v, i) * Ops!Bit(y.v, i)
           /\ cop = "|" => Ops!Bit(r.v, i) = IF Ops!Bit(x.v, i) + Ops!Bit(y.v, i) = 0 THEN 0 ELSE 1
           /\ cop = "^" => Ops!Bit(r.v, i) = IF Ops!Bit(x.v, i) = Ops!Bit(y.v, i) THEN 0 ELSE 1
    BY <1>1, <1>4, <1>10, BitwiseCast
  <2> QED BY <1>6, <1>8, <2>1
<1>12. Ops!Bit(Ops!Pattern(n, z.v), i) = Ops!Bit(z.v, i)
  <2>1. z.v \in Int BY <1>11 DEF CVal
  <2>2. Same(n, z.v, z.v) BY <2>1, SameItself
  <2> QED BY <1>7, <2>1, <2>2, PatternBits
<1>13. (IF j + k = 0 THEN 0 ELSE 1) = j + k - j * k /\ (IF j = k THEN 0 ELSE 1) = j + k - 2 * j * k
  <2>1. CASE j = 0 BY <2>1
  <2>2. CASE j = 1 BY <2>2
  <2> QED BY <2>1, <2>2
<1>14. CASE op = "and" BY <1>11, <1>12, <1>14 DEF Ops!MeaningOfBits
<1>15. CASE op = "or" BY <1>11, <1>12, <1>13, <1>15 DEF Ops!MeaningOfBits
<1>16. CASE op = "xor" BY <1>11, <1>12, <1>13, <1>16 DEF Ops!MeaningOfBits
<1> QED BY <1>5, <1>14, <1>15, <1>16

(* A cast of a value that was computed in a type at least as wide. *)
LEMMA CastVal ==
  ASSUME NEW t \in CTypes, NEW dest \in CTypes, dest.bits <= t.bits, NEW w \in Int
  PROVE  /\ CVal(Ops!Cast(dest, Ops!Val(t, w))) /\ Ops!Cast(dest, Ops!Val(t, w)).ty = dest
         /\ Same(dest.bits, Ops!Cast(dest, Ops!Val(t, w)).v, w)
<1>1. t.bits \in Exponents \ {0} /\ dest.bits \in Exponents \ {0} BY DEF CTypes
<1> PICK z : z = Ops!Val(t, w) OBVIOUS
<1>2. z.v \in Int /\ Same(t.bits, z.v, w) BY ValFacts DEF CVal
<1>3. Same(dest.bits, z.v, w) BY <1>1, <1>2, SameNarrow DEF Exponents
<1>4. Ops!Cast(dest, z) = Ops!Val(dest, z.v) BY CastFacts
<1>5. /\ CVal(Ops!Val(dest, z.v)) /\ Ops!Val(dest, z.v).ty = dest
      /\ Same(dest.bits, Ops!Val(dest, z.v).v, z.v)
  BY <1>2, ValFacts
<1>6. Ops!Val(dest, z.v).v \in Int BY <1>5 DEF CVal
<1>7. Same(dest.bits, Ops!Val(dest, z.v).v, w) BY <1>1, <1>2, <1>3, <1>5, <1>6, SameBoth
<1> QED BY <1>4, <1>5, <1>7

(* The type of a promoted operand. *)
LEMMA PromotedType ==
  ASSUME NEW int \in Exponents \ {0}, NEW x, CVal(x)
  PROVE  /\ PromoteAt(int, x).ty \in CTypes /\ PromoteAt(int, x).ty.bits >= x.ty.bits
         /\ PromoteAt(int, x).v = x.v
<1>1. x.ty.bits \in Nat /\ int \in Nat BY DEF CVal, CTypes, Exponents
<1>2. CASE x.ty.bits < int
  <2> PICK t : t = Ops!Type(int, TRUE) OBVIOUS
  <2>1. PromoteAt(int, x).ty = t /\ PromoteAt(int, x).v = x.v BY <1>2, PromoteFacts
  <2>2. t \in CTypes /\ t.bits = int BY TypeFacts
  <2>3. t.bits >= x.ty.bits
    <3> PICK m \in Nat, n \in Nat : m = x.ty.bits /\ n = int BY <1>1
    <3>1. m < n BY <1>2
    <3>2. n >= m BY <3>1
    <3> QED BY <2>2, <3>2
  <2> QED BY <2>1, <2>2, <2>3
<1>3. CASE x.ty.bits >= int
  <2>1. PromoteAt(int, x) = x BY <1>3, PromoteFacts
  <2> QED BY <1>1, <2>1 DEF CVal
<1> QED BY <1>1, <1>2, <1>3

(* Operators with one operand, and shifts. *)
LEMMA UnaryC ==
  ASSUME NEW x, CVal(x), NEW s
  PROVE  \E t \in CTypes :
           /\ t.bits >= x.ty.bits
           /\ Ops!Shl(x, s) = Ops!Val(t, x.v * 2^s) /\ Ops!Shr(x, s) = Ops!Val(t, x.v \div 2^s)
           /\ Ops!BitNot(x) = Ops!Val(t, -x.v - 1) /\ Ops!Neg(x) = Ops!Val(t, -x.v)
<1>1. IntBits \in Exponents \ {0} BY OpsScale
<1> PICK p : p = PromoteAt(IntBits, x) OBVIOUS
<1>2. p.ty \in CTypes /\ p.ty.bits >= x.ty.bits /\ p.v = x.v BY <1>1, PromotedType
<1>3. Ops!Promote(x) = p BY OpsC
<1>4. Ops!Shl(x, s) = Ops!Val(p.ty, x.v * 2^s) /\ Ops!Shr(x, s) = Ops!Val(p.ty, x.v \div 2^s)
  BY <1>2, <1>3 DEF Ops!Shl, Ops!Shr
<1>5. Ops!BitNot(x) = Ops!Val(p.ty, -x.v - 1) /\ Ops!Neg(x) = Ops!Val(p.ty, -x.v)
  BY <1>2, <1>3 DEF Ops!BitNot, Ops!Neg
<1> QED BY <1>2, <1>4, <1>5

(* A shift amount below the width is not negative in a signed type. *)
LEMMA AmountFacts ==
  ASSUME NEW ty \in CTypes, NEW b \in 0 .. ty.bits - 1
  PROVE  b \in Exponents /\ b \in 0 .. 2^ty.bits - 1 /\ Ops!Wrap(ty, b) = b
<1> PICK n \in Exponents \ {0} : n = ty.bits BY DEF CTypes
<1>1. n - 1 \in Exponents /\ 2^n = 2 * 2^(n - 1) /\ n - 1 < 2^(n - 1) BY PowerStep, PowerLess
<1> PICK H \in Nat \ {0}, M \in Nat \ {0} : H = 2^(n - 1) /\ M = 2^n BY <1>1, PowerType
<1>2. n \in Nat /\ b \in Int /\ 0 <= b /\ b <= n - 1 BY DEF Exponents
<1>3. b < H /\ b < M BY <1>1, <1>2
<1>4. b \in Exponents BY <1>2, PowersOfTwo DEF Exponents
<1>5. Fits(ty, b) BY <1>2, <1>3 DEF Fits
<1>6. Ops!Wrap(ty, b) = b BY <1>2, <1>5, WrapFacts
<1> QED BY <1>2, <1>3, <1>4, <1>6

LEMMA ShiftsExact ==
  ASSUME NEW c, NEW op \in {"shl", "lshr", "ashr"}, NEW ty, NEW form, NEW a, NEW b,
         IsCall(c, op, ty, form, a, b), b < ty.bits, op = "ashr" => ty.sgn
  PROVE  Ops!Pattern(ty.bits, Ops!Evaluate(c).v) = Ops!Meaning(op, ty.bits, a, b)
<1> PICK x : x = Ops!Left(c) OBVIOUS
<1>1. /\ ty \in CTypes /\ ty.bits \in Exponents \ {0, 1}
      /\ a \in 0 .. 2^ty.bits - 1 /\ b \in 0 .. 2^ty.bits - 1
      /\ Operands(ty, x, Ops!Right(c)) /\ x.v = Ops!Wrap(ty, a) /\ Ops!Right(c).v = Ops!Wrap(ty, b)
  BY CallOperands
<1> PICK n \in Exponents \ {0, 1} : n = ty.bits BY <1>1
<1>2. a \in Nat /\ b \in 0 .. n - 1
  <2>1. 2^n \in Nat /\ n \in Nat BY PowerType DEF Exponents
  <2> QED BY <1>1, <2>1
<1>3. b \in Exponents /\ Ops!Right(c).v = b BY <1>1, <1>2, AmountFacts
<1> PICK B \in Nat \ {0} : B = 2^b BY <1>3, PowerType
<1>4. x.v \in Int /\ Same(n, x.v, a) BY <1>1, PatternValue DEF Operands, Fits
<1>5. c.op = op /\ c.ty = ty BY DEF IsCall
<1>6. ASSUME NEW u \in CTypes, u.bits = n
      PROVE  LET z == Ops!Cast(u, x) IN CVal(z) /\ z.ty = u /\ z.v = Ops!Wrap(u, a)
  BY <1>1, <1>4, <1>6, CastPattern
<1>7. CASE op = "shl"
  <2> PICK z : z = Ops!Cast(ty, x) OBVIOUS
  <2>1. CVal(z) /\ z.ty = ty /\ z.v = Ops!Wrap(ty, a) BY <1>1, <1>6
  <2>2. PICK t \in CTypes : t.bits >= ty.bits /\ Ops!Shl(z, b) = Ops!Val(t, z.v * B) BY <2>1, UnaryC
  <2>3. z.v = x.v /\ z.v * B \in Int BY <1>1, <1>4, <2>1
  <2>4. Ops!Evaluate(c) = Ops!Cast(ty, Ops!Val(t, z.v * B))
    BY <1>3, <1>5, <1>7, <2>2, EvaluateOther DEF Ops!shl
  <2>5. ty.bits <= t.bits BY <1>1, <2>2 DEF CTypes, Exponents
  <2>6. Ops!Evaluate(c).v \in Int /\ Same(n, Ops!Evaluate(c).v, z.v * B)
    BY <1>1, <2>3, <2>4, <2>5, CastVal DEF CVal
  <2>7. Same(n, B, B) BY SameItself
  <2>8. Same(n, z.v * B, a * B) /\ a * B \in Int
    <3>1. n \in Exponents /\ z.v \in Int /\ a \in Int /\ B \in Int /\ Same(n, z.v, a)
      BY <1>2, <1>4, <2>3
    <3>2. Same(n, z.v * B, a * B) BY <2>7, <3>1, SameArith
    <3>3. a * B \in Int BY <3>1
    <3> QED BY <3>2, <3>3
  <2>9. Ops!Pattern(n, Ops!Evaluate(c).v) = Ops!Pattern(n, z.v * B) BY <2>3, <2>6, PatternSame
  <2>10. Ops!Pattern(n, z.v * B) = Ops!Pattern(n, a * B) BY <2>3, <2>8, PatternSame
  <2> QED BY <1>7, <2>9, <2>10, MeaningCases
<1>8. CASE op = "lshr"
  <2> DEFINE u == IF ty.sgn THEN Ops!Unsigned(ty) ELSE ty
  <2>1. u \in CTypes /\ u.bits = n /\ ~u.sgn
    <3>1. Ops!Type(n, FALSE) \in CTypes /\ Ops!Type(n, FALSE).bits = n /\ ~Ops!Type(n, FALSE).sgn
      BY TypeFacts
    <3>2. CASE ty.sgn BY <3>1, <3>2 DEF Ops!Unsigned
    <3>3. CASE ~ty.sgn BY <1>1, <3>3
    <3> QED BY <3>2, <3>3
  <2>2. Ops!Evaluate(c) = Ops!Cast(ty, Ops!Shr(Ops!Cast(u, x), b))
    BY <1>3, <1>5, <1>8, EvaluateOther DEF Ops!lshr
  <2> HIDE DEF u
  <2> PICK z : z = Ops!Cast(u, x) OBVIOUS
  <2>3. CVal(z) /\ z.ty = u /\ z.v = a BY <1>1, <1>6, <2>1, PatternValue
  <2>4. PICK t \in CTypes : t.bits >= n /\ Ops!Shr(z, b) = Ops!Val(t, a \div B) BY <2>1, <2>3, UnaryC
  <2>5. a \div B \in Int BY <1>2, ModFacts
  <2>6. ty.bits <= t.bits BY <1>1, <2>4 DEF CTypes, Exponents
  <2>7. Ops!Evaluate(c).v \in Int /\ Same(n, Ops!Evaluate(c).v, a \div B)
    BY <1>1, <2>2, <2>4, <2>5, <2>6, CastVal DEF CVal
  <2>8. Ops!Pattern(n, Ops!Evaluate(c).v) = Ops!Pattern(n, a \div B) BY <2>5, <2>7, PatternSame
  <2> QED BY <1>8, <2>8, MeaningCases
<1>9. CASE op = "ashr"
  <2> PICK z : z = Ops!Cast(ty, x) OBVIOUS
  <2> PICK v : v = Ops!SignedOf(n, a) OBVIOUS
  <2>1. CVal(z) /\ z.ty = ty /\ z.v = v BY <1>1, <1>6, <1>9, PatternValue
  <2>2. v \in Int BY <1>1, SignedFacts
  <2>3. PICK t \in CTypes : t.bits >= n /\ Ops!Shr(z, b) = Ops!Val(t, v \div B) BY <2>1, UnaryC
  <2>4. v \div B \in Int BY <2>2, ModFacts
  <2>5. Ops!Evaluate(c) = Ops!Cast(ty, Ops!Val(t, v \div B))
    BY <1>3, <1>5, <1>9, <2>3, EvaluateOther DEF Ops!ashr
  <2>6. ty.bits <= t.bits BY <1>1, <2>3 DEF CTypes, Exponents
  <2>7. Ops!Evaluate(c).v \in Int /\ Same(n, Ops!Evaluate(c).v, v \div B)
    BY <1>1, <2>4, <2>5, <2>6, CastVal DEF CVal
  <2>8. Ops!Pattern(n, Ops!Evaluate(c).v) = Ops!Pattern(n, v \div B) BY <2>4, <2>7, PatternSame
  <2> QED BY <1>9, <2>8, MeaningCases
<1> QED BY <1>7, <1>8, <1>9

(* Calls of one operand, _Bool aside. *)
LEMMA NegationsExact ==
  ASSUME NEW c, NEW ty \in Ops!Types, NEW a \in Ops!Patterns(ty),
         c.ty = ty, c.a = a, c.form = "vv"
  PROVE  /\ c.op = "not" => Ops!Pattern(ty.bits, Ops!Evaluate(c).v) = 2^ty.bits - 1 - a
         /\ c.op = "neg" => Ops!Pattern(ty.bits, Ops!Evaluate(c).v) = Ops!Pattern(ty.bits, -a)
<1>1. ty \in CTypes BY OpsTypes
<1> PICK n \in Exponents \ {0, 1} : n = ty.bits BY OpsTypes
<1> PICK M \in Nat \ {0} : M = 2^n BY PowerType
<1>2. a \in 0 .. M - 1 /\ a \in Int /\ a \in 0 .. 2^ty.bits - 1 BY DEF Ops!Patterns
<1> PICK x : x = Ops!Val(ty, a) OBVIOUS
<1>3. CVal(x) /\ x.ty = ty /\ x.v \in Int /\ Same(n, x.v, a) BY <1>1, <1>2, ValFacts DEF CVal
<1>4. Ops!Left(c) = x BY DEF Ops!Left
<1>5. PICK t \in CTypes : /\ t.bits >= n
                          /\ Ops!BitNot(x) = Ops!Val(t, -x.v - 1) /\ Ops!Neg(x) = Ops!Val(t, -x.v)
  BY <1>3, UnaryC
<1>6. ty.bits <= t.bits BY <1>1, <1>5 DEF CTypes, Exponents
<1> PICK z \in Int, o \in Int : z = 0 /\ o = 1 OBVIOUS
<1>7. Same(n, z, z) /\ Same(n, o, o) BY SameItself
<1>8. Same(n, z - x.v, z - a) BY <1>2, <1>3, <1>7, SameArith
<1> PICK u \in Int, w \in Int : u = z - x.v /\ w = z - a BY <1>2, <1>3
<1>9. Same(n, u - o, w - o) BY <1>7, <1>8, SameArith
<1>10. ASSUME c.op = "not" PROVE Ops!Pattern(ty.bits, Ops!Evaluate(c).v) = 2^ty.bits - 1 - a
  <2>1. u - o \in Int /\ w - o \in Int /\ u - o = -x.v - 1 BY <1>3
  <2>2. Ops!Evaluate(c) = Ops!Cast(ty, Ops!Val(t, u - o))
    BY <1>1, <1>4, <1>5, <1>10, <2>1, EvaluateOther, NotBool DEF Ops!not
  <2>3. Ops!Evaluate(c).v \in Int /\ Same(n, Ops!Evaluate(c).v, u - o)
    BY <1>1, <1>6, <2>1, <2>2, CastVal DEF CVal
  <2>4. Ops!Pattern(n, Ops!Evaluate(c).v) = Ops!Pattern(n, u - o) BY <2>1, <2>3, PatternSame
  <2>5. Ops!Pattern(n, u - o) = Ops!Pattern(n, w - o) BY <1>9, <2>1, PatternSame
  <2>6. PICK k \in Int : k = -1 OBVIOUS
  <2>7. w - o = k * M + (M - 1 - a) /\ M - 1 - a \in 0 .. M - 1 BY <1>2, <2>6
  <2>8. (w - o) % M = M - 1 - a BY <2>1, <2>7, ModUnique
  <2> QED BY <2>4, <2>5, <2>8 DEF Ops!Pattern
<1>11. ASSUME c.op = "neg" PROVE Ops!Pattern(ty.bits, Ops!Evaluate(c).v) = Ops!Pattern(ty.bits, -a)
  <2>1. u = -x.v /\ w = -a BY <1>2, <1>3
  <2>2. Ops!Evaluate(c) = Ops!Cast(ty, Ops!Val(t, u))
    BY <1>4, <1>5, <1>11, <2>1, EvaluateOther DEF Ops!neg
  <2>3. Ops!Evaluate(c).v \in Int /\ Same(n, Ops!Evaluate(c).v, u)
    BY <1>1, <1>6, <2>2, CastVal DEF CVal
  <2>4. Ops!Pattern(n, Ops!Evaluate(c).v) = Ops!Pattern(n, u) BY <2>3, PatternSame
  <2>5. Ops!Pattern(n, u) = Ops!Pattern(n, w) BY <1>8, PatternSame
  <2> QED BY <2>1, <2>4, <2>5
<1> QED BY <1>10, <1>11

(* The negation of a _Bool is one of its value, not of its bits. *)
LEMMA BoolNotExact ==
  ASSUME NEW c, NEW a \in Ops!Patterns(Ops!Bool),
         c.op = "not", c.ty = Ops!Bool, c.a = a, c.form = "vv"
  PROVE  Ops!Pattern(1, Ops!Evaluate(c).v) = 2^1 - 1 - a
<1>1. 2^1 = 2
  <2>1. 1 \in Exponents /\ 1 # 0 /\ 1 - 1 = 0
    BY ScalesAreFaithful, PowersOfTwo DEF Ops!ScaleOK, Exponents
  <2>2. 2^1 = 2 * 2^0 BY <2>1, PowerStep
  <2> QED BY <2>2, PowersOfTwo
<1>2. a \in {0, 1} BY <1>1 DEF Ops!Patterns, Ops!Bool
<1>3. \A p \in {0, 1} : Ops!Pattern(1, p) = p
  <2>1. 0 % 2 = 0 /\ 1 % 2 = 1 OBVIOUS
  <2> QED BY <1>1, <2>1 DEF Ops!Pattern
<1>4. \A p \in {0, 1} : Ops!Val(Ops!Bool, p).v = p
  <2>1. Ops!Bool.bits = 1 /\ ~Ops!Bool.sgn BY DEF Ops!Bool
  <2>2. \A p \in {0, 1} : Ops!Wrap(Ops!Bool, p) = p BY <1>3, <2>1 DEF Ops!Wrap
  <2> QED BY <2>2 DEF Ops!Val
<1> PICK t : t = Ops!Type(IntBits, TRUE) OBVIOUS
<1>5. t \in CTypes /\ t.bits = IntBits /\ t.sgn BY OpsScale, TypeFacts
<1>6. \A p \in {0, 1} : Ops!Val(t, p).v = p
  <2>1. IntBits \in Nat /\ 1 <= IntBits - 1 /\ IntBits - 1 \in Exponents
    BY ScalesAreFaithful, PowersOfTwo DEF Ops!ScaleOK, Exponents
  <2>2. 2^1 <= 2^(IntBits - 1) BY <2>1, PowerMono
  <2> PICK H \in Nat : H = 2^(IntBits - 1) BY <2>1, PowerType
  <2>3. ASSUME NEW p \in {0, 1} PROVE Ops!Val(t, p).v = p
    <3>1. p \in Int /\ -H <= p /\ p < H BY <1>1, <2>2
    <3>2. t.bits - 1 = IntBits - 1 BY <1>5
    <3>3. Fits(t, p) BY <1>5, <3>1, <3>2 DEF Fits
    <3> QED BY <1>5, <3>1, <3>3, ValFacts
  <2> QED BY <2>3
<1> PICK q \in {0, 1} : q = 1 - a BY <1>2
<1>7. Ops!Left(c).v = a BY <1>2, <1>4 DEF Ops!Left
<1>8. Ops!LogNot(Ops!Left(c)).v = q
  <2>1. (IF a = 0 THEN 1 ELSE 0) = q BY <1>2
  <2>2. Ops!LogNot(Ops!Left(c)) = Ops!Val(t, q) BY <1>7, <2>1 DEF Ops!LogNot
  <2> QED BY <1>6, <2>2
<1>9. Ops!Evaluate(c) = Ops!Cast(Ops!Bool, Ops!LogNot(Ops!Left(c))) BY EvaluateOther DEF Ops!not
<1>10. Ops!Evaluate(c).v = q
  <2>1. (IF q = 0 THEN 0 ELSE 1) = q OBVIOUS
  <2>2. Ops!Evaluate(c) = Ops!Val(Ops!Bool, q) BY <1>8, <1>9, <2>1 DEF Ops!Cast
  <2> QED BY <1>4, <2>2
<1> QED BY <1>1, <1>2, <1>3, <1>10

(* Comparisons *)
LEMMA SignedOnce ==
  ASSUME NEW n \in Exponents \ {0}, NEW p \in 0 .. 2^n - 1, NEW q \in 0 .. 2^n - 1,
         Ops!SignedOf(n, p) = Ops!SignedOf(n, q)
  PROVE  p = q
<1>1. n - 1 \in Exponents /\ 2^n = 2 * 2^(n - 1) BY PowerStep
<1> PICK H \in Nat \ {0}, M \in Nat \ {0} : H = 2^(n - 1) /\ M = 2^n BY <1>1, PowerType
<1>2. p \in Int /\ 0 <= p /\ p < M /\ q \in Int /\ 0 <= q /\ q < M OBVIOUS
<1>3. Ops!SignedOf(n, p) = IF p < H THEN p ELSE p - M BY DEF Ops!SignedOf
<1>4. Ops!SignedOf(n, q) = IF q < H THEN q ELSE q - M BY DEF Ops!SignedOf
<1>5. (IF p < H THEN p ELSE p - M) = (IF q < H THEN q ELSE q - M) BY <1>3, <1>4
<1>6. M = 2 * H BY <1>1
<1> QED BY <1>2, <1>5, <1>6

CPred(pred) ==
  CASE pred = "eq" -> "==" [] pred = "ne" -> "!="
    [] pred \in {"ult", "slt"} -> "<" [] pred \in {"ule", "sle"} -> "<="
    [] pred \in {"ugt", "sgt"} -> ">" [] pred \in {"uge", "sge"} -> ">="

LEMMA HoldsFacts ==
  ASSUME NEW u, NEW v
  PROVE  /\ Ops!Holds("==", u, v) = (u = v) /\ Ops!Holds("!=", u, v) = (u # v)
         /\ Ops!Holds("<", u, v) = (u < v) /\ Ops!Holds("<=", u, v) = (u <= v)
         /\ Ops!Holds(">", u, v) = (u > v) /\ Ops!Holds(">=", u, v) = (u >= v)
  BY DEF Ops!Holds

LEMMA ComparesExact ==
  ASSUME NEW c, NEW op \in Ops!Preds, NEW ty, NEW form, NEW a, NEW b,
         IsCall(c, op, ty, form, a, b)
  PROVE  Ops!Evaluate(c) = Ops!Relation(op, ty.bits, a, b)
<1> PICK x : x = Ops!Left(c) OBVIOUS
<1> PICK y : y = Ops!Right(c) OBVIOUS
<1>1. /\ ty \in CTypes /\ ty.bits \in Exponents \ {0, 1}
      /\ a \in 0 .. 2^ty.bits - 1 /\ b \in 0 .. 2^ty.bits - 1
      /\ Operands(ty, x, y) /\ x.v = Ops!Wrap(ty, a) /\ y.v = Ops!Wrap(ty, b)
  BY CallOperands
<1> PICK n \in Exponents \ {0, 1} : n = ty.bits BY <1>1
<1>2. PICK s \in BOOLEAN : s = (op \notin {"ult", "ule", "ugt", "uge"}) OBVIOUS
<1> PICK t : t = Ops!Type(n, s) OBVIOUS
<1>3. t \in CTypes /\ t.bits = n /\ t.sgn = s BY TypeFacts
<1> PICK u, v : u = Ops!Cast(t, x) /\ v = Ops!Cast(t, y) OBVIOUS
<1>4. Operands(t, u, v) /\ u.v = Ops!Wrap(t, a) /\ v.v = Ops!Wrap(t, b) BY <1>1, <1>3, CastOperands
<1>5. IntBits \in Exponents \ {0} BY OpsScale
<1>6. c.op = op /\ c.ty = ty BY DEF IsCall
<1>7. Ops!Evaluate(c) = Ops!Compare(CPred(op), u, v)
  BY <1>2, <1>6, EvaluateOther DEF Ops!icmp, CPred
<1>8. Ops!Compare(CPred(op), u, v) = Ops!Holds(CPred(op), u.v, v.v) BY <1>3, <1>4, <1>5, BinExact, OpsC
<1>9. CASE op \in {"ult", "ule", "ugt", "uge"}
  <2>1. u.v = a /\ v.v = b BY <1>1, <1>2, <1>3, <1>4, <1>9, PatternValue
  <2> QED BY <1>7, <1>8, <1>9, <2>1 DEF CPred, Ops!Holds, Ops!Relation
<1>10. CASE op \notin {"ult", "ule", "ugt", "uge"}
  <2> PICK sa, sb : sa = Ops!SignedOf(n, a) /\ sb = Ops!SignedOf(n, b) OBVIOUS
  <2>0. t.sgn BY <1>2, <1>3, <1>10
  <2>1. u.v = sa /\ v.v = sb
    <3>1. a \in 0 .. 2^t.bits - 1 /\ b \in 0 .. 2^t.bits - 1 BY <1>1, <1>3
    <3>2. Ops!Wrap(t, a) = Ops!SignedOf(t.bits, a) BY <1>3, <2>0, <3>1, PatternValue
    <3>3. Ops!Wrap(t, b) = Ops!SignedOf(t.bits, b) BY <1>3, <2>0, <3>1, PatternValue
    <3> QED BY <1>3, <1>4, <3>2, <3>3
  <2>2. (sa = sb) <=> (a = b) BY <1>1, SignedOnce
  <2>3. CASE op \in {"eq", "ne"}
    BY <1>7, <1>8, <2>1, <2>2, <2>3 DEF CPred, Ops!Holds, Ops!Relation
  <2>4. CASE op \in {"slt", "sle", "sgt", "sge"}
    BY <1>7, <1>8, <2>1, <2>4 DEF CPred, Ops!Holds, Ops!Relation
  <2> QED BY <1>10, <2>3, <2>4 DEF Ops!Preds
<1> QED BY <1>9, <1>10

(* The constant of a case is converted to the type of the value that the   *)
(* switch is on, an unsigned one or int, and keeps its number.             *)
LEMMA SwitchExact ==
  ASSUME NEW c, NEW ty, NEW a, NEW b, IsCall(c, "switch", ty, "vv", a, b)
  PROVE  Ops!Evaluate(c) = Ops!Relation("switch", ty.bits, a, b)
<1> PICK x : x = Ops!Left(c) OBVIOUS
<1>1. /\ ty \in CTypes /\ ty.bits \in Exponents \ {0, 1}
      /\ a \in 0 .. 2^ty.bits - 1 /\ b \in 0 .. 2^ty.bits - 1
      /\ CVal(x) /\ x.v = Ops!Wrap(ty, a)
  BY CallOperands DEF Operands
<1> PICK n \in Exponents \ {0, 1} : n = ty.bits BY <1>1
<1>2. a \in Int /\ b \in Int
  <2>1. 2^n \in Nat BY PowerType
  <2> QED BY <1>1, <2>1
<1>3. c.op = "switch" /\ c.ty = ty /\ c.b = b /\ c.a = a /\ c.form = "vv" BY DEF IsCall
<1> PICK s \in BOOLEAN : ~s OBVIOUS
<1> PICK u : u = Ops!Type(n, s) OBVIOUS
<1>4. u \in CTypes /\ u.bits = n /\ ~u.sgn BY TypeFacts
<1>16. CVal(Ops!Cast(u, x)) /\ Ops!Cast(u, x).ty = u /\ Ops!Cast(u, x).v = a
  <2>1. Same(ty.bits, Ops!Wrap(ty, a), a) BY <1>1, PatternValue
  <2>2. x.v \in Int /\ Same(n, x.v, a) BY <1>1, <2>1 DEF CVal
  <2>3. a \in 0 .. 2^u.bits - 1 BY <1>1, <1>4
  <2>4. CVal(Ops!Cast(u, x)) /\ Ops!Cast(u, x).ty = u /\ Ops!Cast(u, x).v = Ops!Wrap(u, a)
    BY <1>4, <2>2, <2>3, CastPattern
  <2>5. Ops!Wrap(u, a) = a BY <1>4, <2>3, PatternValue
  <2> QED BY <2>4, <2>5
<1> PICK z : z = (IF ty.sgn THEN Ops!Cast(Ops!Unsigned(ty), x) ELSE x) OBVIOUS
<1>5. CVal(z) /\ z.ty = u /\ z.v = a
  <2>1. CASE ty.sgn
    <3>1. z = Ops!Cast(u, x) BY <2>1 DEF Ops!Unsigned
    <3> QED BY <3>1, <1>16
  <2>2. CASE ~ty.sgn
    <3>1. ty = u BY <1>1, <2>2 DEF CTypes, Ops!Type
    <3>2. z = x /\ x = Ops!Val(ty, a) BY <1>3, <2>2 DEF Ops!Left
    <3>3. x.ty = ty BY <1>1, <1>2, <3>2, ValFacts
    <3>4. x.v = a BY <1>1, <2>2, PatternValue
    <3> QED BY <1>1, <3>1, <3>2, <3>3, <3>4
  <2> QED BY <2>1, <2>2
<1> PICK v : v = Ops!Promote(z) OBVIOUS
<1>0. IntBits \in Exponents \ {0} BY OpsScale
<1>6. CVal(v) /\ v.v = a /\ v.ty \in CTypes /\ v \in [ty : CTypes, v : Int]
  <2>1. v = PromoteAt(IntBits, z) BY OpsC
  <2>2. CVal(PromoteAt(IntBits, z)) /\ PromoteAt(IntBits, z).v = z.v BY <1>0, <1>5, PromoteFacts
  <2> QED BY <1>5, <2>1, <2>2 DEF CVal
<1>7. Fits(v.ty, b)
  <2>1. v.ty.bits > n \/ v.ty = u
    <3>1. v = PromoteAt(IntBits, z) BY OpsC
    <3>2. n \in Nat /\ IntBits \in Nat BY OpsScale DEF Exponents
    <3>3. CASE n < IntBits
      <4>1. v.ty = Ops!Type(IntBits, TRUE) 
        <5>1. z.ty.bits < IntBits BY <1>4, <1>5, <3>3
        <5> QED BY <1>0, <1>5, <3>1, <5>1, PromoteFacts
      <4>2. v.ty.bits = IntBits BY <4>1, OpsScale, TypeFacts
      <4> QED BY <3>2, <3>3, <4>2
    <3>4. CASE n >= IntBits
      <4>1. v = z 
        <5>1. z.ty.bits >= IntBits BY <1>4, <1>5, <3>4
        <5> QED BY <1>0, <1>5, <3>1, <5>1, PromoteFacts
      <4> QED BY <1>5, <4>1
    <3>5. n < IntBits \/ n >= IntBits BY <3>2
    <3> QED BY <3>3, <3>4, <3>5
  <2>2. Fits(u, b)
    <3> PICK M \in Nat \ {0} : M = 2^n BY PowerType
    <3>1. 0 <= b /\ b < M BY <1>1, <1>2
    <3> QED BY <1>2, <1>4, <3>1 DEF Fits
  <2>3. CASE v.ty.bits > n
    <3>1. u.bits < v.ty.bits BY <1>4, <1>6, <2>3 DEF CTypes, Exponents
    <3> QED BY <1>4, <1>6, <2>2, <3>1, FitsWider
  <2> QED BY <2>1, <2>2, <2>3
<1> PICK m : m = Ops!Type(MaxBits, FALSE) OBVIOUS
<1>8. m \in CTypes /\ m.bits = MaxBits /\ ~m.sgn BY OpsScale, TypeFacts
<1>9. b \in 0 .. 2^m.bits - 1
  <2>1. n <= MaxBits /\ n \in Nat /\ MaxBits \in Exponents BY OpsScale, OpsTypes DEF IsCall, Exponents
  <2>2. 2^n <= 2^MaxBits BY <2>1, PowerMono
  <2> PICK M \in Nat, L \in Nat : M = 2^n /\ L = 2^MaxBits BY <2>1, PowerType
  <2>3. b <= M - 1 /\ 0 <= b /\ M <= L BY <1>1, <1>2, <2>2
  <2>4. b \in 0 .. L - 1 BY <1>2, <2>3
  <2> QED BY <1>8, <2>4
<1> PICK l : l = Ops!Literal(m, b) OBVIOUS
<1>10. l.v = b
  <2>1. m.bits <= MaxBits
    <3> PICK k \in Nat : k = MaxBits BY OpsScale DEF Exponents
    <3>1. k <= k OBVIOUS
    <3> QED BY <1>8, <3>1
  <2>2. l.v = Ops!Wrap(m, b) BY <1>8, <1>9, <2>1, LiteralFacts
  <2> QED BY <1>8, <1>9, <2>2, PatternValue
<1>11. Ops!Cast(v.ty, l) = Ops!Val(v.ty, b) BY <1>6, <1>10, CastFacts
<1> PICK w : w = Ops!Val(v.ty, b) OBVIOUS
<1>12. w.ty = v.ty /\ w.v = b /\ w \in [ty : CTypes, v : Int] BY <1>2, <1>6, <1>7, ValFacts DEF CVal
<1>13. (w = v) <=> (b = a) BY <1>6, <1>12
<1>14. Ops!Evaluate(c) = (w = v)
  BY <1>3, <1>11, EvaluateOther DEF Ops!switch
<1>15. Ops!Relation("switch", ty.bits, a, b) = (a = b) BY DEF Ops!Relation
<1> QED BY <1>13, <1>14, <1>15

(* A call that converts to dest. *)
IsConversion(c, op, ty, dest, form, a) ==
  /\ c = [op |-> op, ty |-> ty, form |-> form, a |-> a, dest |-> dest]
  /\ ty \in Ops!Types /\ dest \in Ops!Types /\ form \in {"vv", "cv"} /\ a \in Ops!Patterns(ty)
  /\ op = "trunc" => dest.bits < ty.bits
  /\ op = "zext" => dest.bits > ty.bits

LEMMA ConversionOperand ==
  ASSUME NEW c, NEW op, NEW ty, NEW dest, NEW form, NEW a, IsConversion(c, op, ty, dest, form, a)
  PROVE  /\ ty \in CTypes /\ dest \in CTypes /\ a \in 0 .. 2^ty.bits - 1 /\ a \in Int
         /\ CVal(Ops!Left(c)) /\ Ops!Left(c).v = Ops!Wrap(ty, a)
         /\ Ops!Left(c).ty.sgn = ty.sgn
<1>1. ty \in CTypes /\ ty.bits \in Exponents /\ ty.bits <= MaxBits /\ dest \in CTypes
  BY OpsTypes, OpsScale DEF IsConversion
<1>2. a \in 0 .. 2^ty.bits - 1 BY DEF IsConversion, Ops!Patterns
<1>3. a \in Int
  <2>1. 2^ty.bits \in Nat BY <1>1, PowerType
  <2> QED BY <1>2, <2>1
<1>4. c.ty = ty /\ c.form = form /\ c.a = a BY DEF IsConversion
<1>5. CVal(Ops!Val(ty, a)) /\ Ops!Val(ty, a).ty = ty /\ Ops!Val(ty, a).v = Ops!Wrap(ty, a)
  BY <1>1, <1>3, ValFacts
<1>6. /\ CVal(Ops!Literal(ty, a)) /\ Ops!Literal(ty, a).v = Ops!Wrap(ty, a)
      /\ Ops!Literal(ty, a).ty.sgn = ty.sgn
  BY <1>1, <1>2, LiteralFacts
<1>7. Ops!Left(c) = IF form = "cv" THEN Ops!Literal(ty, a) ELSE Ops!Val(ty, a) BY <1>4 DEF Ops!Left
<1> QED BY <1>1, <1>2, <1>3, <1>5, <1>6, <1>7

LEMMA ConvertsExact ==
  ASSUME NEW c, NEW op \in Ops!Conversions, NEW ty, NEW dest, NEW form, NEW a,
         IsConversion(c, op, ty, dest, form, a)
  PROVE  Ops!Pattern(dest.bits, Ops!Evaluate(c).v) =
           Ops!Pattern(dest.bits, IF op = "intcast_s" THEN Ops!SignedOf(ty.bits, a) ELSE a)
<1> PICK x : x = Ops!Left(c) OBVIOUS
<1>1. /\ ty \in CTypes /\ dest \in CTypes /\ a \in 0 .. 2^ty.bits - 1 /\ a \in Int
      /\ CVal(x) /\ x.v = Ops!Wrap(ty, a)
  BY ConversionOperand
<1>2. c.op = op /\ c.ty = ty /\ c.dest = dest BY DEF IsConversion
<1> PICK n \in Exponents \ {0}, d \in Exponents \ {0} : n = ty.bits /\ d = dest.bits BY <1>1 DEF CTypes
<1>3. x.v \in Int /\ Same(n, x.v, a) BY <1>1, PatternValue DEF CVal
<1>4. ASSUME NEW z, z.v \in Int, Ops!Evaluate(c) = Ops!Cast(dest, z)
      PROVE  Ops!Pattern(d, Ops!Evaluate(c).v) = Ops!Pattern(d, z.v)
  <2>1. Ops!Evaluate(c) = Ops!Val(dest, z.v) BY <1>1, <1>4, CastFacts
  <2>2. Ops!Evaluate(c).v \in Int /\ Same(d, Ops!Evaluate(c).v, z.v) BY <1>1, <1>4, <2>1, ValFacts DEF CVal
  <2> QED BY <1>4, <2>2, PatternSame
<1>5. ASSUME NEW s \in BOOLEAN
      PROVE  LET z == IF ty.sgn = s THEN x ELSE Ops!Cast(Ops!Type(n, s), x)
             IN z.v = IF s THEN Ops!SignedOf(n, a) ELSE a
  <2> PICK t : t = Ops!Type(n, s) OBVIOUS
  <2>1. t \in CTypes /\ t.bits = n /\ t.sgn = s BY TypeFacts
  <2>2. a \in 0 .. 2^t.bits - 1 BY <1>1, <2>1
  <2>3. Ops!Wrap(t, a) = IF s THEN Ops!SignedOf(n, a) ELSE a BY <2>1, <2>2, PatternValue
  <2>4. CASE ty.sgn = s
    <3>1. ty = t BY <1>1, <2>1, <2>4 DEF CTypes, Ops!Type
    <3> QED BY <1>1, <2>3, <2>4, <3>1
  <2>5. CASE ty.sgn # s
    <3>1. Ops!Cast(t, x).v = Ops!Wrap(t, a) BY <1>3, <2>1, <2>2, CastPattern
    <3> QED BY <2>3, <2>5, <3>1
  <2> QED BY <2>4, <2>5
<1>6. ty.sgn \in BOOLEAN BY <1>1 DEF CTypes
<1>7. CASE op = "trunc"
  <2>1. Ops!Evaluate(c) = Ops!Cast(dest, x) BY <1>2, <1>7, EvaluateOther DEF Ops!trunc
  <2>2. d <= n /\ d \in Nat BY <1>7 DEF IsConversion, Exponents
  <2>3. Same(d, x.v, a) BY <1>1, <1>3, <2>2, SameNarrow
  <2>4. Ops!Pattern(d, x.v) = Ops!Pattern(d, a) BY <1>1, <1>3, <2>3, PatternSame
  <2> QED BY <1>3, <1>4, <1>7, <2>1, <2>4
<1>8. CASE op \in {"zext", "intcast_u"}
  <2> PICK z : z = (IF ty.sgn = FALSE THEN x ELSE Ops!Cast(Ops!Type(n, FALSE), x)) OBVIOUS
  <2>1. z.v = a BY <1>5
  <2>2. Ops!Evaluate(c) = Ops!zext(ty, dest, x)
    BY <1>2, <1>8, EvaluateOther DEF Ops!intcast
  <2>3. Ops!Evaluate(c) = Ops!Cast(dest, z)
    BY <1>6, <2>2 DEF Ops!zext, Ops!Unsigned
  <2> QED BY <1>1, <1>4, <1>8, <2>1, <2>3
<1>9. CASE op = "intcast_s"
  <2> PICK z : z = (IF ty.sgn = TRUE THEN x ELSE Ops!Cast(Ops!Type(n, TRUE), x)) OBVIOUS
  <2>1. z.v = Ops!SignedOf(n, a) BY <1>5
  <2>2. Ops!Evaluate(c) = Ops!Cast(dest, z)
    BY <1>2, <1>6, <1>9, EvaluateOther DEF Ops!intcast, Ops!Signed
  <2>3. z.v \in Int BY <1>1, <2>1, SignedFacts
  <2> QED BY <1>4, <1>9, <2>1, <2>2, <2>3
<1> QED BY <1>7, <1>8, <1>9 DEF Ops!Conversions

-----------------------------------------------------------------------------
(* Every call of the builder's operations                                  *)

LEMMA BinaryExact ==
  ASSUME Ops!BinaryCall, out = Ops!Evaluate(call)
  PROVE  Ops!ArithmeticExact /\ Ops!ComparisonsExact /\ Ops!ConversionsExact
<1>0. PICK op \in Ops!BinaryOps \cup Ops!Preds \cup {"switch"}, ty \in Ops!Types, form \in Ops!Forms :
        \E a, b \in Ops!Patterns(ty) :
          /\ op = "switch" => form = "vv"
          /\ Ops!Allowed(op, ty, a, b)
          /\ call = [op |-> op, ty |-> ty, form |-> form, a |-> a, b |-> b]
  BY DEF Ops!BinaryCall
<1>1. PICK a \in Ops!Patterns(ty), b \in Ops!Patterns(ty) :
        /\ op = "switch" => form = "vv"
        /\ Ops!Allowed(op, ty, a, b)
        /\ call = [op |-> op, ty |-> ty, form |-> form, a |-> a, b |-> b]
  BY <1>0
<1> PICK c : c = call OBVIOUS
<1>2. IsCall(c, op, ty, form, a, b) BY <1>1 DEF IsCall
<1>3. call.op = op /\ call.ty = ty /\ call.a = a /\ call.b = b BY <1>1
<1>4. out = Ops!Evaluate(c) OBVIOUS
<1>5. Ops!ConversionsExact
  BY <1>3 DEF Ops!ConversionsExact, Ops!BinaryOps, Ops!SignedOps, Ops!Preds, Ops!Conversions
<1>6. Ops!ComparisonsExact
  <2> SUFFICES ASSUME op \in Ops!Preds \cup {"switch"}
               PROVE  Ops!Evaluate(c) = Ops!Relation(op, ty.bits, a, b)
    BY <1>3, <1>4 DEF Ops!ComparisonsExact
  <2>1. CASE op \in Ops!Preds BY <1>2, <2>1, ComparesExact
  <2>2. CASE op = "switch" BY <1>1, <1>2, <2>2, SwitchExact
  <2> QED BY <2>1, <2>2
<1>7. Ops!ArithmeticExact
  <2> PICK n \in Exponents \ {0, 1} : n = ty.bits BY OpsTypes
  <2> PICK r : r = Ops!Pattern(n, Ops!Evaluate(c).v) OBVIOUS
  <2> SUFFICES ASSUME op \in Ops!BinaryOps
               PROVE  IF op \in Ops!BitwiseOps
                      THEN \A i \in 0 .. n - 1 :
                             Ops!Bit(r, i) = Ops!MeaningOfBits(op, Ops!Bit(a, i), Ops!Bit(b, i))
                      ELSE r = Ops!Meaning(op, n, a, b)
    <3>1. Ops!Result(n) = r BY <1>4 DEF Ops!Result
    <3>2. op # "not" /\ op # "neg" BY DEF Ops!BinaryOps, Ops!SignedOps, Ops!Preds
    <3> QED BY <1>3, <3>1, <3>2 DEF Ops!ArithmeticExact
  <2>1. CASE op \in {"add", "sub", "mul"} BY <1>2, <2>1, SumsExact DEF Ops!BitwiseOps
  <2>2. CASE op \in {"sdiv", "srem"}
    <3>1. /\ b # 0 /\ ty.sgn
      BY <1>1, <2>2 DEF Ops!Allowed, Ops!SignedOps
    <3> QED BY <1>2, <2>2, <3>1, SignedDivisionExact DEF Ops!BitwiseOps
  <2>3. CASE op \in {"udiv", "urem"}
    <3>1. b # 0 BY <1>1, <2>3 DEF Ops!Allowed
    <3> QED BY <1>2, <2>3, <3>1, UnsignedDivisionExact DEF Ops!BitwiseOps
  <2>4. CASE op \in {"shl", "lshr", "ashr"}
    <3>1. b < ty.bits /\ (op = "ashr" => ty.sgn) BY <1>1, <2>4 DEF Ops!Allowed, Ops!SignedOps
    <3> QED BY <1>2, <2>4, <3>1, ShiftsExact DEF Ops!BitwiseOps
  <2>5. CASE op \in {"and", "or", "xor"} BY <1>2, <2>5, BitwiseExact DEF Ops!BitwiseOps
  <2> QED BY <2>1, <2>2, <2>3, <2>4, <2>5 DEF Ops!BinaryOps, Ops!SignedOps
<1> QED BY <1>5, <1>6, <1>7

LEMMA UnaryExact ==
  ASSUME Ops!UnaryCall, out = Ops!Evaluate(call)
  PROVE  Ops!ArithmeticExact /\ Ops!ComparisonsExact /\ Ops!ConversionsExact
<1>0. PICK op \in {"not", "neg"}, ty \in Ops!Types \cup {Ops!Bool} : \E a \in Ops!Patterns(ty) :
        /\ ty = Ops!Bool => op = "not"
        /\ call = [op |-> op, ty |-> ty, form |-> "vv", a |-> a]
  BY DEF Ops!UnaryCall
<1>1. PICK a \in Ops!Patterns(ty) :
        /\ ty = Ops!Bool => op = "not"
        /\ call = [op |-> op, ty |-> ty, form |-> "vv", a |-> a]
  BY <1>0
<1> PICK c : c = call OBVIOUS
<1>2. c.op = op /\ c.ty = ty /\ c.form = "vv" /\ c.a = a BY <1>1
<1>3. Ops!ComparisonsExact /\ Ops!ConversionsExact
  BY <1>2 DEF Ops!ComparisonsExact, Ops!ConversionsExact, Ops!Preds, Ops!Conversions
<1> PICK r : r = Ops!Pattern(ty.bits, Ops!Evaluate(c).v) OBVIOUS
<1>4. /\ op = "not" => r = 2^ty.bits - 1 - a
      /\ op = "neg" => r = Ops!Pattern(ty.bits, -a)
  <2>1. CASE ty \in Ops!Types BY <1>2, <2>1, NegationsExact
  <2>2. CASE ty = Ops!Bool
    <3>1. op = "not" /\ ty.bits = 1 BY <1>1, <2>2 DEF Ops!Bool
    <3>2. Ops!Pattern(1, Ops!Evaluate(c).v) = 2^1 - 1 - a BY <1>2, <2>2, <3>1, BoolNotExact
    <3> QED BY <3>1, <3>2
  <2> QED BY <2>1, <2>2
<1>5. Ops!Result(ty.bits) = r BY DEF Ops!Result
<1>6. Ops!ArithmeticExact
  <2>1. call.op = op /\ call.ty = ty /\ call.a = a BY <1>2
  <2>2. CASE op = "not"
    <3>1. Ops!Result(call.ty.bits) = 2^call.ty.bits - 1 - call.a BY <1>4, <1>5, <2>1, <2>2
    <3>2. call.op = "not" BY <2>1, <2>2
    <3> QED BY <3>1, <3>2 DEF Ops!ArithmeticExact, Ops!BitwiseOps
  <2>3. CASE op = "neg"
    <3>1. Ops!Result(call.ty.bits) = Ops!Pattern(call.ty.bits, -call.a) BY <1>4, <1>5, <2>1, <2>3
    <3>2. call.op = "neg" BY <2>1, <2>3
    <3> QED BY <3>1, <3>2 DEF Ops!ArithmeticExact, Ops!BitwiseOps
  <2> QED BY <2>2, <2>3
<1> QED BY <1>3, <1>6

LEMMA ConversionExact ==
  ASSUME Ops!ConversionCall, out = Ops!Evaluate(call)
  PROVE  Ops!ArithmeticExact /\ Ops!ComparisonsExact /\ Ops!ConversionsExact
<1>0. PICK op \in Ops!Conversions, ty \in Ops!Types, dest \in Ops!Types, form \in {"vv", "cv"} :
        \E a \in Ops!Patterns(ty) :
          /\ op = "trunc" => dest.bits < ty.bits
          /\ op = "zext" => dest.bits > ty.bits
          /\ call = [op |-> op, ty |-> ty, form |-> form, a |-> a, dest |-> dest]
  BY DEF Ops!ConversionCall
<1>1. PICK a \in Ops!Patterns(ty) :
        /\ op = "trunc" => dest.bits < ty.bits
        /\ op = "zext" => dest.bits > ty.bits
        /\ call = [op |-> op, ty |-> ty, form |-> form, a |-> a, dest |-> dest]
  BY <1>0
<1> PICK c : c = call OBVIOUS
<1>2. IsConversion(c, op, ty, dest, form, a) BY <1>1 DEF IsConversion
<1>3. call.op = op /\ call.ty = ty /\ call.a = a /\ call.dest = dest BY <1>1
<1>4. Ops!ArithmeticExact
  BY <1>3 DEF Ops!ArithmeticExact, Ops!BinaryOps, Ops!SignedOps, Ops!Conversions
<1>5. Ops!ComparisonsExact
  BY <1>3 DEF Ops!ComparisonsExact, Ops!Preds, Ops!Conversions
<1>6. Ops!Pattern(dest.bits, Ops!Evaluate(c).v) =
        Ops!Pattern(dest.bits, IF op = "intcast_s" THEN Ops!SignedOf(ty.bits, a) ELSE a)
  BY <1>2, ConvertsExact
<1>7. Ops!ConversionsExact BY <1>3, <1>6 DEF Ops!ConversionsExact, Ops!Result
<1> QED BY <1>4, <1>5, <1>7

(* What the calls of operators never lose: they are among those the        *)
(* builder gets, and a result is that of the call's own expression.        *)
OpsInv ==
  family = "ops" =>
    /\ Ops!BinaryCall \/ Ops!UnaryCall \/ Ops!ConversionCall
    /\ out = NoResult \/ out = Ops!Evaluate(call)

(* Every integer operation that the builder emits, in every type that the  *)
(* scale has and for all operands that Rust allows, computes the pattern   *)
(* or the truth that the operation means, for all widths of C's types.     *)
THEOREM OperatorsAlwaysExact == Spec => []OperatorsExact
<1>1. Init => OpsInv BY DEF Init, OpsInv, Ops!Init
<1>2. OpsInv /\ [Next]_vars => OpsInv'
  <2> SUFFICES ASSUME OpsInv, [Next]_vars, family' = "ops" PROVE OpsInv' BY DEF OpsInv
  <2>1. CASE UNCHANGED vars
    <3>1. family' = family /\ call' = call /\ out' = out BY <2>1 DEF vars
    <3> QED BY <3>1 DEF OpsInv, Ops!BinaryCall, Ops!UnaryCall, Ops!ConversionCall
  <2>2. CASE Next
    <3>1. family = "ops" /\ Ops!Next BY <2>2 DEF Next
    <3>2. call' = call /\ out' = Ops!Evaluate(call) BY <3>1 DEF Ops!Next
    <3> QED BY <3>1, <3>2 DEF OpsInv, Ops!BinaryCall, Ops!UnaryCall, Ops!ConversionCall
  <2> QED BY <2>1, <2>2
<1>3. OpsInv => OperatorsExact
  <2> SUFFICES ASSUME OpsInv, family = "ops"
               PROVE  Ops!ArithmeticExact /\ Ops!ComparisonsExact /\ Ops!ConversionsExact
    BY DEF OperatorsExact
  <2>1. CASE out = NoResult
    BY <2>1 DEF Ops!ArithmeticExact, Ops!ComparisonsExact, Ops!ConversionsExact
  <2>2. CASE out = Ops!Evaluate(call)
    BY <2>2, BinaryExact, UnaryExact, ConversionExact DEF OpsInv
  <2> QED BY <2>1, <2>2 DEF OpsInv
<1> QED BY <1>1, <1>2, <1>3, PTL DEF Spec

-----------------------------------------------------------------------------
(* Vectors                                                                 *)

(* The lanes have the arithmetic of the operators. *)
LEMMA VectorsC ==
  /\ \A n, s : Vectors!Type(n, s) = Ops!Type(n, s)
  /\ \A ty, v : Vectors!Val(ty, v) = Ops!Val(ty, v)
  /\ \A ty, x : Vectors!Cast(ty, x) = Ops!Cast(ty, x)
  /\ \A op, x, y : Vectors!Bin(op, x, y) = BinAt(IntBits, op, x, y)
  /\ \A op, x, y : Vectors!Compare(op, x, y) = CompareAt(IntBits, op, x, y)
  /\ \A x, s : Vectors!Shl(x, s) = Ops!Shl(x, s) /\ Vectors!Shr(x, s) = Ops!Shr(x, s)
<1>1. \A n, s : Vectors!Type(n, s) = Ops!Type(n, s) BY DEF Vectors!Type, Ops!Type
<1>2. \A ty, v : Vectors!Wrap(ty, v) = Ops!Wrap(ty, v)
  BY DEF Vectors!Wrap, Ops!Wrap, Vectors!Pattern, Ops!Pattern
<1>3. \A ty, v : Vectors!Val(ty, v) = Ops!Val(ty, v) BY <1>2 DEF Vectors!Val, Ops!Val
<1>4. Vectors!Bool = Ops!Bool BY DEF Vectors!Bool, Ops!Bool
<1>5. \A ty, x : Vectors!Cast(ty, x) = Ops!Cast(ty, x) BY <1>3, <1>4 DEF Vectors!Cast, Ops!Cast
<1>6. \A x : Vectors!Promote(x) = PromoteAt(IntBits, x) BY <1>1, <1>5 DEF Vectors!Promote, PromoteAt
<1>7. \A s, t : Vectors!CommonType(s, t) = Ops!CommonType(s, t)
  BY <1>1 DEF Vectors!CommonType, Ops!CommonType
<1>8. ASSUME NEW op, NEW n, NEW a, NEW b PROVE Vectors!Apply(op, n, a, b) = Ops!Apply(op, n, a, b)
  <2>1. \A p, i : Vectors!Bit(p, i) = Ops!Bit(p, i) BY DEF Vectors!Bit, Ops!Bit
  <2>2. \A k, f : Vectors!FromBits(k, f) = Ops!FromBits(k, f) BY DEF Vectors!FromBits, Ops!FromBits
  <2>3. \A k, p, q : Vectors!AndBits(k, p, q) = Ops!AndBits(k, p, q)
    BY <2>1, <2>2 DEF Vectors!AndBits, Ops!AndBits
  <2>4. \A k, p, q : Vectors!OrBits(k, p, q) = Ops!OrBits(k, p, q)
    BY <2>1, <2>2 DEF Vectors!OrBits, Ops!OrBits
  <2>5. \A k, p, q : Vectors!XorBits(k, p, q) = Ops!XorBits(k, p, q)
    BY <2>1, <2>2 DEF Vectors!XorBits, Ops!XorBits
  <2>6. \A p, q : Vectors!Quot(p, q) = Ops!Quot(p, q) BY DEF Vectors!Quot, Ops!Quot
  <2>7. \A k, v : Vectors!Pattern(k, v) = Ops!Pattern(k, v) BY DEF Vectors!Pattern, Ops!Pattern
  <2> QED BY <2>3, <2>4, <2>5, <2>6, <2>7 DEF Vectors!Apply, Ops!Apply
<1>9. \A op, x, y : Vectors!Bin(op, x, y) = BinAt(IntBits, op, x, y)
  BY <1>3, <1>5, <1>6, <1>7, <1>8 DEF Vectors!Bin, BinAt, CommonAt
<1>10. \A op, a, b : Vectors!Holds(op, a, b) = Ops!Holds(op, a, b) BY DEF Vectors!Holds, Ops!Holds
<1>11. \A op, x, y : Vectors!Compare(op, x, y) = CompareAt(IntBits, op, x, y)
  BY <1>5, <1>6, <1>7, <1>10 DEF Vectors!Compare, CompareAt, CommonAt
<1>12. \A x : Ops!Promote(x) = PromoteAt(IntBits, x) BY OpsC
<1>13. \A x, s : Vectors!Shl(x, s) = Ops!Shl(x, s) /\ Vectors!Shr(x, s) = Ops!Shr(x, s)
  BY <1>3, <1>6, <1>12 DEF Vectors!Shl, Vectors!Shr, Ops!Shl, Ops!Shr
<1> QED BY <1>1, <1>3, <1>5, <1>9, <1>11, <1>13

LEMMA LaneTypesC ==
  ASSUME NEW ty \in Vectors!LaneTypes
  PROVE  ty \in CTypes /\ ty.bits \in Exponents \ {0}
<1>1. PICK n \in {ByteBits, IntBits, LongBits}, s \in BOOLEAN : ty = Vectors!Type(n, s)
  BY DEF Vectors!LaneTypes
<1>2. n \in Exponents \ {0} BY OpsScale DEF Ops!Widths
<1>3. ty = Ops!Type(n, s) BY <1>1, VectorsC
<1> QED BY <1>2, <1>3, TypeFacts

(* Every lane is a value of the vector's lane type. *)
LEMMA LaneFacts ==
  ASSUME NEW ty \in Vectors!LaneTypes, NEW a \in Vectors!Vectors(ty)
  PROVE  /\ a = [i \in Vectors!Indices |-> a[i]]
         /\ \A i \in Vectors!Indices : CVal(a[i]) /\ a[i].ty = ty
<1>1. PICK f \in [Vectors!Indices -> 0 .. 2^ty.bits - 1] : a = Vectors!Vector(ty, f)
  BY DEF Vectors!Vectors
<1>2. a = [i \in Vectors!Indices |-> Ops!Val(ty, f[i])] BY <1>1, VectorsC DEF Vectors!Vector
<1>3. ASSUME NEW i \in Vectors!Indices PROVE CVal(a[i]) /\ a[i].ty = ty
  <2>1. ty \in CTypes /\ 2^ty.bits \in Nat BY LaneTypesC, PowerType
  <2>2. f[i] \in Int BY <2>1
  <2>3. a[i] = Ops!Val(ty, f[i]) BY <1>2
  <2> QED BY <2>1, <2>2, <2>3, ValFacts
<1> QED BY <1>2, <1>3

LEMMA LaneBit ==
  ASSUME NEW x, CVal(x), NEW k \in 0 .. x.ty.bits - 1
  PROVE  Vectors!BitOf(x, k) = Ops!Bit(x.v, k) /\ Ops!Bit(x.v, k) \in {0, 1}
<1> PICK n \in Exponents \ {0} : n = x.ty.bits BY DEF CVal, CTypes
<1> PICK v \in Int : v = x.v BY DEF CVal
<1>1. Same(n, v, v) BY SameItself
<1>2. Ops!Bit(Ops!Pattern(n, v), k) = Ops!Bit(v, k) BY <1>1, PatternBits
<1>3. Vectors!BitOf(x, k) = Ops!Bit(Ops!Pattern(n, v), k)
  BY DEF Vectors!BitOf, Vectors!Pattern, Ops!Bit, Ops!Pattern
<1>4. k \in Exponents BY PowersOfTwo DEF Exponents
<1> QED BY <1>2, <1>3, <1>4, BitType

(* A shift to the left moves the bits up and fills with zeros. *)
LEMMA ShlBits ==
  ASSUME NEW v \in Int, NEW s \in Exponents, NEW k \in Exponents
  PROVE  Ops!Bit(v * 2^s, k) = IF k >= s THEN Ops!Bit(v, k - s) ELSE 0
<1>1. s \in Nat /\ k \in Nat BY DEF Exponents
<1> PICK S \in Nat \ {0}, K \in Nat \ {0} : S = 2^s /\ K = 2^k BY PowerType
<1>2. CASE k >= s
  <2> PICK d \in Nat : d = k - s /\ s + d = k BY <1>1, <1>2
  <2>1. d \in Exponents /\ 2^k = 2^s * 2^d BY <1>1, PowerSum
  <2> PICK D \in Nat \ {0} : D = 2^d BY <2>1, PowerType
  <2>2. PICK c \in Int, t \in 0 .. D - 1 : c = v \div D /\ v = c * D + t
    <3>1. v \div D \in Int /\ v % D \in 0 .. D - 1 /\ v = (v \div D) * D + (v % D) BY ModFacts
    <3> QED BY <3>1
  <2>3. K = S * D BY <2>1
  <2>4. v * S = c * K + t * S
    <3>1. v * S = (c * D) * S + t * S BY <2>2
    <3>2. (c * D) * S = c * (S * D) OBVIOUS
    <3> QED BY <2>3, <3>1, <3>2
  <2>5. t * S \in 0 .. K - 1
    <3>1. t \in Nat /\ D - t >= 1 BY <2>2
    <3>2. (D - t) * S >= S BY <3>1
    <3>3. (D - t) * S = D * S - t * S BY <3>1
    <3>4. t * S \in Nat /\ D * S = K BY <2>3, <3>1
    <3> QED BY <3>2, <3>3, <3>4
  <2> PICK x \in Int : x = v * S OBVIOUS
  <2> PICK w \in 0 .. K - 1 : w = t * S BY <2>5
  <2>6. x = c * K + w BY <2>4
  <2>7. x \div K = c BY <2>6, ModUnique, SMTT(30)
  <2> QED BY <1>2, <2>2, <2>7 DEF Ops!Bit
<1>3. CASE k < s
  <2> PICK d \in Nat : d = s - 1 - k /\ (k + 1) + d = s BY <1>1, <1>3
  <2>1. k + 1 \in Exponents /\ d \in Exponents /\ 2^s = 2^(k + 1) * 2^d BY <1>1, PowerSum
  <2>2. 2^(k + 1) = 2 * 2^k
    <3>1. (k + 1) - 1 = k /\ k + 1 # 0 BY <1>1
    <3> QED BY <2>1, <3>1, PowerStep
  <2> PICK D \in Nat \ {0} : D = 2^d BY <2>1, PowerType
  <2>3. S = (2 * K) * D BY <2>1, <2>2
  <2> PICK c \in Int : c = v * D OBVIOUS
  <2>4. v * S = (2 * c) * K + 0
    <3>1. v * ((2 * K) * D) = (2 * (v * D)) * K OBVIOUS
    <3> QED BY <2>3, <3>1
  <2>5. (v * S) \div K = 2 * c
    <3>1. v * S \in Int /\ 2 * c \in Int /\ 0 \in 0 .. K - 1 OBVIOUS
    <3> QED BY <2>4, <3>1, ModUnique
  <2>6. (2 * c) % 2 = 0 OBVIOUS
  <2>7. ~(k >= s) BY <1>1, <1>3
  <2> QED BY <2>5, <2>6, <2>7 DEF Ops!Bit
<1> QED BY <1>1, <1>2, <1>3

(* Two divisions are one. *)
LEMMA DivDiv ==
  ASSUME NEW v \in Int, NEW S \in Nat \ {0}, NEW K \in Nat \ {0}
  PROVE  (v \div S) \div K = v \div (S * K)
<1>1. PICK c \in Int, t \in 0 .. S - 1 : c = v \div S /\ v = c * S + t
  <2>1. v \div S \in Int /\ v % S \in 0 .. S - 1 /\ v = (v \div S) * S + (v % S) BY ModFacts
  <2> QED BY <2>1
<1>2. PICK e \in Int, u \in 0 .. K - 1 : e = c \div K /\ c = e * K + u
  <2>1. c \div K \in Int /\ c % K \in 0 .. K - 1 /\ c = (c \div K) * K + (c % K) BY ModFacts
  <2> QED BY <2>1
<1> PICK P \in Nat \ {0} : P = S * K OBVIOUS
<1>3. v = e * P + (u * S + t)
  <2>1. c * S = (e * K) * S + u * S BY <1>2
  <2>2. (e * K) * S = e * (S * K) OBVIOUS
  <2> QED BY <1>1, <2>1, <2>2
<1>4. u * S + t \in 0 .. P - 1
  <2>1. u \in Nat /\ K - u >= 1 BY <1>2
  <2>2. (K - u) * S >= S BY <2>1
  <2>3. (K - u) * S = P - u * S BY <2>1
  <2>4. u * S \in Nat /\ t \in Nat /\ t < S BY <1>1, <2>1
  <2> QED BY <2>2, <2>3, <2>4
<1>5. v \div P = e BY <1>3, <1>4, ModUnique
<1> QED BY <1>1, <1>2, <1>5

(* A shift to the right moves the bits down and fills with the sign. *)
LEMMA ShrBits ==
  ASSUME NEW ty \in CTypes, NEW v, Fits(ty, v), NEW s \in 0 .. ty.bits - 1, NEW k \in 0 .. ty.bits - 1
  PROVE  Ops!Bit(v \div 2^s, k) =
           IF k + s < ty.bits THEN Ops!Bit(v, k + s) ELSE IF ty.sgn /\ v < 0 THEN 1 ELSE 0
<1> PICK n \in Exponents \ {0} : n = ty.bits BY DEF CTypes
<1>1. /\ n \in Nat /\ s \in Nat /\ k \in Nat /\ s \in Exponents /\ k \in Exponents
      /\ s <= n - 1 /\ k <= n - 1 /\ v \in Int
  BY PowersOfTwo DEF Exponents, Fits
<1> PICK S \in Nat \ {0}, K \in Nat \ {0} : S = 2^s /\ K = 2^k BY <1>1, PowerType
<1>2. CASE k + s < n
  <2>1. s + k \in Exponents /\ k + s = s + k BY <1>1, <1>2, PowersOfTwo DEF Exponents
  <2>2. 2^(k + s) = S * K BY <1>1, <2>1, PowerSum
  <2>3. (v \div S) \div K = v \div (S * K) BY <1>1, DivDiv
  <2> QED BY <1>2, <2>2, <2>3 DEF Ops!Bit
<1>3. CASE k + s >= n
  <2> PICK d \in Nat : d = n - s /\ s + d = n /\ d <= k BY <1>1, <1>3
  <2>0. s + d \in Exponents OBVIOUS
  <2>1. d \in Exponents /\ 2^n = 2^s * 2^d
    <3>1. d \in Exponents /\ 2^(s + d) = 2^s * 2^d BY <1>1, <2>0, PowerSum
    <3> QED BY <3>1
  <2>2. 2^d <= K BY <1>1, PowerMono
  <2> PICK D \in Nat \ {0} : D = 2^d BY <2>1, PowerType
  <2> PICK M \in Nat \ {0} : M = 2^n BY PowerType
  <2>3. M = S * D /\ D <= K BY <2>1, <2>2
  <2>4. -M <= v /\ v < M
    <3>1. n - 1 \in Exponents /\ 2^n = 2 * 2^(n - 1) BY PowerStep
    <3> PICK H \in Nat \ {0} : H = 2^(n - 1) BY <3>1, PowerType
    <3>2. ty.sgn => -H <= v /\ v < H BY DEF Fits
    <3>3. ~ty.sgn => 0 <= v /\ v < M BY DEF Fits
    <3> QED BY <1>1, <3>1, <3>2, <3>3
  <2>5. PICK c \in Int, t \in 0 .. S - 1 : c = v \div S /\ v = c * S + t
    <3>1. v \div S \in Int /\ v % S \in 0 .. S - 1 /\ v = (v \div S) * S + (v % S) BY <1>1, ModFacts
    <3> QED BY <3>1
  <2>6. c < D
    <3>1. SUFFICES ASSUME c - D >= 0 PROVE FALSE OBVIOUS
    <3>2. (c - D) * S >= 0 BY <3>1
    <3>3. (c - D) * S = c * S - D * S OBVIOUS
    <3> QED BY <2>3, <2>4, <2>5, <3>2, <3>3
  <2>7. c >= -D
    <3>1. SUFFICES ASSUME -D - c >= 1 PROVE FALSE OBVIOUS
    <3>2. (-D - c) * S >= S BY <3>1
    <3>3. (-D - c) * S = -(D * S) - c * S OBVIOUS
    <3> QED BY <2>3, <2>4, <2>5, <3>2, <3>3
  <2>8. (c < 0) <=> (v < 0)
    <3>1. CASE c >= 0
      <4>1. c * S >= 0 BY <3>1
      <4> QED BY <1>1, <2>5, <3>1, <4>1
    <3>2. CASE c < 0
      <4>1. (-c) * S >= S BY <3>2
      <4>2. (-c) * S = -(c * S) OBVIOUS
      <4> QED BY <1>1, <2>5, <3>2, <4>1, <4>2
    <3> QED BY <3>1, <3>2
  <2>9. v < 0 => ty.sgn BY <1>1 DEF Fits
  <2>10. -K <= c /\ c < K BY <2>3, <2>6, <2>7
  <2>11. (c >= 0 => c \div K = 0) /\ (c < 0 => c \div K = -1) BY <2>10, ModSmall
  <2>12. (-1) % 2 = 1 /\ 0 % 2 = 0
    <3> PICK m \in Int, two \in Nat \ {0} : m = -1 /\ two = 2 OBVIOUS
    <3>1. -two <= m /\ m < two /\ m < 0 OBVIOUS
    <3>2. m % two = m + two BY <3>1, ModSmall
    <3> QED BY <3>2
  <2>13. (c \div K) % 2 = IF c < 0 THEN 1 ELSE 0 BY <2>11, <2>12
  <2>14. Ops!Bit(v \div 2^s, k) = (c \div K) % 2 BY <2>5 DEF Ops!Bit
  <2>15. ~(k + s < n) BY <1>1, <1>3
  <2> QED BY <2>8, <2>9, <2>13, <2>14, <2>15
<1> QED BY <1>1, <1>2, <1>3

(* Two lanes of one type are operands as they are. *)
LEMMA LaneOperands ==
  ASSUME NEW x, NEW y, CVal(x), CVal(y), x.ty = y.ty
  PROVE  x.ty \in CTypes /\ Operands(x.ty, x, y)
  BY DEF CVal, Operands

VectorCall(name, ty, to, a, b) ==
  /\ call = [name |-> name, to |-> to, a |-> a, b |-> b]
  /\ ty \in Vectors!LaneTypes /\ to = Vectors!Signed(ty)
  /\ a \in Vectors!Vectors(ty) /\ b \in Vectors!Vectors(ty)

(* A comparison's lanes are all ones or all zeros. *)
LEMMA LaneCompares ==
  ASSUME NEW name \in Vectors!Comparisons, NEW ty, NEW to, NEW a, NEW b,
         VectorCall(name, ty, to, a, b), out = Vectors!Result(call), NEW i \in Vectors!Indices
  PROVE  Vectors!LaneExact(i) /\ out[i].ty = to
<1>1. call.name = name /\ call.to = to /\ call.a = a /\ call.b = b BY DEF VectorCall
<1>2. ty \in CTypes /\ CVal(a[i]) /\ CVal(b[i]) /\ a[i].ty = ty /\ b[i].ty = ty
  BY LaneTypesC, LaneFacts DEF VectorCall
<1> PICK x, y : x = a[i] /\ y = b[i] OBVIOUS
<1>3. Operands(ty, x, y) BY <1>2, LaneOperands
<1> PICK r : r = out[i] OBVIOUS
<1> PICK n \in Exponents \ {0} : n = ty.bits BY <1>2 DEF CTypes
<1> PICK s \in BOOLEAN : s OBVIOUS
<1>4. to = Ops!Type(n, s) BY VectorsC DEF VectorCall, Vectors!Signed
<1>5. to \in CTypes /\ to.bits = n /\ to.sgn BY <1>4, TypeFacts
<1> PICK op : op = Vectors!CompareOp(name) OBVIOUS
<1>6. Vectors!Compare(op, x, y) = Ops!Holds(op, x.v, y.v)
  <2>1. IntBits \in Exponents \ {0} BY OpsScale
  <2>2. CompareAt(IntBits, op, x, y) = Ops!Holds(op, x.v, y.v) BY <1>2, <1>3, <2>1, BinExact
  <2> QED BY <2>2, VectorsC
<1>7. out = Vectors!codegen_simd_cmp(name, to, a, b)
  BY <1>1 DEF Vectors!Result, Vectors!Comparisons
<1>8. r = Ops!Val(to, IF Ops!Holds(op, x.v, y.v) THEN -1 ELSE 0)
  BY <1>6, <1>7, VectorsC DEF Vectors!codegen_simd_cmp
<1>9. r.ty = to /\ r.v = IF Ops!Holds(op, x.v, y.v) THEN -1 ELSE 0
  <2>1. n - 1 \in Exponents BY PowerStep
  <2> PICK H \in Nat \ {0} : H = 2^(n - 1) BY <2>1, PowerType
  <2> PICK w \in Int : w = (IF Ops!Holds(op, x.v, y.v) THEN -1 ELSE 0) OBVIOUS
  <2>2. -H <= w /\ w < H OBVIOUS
  <2>3. Fits(to, w) BY <1>5, <2>2 DEF Fits
  <2> QED BY <1>5, <1>8, <2>3, ValFacts
<1>10. name \in {"simd_eq", "simd_ne", "simd_lt", "simd_le", "simd_gt", "simd_ge"}
  BY DEF Vectors!Comparisons
<1>11. Vectors!LaneExact(i)
  <2>1. CASE name = "simd_eq"
    <3>1. r.v = (IF x.v = y.v THEN -1 ELSE 0) BY <1>9, <2>1 DEF Vectors!CompareOp, Ops!Holds
    <3> QED BY <1>1, <2>1, <3>1 DEF Vectors!LaneExact
  <2>2. CASE name = "simd_ne"
    <3>1. r.v = (IF x.v # y.v THEN -1 ELSE 0) BY <1>9, <2>2 DEF Vectors!CompareOp, Ops!Holds
    <3> QED BY <1>1, <2>2, <3>1 DEF Vectors!LaneExact
  <2>3. CASE name = "simd_lt"
    <3>1. r.v = (IF x.v < y.v THEN -1 ELSE 0) BY <1>9, <2>3 DEF Vectors!CompareOp, Ops!Holds
    <3> QED BY <1>1, <2>3, <3>1 DEF Vectors!LaneExact
  <2>4. CASE name = "simd_le"
    <3>1. r.v = (IF x.v <= y.v THEN -1 ELSE 0) BY <1>9, <2>4 DEF Vectors!CompareOp, Ops!Holds
    <3> QED BY <1>1, <2>4, <3>1 DEF Vectors!LaneExact
  <2>5. CASE name = "simd_gt"
    <3>1. r.v = (IF x.v > y.v THEN -1 ELSE 0) BY <1>9, <2>5 DEF Vectors!CompareOp, Ops!Holds
    <3> QED BY <1>1, <2>5, <3>1 DEF Vectors!LaneExact
  <2>6. CASE name = "simd_ge"
    <3>1. r.v = (IF x.v >= y.v THEN -1 ELSE 0) BY <1>9, <2>6 DEF Vectors!CompareOp, Ops!Holds
    <3> QED BY <1>1, <2>6, <3>1 DEF Vectors!LaneExact
  <2> QED BY <1>10, <2>1, <2>2, <2>3, <2>4, <2>5, <2>6
<1> QED BY <1>9, <1>11

LEMMA LaneBitwise ==
  ASSUME NEW name \in {"simd_and", "simd_or", "simd_xor"}, NEW ty, NEW to, NEW a, NEW b,
         VectorCall(name, ty, to, a, b), out = Vectors!Result(call), NEW i \in Vectors!Indices
  PROVE  Vectors!LaneExact(i) /\ out[i].ty = a[i].ty
<1>1. call.name = name /\ call.to = to /\ call.a = a /\ call.b = b BY DEF VectorCall
<1>2. ty \in CTypes /\ CVal(a[i]) /\ CVal(b[i]) /\ a[i].ty = ty /\ b[i].ty = ty
  BY LaneTypesC, LaneFacts DEF VectorCall
<1> PICK x, y : x = a[i] /\ y = b[i] OBVIOUS
<1>3. Operands(ty, x, y) BY <1>2, LaneOperands
<1> PICK r : r = out[i] OBVIOUS
<1> PICK n \in Exponents \ {0} : n = ty.bits BY <1>2 DEF CTypes
<1> PICK op : op = (IF name = "simd_and" THEN "&" ELSE IF name = "simd_or" THEN "|" ELSE "^") OBVIOUS
<1>4. op \in {"&", "|", "^"} OBVIOUS
<1>5. out = Vectors!codegen_simd_bitwise(name, a, b) BY <1>1 DEF Vectors!Result
<1>6. r = Ops!Cast(ty, BinAt(IntBits, op, x, y))
  BY <1>2, <1>5, VectorsC DEF Vectors!codegen_simd_bitwise
<1>7. IntBits \in Exponents \ {0} BY OpsScale
<1>8. ASSUME NEW k \in 0 .. n - 1
      PROVE  /\ CVal(r) /\ r.ty = ty
             /\ op = "&" => Ops!Bit(r.v, k) = Ops!Bit(x.v, k) * Ops!Bit(y.v, k)
             /\ op = "|" => Ops!Bit(r.v, k) = IF Ops!Bit(x.v, k) + Ops!Bit(y.v, k) = 0 THEN 0 ELSE 1
             /\ op = "^" => Ops!Bit(r.v, k) = IF Ops!Bit(x.v, k) = Ops!Bit(y.v, k) THEN 0 ELSE 1
  BY <1>2, <1>3, <1>4, <1>6, <1>7, BitwiseCast
<1>9. CVal(r) /\ r.ty = ty
  <2>1. 0 \in 0 .. n - 1 BY DEF Exponents
  <2> QED BY <1>8, <2>1
<1>10. ASSUME NEW k \in 0 .. n - 1
       PROVE  LET p == Vectors!BitOf(x, k) = 1
                  q == Vectors!BitOf(y, k) = 1
                  o == Vectors!BitOf(r, k) = 1
              IN /\ name = "simd_and" => o = (p /\ q)
                 /\ name = "simd_or" => o = (p \/ q)
                 /\ name = "simd_xor" => o = (p # q)
  <2>1. Vectors!BitOf(x, k) = Ops!Bit(x.v, k) /\ Ops!Bit(x.v, k) \in {0, 1} BY <1>2, LaneBit
  <2>2. Vectors!BitOf(y, k) = Ops!Bit(y.v, k) /\ Ops!Bit(y.v, k) \in {0, 1} BY <1>2, LaneBit
  <2>3. Vectors!BitOf(r, k) = Ops!Bit(r.v, k) BY <1>9, LaneBit
  <2> PICK p \in {0, 1}, q \in {0, 1} : p = Ops!Bit(x.v, k) /\ q = Ops!Bit(y.v, k) BY <2>1, <2>2
  <2>4. /\ name = "simd_and" => Ops!Bit(r.v, k) = p * q
        /\ name = "simd_or" => Ops!Bit(r.v, k) = IF p + q = 0 THEN 0 ELSE 1
        /\ name = "simd_xor" => Ops!Bit(r.v, k) = IF p = q THEN 0 ELSE 1
    BY <1>8
  <2>5. CASE p = 0 BY <2>1, <2>2, <2>3, <2>4, <2>5
  <2>6. CASE p = 1 BY <2>1, <2>2, <2>3, <2>4, <2>6
  <2> QED BY <2>5, <2>6
<1>11. x.ty.bits = n BY <1>2
<1>12. Vectors!LaneExact(i)
  <2>1. CASE name = "simd_and" BY <1>1, <1>10, <1>11, <2>1 DEF Vectors!LaneExact
  <2>2. CASE name = "simd_or" BY <1>1, <1>10, <1>11, <2>2 DEF Vectors!LaneExact
  <2>3. CASE name = "simd_xor" BY <1>1, <1>10, <1>11, <2>3 DEF Vectors!LaneExact
  <2> QED BY <2>1, <2>2, <2>3
<1> QED BY <1>2, <1>9, <1>12

LEMMA LaneShifts ==
  ASSUME NEW name \in {"simd_shl", "simd_shr"}, NEW ty, NEW to, NEW a, NEW b,
         VectorCall(name, ty, to, a, b), out = Vectors!Result(call),
         \A j \in Vectors!Indices : b[j].v \in 0 .. ty.bits - 1,
         NEW i \in Vectors!Indices
  PROVE  Vectors!LaneExact(i) /\ out[i].ty = a[i].ty
<1>1. call.name = name /\ call.to = to /\ call.a = a /\ call.b = b BY DEF VectorCall
<1>2. ty \in CTypes /\ CVal(a[i]) /\ a[i].ty = ty
  BY LaneTypesC, LaneFacts DEF VectorCall
<1> PICK n \in Exponents \ {0} : n = ty.bits BY <1>2 DEF CTypes
<1> PICK x : x = a[i] OBVIOUS
<1> PICK s \in 0 .. n - 1 : s = b[i].v OBVIOUS
<1> PICK v : v = x.v OBVIOUS
<1>3. v \in Int /\ Fits(ty, v) BY <1>2 DEF CVal
<1> PICK r : r = out[i] OBVIOUS
<1>4. s \in Exponents /\ n \in Nat BY PowersOfTwo DEF Exponents
<1> PICK S \in Nat \ {0} : S = 2^s BY <1>4, PowerType
<1>5. out = Vectors!codegen_simd_shift(name, a, b) BY <1>1 DEF Vectors!Result
<1>6. r = Ops!Cast(ty, IF name = "simd_shl" THEN Ops!Shl(x, s) ELSE Ops!Shr(x, s))
  BY <1>2, <1>5, VectorsC DEF Vectors!codegen_simd_shift
<1>7. PICK t \in CTypes : /\ t.bits >= n
                          /\ Ops!Shl(x, s) = Ops!Val(t, v * S) /\ Ops!Shr(x, s) = Ops!Val(t, v \div S)
  BY <1>2, UnaryC
<1>8. v \div S \in Int /\ v * S \in Int
  <2>1. v \div S \in Int BY <1>3, ModFacts
  <2>2. v * S \in Int BY <1>3
  <2> QED BY <2>1, <2>2
<1> PICK w \in Int : w = (IF name = "simd_shl" THEN v * S ELSE v \div S) BY <1>8
<1>9. r = Ops!Cast(ty, Ops!Val(t, w)) BY <1>6, <1>7
<1>10. ty.bits <= t.bits BY <1>2, <1>7 DEF CTypes, Exponents
<1>11. CVal(r) /\ r.ty = ty /\ Same(n, r.v, w) BY <1>2, <1>9, <1>10, CastVal
<1>12. ASSUME NEW k \in 0 .. n - 1
       PROVE  Vectors!BitOf(r, k) = Ops!Bit(w, k) /\ k \in Exponents /\ k \in Nat
  <2>1. r.v \in Int BY <1>11 DEF CVal
  <2>2. Ops!Bit(r.v, k) = Ops!Bit(w, k) BY <1>11, <2>1, SameBits
  <2>3. Vectors!BitOf(r, k) = Ops!Bit(r.v, k) BY <1>11, LaneBit
  <2> QED BY <2>2, <2>3, PowersOfTwo DEF Exponents
<1>13. \A k \in 0 .. n - 1 : Vectors!BitOf(x, k) = Ops!Bit(v, k) BY <1>2, LaneBit
<1>14. x.ty.bits = n /\ x.ty.sgn = ty.sgn BY <1>2
<1>15. CASE name = "simd_shl"
  <2>1. ASSUME NEW k \in 0 .. n - 1
        PROVE  (Vectors!BitOf(r, k) = 1) = (k >= s /\ Vectors!BitOf(x, k - s) = 1)
    <3>1. Vectors!BitOf(r, k) = IF k >= s THEN Ops!Bit(v, k - s) ELSE 0
      BY <1>3, <1>4, <1>12, <1>15, ShlBits
    <3>2. CASE k >= s
      <4>1. k - s \in 0 .. n - 1 BY <1>4, <3>2
      <4> QED BY <1>13, <3>1, <3>2, <4>1
    <3>3. CASE ~(k >= s) BY <3>1, <3>3
    <3> QED BY <3>2, <3>3
  <2> QED BY <1>1, <1>2, <1>11, <1>14, <1>15, <2>1 DEF Vectors!LaneExact
<1>16. CASE name = "simd_shr"
  <2>1. ASSUME NEW k \in 0 .. n - 1
        PROVE  (Vectors!BitOf(r, k) = 1) =
                 IF k + s \in 0 .. n - 1 THEN Vectors!BitOf(x, k + s) = 1 ELSE ty.sgn /\ v < 0
    <3>1. Vectors!BitOf(r, k) =
            IF k + s < n THEN Ops!Bit(v, k + s) ELSE IF ty.sgn /\ v < 0 THEN 1 ELSE 0
      BY <1>2, <1>3, <1>12, <1>16, ShrBits
    <3>2. CASE k + s < n
      <4>1. k + s \in 0 .. n - 1 BY <1>4, <3>2
      <4> QED BY <1>13, <3>1, <3>2, <4>1
    <3>3. CASE ~(k + s < n)
      <4>1. k + s \notin 0 .. n - 1 BY <1>4, <3>3
      <4> QED BY <3>1, <3>3, <4>1
    <3> QED BY <3>2, <3>3
  <2> QED BY <1>1, <1>2, <1>11, <1>14, <1>16, <2>1 DEF Vectors!LaneExact
<1> QED BY <1>15, <1>16

LEMMA BinaryLanes ==
  ASSUME NEW name \in Vectors!Binary, NEW ty, NEW to, NEW a, NEW b,
         VectorCall(name, ty, to, a, b), out = Vectors!Result(call),
         name \in {"simd_shl", "simd_shr"} => \A j \in Vectors!Indices : b[j].v \in 0 .. ty.bits - 1
  PROVE  Vectors!LanesExact
<1>1. call.name = name /\ call.to = to /\ call.a = a BY DEF VectorCall
<1>2. ASSUME NEW i \in Vectors!Indices
      PROVE  /\ Vectors!LaneExact(i)
             /\ out[i].ty = IF name \in Vectors!Comparisons THEN to ELSE a[i].ty
  <2>1. CASE name \in Vectors!Comparisons BY <2>1, LaneCompares
  <2>2. CASE name \in {"simd_and", "simd_or", "simd_xor"} BY <2>2, LaneBitwise DEF Vectors!Comparisons
  <2>3. CASE name \in {"simd_shl", "simd_shr"} BY <2>3, LaneShifts DEF Vectors!Comparisons
  <2> QED BY <2>1, <2>2, <2>3 DEF Vectors!Binary
<1>3. name \notin {"simd_cast", "simd_extract", "simd_insert", "simd_shuffle"}
  BY DEF Vectors!Binary, Vectors!Comparisons
<1> QED BY <1>1, <1>2, <1>3 DEF Vectors!LanesExact

LEMMA CastLanes ==
  ASSUME NEW ty \in Vectors!LaneTypes, NEW to \in Vectors!LaneTypes, NEW a \in Vectors!Vectors(ty),
         call = [name |-> "simd_cast", to |-> to, a |-> a], out = Vectors!Result(call)
  PROVE  Vectors!LanesExact
<1>1. call.name = "simd_cast" /\ call.to = to /\ call.a = a OBVIOUS
<1>2. out = Vectors!codegen_simd_cast(to, a) BY <1>1 DEF Vectors!Result
<1>3. to \in CTypes /\ to.bits \in Exponents BY LaneTypesC
<1>4. ASSUME NEW i \in Vectors!Indices
      PROVE  out[i].ty = to /\ (out[i].v - a[i].v) % 2^to.bits = 0
  <2> PICK x : x = a[i] OBVIOUS
  <2> PICK r : r = out[i] OBVIOUS
  <2>1. x.v \in Int BY LaneFacts DEF CVal
  <2>2. r = Ops!Val(to, x.v) BY <1>2, <1>3, CastFacts, VectorsC DEF Vectors!codegen_simd_cast
  <2>3. r.ty = to /\ CVal(r) /\ Same(to.bits, r.v, x.v) BY <1>3, <2>1, <2>2, ValFacts
  <2>4. r.v \in Int BY <2>3 DEF CVal
  <2> PICK P \in Nat \ {0} : P = 2^to.bits BY <1>3, PowerType
  <2>5. PICK k \in Int : r.v = x.v + k * P BY <2>3 DEF Same
  <2> PICK d \in Int : d = r.v - x.v BY <2>1, <2>4
  <2>6. d = k * P + 0 /\ 0 \in 0 .. P - 1 BY <2>1, <2>4, <2>5
  <2>7. d % P = 0 BY <2>6, ModUnique
  <2> QED BY <2>3, <2>7
<1>5. "simd_cast" \notin Vectors!Binary BY DEF Vectors!Binary, Vectors!Comparisons
<1> QED BY <1>1, <1>4, <1>5 DEF Vectors!LanesExact

LEMMA PlaceLanes ==
  ASSUME NEW name \in {"simd_extract", "simd_insert"}, NEW ty \in Vectors!LaneTypes,
         NEW a \in Vectors!Vectors(ty), NEW b \in Vectors!Vectors(ty), NEW idx \in Vectors!Indices,
         call = [name |-> name, a |-> a, idx |-> idx, x |-> b[1]], out = Vectors!Result(call)
  PROVE  Vectors!LanesExact
<1> PICK x : x = b[1] OBVIOUS
<1>1. call.name = name /\ call.a = a /\ call.idx = idx /\ call.x = x OBVIOUS
<1>2. name \notin Vectors!Binary BY DEF Vectors!Binary, Vectors!Comparisons
<1>3. CASE name = "simd_extract"
  <2>1. out = <<a[idx]>> BY <1>1, <1>3 DEF Vectors!Result, Vectors!codegen_simd_extract
  <2> QED BY <1>1, <1>2, <1>3, <2>1 DEF Vectors!LanesExact
<1>4. CASE name = "simd_insert"
  <2>1. 1 \in Vectors!Indices BY ScalesAreFaithful DEF Vectors!ScaleOK, Vectors!Indices
  <2>2. ty \in CTypes /\ CVal(x) /\ x.ty = ty /\ a[idx].ty = ty BY <2>1, LaneTypesC, LaneFacts
  <2>3. Ops!Cast(ty, x) = x
    <3>1. Ops!Cast(ty, x) = Ops!Val(ty, x.v) BY <2>2, CastFacts
    <3>2. Fits(ty, x.v) /\ x.v \in Int /\ x = [ty |-> x.ty, v |-> x.v] BY <2>2 DEF CVal
    <3>3. Ops!Wrap(ty, x.v) = x.v BY <2>2, <3>2, WrapFacts
    <3> QED BY <2>2, <3>1, <3>2, <3>3 DEF Ops!Val
  <2>4. out = [a EXCEPT ![idx] = Vectors!Cast(@.ty, x)]
    BY <1>1, <1>4 DEF Vectors!Result, Vectors!codegen_simd_insert
  <2>5. a = [i \in Vectors!Indices |-> a[i]] BY LaneFacts
  <2>6. out = [a EXCEPT ![idx] = x] BY <2>2, <2>3, <2>4, VectorsC
  <2>7. \A i \in Vectors!Indices : out[i] = IF i = idx THEN x ELSE a[i] BY <2>5, <2>6
  <2> QED BY <1>1, <1>2, <1>4, <2>7 DEF Vectors!LanesExact
<1> QED BY <1>3, <1>4

LEMMA ShuffleLanes ==
  ASSUME NEW ty \in Vectors!LaneTypes, NEW a \in Vectors!Vectors(ty), NEW b \in Vectors!Vectors(ty),
         NEW idx \in [1 .. Lanes -> 0 .. 2 * Lanes - 1],
         call = [name |-> "simd_shuffle", a |-> a, b |-> b, idx |-> idx], out = Vectors!Result(call)
  PROVE  Vectors!LanesExact
<1>1. call.name = "simd_shuffle" /\ call.a = a /\ call.b = b /\ call.idx = idx OBVIOUS
<1>2. "simd_shuffle" \notin Vectors!Binary BY DEF Vectors!Binary, Vectors!Comparisons
<1>3. out = [i \in DOMAIN idx |-> (a \o b)[idx[i] + 1]]
  BY <1>1 DEF Vectors!Result, Vectors!codegen_simd_shuffle
<1>4. Lanes \in Nat \ {0} BY ScalesAreFaithful DEF Vectors!ScaleOK
<1>5. PICK S : a \in [1 .. Lanes -> S] /\ b \in [1 .. Lanes -> S]
  <2> DEFINE S == {a[i] : i \in 1 .. Lanes} \cup {b[i] : i \in 1 .. Lanes}
  <2>1. a = [i \in 1 .. Lanes |-> a[i]] /\ b = [i \in 1 .. Lanes |-> b[i]]
    BY LaneFacts DEF Vectors!Indices
  <2>2. a \in [1 .. Lanes -> S] /\ b \in [1 .. Lanes -> S] BY <2>1
  <2> HIDE DEF S
  <2> QED BY <2>2
<1>6. a \in Seq(S) /\ b \in Seq(S) /\ Len(a) = Lanes /\ Len(b) = Lanes BY <1>4, <1>5
<1>7. ASSUME NEW i \in DOMAIN idx
      PROVE  out[i] = IF idx[i] < Lanes THEN a[idx[i] + 1] ELSE b[idx[i] - Lanes + 1]
  <2> PICK k \in 0 .. 2 * Lanes - 1 : k = idx[i] OBVIOUS
  <2>1. out[i] = (a \o b)[k + 1] BY <1>3
  <2>2. CASE k < Lanes
    <3>1. k + 1 \in 1 .. Len(a) BY <1>4, <1>6, <2>2
    <3>2. (a \o b)[k + 1] = a[k + 1] BY <1>6, <3>1
    <3> QED BY <2>1, <2>2, <3>2
  <2>3. CASE ~(k < Lanes)
    <3>1. k + 1 \in Len(a) + 1 .. Len(a) + Len(b) BY <1>4, <1>6, <2>3
    <3>2. (a \o b)[k + 1] = b[k + 1 - Len(a)] BY <1>6, <3>1
    <3>3. k + 1 - Len(a) = k - Lanes + 1 BY <1>4, <1>6
    <3> QED BY <2>1, <2>3, <3>2, <3>3
  <2> QED BY <2>2, <2>3
<1> QED BY <1>1, <1>2, <1>7 DEF Vectors!LanesExact

(* As OpsInv, of the SIMD intrinsics. *)
VectorsInv ==
  family = "vectors" => Vectors!SimdCall /\ (out = NoResult \/ out = Vectors!Result(call))

(* Every lane of every SIMD intrinsic's result is what Rust specifies, for *)
(* any number of lanes and any widths.                                     *)
THEOREM VectorsAlwaysExact == Spec => []VectorsExact
<1>1. Init => VectorsInv BY DEF Init, VectorsInv, Vectors!Init
<1>2. VectorsInv /\ [Next]_vars => VectorsInv'
  <2> SUFFICES ASSUME VectorsInv, [Next]_vars, family' = "vectors" PROVE VectorsInv' BY DEF VectorsInv
  <2>1. CASE UNCHANGED vars
    <3>1. family' = family /\ call' = call /\ out' = out BY <2>1 DEF vars
    <3> QED BY <3>1 DEF VectorsInv, Vectors!SimdCall
  <2>2. CASE Next
    <3>1. family = "vectors" /\ Vectors!Next BY <2>2 DEF Next
    <3>2. call' = call /\ out' = Vectors!Result(call) BY <3>1 DEF Vectors!Next
    <3> QED BY <3>1, <3>2 DEF VectorsInv, Vectors!SimdCall
  <2> QED BY <2>1, <2>2
<1>3. VectorsInv => VectorsExact
  <2> SUFFICES ASSUME VectorsInv, family = "vectors" PROVE Vectors!LanesExact BY DEF VectorsExact
  <2>1. CASE out = NoResult BY <2>1 DEF Vectors!LanesExact
  <2>2. CASE out = Vectors!Result(call)
    <3>1. PICK ty \in Vectors!LaneTypes, to \in Vectors!LaneTypes :
            \E a, b \in Vectors!Vectors(ty) :
              \/ \E name \in Vectors!Binary :
                   /\ to = Vectors!Signed(ty)
                   /\ name \in {"simd_shl", "simd_shr"} =>
                        \A i \in Vectors!Indices : b[i].v \in 0 .. ty.bits - 1
                   /\ call = [name |-> name, to |-> to, a |-> a, b |-> b]
              \/ call = [name |-> "simd_cast", to |-> to, a |-> a]
              \/ \E i \in Vectors!Indices, name \in {"simd_extract", "simd_insert"} :
                   call = [name |-> name, a |-> a, idx |-> i, x |-> b[1]]
              \/ \E idx \in [1 .. Lanes -> 0 .. 2 * Lanes - 1] :
                   call = [name |-> "simd_shuffle", a |-> a, b |-> b, idx |-> idx]
      BY DEF VectorsInv, Vectors!SimdCall
    <3>2. PICK a \in Vectors!Vectors(ty), b \in Vectors!Vectors(ty) :
            \/ \E name \in Vectors!Binary :
                 /\ to = Vectors!Signed(ty)
                 /\ name \in {"simd_shl", "simd_shr"} =>
                      \A i \in Vectors!Indices : b[i].v \in 0 .. ty.bits - 1
                 /\ call = [name |-> name, to |-> to, a |-> a, b |-> b]
            \/ call = [name |-> "simd_cast", to |-> to, a |-> a]
            \/ \E i \in Vectors!Indices, name \in {"simd_extract", "simd_insert"} :
                 call = [name |-> name, a |-> a, idx |-> i, x |-> b[1]]
            \/ \E idx \in [1 .. Lanes -> 0 .. 2 * Lanes - 1] :
                 call = [name |-> "simd_shuffle", a |-> a, b |-> b, idx |-> idx]
      BY <3>1
    <3>3. ASSUME NEW name \in Vectors!Binary, to = Vectors!Signed(ty),
                 name \in {"simd_shl", "simd_shr"} =>
                   \A i \in Vectors!Indices : b[i].v \in 0 .. ty.bits - 1,
                 call = [name |-> name, to |-> to, a |-> a, b |-> b]
          PROVE  Vectors!LanesExact
      <4>1. VectorCall(name, ty, to, a, b) BY <3>3 DEF VectorCall
      <4> QED BY <2>2, <3>3, <4>1, BinaryLanes
    <3>4. ASSUME call = [name |-> "simd_cast", to |-> to, a |-> a] PROVE Vectors!LanesExact
      BY <2>2, <3>4, CastLanes
    <3>5. ASSUME NEW i \in Vectors!Indices, NEW name \in {"simd_extract", "simd_insert"},
                 call = [name |-> name, a |-> a, idx |-> i, x |-> b[1]]
          PROVE  Vectors!LanesExact
      BY <2>2, <3>5, PlaceLanes
    <3>6. ASSUME NEW idx \in [1 .. Lanes -> 0 .. 2 * Lanes - 1],
                 call = [name |-> "simd_shuffle", a |-> a, b |-> b, idx |-> idx]
          PROVE  Vectors!LanesExact
      BY <2>2, <3>6, ShuffleLanes
    <3> QED BY <3>2, <3>3, <3>4, <3>5, <3>6
  <2> QED BY <2>1, <2>2 DEF VectorsInv
<1> QED BY <1>1, <1>2, <1>3, PTL DEF Spec

-----------------------------------------------------------------------------
(* The helpers for overflow                                                *)

(* The helpers' int is twice the narrowest type. *)
HelperInt == 2 * HelperBits

LEMMA HelpersC ==
  /\ \A n, s : Helpers!Type(n, s) = Ops!Type(n, s)
  /\ \A ty, v : Helpers!Wrap(ty, v) = Ops!Wrap(ty, v)
  /\ \A n, v : Helpers!Pattern(n, v) = Ops!Pattern(n, v)
  /\ \A ty, v : Helpers!Val(ty, v) = Ops!Val(ty, v)
  /\ \A ty, x : Helpers!Cast(ty, x) = Ops!Cast(ty, x)
  /\ \A op, x, y : Helpers!Bin(op, x, y) = BinAt(HelperInt, op, x, y)
  /\ \A op, x, y : Helpers!Compare(op, x, y) = CompareAt(HelperInt, op, x, y)
  /\ \A x : Helpers!Promote(x) = PromoteAt(HelperInt, x)
<1>1. \A n, s : Helpers!Type(n, s) = Ops!Type(n, s) BY DEF Helpers!Type, Ops!Type
<1>2. /\ \A ty, v : Helpers!Wrap(ty, v) = Ops!Wrap(ty, v)
      /\ \A n, v : Helpers!Pattern(n, v) = Ops!Pattern(n, v)
  BY DEF Helpers!Wrap, Ops!Wrap, Helpers!Pattern, Ops!Pattern
<1>3. \A ty, v : Helpers!Val(ty, v) = Ops!Val(ty, v) BY <1>2 DEF Helpers!Val, Ops!Val
<1>4. Helpers!Bool = Ops!Bool BY DEF Helpers!Bool, Ops!Bool
<1>5. \A ty, x : Helpers!Cast(ty, x) = Ops!Cast(ty, x) BY <1>3, <1>4 DEF Helpers!Cast, Ops!Cast
<1>6. \A x : Helpers!Promote(x) = PromoteAt(HelperInt, x)
  BY <1>1, <1>5 DEF Helpers!Promote, PromoteAt, HelperInt
<1>7. \A s, t : Helpers!CommonType(s, t) = Ops!CommonType(s, t)
  BY <1>1 DEF Helpers!CommonType, Ops!CommonType
<1>8. ASSUME NEW op, NEW n, NEW a, NEW b PROVE Helpers!Apply(op, n, a, b) = Ops!Apply(op, n, a, b)
  <2>1. \A p, i : Helpers!Bit(p, i) = Ops!Bit(p, i) BY DEF Helpers!Bit, Ops!Bit
  <2>2. \A k, f : Helpers!FromBits(k, f) = Ops!FromBits(k, f) BY DEF Helpers!FromBits, Ops!FromBits
  <2>3. \A k, p, q : Helpers!AndBits(k, p, q) = Ops!AndBits(k, p, q)
    BY <2>1, <2>2 DEF Helpers!AndBits, Ops!AndBits
  <2>4. \A k, p, q : Helpers!OrBits(k, p, q) = Ops!OrBits(k, p, q)
    BY <2>1, <2>2 DEF Helpers!OrBits, Ops!OrBits
  <2>5. \A k, p, q : Helpers!XorBits(k, p, q) = Ops!XorBits(k, p, q)
    BY <2>1, <2>2 DEF Helpers!XorBits, Ops!XorBits
  <2>6. \A p, q : Helpers!Quot(p, q) = Ops!Quot(p, q) BY DEF Helpers!Quot, Ops!Quot
  <2> QED BY <1>2, <2>3, <2>4, <2>5, <2>6 DEF Helpers!Apply, Ops!Apply
<1>9. \A op, x, y : Helpers!Bin(op, x, y) = BinAt(HelperInt, op, x, y)
  BY <1>3, <1>5, <1>6, <1>7, <1>8 DEF Helpers!Bin, BinAt, CommonAt
<1>10. \A op, a, b : Helpers!Holds(op, a, b) = Ops!Holds(op, a, b) BY DEF Helpers!Holds, Ops!Holds
<1>11. \A op, x, y : Helpers!Compare(op, x, y) = CompareAt(HelperInt, op, x, y)
  BY <1>5, <1>6, <1>7, <1>10 DEF Helpers!Compare, CompareAt, CommonAt
<1> QED BY <1>1, <1>2, <1>3, <1>5, <1>6, <1>9, <1>11

LEMMA HelperScale ==
  /\ HelperBits \in Nat \ {0} /\ HelperInt \in Exponents \ {0} /\ 8 * HelperBits \in Exponents \ {0}
  /\ \A n \in Helpers!Widths : n \in Exponents \ {0} /\ (n # 8 * HelperBits => 2 * n \in Helpers!Widths)
  BY ScalesAreFaithful, PowersOfTwo DEF Helpers!ScaleOK, Helpers!Widths, Exponents, HelperInt

LEMMA HelperTypes ==
  ASSUME NEW ty \in Helpers!Types
  PROVE  /\ ty \in CTypes /\ ty.bits \in Helpers!Widths /\ ty.bits \in Exponents \ {0}
         /\ ty = Ops!Type(ty.bits, ty.sgn)
<1>1. PICK n \in Helpers!Widths, s \in BOOLEAN : ty = Helpers!Type(n, s) BY DEF Helpers!Types
<1>2. n \in Exponents \ {0} BY HelperScale
<1>3. ty = Ops!Type(n, s) BY <1>1, HelpersC
<1>4. ty \in CTypes /\ ty.bits = n /\ ty.sgn = s BY <1>2, <1>3, TypeFacts
<1> QED BY <1>2, <1>3, <1>4

(* A value as it is, in a wider type of the same signedness. *)
LEMMA CastWider ==
  ASSUME NEW s \in CTypes, NEW t \in CTypes, s.bits < t.bits, s.sgn = t.sgn,
         NEW x, CVal(x), x.ty = s
  PROVE  CVal(Ops!Cast(t, x)) /\ Ops!Cast(t, x).ty = t /\ Ops!Cast(t, x).v = x.v
<1>1. Fits(s, x.v) /\ x.v \in Int BY DEF CVal
<1>2. t.sgn \/ ~s.sgn OBVIOUS
<1>3. Fits(t, x.v) BY <1>1, <1>2, FitsWider
<1>4. Ops!Cast(t, x) = Ops!Val(t, x.v) BY CastFacts
<1> QED BY <1>1, <1>3, <1>4, ValFacts

(* A number of a type is less than 2^bits away from 0. *)
LEMMA FitsBound ==
  ASSUME NEW ty \in CTypes, NEW v, Fits(ty, v)
  PROVE  2^ty.bits \in Nat /\ 2^ty.bits >= 2 /\ v \in Int /\ v < 2^ty.bits /\ -v < 2^ty.bits
<1> PICK n \in Exponents \ {0} : n = ty.bits BY DEF CTypes
<1>1. n - 1 \in Exponents /\ 2^n = 2 * 2^(n - 1) BY PowerStep
<1> PICK H \in Nat \ {0}, M \in Nat \ {0} : H = 2^(n - 1) /\ M = 2^n BY <1>1, PowerType
<1>2. M = 2 * H BY <1>1
<1>3. v \in Int /\ (ty.sgn => -H <= v /\ v < H) /\ (~ty.sgn => 0 <= v /\ v < M) BY DEF Fits
<1> QED BY <1>2, <1>3

(* The exact result of an operation. *)
ExactOp(op, a, b) == CASE op = "add" -> a + b [] op = "sub" -> a - b [] op = "mul" -> a * b

(* Nearer to 0 than P. *)
Near(P, v) == v < P /\ -v < P

(* It is nearer to any number of the type than twice the width would tell. *)
LEMMA ExactBound ==
  ASSUME NEW P \in Nat, P >= 2, NEW op \in {"add", "sub", "mul"}, NEW a \in Int, NEW b \in Int, NEW c \in Int,
         Near(P, a), Near(P, b), Near(P, c)
  PROVE  /\ ExactOp(op, a, b) \in Int
         /\ Near(P * P, ExactOp(op, a, b) - c)
<1> PICK Q \in Nat : Q = P - 1 OBVIOUS
<1>1. P * P = Q * Q + 2 * Q + 1 BY P = Q + 1
<1>2. Q >= 1 /\ a <= Q /\ -a <= Q /\ b <= Q /\ -b <= Q /\ c <= Q /\ -c <= Q BY DEF Near
<1>3. Q * Q >= Q BY <1>2
<1>4. CASE op = "add" BY <1>1, <1>2, <1>3, <1>4 DEF ExactOp, Near
<1>5. CASE op = "sub" BY <1>1, <1>2, <1>3, <1>5 DEF ExactOp, Near
<1>6. CASE op = "mul"
  <2>1. a * b <= Q * Q /\ -(a * b) <= Q * Q
    <3>1. \A x \in Nat, y \in Nat : x <= Q /\ y <= Q => x * y <= Q * Q
      <4> SUFFICES ASSUME NEW x \in Nat, NEW y \in Nat, x <= Q, y <= Q PROVE x * y <= Q * Q OBVIOUS
      <4>1. x * y <= Q * y BY Q - x >= 0, (Q - x) * y >= 0
      <4>2. Q * y <= Q * Q BY Q - y >= 0, Q * (Q - y) >= 0
      <4> QED BY <4>1, <4>2
    <3>2. CASE a >= 0 /\ b >= 0 BY <1>2, <3>1, <3>2
    <3>3. CASE a >= 0 /\ b < 0
      <4>1. a * (-b) <= Q * Q BY <1>2, <3>1, <3>3
      <4>2. a * (-b) = -(a * b) OBVIOUS
      <4>3. a * (-b) >= 0 BY <3>3
      <4> QED BY <4>1, <4>2, <4>3
    <3>4. CASE a < 0 /\ b >= 0
      <4>1. (-a) * b <= Q * Q BY <1>2, <3>1, <3>4
      <4>2. (-a) * b = -(a * b) OBVIOUS
      <4>3. (-a) * b >= 0 BY <3>4
      <4> QED BY <4>1, <4>2, <4>3
    <3>5. CASE a < 0 /\ b < 0
      <4>1. (-a) * (-b) <= Q * Q BY <1>2, <3>1, <3>5
      <4>2. (-a) * (-b) = a * b OBVIOUS
      <4>3. (-a) * (-b) >= 0 BY <3>5
      <4> QED BY <4>1, <4>2, <4>3
    <3> QED BY <3>2, <3>3, <3>4, <3>5
  <2> PICK m \in Int, q \in Nat : m = a * b /\ q = Q * Q OBVIOUS
  <2>2. P * P = q + 2 * Q + 1 /\ m <= q /\ -m <= q BY <1>1, <2>1
  <2>3. m - c < P * P /\ c - m < P * P BY <1>2, <2>2
  <2> QED BY <1>6, <2>3 DEF ExactOp, Near
<1> QED BY <1>4, <1>5, <1>6

CNum(op) == CASE op = "add" -> "+" [] op = "sub" -> "-" [] op = "mul" -> "*"

LEMMA NumFacts ==
  ASSUME NEW op \in {"add", "sub", "mul"}, NEW m \in Exponents, NEW a \in Int, NEW b \in Int
  PROVE  /\ Helpers!CBinOp(op) = CNum(op) /\ CNum(op) \in COps \ {"/", "%"}
         /\ Ops!Apply(CNum(op), m, a, b) = ExactOp(op, a, b) /\ ExactOp(op, a, b) \in Int
<1>1. CASE op = "add" BY <1>1, ApplyFacts DEF CNum, ExactOp, COps, Helpers!CBinOp
<1>2. CASE op = "sub" BY <1>2, ApplyFacts DEF CNum, ExactOp, COps, Helpers!CBinOp
<1>3. CASE op = "mul" BY <1>3, ApplyFacts DEF CNum, ExactOp, COps, Helpers!CBinOp
<1> QED BY <1>1, <1>2, <1>3

(* Numbers of a type with the bits of e. *)
LEMMA WrapOnce ==
  ASSUME NEW ty \in CTypes, NEW r, Fits(ty, r), NEW e \in Int, Same(ty.bits, r, e)
  PROVE  r = Ops!Wrap(ty, e)
<1> PICK n \in Exponents : n = ty.bits BY DEF CTypes
<1> PICK w : w = Ops!Wrap(ty, e) OBVIOUS
<1>1. Fits(ty, w) /\ Same(n, w, e) BY WrapFacts
<1>2. w \in Int /\ r \in Int BY <1>1 DEF Fits
<1>3. Same(n, e, w) BY <1>1, <1>2, SameBoth
<1>4. Same(n, r, w) BY <1>2, <1>3, SameBoth
<1> QED BY <1>1, <1>4, FitsOnce

(* What a checked operation must give. *)
Checked(ty, e, c) ==
  /\ c[1].v = Ops!Wrap(ty, e)
  /\ c[2] = (e # Ops!Wrap(ty, e))

LEMMA CheckedPair ==
  ASSUME NEW ty, NEW e, NEW r, r.v = Ops!Wrap(ty, e), NEW p \in BOOLEAN, p = (e # Ops!Wrap(ty, e))
  PROVE  Checked(ty, e, <<r, p>>)
  BY DEF Checked

(* Up to 64 bits, the operation in the double width shows the overflow.    *)
LEMMA WideningExact ==
  ASSUME NEW ty \in Helpers!Types, ty.bits # 8 * HelperBits, NEW op \in {"add", "sub", "mul"},
         NEW x, NEW y, CVal(x), CVal(y), x.ty = ty, y.ty = ty
  PROVE  Checked(ty, ExactOp(op, x.v, y.v), Helpers!widening(op, ty, x, y))
<1>1. ty \in CTypes /\ ty.bits \in Helpers!Widths BY HelperTypes
<1> PICK n \in Exponents \ {0} : n = ty.bits BY HelperTypes
<1> PICK s \in BOOLEAN : s = ty.sgn BY <1>1 DEF CTypes
<1>2. 2 * n \in Exponents \ {0} /\ n \in Nat BY <1>1, HelperScale DEF Exponents
<1> PICK t : t = Ops!Type(2 * n, s) OBVIOUS
<1>3. t \in CTypes /\ t.bits = 2 * n /\ t.sgn = s /\ ty.bits < t.bits BY <1>2, TypeFacts DEF Exponents
<1>4. Helpers!Wide(ty) = t BY HelpersC DEF Helpers!Wide
<1>5. HelperInt \in Exponents \ {0} BY HelperScale
<1> PICK a \in Int, b \in Int : a = x.v /\ b = y.v BY DEF CVal
<1> PICK u, v : u = Ops!Cast(t, x) /\ v = Ops!Cast(t, y) OBVIOUS
<1>6. CVal(u) /\ u.ty = t /\ u.v = a /\ CVal(v) /\ v.ty = t /\ v.v = b BY <1>1, <1>3, CastWider
<1>7. Operands(t, u, v) BY <1>6, LaneOperands
<1> PICK cop : cop = CNum(op) OBVIOUS
<1>8. Helpers!CBinOp(op) = cop /\ cop \in COps /\ cop \notin {"/", "%"} BY <1>2, NumFacts
<1> PICK e \in Int : e = ExactOp(op, a, b) BY <1>2, NumFacts
<1> PICK w : w = Ops!Cast(t, BinAt(HelperInt, cop, u, v)) OBVIOUS
<1>9. CVal(w) /\ w.ty = t /\ Same(2 * n, w.v, e)
  <2>1. t.bits <= t.bits BY <1>2, <1>3 DEF Exponents
  <2>2. PICK d \in CTypes : /\ d.bits >= t.bits
                            /\ CVal(w) /\ w.ty = t
                            /\ Same(t.bits, w.v, Ops!Apply(cop, d.bits, u.v, v.v))
    BY <1>3, <1>5, <1>7, <1>8, <2>1, CastBin
  <2>3. d.bits \in Exponents BY DEF CTypes
  <2>4. Ops!Apply(cop, d.bits, u.v, v.v) = e BY <1>6, <2>3, NumFacts
  <2> QED BY <1>3, <2>2, <2>4
<1> PICK r : r = Ops!Cast(ty, w) OBVIOUS
<1>10. w.v \in Int BY <1>9 DEF CVal
<1>11. Same(n, w.v, e) BY <1>2, <1>9, <1>10, SameNarrow
<1>12. CVal(r) /\ r.ty = ty /\ r.v = Ops!Wrap(ty, e)
  <2>1. r = Ops!Val(ty, w.v) BY <1>1, CastFacts
  <2>2. CVal(r) /\ r.ty = ty /\ Same(n, r.v, w.v) BY <1>1, <1>10, <2>1, ValFacts
  <2>3. r.v \in Int /\ Fits(ty, r.v) BY <2>2 DEF CVal
  <2>4. Same(n, r.v, e) BY <1>10, <1>11, <2>2, <2>3, SameBoth
  <2> QED BY <1>1, <2>2, <2>3, <2>4, WrapOnce
<1> PICK z : z = Ops!Cast(t, r) OBVIOUS
<1>13. CVal(z) /\ z.ty = t /\ z.v = r.v BY <1>1, <1>3, <1>12, CastWider
<1>14. CompareAt(HelperInt, "!=", w, z) = (w.v # r.v)
  <2>1. Operands(t, w, z) BY <1>9, <1>13, LaneOperands
  <2>2. CompareAt(HelperInt, "!=", w, z) = Ops!Holds("!=", w.v, z.v) BY <1>3, <1>5, <2>1, BinExact
  <2> QED BY <1>13, <2>2, HoldsFacts
<1>15. (w.v # r.v) <=> (e # r.v)
  <2> PICK c \in Int : c = r.v BY <1>12 DEF CVal
  <2>1. ASSUME e = c PROVE w.v = c
    <3>1. Fits(t, c) /\ Fits(t, w.v) BY <1>9, <1>13 DEF CVal
    <3> QED BY <1>3, <1>9, <2>1, <3>1, FitsOnce
  <2>2. ASSUME w.v = c PROVE e = c
    <3> PICK P \in Nat : P = 2^n BY PowerType
    <3>1. 2^(2 * n) = P * P
      <4>1. n + n = 2 * n /\ n \in Nat BY <1>2
      <4>2. 2^(n + n) = 2^n * 2^n BY <1>2, <4>1, PowerSum
      <4> QED BY <4>1, <4>2
    <3>2. PICK k \in Int : c = e + k * (P * P) BY <1>9, <2>2, <3>1 DEF Same
    <3>3. P >= 2 /\ Near(P, a) BY <1>1, FitsBound DEF CVal, Near
    <3>4. Near(P, b) BY <1>1, FitsBound DEF CVal, Near
    <3>5. Near(P, c) BY <1>1, <1>12, FitsBound DEF CVal, Near
    <3>6. e - c < P * P /\ c - e < P * P
      <4>1. Near(P * P, ExactOp(op, a, b) - c) BY <3>3, <3>4, <3>5, ExactBound, ZenonT(20)
      <4> QED BY <4>1 DEF Near
    <3> PICK Q \in Nat : Q = P * P OBVIOUS
    <3>7. ~(k >= 1)
      <4>1. SUFFICES ASSUME k >= 1 PROVE FALSE OBVIOUS
      <4>2. k * Q >= Q BY <4>1
      <4> QED BY <3>2, <3>6, <4>2
    <3>8. ~(k <= -1)
      <4>1. SUFFICES ASSUME -k >= 1 PROVE FALSE OBVIOUS
      <4>2. (-k) * Q >= Q BY <4>1
      <4>3. (-k) * Q = -(k * Q) OBVIOUS
      <4> QED BY <3>2, <3>6, <4>2, <4>3
    <3>9. k = 0 BY <3>7, <3>8
    <3> QED BY <3>2, <3>9
  <2> QED BY <2>1, <2>2
<1> PICK p \in BOOLEAN : p = (e # r.v) OBVIOUS
<1>16. Helpers!widening(op, ty, x, y) = <<r, CompareAt(HelperInt, "!=", w, z)>>
  BY <1>4, <1>8, HelpersC DEF Helpers!widening
<1>17. CompareAt(HelperInt, "!=", w, z) = p BY <1>14, <1>15
<1>18. Helpers!widening(op, ty, x, y) = <<r, p>> BY <1>16, <1>17
<1>19. p = (e # Ops!Wrap(ty, e)) BY <1>12
<1>20. Checked(ty, e, <<r, p>>) BY <1>12, <1>19, CheckedPair
<1>21. e = ExactOp(op, x.v, y.v) OBVIOUS
<1> QED BY <1>18, <1>20, <1>21

(* In a type that is not narrower than int, an operation is on the operands' numbers. *)
LEMMA BinWide ==
  ASSUME NEW int \in Exponents \ {0}, NEW ty \in CTypes, ty.bits >= int, NEW op,
         NEW x, NEW y, CVal(x), CVal(y), x.ty = ty, y.ty = ty
  PROVE  BinAt(int, op, x, y) = Ops!Val(ty, Ops!Apply(op, ty.bits, x.v, y.v))
<1>1. PromoteAt(int, x) = x /\ PromoteAt(int, y) = y BY PromoteFacts
<1>2. ty = [bits |-> ty.bits, sgn |-> ty.sgn] /\ ty.sgn \in BOOLEAN BY DEF CTypes
<1>3. (ty.sgn /\ ty.sgn) = ty.sgn BY <1>2, Zenon
<1>4. Ops!CommonType(ty, ty) = ty BY <1>2, <1>3 DEF Ops!CommonType, Ops!Type
<1>5. CommonAt(int, x, y) = ty BY <1>1, <1>4 DEF CommonAt
<1>6. Fits(ty, x.v) /\ Fits(ty, y.v) /\ x.v \in Int /\ y.v \in Int BY DEF CVal
<1>7. Ops!Cast(ty, x).v = x.v BY <1>6, CastFacts, ValFacts
<1>8. Ops!Cast(ty, y).v = y.v BY <1>6, CastFacts, ValFacts
<1> QED BY <1>5, <1>7, <1>8 DEF BinAt

(* The widest types. *)
LEMMA WidestTypes ==
  /\ Helpers!U128 \in CTypes /\ Helpers!U128.bits = 8 * HelperBits /\ ~Helpers!U128.sgn
  /\ Helpers!I128 \in CTypes /\ Helpers!I128.bits = 8 * HelperBits /\ Helpers!I128.sgn
  /\ 8 * HelperBits >= HelperInt
  /\ \A ty \in Helpers!Types : ty.bits = 8 * HelperBits => ty = Helpers!U128 \/ ty = Helpers!I128
<1>1. 8 * HelperBits \in Exponents \ {0} /\ HelperBits \in Nat BY HelperScale
<1>2. Helpers!U128 = [bits |-> 8 * HelperBits, sgn |-> FALSE] BY DEF Helpers!U128, Helpers!Type
<1>3. Helpers!I128 = [bits |-> 8 * HelperBits, sgn |-> TRUE] BY DEF Helpers!I128, Helpers!Type
<1>4. ASSUME NEW ty \in Helpers!Types, ty.bits = 8 * HelperBits
      PROVE  ty = Helpers!U128 \/ ty = Helpers!I128
  <2>1. PICK n \in Helpers!Widths, s \in BOOLEAN : ty = [bits |-> n, sgn |-> s]
    BY DEF Helpers!Types, Helpers!Type
  <2>2. n = 8 * HelperBits BY <1>4, <2>1
  <2>3. s = FALSE \/ s = TRUE OBVIOUS
  <2> QED BY <1>2, <1>3, <2>1, <2>2, <2>3
<1> QED BY <1>1, <1>2, <1>3, <1>4 DEF CTypes, HelperInt

(* Sums and differences of two numbers of an unsigned type, wrapped. *)
LEMMA UnsignedWrap ==
  ASSUME NEW ty \in CTypes, ~ty.sgn, NEW a, NEW b, Fits(ty, a), Fits(ty, b)
  PROVE  /\ Ops!Wrap(ty, a + b) = IF a + b < 2^ty.bits THEN a + b ELSE a + b - 2^ty.bits
         /\ Ops!Wrap(ty, a - b) = IF a - b >= 0 THEN a - b ELSE a - b + 2^ty.bits
<1> PICK n \in Exponents \ {0} : n = ty.bits BY DEF CTypes
<1> PICK M \in Nat \ {0} : M = 2^n BY PowerType
<1>1. a \in 0 .. M - 1 /\ b \in 0 .. M - 1 BY DEF Fits
<1>2. \A v : Ops!Wrap(ty, v) = v % M BY DEF Ops!Wrap, Ops!Pattern
<1>3. (a + b) % M = IF a + b < M THEN a + b ELSE a + b - M
  <2>1. CASE a + b < M
    <3> PICK e \in Int : e = a + b /\ 0 <= e /\ e < M BY <1>1, <2>1
    <3>1. e % M = e BY ModSmall
    <3> QED BY <2>1, <3>1
  <2>2. CASE a + b >= M
    <3> PICK e \in Int, s \in Int, c \in Int : e = a + b /\ s = a + b - M /\ c = 1 BY <1>1
    <3>1. e = c * M + s /\ s \in 0 .. M - 1 BY <1>1, <2>2
    <3>2. e % M = s BY <3>1, ModUnique, SMTT(30)
    <3> QED BY <1>1, <2>2, <3>2
  <2> QED BY <1>1, <2>1, <2>2
<1>4. (a - b) % M = IF a - b >= 0 THEN a - b ELSE a - b + M
  <2> PICK e \in Int : e = a - b /\ -M <= e /\ e < M BY <1>1
  <2>1. e % M = IF e >= 0 THEN e ELSE e + M BY ModSmall
  <2> QED BY <2>1
<1> QED BY <1>2, <1>3, <1>4

(* A product that fits is divided back; one that does not fit is not.      *)
LEMMA ProductTest ==
  ASSUME NEW n \in Exponents, NEW a \in 0 .. 2^n - 1, NEW b \in 0 .. 2^n - 1, NEW r \in 0 .. 2^n - 1,
         Same(n, a * b, r)
  PROVE  (a # 0 /\ r \div a # b) <=> a * b # r
<1> PICK M \in Nat \ {0} : M = 2^n BY PowerType
<1> PICK e \in Int : e = a * b OBVIOUS
<1> PICK k \in Int : e = k * M + r BY DEF Same
<1>1. ASSUME e = 0 PROVE r = 0
  <2> PICK c \in Int : c = 0 OBVIOUS
  <2>1. e = c * M + c /\ c \in 0 .. M - 1 BY <1>1
  <2>2. e % M = c BY <2>1, ModUnique
  <2>3. e % M = r BY ModUnique
  <2> QED BY <2>2, <2>3
<1>2. CASE a = 0
  <2>1. e = 0 BY <1>2
  <2> QED BY <1>1, <1>2, <2>1
<1>3. CASE a # 0
  <2>0. a \in Nat \ {0} /\ b \in Int /\ r \in Int BY <1>3
  <2>1. ASSUME e = r PROVE r \div a = b
    <3> PICK s \in Int : s = 0 OBVIOUS
    <3>1. r = b * a + s BY <2>0, <2>1
    <3>2. s \in 0 .. a - 1 BY <2>0
    <3> QED BY <2>0, <3>1, <3>2, ModUnique
  <2>2. ASSUME r \div a = b PROVE e = r
    <3>1. PICK s \in 0 .. a - 1 : r = b * a + s
      <4>1. r % a \in 0 .. a - 1 /\ r = (r \div a) * a + (r % a) BY <2>0, ModFacts
      <4> QED BY <2>2, <4>1
    <3>2. b * a = e OBVIOUS
    <3>3. r = e + s /\ s < M /\ s >= 0 BY <2>0, <3>1, <3>2
    <3>4. k * M = -s BY <2>0, <3>3
    <3>5. ~(k >= 1)
      <4>1. SUFFICES ASSUME k >= 1 PROVE FALSE OBVIOUS
      <4>2. k * M >= M BY <4>1
      <4> QED BY <3>3, <3>4, <4>2
    <3>6. ~(k <= -1)
      <4>1. SUFFICES ASSUME -k >= 1 PROVE FALSE OBVIOUS
      <4>2. (-k) * M >= M BY <4>1
      <4>3. (-k) * M = -(k * M) OBVIOUS
      <4> QED BY <3>3, <3>4, <4>2, <4>3
    <3>7. k = 0 BY <3>5, <3>6
    <3>8. k * M = 0 BY <3>7
    <3>9. e = k * M + r OBVIOUS
    <3> QED BY <2>0, <3>8, <3>9
  <2> QED BY <1>3, <2>1, <2>2
<1> QED BY <1>2, <1>3

(* Unsigned 128-bit integers: the overflow is found by comparing, for a    *)
(* product by dividing.                                                    *)
LEMMA UnsignedOverflow ==
  ASSUME NEW op \in {"add", "sub", "mul"}, NEW x, NEW y, CVal(x), CVal(y),
         x.ty = Helpers!U128, y.ty = Helpers!U128
  PROVE  Checked(Helpers!U128, ExactOp(op, x.v, y.v), Helpers!overflow_u128(op, x, y))
<1> PICK ty : ty = Helpers!U128 OBVIOUS
<1>1. ty \in CTypes /\ ~ty.sgn /\ ty.bits >= HelperInt BY WidestTypes
<1> PICK n \in Exponents \ {0} : n = ty.bits BY <1>1 DEF CTypes
<1> PICK M \in Nat \ {0} : M = 2^n BY PowerType
<1>2. HelperInt \in Exponents \ {0} BY HelperScale
<1>3. Fits(ty, x.v) /\ Fits(ty, y.v) BY DEF CVal
<1> PICK a \in 0 .. M - 1, b \in 0 .. M - 1 : a = x.v /\ b = y.v BY <1>1, <1>3 DEF Fits
<1> PICK e \in Int : e = ExactOp(op, a, b) BY NumFacts
<1> PICK r : r = Helpers!Bin(Helpers!CBinOp(op), x, y) OBVIOUS
<1>4. CVal(r) /\ r.ty = ty /\ r.v = Ops!Wrap(ty, e)
  <2>1. BinAt(HelperInt, CNum(op), x, y) = Ops!Val(ty, Ops!Apply(CNum(op), n, a, b))
    BY <1>1, <1>2, BinWide
  <2>2. Ops!Apply(CNum(op), n, a, b) = e BY NumFacts
  <2>3. Helpers!CBinOp(op) = CNum(op) BY NumFacts
  <2>4. r = Ops!Val(ty, e) BY <2>1, <2>2, <2>3, HelpersC
  <2> QED BY <1>1, <2>4, ValFacts
<1>5. Fits(ty, r.v) BY <1>4 DEF CVal
<1> PICK w \in 0 .. M - 1 : w = r.v BY <1>1, <1>5 DEF Fits
<1>6. w = Ops!Wrap(ty, e) BY <1>4
<1>7. CASE op = "add"
  <2>1. e = a + b BY <1>7 DEF ExactOp
  <2>2. w = IF e < M THEN e ELSE e - M BY <1>1, <1>3, <1>6, <2>1, UnsignedWrap
  <2> PICK p \in BOOLEAN : p = (e # w) OBVIOUS
  <2>3. p = (w < a) BY <2>1, <2>2
  <2>4. Helpers!overflow_u128(op, x, y) = <<r, w < a>> BY <1>7 DEF Helpers!overflow_u128
  <2> QED BY <1>4, <1>6, <2>3, <2>4, CheckedPair
<1>8. CASE op = "sub"
  <2>1. e = a - b BY <1>8 DEF ExactOp
  <2>2. w = IF e >= 0 THEN e ELSE e + M BY <1>1, <1>3, <1>6, <2>1, UnsignedWrap
  <2> PICK p \in BOOLEAN : p = (e # w) OBVIOUS
  <2>3. p = (a < b) BY <2>1, <2>2
  <2>4. Helpers!overflow_u128(op, x, y) = <<r, a < b>> BY <1>8 DEF Helpers!overflow_u128
  <2> QED BY <1>4, <1>6, <2>3, <2>4, CheckedPair
<1>9. CASE op = "mul"
  <2>1. e = a * b BY <1>9 DEF ExactOp
  <2>3. (a # 0 /\ w \div a # b) <=> e # w
    <3>1. Same(n, w, e) BY <1>1, <1>6, WrapFacts
    <3>2. Same(n, a * b, w) BY <2>1, <3>1, SameBoth
    <3>3. (a # 0 /\ w \div a # b) <=> a * b # w BY <3>2, ProductTest
    <3> QED BY <2>1, <3>3
  <2> PICK q : q = Helpers!Bin("/", r, x) OBVIOUS
  <2>4. ASSUME a # 0 PROVE q.v = w \div a
    <3>1. BinAt(HelperInt, "/", r, x) = Ops!Val(ty, Ops!Apply("/", n, w, a)) BY <1>1, <1>2, <1>4, BinWide
    <3>2. Ops!Apply("/", n, w, a) = Ops!Quot(w, a) BY ApplyFacts
    <3>3. a \in Nat \ {0} /\ w \in Nat BY <2>4
    <3>4. Ops!Quot(w, a) = w \div a BY <3>3, NaturalQuot
    <3>5. q = Ops!Val(ty, w \div a) BY <3>1, <3>2, <3>4, HelpersC
    <3>6. w \div a \in 0 .. M - 1
      <4>1. PICK d \in Int, t \in 0 .. a - 1 : d = w \div a /\ w = d * a + t
        <5>1. w \div a \in Int /\ w % a \in 0 .. a - 1 /\ w = (w \div a) * a + (w % a) 
          BY <3>3, w \in Int, ModFacts
        <5> QED BY <5>1
      <4>2. d >= 0
        <5>1. SUFFICES ASSUME -d >= 1 PROVE FALSE BY <4>1
        <5>2. (-d) * a >= a BY <3>3, <5>1
        <5>3. (-d) * a = -(d * a) OBVIOUS
        <5> QED BY <4>1, <5>2, <5>3
      <4>3. d * a >= d BY <3>3, <4>2
      <4> QED BY <4>1, <4>2, <4>3
    <3>7. Fits(ty, w \div a) BY <1>1, <3>6 DEF Fits
    <3> QED BY <1>1, <3>5, <3>6, <3>7, ValFacts
  <2> PICK p \in BOOLEAN : p = (e # w) OBVIOUS
  <2>5. p = (a # 0 /\ q.v # b) BY <2>3, <2>4
  <2>6. Helpers!overflow_u128(op, x, y) = <<r, a # 0 /\ q.v # b>> BY <1>9 DEF Helpers!overflow_u128
  <2> QED BY <1>4, <1>6, <2>5, <2>6, CheckedPair
<1> QED BY <1>7, <1>8, <1>9

(* The highest bit of a number of a signed type is its sign. *)
LEMMA SignBit ==
  ASSUME NEW ty \in CTypes, ty.sgn, NEW v, Fits(ty, v)
  PROVE  Ops!Bit(v, ty.bits - 1) = IF v < 0 THEN 1 ELSE 0
<1> PICK n \in Exponents \ {0} : n = ty.bits BY DEF CTypes
<1>1. n - 1 \in Exponents /\ 2^n = 2 * 2^(n - 1) BY PowerStep
<1> PICK H \in Nat \ {0}, M \in Nat \ {0} : H = 2^(n - 1) /\ M = 2^n BY <1>1, PowerType
<1>2. M = 2 * H /\ v \in Int /\ -H <= v /\ v < H BY <1>1 DEF Fits
<1> PICK p \in 0 .. M - 1 : p = v % M BY <1>2, ModFacts
<1>3. p = IF v < 0 THEN v + M ELSE v
  <2>1. -M <= v /\ v < M BY <1>2
  <2>2. v >= 0 => v % M = v BY <1>2, <2>1, ModSmall
  <2>3. v < 0 => v % M = v + M BY <1>2, <2>1, ModSmall
  <2> QED BY <1>2, <2>2, <2>3
<1>4. Same(n, p, v) BY <1>2, SameMod
<1>5. n - 1 \in 0 .. n - 1 /\ p \in Int BY DEF Exponents
<1>6. Ops!Bit(p, n - 1) = Ops!Bit(v, n - 1) BY <1>2, <1>4, <1>5, SameBits
<1>7. Ops!Bit(p, n - 1) = IF p >= H THEN 1 ELSE 0 BY TopBit
<1> QED BY <1>2, <1>3, <1>6, <1>7

(* The complement turns every bit over. *)
LEMMA ComplementBit ==
  ASSUME NEW v \in Int, NEW i \in Exponents
  PROVE  Ops!Bit(-v - 1, i) = 1 - Ops!Bit(v, i)
<1> PICK I \in Nat \ {0} : I = 2^i BY PowerType
<1>1. PICK c \in Int, s \in 0 .. I - 1 : c = v \div I /\ v = c * I + s
  <2>1. v \div I \in Int /\ v % I \in 0 .. I - 1 /\ v = (v \div I) * I + (v % I) BY ModFacts
  <2> QED BY <2>1
<1> PICK u \in Int, d \in Int, t \in 0 .. I - 1 : u = -v - 1 /\ d = -c - 1 /\ t = I - 1 - s OBVIOUS
<1>2. d * I = -(c * I) - I OBVIOUS
<1>3. u = d * I + t BY <1>1, <1>2
<1>4. u \div I = d BY <1>3, ModUnique
<1>5. d % 2 = 1 - (c % 2) OBVIOUS
<1>6. Ops!Bit(v, i) = c % 2 BY <1>1 DEF Ops!Bit
<1>7. Ops!Bit(u, i) = d % 2 BY <1>4 DEF Ops!Bit
<1> QED BY <1>5, <1>6, <1>7

(* The bitwise operations on unsigned 128-bit integers. *)
LEMMA WideBit ==
  ASSUME NEW x, NEW y, CVal(x), CVal(y), x.ty = Helpers!U128, y.ty = Helpers!U128,
         NEW op \in {"&", "^"}, NEW i \in 0 .. 8 * HelperBits - 1
  PROVE  LET z == Helpers!Bin(op, x, y)
             j == Ops!Bit(x.v, i)
             k == Ops!Bit(y.v, i)
         IN /\ CVal(z) /\ z.ty = Helpers!U128
            /\ op = "&" => Ops!Bit(z.v, i) = j * k
            /\ op = "^" => Ops!Bit(z.v, i) = IF j = k THEN 0 ELSE 1
<1> PICK ty : ty = Helpers!U128 OBVIOUS
<1>1. ty \in CTypes /\ ty.bits >= HelperInt /\ ty.bits = 8 * HelperBits BY WidestTypes
<1>2. HelperInt \in Exponents \ {0} BY HelperScale
<1> PICK z : z = BinAt(HelperInt, op, x, y) OBVIOUS
<1>3. Helpers!Bin(op, x, y) = z BY HelpersC
<1>4. CVal(z) /\ z.ty = ty
  <2>1. ty.bits \in Exponents /\ x.v \in Int /\ y.v \in Int BY <1>1 DEF CTypes, CVal
  <2>2. Ops!Apply(op, ty.bits, x.v, y.v) \in Int BY <2>1, ApplyType DEF COps
  <2>3. z = Ops!Val(ty, Ops!Apply(op, ty.bits, x.v, y.v)) BY <1>1, <1>2, BinWide
  <2> QED BY <1>1, <2>2, <2>3, ValFacts
<1>5. Ops!Cast(ty, z).v = z.v
  <2>1. z.v \in Int /\ Fits(ty, z.v) BY <1>4 DEF CVal
  <2> QED BY <1>1, <2>1, CastFacts, ValFacts
<1>6. Operands(ty, x, y) BY LaneOperands
<1>7. i \in 0 .. ty.bits - 1 BY <1>1
<1>8. ASSUME op = "&" PROVE Ops!Bit(Ops!Cast(ty, z).v, i) = Ops!Bit(x.v, i) * Ops!Bit(y.v, i)
  BY <1>1, <1>2, <1>6, <1>7, <1>8, BitwiseCast
<1>9. ASSUME op = "^"
      PROVE  Ops!Bit(Ops!Cast(ty, z).v, i) = IF Ops!Bit(x.v, i) = Ops!Bit(y.v, i) THEN 0 ELSE 1
  BY <1>1, <1>2, <1>6, <1>7, <1>9, BitwiseCast
<1> QED BY <1>3, <1>4, <1>5, <1>8, <1>9

(* Sums and differences of two numbers of a signed type, wrapped. *)
LEMMA SignedWrap ==
  ASSUME NEW ty \in CTypes, ty.sgn, NEW e \in Int, -(2^ty.bits) <= e, e < 2^ty.bits
  PROVE  Ops!Wrap(ty, e) = IF e >= 2^(ty.bits - 1) THEN e - 2^ty.bits
                           ELSE IF e < -(2^(ty.bits - 1)) THEN e + 2^ty.bits ELSE e
<1> PICK n \in Exponents \ {0} : n = ty.bits BY DEF CTypes
<1>1. n - 1 \in Exponents /\ 2^n = 2 * 2^(n - 1) BY PowerStep
<1> PICK H \in Nat \ {0}, M \in Nat \ {0} : H = 2^(n - 1) /\ M = 2^n BY <1>1, PowerType
<1>2. M = 2 * H /\ -M <= e /\ e < M BY <1>1
<1> PICK w \in Int : w = IF e >= H THEN e - M ELSE IF e < -H THEN e + M ELSE e OBVIOUS
<1>3. Fits(ty, w) BY <1>2 DEF Fits
<1>4. Same(n, w, e)
  <2>1. PICK k \in Int : k \in {-1, 0, 1} /\ w = e + k * M
    <3>1. w = e + (-1) * M \/ w = e + 0 * M \/ w = e + 1 * M OBVIOUS
    <3> QED BY <3>1
  <2> QED BY <2>1 DEF Same
<1>5. w = Ops!Wrap(ty, e) BY <1>3, <1>4, WrapOnce
<1> QED BY <1>5

(* Signed 128-bit integers: an addition or subtraction overflows when the  *)
(* signs say so.                                                           *)
LEMMA SignedOverflow ==
  ASSUME NEW op \in {"add", "sub"}, NEW x, NEW y, CVal(x), CVal(y),
         x.ty = Helpers!I128, y.ty = Helpers!I128
  PROVE  Checked(Helpers!I128, ExactOp(op, x.v, y.v), Helpers!overflow_i128(op, x, y))
<1> PICK ty, ut : ty = Helpers!I128 /\ ut = Helpers!U128 OBVIOUS
<1>1. ty \in CTypes /\ ty.sgn /\ ut \in CTypes /\ ~ut.sgn /\ ut.bits >= HelperInt BY WidestTypes
<1>2. PICK n \in Exponents \ {0} : n = 8 * HelperBits /\ ty.bits = n /\ ut.bits = n
  BY HelperScale, WidestTypes
<1>3. PICK i \in 0 .. n - 1 : i \in Exponents /\ i = n - 1 /\ 2^n = 2 * 2^i
  <2>1. n - 1 \in Exponents /\ n - 1 \in 0 .. n - 1 /\ 2^n = 2 * 2^(n - 1) BY PowerStep DEF Exponents
  <2> QED BY <2>1
<1>4. PICK H \in Nat \ {0}, M \in Nat \ {0} : H = 2^i /\ M = 2^n /\ M = 2 * H BY <1>3, PowerType
<1>5. HelperInt \in Exponents \ {0} BY HelperScale
<1>6. Fits(ty, x.v) /\ Fits(ty, y.v) BY DEF CVal
<1> PICK a \in Int, b \in Int : a = x.v /\ b = y.v BY <1>6 DEF Fits
<1>7. -H <= a /\ a < H /\ -H <= b /\ b < H BY <1>1, <1>2, <1>3, <1>4, <1>6 DEF Fits
<1> PICK e \in Int : e = ExactOp(op, a, b) BY NumFacts
<1>8. (op = "add" /\ e = a + b) \/ (op = "sub" /\ e = a - b)
  <2>1. op = "add" => e = a + b BY DEF ExactOp
  <2>2. op = "sub" => e = a - b BY DEF ExactOp
  <2> QED BY <2>1, <2>2
<1> PICK ua, ub : ua = Ops!Cast(ut, x) /\ ub = Ops!Cast(ut, y) OBVIOUS
<1>9. CVal(ua) /\ ua.ty = ut /\ Same(n, ua.v, a)
  <2>1. ua = Ops!Val(ut, a) BY <1>1, CastFacts
  <2> QED BY <1>1, <1>2, <2>1, ValFacts
<1>10. CVal(ub) /\ ub.ty = ut /\ Same(n, ub.v, b)
  <2>1. ub = Ops!Val(ut, b) BY <1>1, CastFacts
  <2> QED BY <1>1, <1>2, <2>1, ValFacts
<1> PICK ka \in Int, kb \in Int : ka = ua.v /\ kb = ub.v BY <1>9, <1>10 DEF CVal
<1> PICK r : r = Ops!Cast(ty, BinAt(HelperInt, CNum(op), ua, ub)) OBVIOUS
<1>11. CVal(r) /\ r.ty = ty /\ r.v = Ops!Wrap(ty, e)
  <2> PICK f \in Int : f = ExactOp(op, ka, kb) BY NumFacts
  <2>1. BinAt(HelperInt, CNum(op), ua, ub) = Ops!Val(ut, Ops!Apply(CNum(op), n, ka, kb))
    BY <1>1, <1>2, <1>5, <1>9, <1>10, BinWide
  <2>2. Ops!Apply(CNum(op), n, ka, kb) = f
    <3>1. op \in {"add", "sub", "mul"} /\ n \in Exponents OBVIOUS
    <3>2. Ops!Apply(CNum(op), n, ka, kb) = ExactOp(op, ka, kb) BY <3>1, NumFacts
    <3> QED BY <3>2
  <2> PICK z : z = Ops!Val(ut, f) OBVIOUS
  <2>3. CVal(z) /\ Same(n, z.v, f) BY <1>1, <1>2, ValFacts
  <2>4. r = Ops!Val(ty, z.v) BY <1>1, <2>1, <2>2, CastFacts
  <2> PICK c \in Int : c = z.v BY <2>3 DEF CVal
  <2>5. CVal(r) /\ r.ty = ty /\ Same(n, r.v, c) BY <1>1, <1>2, <2>4, ValFacts
  <2>6. Same(n, f, e)
    <3>1. Same(n, ka + kb, a + b) /\ Same(n, ka - kb, a - b) BY <1>9, <1>10, SameArith
    <3>2. op = "add" => f = ka + kb BY DEF ExactOp
    <3>3. op = "sub" => f = ka - kb BY DEF ExactOp
    <3> QED BY <1>8, <3>1, <3>2, <3>3
  <2>7. r.v \in Int /\ Fits(ty, r.v) BY <2>5 DEF CVal
  <2>8. Same(n, r.v, f) BY <2>3, <2>5, <2>7, SameBoth
  <2>9. Same(n, r.v, e) BY <2>6, <2>7, <2>8, SameBoth
  <2> QED BY <1>1, <1>2, <2>5, <2>7, <2>9, WrapOnce
<1> PICK w \in Int : w = r.v BY <1>11 DEF CVal
<1>12. w = IF e >= H THEN e - M ELSE IF e < -H THEN e + M ELSE e
  <2>1. -M <= e /\ e < M BY <1>4, <1>7, <1>8
  <2> QED BY <1>1, <1>2, <1>3, <1>4, <1>11, <2>1, SignedWrap
<1> PICK ur : ur = Ops!Cast(ut, r) OBVIOUS
<1>13. CVal(ur) /\ ur.ty = ut /\ Same(n, ur.v, w)
  <2>1. ur = Ops!Val(ut, w) BY <1>1, CastFacts
  <2> QED BY <1>1, <1>2, <2>1, ValFacts
<1>14. Ops!Bit(ua.v, i) = IF a < 0 THEN 1 ELSE 0
  <2>1. Ops!Bit(ka, i) = Ops!Bit(a, i) BY <1>9, SameBits
  <2> QED BY <1>1, <1>2, <1>3, <1>6, <2>1, SignBit
<1>15. Ops!Bit(ub.v, i) = IF b < 0 THEN 1 ELSE 0
  <2>1. Ops!Bit(kb, i) = Ops!Bit(b, i) BY <1>10, SameBits
  <2> QED BY <1>1, <1>2, <1>3, <1>6, <2>1, SignBit
<1>16. Ops!Bit(ur.v, i) = IF w < 0 THEN 1 ELSE 0
  <2> PICK k \in Int : k = ur.v BY <1>13 DEF CVal
  <2>1. Ops!Bit(k, i) = Ops!Bit(w, i) BY <1>13, SameBits
  <2>2. Fits(ty, w) BY <1>11 DEF CVal
  <2> QED BY <1>1, <1>2, <1>3, <2>1, <2>2, SignBit
<1>17. i \in 0 .. 8 * HelperBits - 1 BY <1>2
<1> PICK s : s = Helpers!Bin("^", ua, ub) OBVIOUS
<1>18. CVal(s) /\ s.ty = ut /\ Ops!Bit(s.v, i) = IF (a < 0) = (b < 0) THEN 0 ELSE 1
  <2>1. /\ CVal(s) /\ s.ty = ut
        /\ Ops!Bit(s.v, i) = IF Ops!Bit(ua.v, i) = Ops!Bit(ub.v, i) THEN 0 ELSE 1
    BY <1>9, <1>10, <1>17, WideBit
  <2> QED BY <1>14, <1>15, <2>1
<1> PICK ns : ns = Helpers!BitNot(s) OBVIOUS
<1>19. CVal(ns) /\ ns.ty = ut /\ Ops!Bit(ns.v, i) = IF (a < 0) = (b < 0) THEN 1 ELSE 0
  <2> PICK sv \in Int : sv = s.v BY <1>18 DEF CVal
  <2> PICK c \in Int : c = -sv - 1 OBVIOUS
  <2>1. PromoteAt(HelperInt, s) = s BY <1>1, <1>5, <1>18, PromoteFacts
  <2>2. Helpers!Promote(s) = s BY <2>1, HelpersC
  <2>3. ns = Ops!Val(ut, c) BY <1>18, <2>2, HelpersC DEF Helpers!BitNot
  <2>4. CVal(ns) /\ ns.ty = ut /\ Same(n, ns.v, c) BY <1>1, <1>2, <2>3, ValFacts
  <2> PICK nv \in Int : nv = ns.v BY <2>4 DEF CVal
  <2>5. Ops!Bit(nv, i) = Ops!Bit(c, i) BY <2>4, SameBits
  <2>6. Ops!Bit(c, i) = 1 - Ops!Bit(sv, i) BY <1>3, ComplementBit
  <2> QED BY <1>18, <2>4, <2>5, <2>6
<1> PICK same : same = IF op = "add" THEN ns ELSE s OBVIOUS
<1>20. /\ CVal(same) /\ same.ty = ut
       /\ Ops!Bit(same.v, i) = IF ((a < 0) = (b < 0)) = (op = "add") THEN 1 ELSE 0
  BY <1>18, <1>19
<1> PICK d : d = Helpers!Bin("^", ur, ua) OBVIOUS
<1>21. CVal(d) /\ d.ty = ut /\ Ops!Bit(d.v, i) = IF (w < 0) = (a < 0) THEN 0 ELSE 1
  <2>1. /\ CVal(d) /\ d.ty = ut
        /\ Ops!Bit(d.v, i) = IF Ops!Bit(ur.v, i) = Ops!Bit(ua.v, i) THEN 0 ELSE 1
    BY <1>9, <1>13, <1>17, WideBit
  <2> QED BY <1>14, <1>16, <2>1
<1> PICK t : t = Helpers!Bin("&", same, d) OBVIOUS
<1>22. CVal(t) /\ t.ty = ut /\ Ops!Bit(t.v, i) = Ops!Bit(same.v, i) * Ops!Bit(d.v, i)
  BY <1>17, <1>20, <1>21, WideBit
<1> PICK z : z = Ops!Cast(ty, t) OBVIOUS
<1>23. CVal(z) /\ z.ty = ty /\ Ops!Bit(z.v, i) = Ops!Bit(t.v, i)
  <2> PICK c \in Int : c = t.v BY <1>22 DEF CVal
  <2>1. z = Ops!Val(ty, c) BY <1>1, CastFacts
  <2>2. CVal(z) /\ z.ty = ty /\ Same(n, z.v, c) BY <1>1, <1>2, <2>1, ValFacts
  <2> PICK k \in Int : k = z.v BY <2>2 DEF CVal
  <2>3. Ops!Bit(k, i) = Ops!Bit(c, i) BY <2>2, SameBits
  <2> QED BY <2>2, <2>3
<1>24. Ops!Bit(z.v, i) = IF z.v < 0 THEN 1 ELSE 0
  <2>1. Fits(ty, z.v) BY <1>23 DEF CVal
  <2> QED BY <1>1, <1>2, <1>3, <2>1, SignBit
<1>25. (z.v < 0) <=> ((a < 0) = (b < 0)) = (op = "add") /\ (w < 0) # (a < 0)
  <2> PICK j \in {0, 1}, k \in {0, 1} : j = Ops!Bit(same.v, i) /\ k = Ops!Bit(d.v, i) BY <1>20, <1>21
  <2>1. (z.v < 0) <=> j * k = 1 BY <1>22, <1>23, <1>24
  <2>2. (j * k = 1) <=> j = 1 /\ k = 1 OBVIOUS
  <2>3. (j = 1) <=> ((a < 0) = (b < 0)) = (op = "add") BY <1>20
  <2>4. (k = 1) <=> (w < 0) # (a < 0) BY <1>21
  <2> QED BY <2>1, <2>2, <2>3, <2>4
<1>26. (z.v < 0) <=> e # w
  <2>1. CASE op = "add" /\ e = a + b BY <1>4, <1>7, <1>12, <1>25, <2>1
  <2>2. CASE op = "sub" /\ e = a - b BY <1>4, <1>7, <1>12, <1>25, <2>2
  <2> QED BY <1>8, <2>1, <2>2
<1>27. Helpers!overflow_i128(op, x, y) = <<r, z.v < 0>>
  <2>1. Helpers!CBinOp(op) = CNum(op) BY NumFacts
  <2>2. r = Helpers!Cast(ty, Helpers!Bin(Helpers!CBinOp(op), ua, ub)) BY <2>1, HelpersC
  <2>3. op # "mul" OBVIOUS
  <2> QED BY <2>2, <2>3, HelpersC DEF Helpers!overflow_i128, Helpers!BitXor, Helpers!BitAnd
<1> PICK p \in BOOLEAN : p = (e # w) OBVIOUS
<1>28. Helpers!overflow_i128(op, x, y) = <<r, p>> BY <1>26, <1>27
<1>29. p = (e # Ops!Wrap(ty, e)) BY <1>11
<1>30. Checked(ty, e, <<r, p>>) BY <1>11, <1>29, CheckedPair
<1>31. e = ExactOp(op, x.v, y.v) OBVIOUS
<1> QED BY <1>28, <1>30, <1>31

LEMMA CheckedBinop ==
  ASSUME NEW ty \in Helpers!Types, NEW op \in {"add", "sub", "mul"}, ty = Helpers!I128 => op # "mul",
         NEW x, NEW y, CVal(x), CVal(y), x.ty = ty, y.ty = ty
  PROVE  Checked(ty, ExactOp(op, x.v, y.v), Helpers!checked_binop(op, ty, x, y))
<1>0. Helpers!U128 # Helpers!I128 BY WidestTypes
<1>1. CASE ty = Helpers!U128
  <2>1. Helpers!checked_binop(op, ty, x, y) = Helpers!overflow_u128(op, x, y)
    BY <1>0, <1>1 DEF Helpers!checked_binop
  <2> QED BY <1>1, <2>1, UnsignedOverflow
<1>2. CASE ty = Helpers!I128
  <2>1. Helpers!checked_binop(op, ty, x, y) = Helpers!overflow_i128(op, x, y)
    BY <1>0, <1>2 DEF Helpers!checked_binop
  <2>2. op \in {"add", "sub"} BY <1>2
  <2> QED BY <1>2, <2>1, <2>2, SignedOverflow
<1>3. CASE ty # Helpers!U128 /\ ty # Helpers!I128
  <2>1. Helpers!checked_binop(op, ty, x, y) = Helpers!widening(op, ty, x, y)
    BY <1>3 DEF Helpers!checked_binop
  <2>2. ty.bits # 8 * HelperBits BY <1>3, WidestTypes
  <2> QED BY <2>1, <2>2, WideningExact
<1> QED BY <1>1, <1>2, <1>3

(* The bounds of a type. *)
LEMMA BoundsFit ==
  ASSUME NEW ty \in CTypes
  PROVE  /\ Helpers!Least(ty) \in Int /\ Helpers!Greatest(ty) \in Int
         /\ \A v \in Int : Fits(ty, v) <=> Helpers!Least(ty) <= v /\ v <= Helpers!Greatest(ty)
         /\ Helpers!Least(ty) <= 0 /\ 0 <= Helpers!Greatest(ty)
<1> PICK n \in Exponents \ {0} : n = ty.bits BY DEF CTypes
<1>1. n - 1 \in Exponents BY PowerStep
<1> PICK H \in Nat \ {0}, M \in Nat \ {0} : H = 2^(n - 1) /\ M = 2^n BY <1>1, PowerType
<1>2. Helpers!Least(ty) = IF ty.sgn THEN -H ELSE 0 BY DEF Helpers!Least
<1>3. Helpers!Greatest(ty) = IF ty.sgn THEN H - 1 ELSE M - 1 BY DEF Helpers!Greatest
<1>4. \A v \in Int : Fits(ty, v) <=> IF ty.sgn THEN -H <= v /\ v < H ELSE 0 <= v /\ v < M BY DEF Fits
<1> QED BY <1>2, <1>3, <1>4

(* The representable number nearest to e. *)
Nearest(ty, e) ==
  IF e > Helpers!Greatest(ty) THEN Helpers!Greatest(ty)
  ELSE IF e < Helpers!Least(ty) THEN Helpers!Least(ty) ELSE e

LEMMA ClampNearest ==
  ASSUME NEW ty \in Helpers!Types, ty # Helpers!I128, NEW op \in {"add", "sub"},
         NEW x, NEW y, CVal(x), CVal(y), x.ty = ty, y.ty = ty, ~Fits(ty, ExactOp(op, x.v, y.v))
  PROVE  /\ Helpers!Clamp(op, ty, y) = Nearest(ty, ExactOp(op, x.v, y.v))
         /\ Fits(ty, Helpers!Clamp(op, ty, y))
<1>1. ty \in CTypes /\ ty.bits \in Helpers!Widths BY HelperTypes
<1> PICK lo \in Int, hi \in Int : lo = Helpers!Least(ty) /\ hi = Helpers!Greatest(ty) BY <1>1, BoundsFit
<1>2. \A v \in Int : Fits(ty, v) <=> lo <= v /\ v <= hi BY <1>1, BoundsFit
<1>3. lo <= 0 /\ 0 <= hi BY <1>1, BoundsFit
<1>4. Fits(ty, x.v) /\ Fits(ty, y.v) BY DEF CVal
<1> PICK a \in Int, b \in Int : a = x.v /\ b = y.v BY <1>4 DEF Fits
<1>5. lo <= a /\ a <= hi /\ lo <= b /\ b <= hi BY <1>2, <1>4
<1> PICK e \in Int : e = ExactOp(op, a, b) BY DEF ExactOp
<1>6. (op = "add" => e = a + b) /\ (op = "sub" => e = a - b) BY DEF ExactOp
<1>7. e < lo \/ e > hi BY <1>2
<1> PICK c : c = Helpers!Clamp(op, ty, y) OBVIOUS
<1>8. CASE ty.sgn
  <2>1. ~(ty.bits > 4 * HelperBits)
    <3>1. ty.bits # 8 * HelperBits BY <1>8, WidestTypes
    <3>2. HelperBits \in Nat BY HelperScale
    <3> QED BY <1>1, <3>1, <3>2 DEF Helpers!Widths
  <2>2. c = IF (op = "add") = (b > 0) THEN hi ELSE lo
    BY <1>8, <2>1 DEF Helpers!Clamp, Helpers!Least, Helpers!Greatest
  <2>3. (op = "add") = (b > 0) => e > hi BY <1>3, <1>5, <1>6, <1>7
  <2>4. (op = "add") # (b > 0) => e < lo BY <1>3, <1>5, <1>6, <1>7
  <2>5. c = IF e > hi THEN hi ELSE IF e < lo THEN lo ELSE e BY <1>3, <2>2, <2>3, <2>4
  <2>6. Fits(ty, c) BY <1>2, <1>3, <2>2
  <2> QED BY <2>5, <2>6 DEF Nearest
<1>9. CASE ~ty.sgn
  <2>1. lo = 0 BY <1>9 DEF Helpers!Least
  <2>2. c = IF op = "add" THEN hi ELSE lo BY <1>9 DEF Helpers!Clamp, Helpers!Least, Helpers!Greatest
  <2>3. op = "add" => e > hi BY <1>5, <1>6, <1>7, <2>1
  <2>4. op = "sub" => e < lo BY <1>5, <1>6, <1>7, <2>1
  <2>5. c = IF e > hi THEN hi ELSE IF e < lo THEN lo ELSE e BY <1>3, <2>2, <2>3, <2>4
  <2>6. Fits(ty, c) BY <1>2, <1>3, <2>2
  <2> QED BY <2>5, <2>6 DEF Nearest
<1> QED BY <1>8, <1>9

LEMMA Saturating ==
  ASSUME NEW ty \in Helpers!Types, ty # Helpers!I128, NEW op \in {"add", "sub"},
         NEW x, NEW y, CVal(x), CVal(y), x.ty = ty, y.ty = ty
  PROVE  Helpers!codegen_saturating(op, ty, x, y).v = Nearest(ty, ExactOp(op, x.v, y.v))
<1>1. ty \in CTypes BY HelperTypes
<1>2. x.v \in Int /\ y.v \in Int BY DEF CVal
<1> PICK e : e = ExactOp(op, x.v, y.v) OBVIOUS
<1>3. e \in Int BY <1>2 DEF ExactOp
<1> PICK c : c = Helpers!checked_binop(op, ty, x, y) OBVIOUS
<1>4. c[1].v = Ops!Wrap(ty, e) /\ c[2] = (e # Ops!Wrap(ty, e)) BY CheckedBinop DEF Checked
<1>5. CASE Fits(ty, e)
  <2>1. Ops!Wrap(ty, e) = e BY <1>1, <1>3, <1>5, WrapFacts
  <2>2. ~c[2] BY <1>4, <2>1
  <2>3. Helpers!codegen_saturating(op, ty, x, y) = c[1] BY <2>2 DEF Helpers!codegen_saturating
  <2>4. ~(e > Helpers!Greatest(ty)) /\ ~(e < Helpers!Least(ty)) BY <1>1, <1>3, <1>5, BoundsFit
  <2>5. Nearest(ty, e) = e BY <2>4 DEF Nearest
  <2> QED BY <1>4, <2>1, <2>3, <2>5
<1>6. CASE ~Fits(ty, e)
  <2>1. e # Ops!Wrap(ty, e) BY <1>1, <1>3, <1>6, WrapFacts
  <2>2. c[2] BY <1>4, <2>1
  <2>3. Helpers!codegen_saturating(op, ty, x, y) = Ops!Val(ty, Helpers!Clamp(op, ty, y))
    BY <2>2, HelpersC DEF Helpers!codegen_saturating
  <2>4. Fits(ty, Helpers!Clamp(op, ty, y)) /\ Helpers!Clamp(op, ty, y) = Nearest(ty, e)
    BY <1>6, ClampNearest
  <2>5. Helpers!Clamp(op, ty, y) \in Int BY <2>4 DEF Fits
  <2> QED BY <1>1, <2>3, <2>4, <2>5, ValFacts
<1> QED BY <1>5, <1>6

(* Both words of a number. *)
Words(n, lo, hi, e) ==
  /\ Ops!Pattern(n, lo) = e % 2^n
  /\ Ops!Pattern(n, hi) = (e \div 2^n) % 2^n

(* Numbers with the same 2n bits have the same upper n bits. *)
LEMMA SameUpper ==
  ASSUME NEW n \in Exponents, 2 * n \in Exponents, NEW u \in Int, NEW v \in Int, Same(2 * n, u, v)
  PROVE  u \div 2^n \in Int /\ v \div 2^n \in Int /\ Same(n, u \div 2^n, v \div 2^n)
<1> PICK P \in Nat \ {0} : P = 2^n BY PowerType
<1>1. 2^(2 * n) = P * P
  <2>1. n + n = 2 * n /\ n \in Nat BY DEF Exponents
  <2>2. 2^(n + n) = 2^n * 2^n BY <2>1, PowerSum
  <2> QED BY <2>1, <2>2
<1>2. PICK k \in Int : u = v + k * (P * P) BY <1>1 DEF Same
<1>3. PICK c \in Int, s \in 0 .. P - 1 : c = v \div P /\ v = c * P + s
  <2>1. v \div P \in Int /\ v % P \in 0 .. P - 1 /\ v = (v \div P) * P + (v % P) BY ModFacts
  <2> QED BY <2>1
<1> PICK kP \in Int : kP = k * P OBVIOUS
<1> PICK d \in Int : d = c + kP OBVIOUS
<1>4. k * (P * P) = kP * P OBVIOUS
<1>5. d * P = c * P + kP * P OBVIOUS
<1>6. u = d * P + s BY <1>2, <1>3, <1>4, <1>5
<1>7. u \div P = d BY <1>6, ModUnique
<1>8. Same(n, d, c) BY DEF Same
<1> QED BY <1>3, <1>7, <1>8

(* The words of a number are those of another one with the same 2n bits. *)
LEMMA WideWords ==
  ASSUME NEW n \in Exponents \ {0}, 2 * n \in Exponents, NEW e \in Int, NEW v \in Int, Same(2 * n, v, e),
         NEW lo \in Int, Same(n, lo, v),
         NEW h \in Int, Same(2 * n, h, v \div 2^n), NEW hi \in Int, Same(n, hi, h)
  PROVE  Words(n, lo, hi, e)
<1>1. n \in Nat /\ n <= 2 * n BY DEF Exponents
<1>2. v \div 2^n \in Int /\ e \div 2^n \in Int /\ Same(n, v \div 2^n, e \div 2^n) BY SameUpper
<1> PICK uv \in Int, ue \in Int : uv = v \div 2^n /\ ue = e \div 2^n BY <1>2
<1>3. Same(n, v, e) BY <1>1, SameNarrow
<1>4. Same(n, lo, e) BY <1>3, SameBoth
<1>5. Same(n, h, uv) BY <1>1, SameNarrow
<1>6. Same(n, uv, ue) BY <1>2
<1>7. Same(n, hi, uv) BY <1>5, SameBoth
<1>8. Same(n, hi, ue) BY <1>6, <1>7, SameBoth
<1>9. lo % 2^n = e % 2^n BY <1>4, SameMod
<1>10. hi % 2^n = ue % 2^n BY <1>8, SameMod
<1> QED BY <1>9, <1>10 DEF Words, Ops!Pattern

(* Up to 64 bits, the sum in the double width has both words.              *)
LEMMA CarryingWide ==
  ASSUME NEW ty \in Helpers!Types, ty.bits # 8 * HelperBits, NEW x, NEW y, NEW c, NEW d,
         CVal(x), CVal(y), CVal(c), CVal(d), x.ty = ty, y.ty = ty, c.ty = ty, d.ty = ty
  PROVE  LET r == Helpers!mul_add_wide(ty, x, y, c, d)
         IN Words(ty.bits, r[1].v, r[2].v, x.v * y.v + c.v + d.v)
<1>1. ty \in CTypes /\ ty.bits \in Helpers!Widths BY HelperTypes
<1>2. PICK n \in Exponents \ {0} : n = ty.bits BY HelperTypes
<1> PICK s \in BOOLEAN : s = ty.sgn BY <1>1 DEF CTypes
<1>3. 2 * n \in Exponents \ {0} /\ n \in Nat BY <1>1, <1>2, HelperScale DEF Exponents
<1>4. PICK t \in CTypes : t = Ops!Type(2 * n, s) /\ t.bits = 2 * n /\ t.sgn = s BY <1>3, TypeFacts
<1>5. Helpers!Wide(ty) = t BY <1>2, <1>4, HelpersC DEF Helpers!Wide
<1>6. HelperInt \in Exponents \ {0} BY HelperScale
<1>7. t.bits >= HelperInt
  <2>1. HelperBits \in Nat BY HelperScale
  <2>2. n >= HelperBits BY <1>1, <1>2, <2>1 DEF Helpers!Widths
  <2> QED BY <1>3, <1>4, <2>1, <2>2 DEF HelperInt
<1>8. ty.bits < t.bits BY <1>2, <1>3, <1>4
<1> PICK vx \in Int, vy \in Int, vc \in Int, vd \in Int :
      vx = x.v /\ vy = y.v /\ vc = c.v /\ vd = d.v
  BY DEF CVal
<1> PICK wx, wy, wc, wd :
      /\ wx = Ops!Cast(t, x) /\ wy = Ops!Cast(t, y)
      /\ wc = Ops!Cast(t, c) /\ wd = Ops!Cast(t, d)
  OBVIOUS
<1>9. CVal(wx) /\ wx.ty = t /\ wx.v = vx BY <1>1, <1>4, <1>8, CastWider
<1>10. CVal(wy) /\ wy.ty = t /\ wy.v = vy BY <1>1, <1>4, <1>8, CastWider
<1>11. CVal(wc) /\ wc.ty = t /\ wc.v = vc BY <1>1, <1>4, <1>8, CastWider
<1>12. CVal(wd) /\ wd.ty = t /\ wd.v = vd BY <1>1, <1>4, <1>8, CastWider
<1> PICK m \in Int : m = vx * vy OBVIOUS
<1> PICK p : p = BinAt(HelperInt, "*", wx, wy) OBVIOUS
<1>13. CVal(p) /\ p.ty = t /\ Same(2 * n, p.v, m)
  <2>1. p = Ops!Val(t, Ops!Apply("*", 2 * n, vx, vy)) BY <1>4, <1>6, <1>7, <1>9, <1>10, BinWide
  <2>2. Ops!Apply("*", 2 * n, vx, vy) = m BY <1>3, ApplyFacts
  <2> QED BY <1>4, <2>1, <2>2, ValFacts
<1> PICK vp \in Int : vp = p.v BY <1>13 DEF CVal
<1> PICK q : q = BinAt(HelperInt, "+", p, wc) OBVIOUS
<1>14. CVal(q) /\ q.ty = t /\ Same(2 * n, q.v, vp + vc)
  <2>1. q = Ops!Val(t, Ops!Apply("+", 2 * n, vp, vc)) BY <1>4, <1>6, <1>7, <1>11, <1>13, BinWide
  <2>2. Ops!Apply("+", 2 * n, vp, vc) = vp + vc /\ vp + vc \in Int BY <1>3, ApplyFacts
  <2> QED BY <1>4, <2>1, <2>2, ValFacts
<1> PICK vq \in Int : vq = q.v BY <1>14 DEF CVal
<1> PICK z : z = BinAt(HelperInt, "+", q, wd) OBVIOUS
<1>15. CVal(z) /\ z.ty = t /\ Same(2 * n, z.v, vq + vd)
  <2>1. z = Ops!Val(t, Ops!Apply("+", 2 * n, vq, vd)) BY <1>4, <1>6, <1>7, <1>12, <1>14, BinWide
  <2>2. Ops!Apply("+", 2 * n, vq, vd) = vq + vd /\ vq + vd \in Int BY <1>3, ApplyFacts
  <2> QED BY <1>4, <2>1, <2>2, ValFacts
<1> PICK vz \in Int : vz = z.v BY <1>15 DEF CVal
<1> PICK e \in Int : e = m + vc + vd OBVIOUS
<1>16. Same(2 * n, vz, e)
  <2> PICK k \in Exponents : k = 2 * n BY <1>3
  <2>1. Same(k, vc, vc) /\ Same(k, vd, vd) BY SameItself
  <2>2. Same(k, vp + vc, m + vc) BY <1>13, <2>1, SameArith
  <2>3. Same(k, vq, m + vc)
    <3> PICK f \in Int, g \in Int : f = vp + vc /\ g = m + vc OBVIOUS
    <3>1. Same(k, vq, f) /\ Same(k, f, g) BY <1>14, <2>2
    <3>2. Same(k, vq, g) BY <3>1, SameBoth
    <3> QED BY <3>2
  <2> PICK g \in Int : g = m + vc OBVIOUS
  <2>4. Same(k, vq + vd, g + vd) BY <2>1, <2>3, SameArith
  <2> PICK f \in Int : f = vq + vd OBVIOUS
  <2>5. Same(k, vz, f) /\ Same(k, f, e) BY <1>15, <2>4
  <2>6. Same(k, vz, e) BY <2>5, SameBoth
  <2> QED BY <2>6
<1> PICK w : w = Ops!Cast(t, z) OBVIOUS
<1>17. CVal(w) /\ w.ty = t /\ w.v = vz
  <2>1. w = Ops!Val(t, vz) BY <1>4, CastFacts
  <2>2. Fits(t, vz) BY <1>15 DEF CVal
  <2> QED BY <1>4, <2>1, <2>2, ValFacts
<1> PICK lo : lo = Ops!Cast(ty, w) OBVIOUS
<1>18. CVal(lo) /\ Same(n, lo.v, vz)
  <2>1. lo = Ops!Val(ty, vz) BY <1>1, <1>17, CastFacts
  <2> QED BY <1>1, <1>2, <2>1, ValFacts
<1>19. vz \div 2^n \in Int /\ e \div 2^n \in Int /\ Same(n, vz \div 2^n, e \div 2^n)
  BY <1>3, <1>16, SameUpper
<1> PICK uz \in Int : uz = vz \div 2^n BY <1>19
<1> PICK h : h = Helpers!Shr(w, n) OBVIOUS
<1>20. CVal(h) /\ h.ty = t /\ Same(2 * n, h.v, uz)
  <2>1. PromoteAt(HelperInt, w) = w BY <1>6, <1>7, <1>17, PromoteFacts
  <2>2. Helpers!Promote(w) = w BY <2>1, HelpersC
  <2>3. h = Ops!Val(t, uz) BY <1>17, <2>2, HelpersC DEF Helpers!Shr
  <2> QED BY <1>4, <2>3, ValFacts
<1> PICK vh \in Int : vh = h.v BY <1>20 DEF CVal
<1> PICK hi : hi = Ops!Cast(ty, h) OBVIOUS
<1>21. CVal(hi) /\ Same(n, hi.v, vh)
  <2>1. hi = Ops!Val(ty, vh) BY <1>1, CastFacts
  <2> QED BY <1>1, <1>2, <2>1, ValFacts
<1> PICK vlo \in Int, vhi \in Int : vlo = lo.v /\ vhi = hi.v BY <1>18, <1>21 DEF CVal
<1>22. Words(n, vlo, vhi, e) BY <1>3, <1>16, <1>18, <1>20, <1>21, WideWords
<1>23. Helpers!mul_add_wide(ty, x, y, c, d) = <<lo, hi>>
  <2>1. /\ Helpers!Cast(Helpers!Wide(ty), x) = wx /\ Helpers!Cast(Helpers!Wide(ty), y) = wy
        /\ Helpers!Cast(Helpers!Wide(ty), c) = wc /\ Helpers!Cast(Helpers!Wide(ty), d) = wd
    BY <1>5, HelpersC
  <2>2. Helpers!Bin("*", wx, wy) = p /\ Helpers!Bin("+", p, wc) = q /\ Helpers!Bin("+", q, wd) = z
    BY HelpersC
  <2>3. Helpers!Cast(Helpers!Wide(ty), z) = w BY <1>5, HelpersC
  <2>4. Helpers!Cast(ty, w) = lo /\ Helpers!Cast(ty, Helpers!Shr(w, ty.bits)) = hi BY <1>2, HelpersC
  <2> QED BY <2>1, <2>2, <2>3, <2>4 DEF Helpers!mul_add_wide
<1>24. e = x.v * y.v + c.v + d.v OBVIOUS
<1> QED BY <1>2, <1>22, <1>23, <1>24

(* The carry of a sum, found by comparing it with a summand. *)
LEMMA CarryOut ==
  ASSUME NEW A \in Nat \ {0}, NEW x \in 0 .. A - 1, NEW y \in 0 .. A - 1
  PROVE  \E c \in {0, 1}, r \in 0 .. A - 1 :
           /\ r = (x + y) % A /\ x + y = c * A + r
           /\ (c = 1 <=> r < x) /\ (c = 1 <=> r < y)
<1> PICK e \in Int : e = x + y OBVIOUS
<1>1. PICK c \in {0, 1}, r \in 0 .. A - 1 : e = c * A + r /\ (c = 0 => e < A) /\ (c = 1 => e >= A)
  <2>1. CASE e < A
    <3>1. e = 0 * A + e /\ e \in 0 .. A - 1 BY <2>1
    <3> QED BY <2>1, <3>1
  <2>2. CASE e >= A
    <3>1. e = 1 * A + (e - A) /\ e - A \in 0 .. A - 1 BY <2>2
    <3> QED BY <2>2, <3>1
  <2> QED BY <2>1, <2>2
<1>2. c \in Int OBVIOUS
<1>3. e % A = r BY <1>1, <1>2, ModUnique
<1>4. (c = 1 <=> r < x) /\ (c = 1 <=> r < y)
  <2>1. CASE c = 0
    <3>1. c * A = 0 BY <2>1
    <3> QED BY <1>1, <2>1, <3>1
  <2>2. CASE c = 1
    <3>1. c * A = A BY <2>2
    <3> QED BY <1>1, <2>2, <3>1
  <2> QED BY <2>1, <2>2
<1> QED BY <1>1, <1>3, <1>4

(* A number below H * H in two halves. *)
LEMMA Halves ==
  ASSUME NEW H \in Nat \ {0}, NEW A \in Nat, A = H * H, NEW x \in 0 .. A - 1
  PROVE  \E q \in 0 .. H - 1, s \in 0 .. H - 1 : q = x \div H /\ s = x % H /\ x = q * H + s
<1>1. PICK q \in Int, s \in 0 .. H - 1 : q = x \div H /\ s = x % H /\ x = q * H + s
  <2>1. x \in Int /\ x \div H \in Int /\ x % H \in 0 .. H - 1 /\ x = (x \div H) * H + (x % H) BY ModFacts
  <2> QED BY <2>1
<1>2. q >= 0
  <2>1. SUFFICES ASSUME -q >= 1 PROVE FALSE OBVIOUS
  <2>2. (-q) * H >= H BY <2>1
  <2>3. (-q) * H = -(q * H) OBVIOUS
  <2> QED BY <1>1, <2>2, <2>3
<1>3. q < H
  <2>1. SUFFICES ASSUME q - H >= 0 PROVE FALSE OBVIOUS
  <2>2. (q - H) * H >= 0 BY <2>1
  <2>3. (q - H) * H = q * H - H * H OBVIOUS
  <2> QED BY <1>1, <2>2, <2>3
<1>4. q \in 0 .. H - 1 BY <1>2, <1>3
<1> QED BY <1>1, <1>4

LEMMA HalfProduct ==
  ASSUME NEW H \in Nat \ {0}, NEW A \in Nat, A = H * H, NEW x \in 0 .. H - 1, NEW y \in 0 .. H - 1
  PROVE  x * y \in 0 .. A - 1
<1>1. x * y >= 0 OBVIOUS
<1>2. x * y <= x * H BY H - y >= 0, x * (H - y) >= 0
<1>3. (H - 1 - x) * H >= 0 OBVIOUS
<1>4. (H - 1 - x) * H = H * H - H - x * H OBVIOUS
<1> PICK p \in Int, q \in Int : p = x * y /\ q = x * H OBVIOUS
<1>5. p >= 0 /\ p <= q /\ q <= A - H BY <1>1, <1>2, <1>3, <1>4
<1> QED BY <1>5

(* The four products of the halves. *)
LEMMA FourProducts ==
  ASSUME NEW H \in Int, NEW p \in Int, NEW q \in Int, NEW r \in Int, NEW s \in Int
  PROVE  (p * H + q) * (r * H + s) = (p * r) * (H * H) + (p * s + q * r) * H + q * s
<1> PICK pH \in Int, rH \in Int : pH = p * H /\ rH = r * H OBVIOUS
<1>1. (pH + q) * (rH + s) = pH * rH + pH * s + q * rH + q * s OBVIOUS
<1>2. pH * rH = (p * r) * (H * H)
  <2>1. pH * rH = p * (H * rH) OBVIOUS
  <2>2. H * rH = r * (H * H) OBVIOUS
  <2> PICK HH \in Int : HH = H * H OBVIOUS
  <2>3. p * (r * HH) = (p * r) * HH OBVIOUS
  <2> QED BY <2>1, <2>2, <2>3
<1>3. pH * s = (p * s) * H OBVIOUS
<1>4. q * rH = (q * r) * H OBVIOUS
<1> PICK ps \in Int, qr \in Int : ps = p * s /\ qr = q * r OBVIOUS
<1>5. (ps + qr) * H = ps * H + qr * H OBVIOUS
<1>6. PICK a1 \in Int, a2 \in Int, a3 \in Int, a4 \in Int :
        a1 = pH * rH /\ a2 = pH * s /\ a3 = q * rH /\ a4 = q * s
  OBVIOUS
<1>7. (pH + q) * (rH + s) = a1 + a2 + a3 + a4 BY <1>1, <1>6
<1>8. a2 + a3 = (ps + qr) * H BY <1>3, <1>4, <1>5, <1>6
<1> PICK a5 \in Int : a5 = (ps + qr) * H OBVIOUS
<1>9. (pH + q) * (rH + s) = a1 + a5 + a4 BY <1>7, <1>8
<1> QED BY <1>2, <1>6, <1>9

(* The carries of the partial sums make up the upper word. *)
LEMMA CarrySums ==
  ASSUME NEW H \in Int, NEW A \in Int, A = H * H,
         NEW hh \in Int, NEW S \in Int, NEW ll \in Int, NEW uc \in Int, NEW ud \in Int,
         NEW cm \in Int, NEW m1 \in Int, NEW m0 \in Int, S = cm * A + (m1 * H + m0),
         NEW cl \in Int, NEW low1 \in Int, ll + m0 * H = cl * A + low1,
         NEW c2 \in Int, NEW low2 \in Int, low1 + uc = c2 * A + low2,
         NEW c3 \in Int, NEW low3 \in Int, low2 + ud = c3 * A + low3
  PROVE  hh * A + S * H + ll + uc + ud = (hh + m1 + cm * H + cl + c2 + c3) * A + low3
<1> PICK cA \in Int, mH \in Int, mA \in Int, nH \in Int, cH \in Int :
      cA = cm * A /\ mH = m1 * H /\ mA = m1 * A /\ nH = m0 * H /\ cH = cm * H
  OBVIOUS
<1>1. S * H = cA * H + mH * H + nH
  <2>1. S = cA + mH + m0 OBVIOUS
  <2>2. (cA + mH + m0) * H = cA * H + mH * H + m0 * H OBVIOUS
  <2> QED BY <2>1, <2>2
<1>2. cA * H = cH * A
  <2>1. (cm * A) * H = (cm * H) * A OBVIOUS
  <2> QED BY <2>1
<1>3. mH * H = mA
  <2>1. (m1 * H) * H = m1 * (H * H) OBVIOUS
  <2> QED BY <2>1
<1> PICK t \in Int, u \in Int, v \in Int, w \in Int, x \in Int, y \in Int, z \in Int :
      /\ t = hh * A /\ u = S * H /\ v = cH * A
      /\ w = cl * A /\ x = c2 * A /\ y = c3 * A
      /\ z = hh + m1 + cH + cl + c2 + c3
  OBVIOUS
<1>4. u = v + mA + nH BY <1>1, <1>2, <1>3
<1>5. ll + nH = w + low1 /\ low1 + uc = x + low2 /\ low2 + ud = y + low3 OBVIOUS
<1>6. t + u + ll + uc + ud = t + v + mA + w + x + y + low3 BY <1>4, <1>5
<1>7. z * A = t + v + mA + w + x + y
  <2>1. (hh + m1 + cH + cl + c2 + c3) * A = hh * A + m1 * A + cH * A + cl * A + c2 * A + c3 * A OBVIOUS
  <2> QED BY <2>1
<1> QED BY <1>6, <1>7

(* The low word of a sum with the middle word, shifted: only its lower     *)
(* half counts.                                                            *)
LowWord(H, A, ll, mid, m0) ==
  \E cl \in {0, 1}, low1 \in 0 .. A - 1 :
    low1 = (ll + mid * H) % A /\ ll + m0 * H = cl * A + low1 /\ (cl = 1 <=> low1 < ll)

LEMMA LowWordCarry ==
  ASSUME NEW H \in Nat \ {0}, NEW A \in Nat \ {0}, A = H * H, NEW ll \in 0 .. A - 1,
         NEW m1 \in 0 .. H - 1, NEW m0 \in 0 .. H - 1, NEW mid, mid = m1 * H + m0
  PROVE  LowWord(H, A, ll, mid, m0)
<1> PICK k \in Int : k = m0 * H OBVIOUS
<1>1. k \in 0 .. A - 1
  <2>1. k >= 0 OBVIOUS
  <2>2. (H - 1 - m0) * H >= 0 OBVIOUS
  <2>3. (H - 1 - m0) * H = H * H - H - m0 * H OBVIOUS
  <2> QED BY <2>1, <2>2, <2>3
<1>2. PICK cl \in {0, 1}, r \in 0 .. A - 1 : ll + k = cl * A + r /\ (cl = 1 <=> r < ll)
  BY <1>1, CarryOut
<1> PICK mA \in Int, u \in Int : mA = m1 * A /\ u = ll + mid * H OBVIOUS
<1>3. mid * H = mA + k
  <2>1. (m1 * H + m0) * H = (m1 * H) * H + m0 * H OBVIOUS
  <2>2. (m1 * H) * H = m1 * (H * H) OBVIOUS
  <2> QED BY <2>1, <2>2
<1> PICK j \in Int : j = m1 + cl OBVIOUS
<1>4. j * A = mA + cl * A OBVIOUS
<1>5. u = j * A + r BY <1>2, <1>3, <1>4
<1>6. u % A = r BY <1>5, ModUnique, SMTT(30)
<1> QED BY <1>2, <1>6 DEF LowWord

(* Unsigned 128-bit integers: no carry of a partial sum is lost. *)
LEMMA CarryingUnsigned ==
  ASSUME NEW x, NEW y, NEW c, NEW d, CVal(x), CVal(y), CVal(c), CVal(d),
         x.ty = Helpers!U128, y.ty = Helpers!U128, c.ty = Helpers!U128, d.ty = Helpers!U128
  PROVE  LET r == Helpers!mul_add128(Helpers!U128, x, y, c, d)
         IN Words(8 * HelperBits, r[1].v, r[2].v, x.v * y.v + c.v + d.v)
<1>1. PICK ty \in CTypes : ty = Helpers!U128 /\ ty.bits = 8 * HelperBits /\ ~ty.sgn BY WidestTypes
<1>2. PICK h \in Exponents, n \in Exponents :
        h = 4 * HelperBits /\ n = 8 * HelperBits /\ 2^n = 2^h * 2^h
  <2>1. HelperBits \in Nat /\ 8 * HelperBits \in Exponents BY HelperScale
  <2>2. 4 * HelperBits \in Nat /\ 4 * HelperBits + 4 * HelperBits = 8 * HelperBits BY <2>1
  <2> PICK h \in Nat : h = 4 * HelperBits BY <2>2
  <2>3. h + h \in Exponents BY <2>1, <2>2
  <2>4. h \in Exponents /\ 2^(h + h) = 2^h * 2^h BY <2>3, PowerSum
  <2> QED BY <2>1, <2>2, <2>4
<1>3. PICK H \in Nat \ {0}, A \in Nat \ {0} : H = 2^h /\ A = 2^n /\ A = H * H BY <1>2, PowerType
<1>4. /\ x.v \in 0 .. A - 1 /\ y.v \in 0 .. A - 1
      /\ c.v \in 0 .. A - 1 /\ d.v \in 0 .. A - 1
  BY <1>1, <1>2, <1>3 DEF CVal, Fits
<1>5. PICK ua \in 0 .. A - 1, ub \in 0 .. A - 1, uc \in 0 .. A - 1, ud \in 0 .. A - 1 :
        ua = x.v /\ ub = y.v /\ uc = c.v /\ ud = d.v
  BY <1>4
<1>6. \A v \in 0 .. A - 1 : Helpers!Pattern(8 * HelperBits, v) = v
  <2>1. \A v \in 0 .. A - 1 : v % A = v BY ModSmall
  <2> QED BY <1>2, <1>3, <2>1 DEF Helpers!Pattern
<1>7. PICK a1 \in 0 .. H - 1, a0 \in 0 .. H - 1 : a1 = ua \div H /\ a0 = ua % H /\ ua = a1 * H + a0
  BY <1>3, Halves
<1>8. PICK b1 \in 0 .. H - 1, b0 \in 0 .. H - 1 : b1 = ub \div H /\ b0 = ub % H /\ ub = b1 * H + b0
  BY <1>3, Halves
<1>9. PICK ll \in 0 .. A - 1, hl \in 0 .. A - 1, lh \in 0 .. A - 1, hh \in 0 .. A - 1 :
        ll = a0 * b0 /\ hl = a1 * b0 /\ lh = a0 * b1 /\ hh = a1 * b1
  BY <1>3, HalfProduct
<1>10. PICK cm \in {0, 1}, mid \in 0 .. A - 1 :
         mid = (hl + lh) % A /\ hl + lh = cm * A + mid /\ (cm = 1 <=> mid < hl)
  BY CarryOut
<1>11. PICK m1 \in 0 .. H - 1, m0 \in 0 .. H - 1 : m1 = mid \div H /\ m0 = mid % H /\ mid = m1 * H + m0
  BY <1>3, Halves
<1>12. PICK low1 \in 0 .. A - 1, cl \in {0, 1} :
         /\ low1 = (ll + mid * H) % A /\ ll + m0 * H = cl * A + low1
         /\ (cl = 1 <=> low1 < ll)
  <2>1. A = H * H /\ mid = m1 * H + m0 BY <1>3, <1>11
  <2>2. LowWord(H, A, ll, mid, m0) BY <2>1, LowWordCarry
  <2> QED BY <2>2 DEF LowWord
<1>13. PICK c2 \in {0, 1}, low2 \in 0 .. A - 1 :
         low2 = (low1 + uc) % A /\ low1 + uc = c2 * A + low2 /\ (c2 = 1 <=> low2 < uc)
  BY CarryOut
<1>14. PICK c3 \in {0, 1}, low3 \in 0 .. A - 1 :
         low3 = (low2 + ud) % A /\ low2 + ud = c3 * A + low3 /\ (c3 = 1 <=> low3 < ud)
  BY CarryOut
<1>15. PICK cH \in Int : cH = cm * H /\ cH = IF mid < hl THEN H ELSE 0
  <2>1. cm = 0 => cm * H = 0 OBVIOUS
  <2>2. cm = 1 => cm * H = H OBVIOUS
  <2> QED BY <1>10, <2>1, <2>2
<1>16. PICK high \in Int : high = hh + m1 + cH + cl + c2 + c3 OBVIOUS
<1>17. PICK e \in Int : e = ua * ub + uc + ud OBVIOUS
<1>18. e = high * A + low3
  <2> PICK S \in Int : S = hl + lh OBVIOUS
  <2>1. S = hl + lh /\ S = cm * A + (m1 * H + m0)
    <3>1. mid = m1 * H + m0 BY <1>11
    <3>2. S = cm * A + mid BY <1>10
    <3> QED BY <3>1, <3>2
  <2>2. hh * A + S * H + ll + uc + ud = (hh + m1 + cm * H + cl + c2 + c3) * A + low3
    <3>1. A = H * H /\ ll + m0 * H = cl * A + low1 BY <1>3, <1>12
    <3>2. low1 + uc = c2 * A + low2 /\ low2 + ud = c3 * A + low3 BY <1>13, <1>14
    <3>3. cm \in Int /\ cl \in Int /\ c2 \in Int /\ c3 \in Int OBVIOUS
    <3>4. hh \in Int /\ ll \in Int /\ uc \in Int /\ ud \in Int /\ m1 \in Int /\ m0 \in Int OBVIOUS
    <3>5. low1 \in Int /\ low2 \in Int /\ low3 \in Int /\ H \in Int /\ A \in Int OBVIOUS
    <3> QED BY <2>1, <3>1, <3>2, <3>3, <3>4, <3>5, CarrySums
  <2>3. ua * ub = hh * A + S * H + ll
    <3>1. (a1 * H + a0) * (b1 * H + b0) = (a1 * b1) * (H * H) + (a1 * b0 + a0 * b1) * H + a0 * b0
      BY FourProducts
    <3> QED BY <1>3, <1>7, <1>8, <1>9, <2>1, <3>1
  <2>4. (hh + m1 + cm * H + cl + c2 + c3) * A = high * A BY <1>15, <1>16
  <2> PICK p \in Int, q \in Int, f \in Int : p = ua * ub /\ q = high * A /\ f = hh * A + S * H + ll
    OBVIOUS
  <2>5. f + uc + ud = q + low3 BY <2>2, <2>4
  <2> QED BY <1>17, <2>3, <2>5
<1>19. e \div A = high /\ e % A = low3 BY <1>18, ModUnique
<1>20. PICK lo, hi : lo = Ops!Val(ty, low3) /\ hi = Ops!Val(ty, high) OBVIOUS
<1>21. lo.v \in Int /\ lo.v % A = e % A
  <2>1. CVal(lo) /\ Same(n, lo.v, low3) BY <1>1, <1>2, <1>20, ValFacts
  <2>2. lo.v \in Int BY <2>1 DEF CVal
  <2>3. Same(n, e, low3) BY <1>3, <1>18 DEF Same
  <2>4. lo.v % 2^n = low3 % 2^n BY <2>1, <2>2, SameMod
  <2>5. e % 2^n = low3 % 2^n BY <2>3, SameMod
  <2> QED BY <1>3, <2>2, <2>4, <2>5
<1>22. hi.v % A = (e \div A) % A
  <2>1. CVal(hi) /\ Same(n, hi.v, high) BY <1>1, <1>2, <1>20, ValFacts
  <2>2. hi.v \in Int BY <2>1 DEF CVal
  <2>3. hi.v % 2^n = high % 2^n BY <2>1, <2>2, SameMod
  <2> QED BY <1>3, <1>19, <2>3
<1>23. Words(n, lo.v, hi.v, e) BY <1>3, <1>21, <1>22 DEF Words, Ops!Pattern
<1>24. Helpers!mul_add128(ty, x, y, c, d) = <<lo, hi>>
  <2>1. /\ Helpers!Pattern(8 * HelperBits, x.v) = ua /\ Helpers!Pattern(8 * HelperBits, y.v) = ub
        /\ Helpers!Pattern(8 * HelperBits, c.v) = uc /\ Helpers!Pattern(8 * HelperBits, d.v) = ud
    BY <1>5, <1>6
  <2>2. 2^(4 * HelperBits) = H /\ 2^(8 * HelperBits) = A BY <1>2, <1>3
  <2>3. /\ (ua % H) * (ub % H) = ll /\ (ua \div H) * (ub % H) = hl
        /\ (ua % H) * (ub \div H) = lh /\ (ua \div H) * (ub \div H) = hh
    BY <1>7, <1>8, <1>9
  <2>4. (hl + lh) % A = mid /\ mid \div H = m1 BY <1>10, <1>11
  <2>5. (ll + mid * H) % A = low1 BY <1>12
  <2>6. (low1 + uc) % A = low2 /\ (low2 + ud) % A = low3 BY <1>13, <1>14
  <2>7. Helpers!CarryMid(mid, hl) = cH BY <1>15, <2>2 DEF Helpers!CarryMid
  <2>8. /\ (IF low1 < ll THEN 1 ELSE 0) = cl /\ (IF low2 < uc THEN 1 ELSE 0) = c2
        /\ (IF low3 < ud THEN 1 ELSE 0) = c3
    BY <1>12, <1>13, <1>14
  <2>9. hh + m1 + cH + cl + c2 + c3 = high BY <1>16
  <2>10. Helpers!Val(ty, low3) = lo /\ Helpers!Val(ty, high) = hi BY <1>20, HelpersC
  <2> DEFINE half == 2^(4 * HelperBits)
             all == 2^(8 * HelperBits)
             xa == Helpers!Pattern(8 * HelperBits, x.v)
             xb == Helpers!Pattern(8 * HelperBits, y.v)
             xc == Helpers!Pattern(8 * HelperBits, c.v)
             xd == Helpers!Pattern(8 * HelperBits, d.v)
             lo_lo == (xa % half) * (xb % half)
             hi_lo == (xa \div half) * (xb % half)
             lo_hi == (xa % half) * (xb \div half)
             hi_hi == (xa \div half) * (xb \div half)
             middle == (hi_lo + lo_hi) % all
             sum1 == (lo_lo + middle * half) % all
             carry_low == IF sum1 < lo_lo THEN 1 ELSE 0
             sum2 == (sum1 + xc) % all
             sum3 == (sum2 + xd) % all
             upper == hi_hi + middle \div half + Helpers!CarryMid(middle, hi_lo) + carry_low
                        + (IF sum2 < xc THEN 1 ELSE 0) + (IF sum3 < xd THEN 1 ELSE 0)
  <2>11. Helpers!mul_add128(ty, x, y, c, d) = <<Helpers!Val(ty, sum3), Helpers!Val(ty, upper)>>
    BY DEF Helpers!mul_add128
  <2>12. lo_lo = ll /\ hi_lo = hl /\ lo_hi = lh /\ hi_hi = hh BY <2>1, <2>2, <2>3
  <2>13. middle = mid BY <2>2, <2>4, <2>12
  <2>14. sum1 = low1 BY <2>2, <2>5, <2>12, <2>13
  <2>15. carry_low = cl BY <2>8, <2>12, <2>14
  <2>16. sum2 = low2 BY <2>1, <2>2, <2>6, <2>14
  <2>17. sum3 = low3 BY <2>1, <2>2, <2>6, <2>16
  <2>18. middle \div half = m1 /\ Helpers!CarryMid(middle, hi_lo) = cH BY <2>2, <2>4, <2>7, <2>12, <2>13
  <2>19. (IF sum2 < xc THEN 1 ELSE 0) = c2 /\ (IF sum3 < xd THEN 1 ELSE 0) = c3
    BY <2>1, <2>8, <2>16, <2>17
  <2> HIDE DEF half, all, xa, xb, xc, xd, lo_lo, hi_lo, lo_hi, hi_hi, middle, sum1, carry_low, sum2, sum3
  <2>20. upper = high BY <2>9, <2>12, <2>15, <2>18, <2>19
  <2> QED BY <2>10, <2>11, <2>17, <2>20
<1>25. e = x.v * y.v + c.v + d.v BY <1>5, <1>17
<1> QED BY <1>1, <1>2, <1>23, <1>24, <1>25

LEMMA CornersType ==
  ASSUME NEW n \in Exponents \ {0}, NEW p
  PROVE  (p \in Helpers!Patterns(n) => p \in Int) /\ (p \in Helpers!Corners(n) => p \in Int)
<1>1. n \div 2 \in Exponents /\ n - 1 \in Exponents
  <2>1. n \in Nat /\ n \div 2 \in Nat /\ n \div 2 <= n BY DEF Exponents
  <2> QED BY <2>1, PowersOfTwo DEF Exponents
<1> PICK P \in Nat, Q \in Nat, R \in Nat : P = 2^n /\ Q = 2^(n \div 2) /\ R = 2^(n - 1) BY <1>1, PowerType
<1>2. p \in Helpers!Patterns(n) => p \in Int BY DEF Helpers!Patterns
<1>3. p \in Helpers!Corners(n) =>
        p \in Helpers!Patterns(n) \/ p \in {0, 1, Q - 1, Q, R - 1, R, P - 2, P - 1}
  BY DEF Helpers!Corners
<1> QED BY <1>2, <1>3

LEMMA HelperCallFacts ==
  ASSUME Helpers!HelperCall
  PROVE  /\ <<call.op, call.ty>> \in HelperCalls /\ call.ty \in Helpers!Types
         /\ call.op \in Helpers!BinaryOps => call.a \in Int /\ call.b \in Int
         /\ call.op = "carrying_mul_add" =>
              call.a \in Int /\ call.b \in Int /\ call.c \in Int /\ call.d \in Int
<1>1. PICK e \in HelperCalls :
        LET op == e[1]
            ty == e[2]
        IN \/ /\ op \in Helpers!BinaryOps
              /\ \E a, b \in Helpers!Patterns(ty.bits) : call = [op |-> op, ty |-> ty, a |-> a, b |-> b]
           \/ /\ op \in Helpers!RotateOps
              /\ \E a \in Helpers!Patterns(ty.bits), s \in 0 .. 2 * ty.bits :
                   call = [op |-> op, ty |-> ty, a |-> a, s |-> s]
           \/ /\ op \in Helpers!FunnelOps
              /\ \E a, b \in Helpers!Corners(ty.bits), s \in MinFunnelShift .. ty.bits - 1 :
                   call = [op |-> op, ty |-> ty, a |-> a, b |-> b, s |-> s]
           \/ /\ op = "bitreverse"
              /\ \E a \in Helpers!Patterns(ty.bits) : call = [op |-> op, ty |-> ty, a |-> a]
           \/ /\ op = "carrying_mul_add"
              /\ \E a, b, x, y \in Helpers!Corners(ty.bits) :
                   call = [op |-> op, ty |-> ty, a |-> a, b |-> b, c |-> x, d |-> y]
  BY DEF Helpers!HelperCall
<1>2. PICK op \in Helpers!AllOps, ty \in Helpers!Types : e = <<op, ty>> BY HelperCallsAreKnown
<1>3. e[1] = op /\ e[2] = ty BY <1>2
<1>4. call.op = op /\ call.ty = ty BY <1>1, <1>3
<1>5. ty.bits \in Exponents \ {0} BY HelperTypes
<1>6. ASSUME op \in Helpers!BinaryOps PROVE call.a \in Int /\ call.b \in Int
  <2>1. PICK a \in Helpers!Patterns(ty.bits), b \in Helpers!Patterns(ty.bits) :
          call = [op |-> op, ty |-> ty, a |-> a, b |-> b]
    BY <1>1, <1>3, <1>6 DEF Helpers!BinaryOps, Helpers!CheckedOps, Helpers!SaturatingOps,
                            Helpers!RotateOps, Helpers!FunnelOps
  <2>2. a \in Int /\ b \in Int BY <1>5, CornersType
  <2> QED BY <2>1, <2>2
<1>7. ASSUME op = "carrying_mul_add"
      PROVE  call.a \in Int /\ call.b \in Int /\ call.c \in Int /\ call.d \in Int
  <2>1. PICK a \in Helpers!Corners(ty.bits), b \in Helpers!Corners(ty.bits),
             x \in Helpers!Corners(ty.bits), y \in Helpers!Corners(ty.bits) :
          call = [op |-> op, ty |-> ty, a |-> a, b |-> b, c |-> x, d |-> y]
    BY <1>1, <1>3, <1>7 DEF Helpers!BinaryOps, Helpers!CheckedOps, Helpers!SaturatingOps,
                            Helpers!RotateOps, Helpers!FunnelOps
  <2>2. a \in Int /\ b \in Int /\ x \in Int /\ y \in Int BY <1>5, CornersType
  <2> QED BY <2>1, <2>2
<1> QED BY <1>2, <1>4, <1>6, <1>7

(* The numbers of a call, as values of its type. *)
LEMMA HelperOperand ==
  ASSUME NEW ty \in Helpers!Types, NEW p \in Int
  PROVE  /\ Helpers!Val(ty, p) = Ops!Val(ty, p) /\ CVal(Ops!Val(ty, p)) /\ Ops!Val(ty, p).ty = ty
         /\ Ops!Val(ty, p).v = Ops!Wrap(ty, p)
  BY HelperTypes, HelpersC, ValFacts

LEMMA ArithOps ==
  ASSUME call.op \in Helpers!BinaryOps, call.ty \in Helpers!Types, call.a \in Int, call.b \in Int
  PROVE  /\ Helpers!ArithOp(call.op) \in {"add", "sub", "mul"}
         /\ call.op \in Helpers!SaturatingOps => Helpers!ArithOp(call.op) \in {"add", "sub"}
         /\ call.op = "checked_mul" <=> Helpers!ArithOp(call.op) = "mul"
         /\ Helpers!Exact(call) = ExactOp(Helpers!ArithOp(call.op), Ops!Wrap(call.ty, call.a),
                                          Ops!Wrap(call.ty, call.b))
<1> PICK op : op = call.op OBVIOUS
<1>1. /\ op \in {"checked_add", "saturating_add"} => Helpers!ArithOp(op) = "add"
      /\ op \in {"checked_sub", "saturating_sub"} => Helpers!ArithOp(op) = "sub"
      /\ op = "checked_mul" => Helpers!ArithOp(op) = "mul"
  BY DEF Helpers!ArithOp
<1>2. op \in {"checked_add", "saturating_add", "checked_sub", "saturating_sub", "checked_mul"}
  BY DEF Helpers!BinaryOps, Helpers!CheckedOps, Helpers!SaturatingOps
<1>3. \A ty, v : Helpers!Wrap(ty, v) = Ops!Wrap(ty, v) BY HelpersC
<1>4. Helpers!Exact(call) = ExactOp(Helpers!ArithOp(op), Ops!Wrap(call.ty, call.a), Ops!Wrap(call.ty, call.b))
  BY <1>3 DEF Helpers!Exact, ExactOp
<1> QED BY <1>1, <1>2, <1>4 DEF Helpers!SaturatingOps

LEMMA CheckedCall ==
  ASSUME Helpers!HelperCall, HelperCalls \cap Deviating = {}, call.op \in Helpers!CheckedOps,
         out \in Helpers!Outcomes(call)
  PROVE  Helpers!CheckedExact
<1> PICK op, ty, a, b : op = call.op /\ ty = call.ty /\ a = call.a /\ b = call.b OBVIOUS
<1>1. op \in Helpers!BinaryOps BY DEF Helpers!BinaryOps
<1>2. <<op, ty>> \in HelperCalls /\ ty \in Helpers!Types /\ a \in Int /\ b \in Int
  BY <1>1, HelperCallFacts
<1> PICK ar : ar = Helpers!ArithOp(op) OBVIOUS
<1>3. ar \in {"add", "sub", "mul"} /\ (op = "checked_mul" <=> ar = "mul") BY <1>1, <1>2, ArithOps
<1>4. ty = Helpers!I128 => ar # "mul" BY <1>2, <1>3 DEF Deviating, Helpers!I128, Helpers!Type
<1> PICK x, y : x = Ops!Val(ty, a) /\ y = Ops!Val(ty, b) OBVIOUS
<1>5. CVal(x) /\ x.ty = ty /\ x.v = Ops!Wrap(ty, a) /\ Helpers!Val(ty, a) = x BY <1>2, HelperOperand
<1>6. CVal(y) /\ y.ty = ty /\ y.v = Ops!Wrap(ty, b) /\ Helpers!Val(ty, b) = y BY <1>2, HelperOperand
<1>7. out = Helpers!checked_binop(ar, ty, x, y)
  BY <1>5, <1>6
  DEF Helpers!Outcomes, Helpers!CheckedOps, Helpers!SaturatingOps, Helpers!RotateOps, Helpers!FunnelOps
<1>8. Checked(ty, ExactOp(ar, x.v, y.v), out) BY <1>2, <1>3, <1>4, <1>5, <1>6, <1>7, CheckedBinop
<1>9. Helpers!Exact(call) = ExactOp(ar, x.v, y.v) BY <1>1, <1>2, <1>5, <1>6, ArithOps
<1>10. \A v : Helpers!Wrap(ty, v) = Ops!Wrap(ty, v) BY HelpersC
<1> QED BY <1>8, <1>9, <1>10 DEF Helpers!CheckedExact, Checked

LEMMA SaturatingCall ==
  ASSUME Helpers!HelperCall, HelperCalls \cap Deviating = {}, call.op \in Helpers!SaturatingOps,
         out \in Helpers!Outcomes(call)
  PROVE  Helpers!SaturatingExact
<1> PICK op, ty, a, b : op = call.op /\ ty = call.ty /\ a = call.a /\ b = call.b OBVIOUS
<1>1. op \in Helpers!BinaryOps BY DEF Helpers!BinaryOps
<1>2. <<op, ty>> \in HelperCalls /\ ty \in Helpers!Types /\ a \in Int /\ b \in Int
  BY <1>1, HelperCallFacts
<1> PICK ar : ar = Helpers!ArithOp(op) OBVIOUS
<1>3. ar \in {"add", "sub"} BY <1>1, <1>2, ArithOps
<1>4. ty # Helpers!I128 BY <1>2 DEF Deviating, Helpers!I128, Helpers!Type, Helpers!SaturatingOps
<1> PICK x, y : x = Ops!Val(ty, a) /\ y = Ops!Val(ty, b) OBVIOUS
<1>5. CVal(x) /\ x.ty = ty /\ x.v = Ops!Wrap(ty, a) /\ Helpers!Val(ty, a) = x BY <1>2, HelperOperand
<1>6. CVal(y) /\ y.ty = ty /\ y.v = Ops!Wrap(ty, b) /\ Helpers!Val(ty, b) = y BY <1>2, HelperOperand
<1>7. op \notin Helpers!CheckedOps BY DEF Helpers!CheckedOps, Helpers!SaturatingOps
<1>8. out = Helpers!codegen_saturating(ar, ty, x, y)
  BY <1>5, <1>6, <1>7
  DEF Helpers!Outcomes, Helpers!CheckedOps, Helpers!SaturatingOps, Helpers!RotateOps, Helpers!FunnelOps
<1>9. out.v = Nearest(ty, ExactOp(ar, x.v, y.v)) BY <1>2, <1>3, <1>4, <1>5, <1>6, <1>8, Saturating
<1>10. Helpers!Exact(call) = ExactOp(ar, x.v, y.v) BY <1>1, <1>2, <1>5, <1>6, ArithOps
<1> QED BY <1>9, <1>10 DEF Helpers!SaturatingExact, Nearest

LEMMA CarryingCall ==
  ASSUME Helpers!HelperCall, HelperCalls \cap Deviating = {}, call.op = "carrying_mul_add",
         out \in Helpers!Outcomes(call)
  PROVE  Helpers!CarryingExact
<1> PICK ty, a, b, c, d : ty = call.ty /\ a = call.a /\ b = call.b /\ c = call.c /\ d = call.d OBVIOUS
<1>1. /\ <<"carrying_mul_add", ty>> \in HelperCalls /\ ty \in Helpers!Types
      /\ a \in Int /\ b \in Int /\ c \in Int /\ d \in Int
  BY HelperCallFacts
<1>2. ty # Helpers!I128 BY <1>1 DEF Deviating, Helpers!I128, Helpers!Type
<1> PICK x, y, z, w :
      x = Ops!Val(ty, a) /\ y = Ops!Val(ty, b) /\ z = Ops!Val(ty, c) /\ w = Ops!Val(ty, d)
  OBVIOUS
<1>3. CVal(x) /\ x.ty = ty /\ x.v = Ops!Wrap(ty, a) /\ Helpers!Val(ty, a) = x BY <1>1, HelperOperand
<1>4. CVal(y) /\ y.ty = ty /\ y.v = Ops!Wrap(ty, b) /\ Helpers!Val(ty, b) = y BY <1>1, HelperOperand
<1>5. CVal(z) /\ z.ty = ty /\ z.v = Ops!Wrap(ty, c) /\ Helpers!Val(ty, c) = z BY <1>1, HelperOperand
<1>6. CVal(w) /\ w.ty = ty /\ w.v = Ops!Wrap(ty, d) /\ Helpers!Val(ty, d) = w BY <1>1, HelperOperand
<1>7. out = Helpers!codegen_carrying_mul_add(ty, x, y, z, w)
  BY <1>3, <1>4, <1>5, <1>6
  DEF Helpers!Outcomes, Helpers!CheckedOps, Helpers!SaturatingOps, Helpers!RotateOps, Helpers!FunnelOps
<1>8. Words(ty.bits, out[1].v, out[2].v, x.v * y.v + z.v + w.v)
  <2>1. HelperBits \in Nat \ {0} /\ ty.bits \in Helpers!Widths BY <1>1, HelperScale, HelperTypes
  <2>2. CASE ty.bits = 8 * HelperBits
    <3>1. ty = Helpers!U128 BY <1>1, <1>2, <2>2, WidestTypes
    <3>2. ~(ty.bits <= 4 * HelperBits) BY <2>1, <2>2
    <3>3. out = Helpers!mul_add128(ty, x, y, z, w) BY <1>7, <3>2 DEF Helpers!codegen_carrying_mul_add
    <3> QED BY <1>3, <1>4, <1>5, <1>6, <2>2, <3>1, <3>3, CarryingUnsigned
  <2>3. CASE ty.bits # 8 * HelperBits
    <3>1. ty.bits <= 4 * HelperBits BY <2>1, <2>3 DEF Helpers!Widths
    <3>2. out = Helpers!mul_add_wide(ty, x, y, z, w) BY <1>7, <3>1 DEF Helpers!codegen_carrying_mul_add
    <3> QED BY <1>1, <1>3, <1>4, <1>5, <1>6, <2>3, <3>2, CarryingWide
  <2> QED BY <2>2, <2>3
<1>9. /\ \A v : Helpers!Wrap(ty, v) = Ops!Wrap(ty, v)
      /\ \A n, v : Helpers!Pattern(n, v) = Ops!Pattern(n, v)
  BY HelpersC
<1> QED BY <1>3, <1>4, <1>5, <1>6, <1>8, <1>9 DEF Helpers!CarryingExact, Words

(* A call of a helper, and once it is computed one of its outcomes. *)
HelpersInv ==
  family = "helpers" => Helpers!HelperCall /\ (out = NoResult \/ out \in Helpers!Outcomes(call))

LEMMA HelpersInvariant == Spec => []HelpersInv
<1>1. Init => HelpersInv BY DEF Init, HelpersInv, Helpers!Init
<1>2. HelpersInv /\ [Next]_vars => HelpersInv'
  <2> SUFFICES ASSUME HelpersInv, [Next]_vars, family' = "helpers" PROVE HelpersInv' BY DEF HelpersInv
  <2>1. CASE UNCHANGED vars
    <3>1. family' = family /\ call' = call /\ out' = out BY <2>1 DEF vars
    <3> QED BY <3>1 DEF HelpersInv, Helpers!HelperCall
  <2>2. CASE Next
    <3>1. family = "helpers" /\ Helpers!Next BY <2>2 DEF Next
    <3>2. call' = call /\ out' \in Helpers!Outcomes(call) BY <3>1 DEF Helpers!Next
    <3> QED BY <3>1, <3>2 DEF HelpersInv, Helpers!HelperCall
  <2> QED BY <2>1, <2>2
<1> QED BY <1>1, <1>2, PTL DEF Spec

(* For every width: checked addition, subtraction and multiplication give  *)
(* the wrapped result and report overflow exactly when it was wrapped,     *)
(* saturating arithmetic gives the nearest representable number, and the   *)
(* two words of the multiplication with carry are exact - whichever way    *)
(* the code finds the overflow (in the double width, by the signs, by      *)
(* comparing or by dividing back).  The signed 128-bit calls of Deviating  *)
(* are left out: the code does not do this for them.                       *)
THEOREM OverflowAlwaysExact ==
  ASSUME HelperCalls \cap Deviating = {}
  PROVE  Spec => []OverflowExact
<1>1. HelpersInv => OverflowExact
  <2> SUFFICES ASSUME HelpersInv, family = "helpers"
               PROVE  Helpers!CheckedExact /\ Helpers!SaturatingExact /\ Helpers!CarryingExact
    BY DEF OverflowExact
  <2>1. CASE out = NoResult
    BY <2>1 DEF Helpers!CheckedExact, Helpers!SaturatingExact, Helpers!CarryingExact
  <2>2. CASE out \in Helpers!Outcomes(call)
    <3>1. Helpers!HelperCall BY DEF HelpersInv
    <3>2. Helpers!CheckedExact BY <2>2, <3>1, CheckedCall DEF Helpers!CheckedExact
    <3>3. Helpers!SaturatingExact BY <2>2, <3>1, SaturatingCall DEF Helpers!SaturatingExact
    <3>4. Helpers!CarryingExact BY <2>2, <3>1, CarryingCall DEF Helpers!CarryingExact
    <3> QED BY <3>2, <3>3, <3>4
  <2> QED BY <2>1, <2>2 DEF HelpersInv
<1> QED BY <1>1, HelpersInvariant, PTL

-----------------------------------------------------------------------------
(* The helpers that move bits                                              *)

(* The bits below bit m do not change with a multiple of 2^m. *)
LEMMA LowBits ==
  ASSUME NEW m \in Exponents, NEW x \in Int, NEW c \in Int, NEW i \in 0 .. m - 1
  PROVE  Ops!Bit(x - c * 2^m, i) = Ops!Bit(x, i)
<1> PICK P \in Nat \ {0} : P = 2^m BY PowerType
<1> PICK u \in Int : u = x - c * P OBVIOUS
<1>1. u = x + (-c) * P /\ -c \in Int OBVIOUS
<1>2. Same(m, u, x) BY <1>1 DEF Same
<1>3. Ops!Bit(u, i) = Ops!Bit(x, i) BY <1>2, SameBits
<1> QED BY <1>3

(* Equal bits, equal numbers. *)
LEMMA BitsOnce ==
  ASSUME NEW n \in Exponents, NEW p \in 0 .. 2^n - 1, NEW q \in 0 .. 2^n - 1,
         \A i \in 0 .. n - 1 : Ops!Bit(p, i) = Ops!Bit(q, i)
  PROVE  p = q
<1> DEFINE Equal(m) == \A x, y \in 0 .. 2^m - 1 :
                         (\A i \in 0 .. m - 1 : Ops!Bit(x, i) = Ops!Bit(y, i)) => x = y
           T == {m \in 0 .. n : Equal(m)}
<1>1. n \in Nat /\ \A m \in 0 .. n : m \in Exponents BY PowersOfTwo DEF Exponents
<1>2. 0 \in T
  <2>1. 2^0 = 1 BY PowersOfTwo
  <2>2. Equal(0) BY <2>1
  <2> QED BY <1>1, <2>2
<1>3. ASSUME NEW m \in 0 .. n - 1, m \in T PROVE m + 1 \in T
  <2>1. /\ m \in Exponents /\ m + 1 \in Exponents \ {0} /\ (m + 1) - 1 = m /\ m + 1 \in 0 .. n
        /\ m \in 0 .. m /\ m \in Nat
    BY <1>1
  <2> PICK P \in Nat \ {0} : P = 2^m BY <2>1, PowerType
  <2>2. 2^(m + 1) = 2 * P BY <2>1, PowerStep
  <2>3. ASSUME NEW x \in 0 .. 2 * P - 1, NEW y \in 0 .. 2 * P - 1,
               \A i \in 0 .. m : Ops!Bit(x, i) = Ops!Bit(y, i)
        PROVE  x = y
    <3>1. x >= P <=> y >= P
      <4>1. Ops!Bit(x, m) = Ops!Bit(y, m) BY <2>1, <2>3
      <4>2. Ops!Bit(x, m) = IF x >= P THEN 1 ELSE 0 BY <2>1, <2>2, TopBit
      <4>3. Ops!Bit(y, m) = IF y >= P THEN 1 ELSE 0 BY <2>1, <2>2, TopBit
      <4> HIDE DEF T, Equal
      <4>4. CASE x >= P
        <5>1. Ops!Bit(y, m) = 1 BY <4>1, <4>2, <4>4
        <5> QED BY <4>3, <4>4, <5>1
      <4>5. CASE ~(x >= P)
        <5>1. Ops!Bit(y, m) = 0 BY <4>1, <4>2, <4>5
        <5> QED BY <4>3, <4>5, <5>1
      <4> QED BY <4>4, <4>5
    <3> DEFINE c == IF x >= P THEN 1 ELSE 0
    <3>2. x - c * P \in 0 .. P - 1 /\ y - c * P \in 0 .. P - 1 BY <3>1
    <3>3. c \in Int OBVIOUS
    <3> HIDE DEF c, T, Equal
    <3> PICK u \in Int, v \in Int : u = x - c * P /\ v = y - c * P BY <3>2
    <3>4. \A i \in 0 .. m - 1 : Ops!Bit(u, i) = Ops!Bit(v, i)
      <4> TAKE i \in 0 .. m - 1
      <4>1. Ops!Bit(x - c * 2^m, i) = Ops!Bit(x, i) BY <2>1, <3>3, LowBits
      <4>2. Ops!Bit(y - c * 2^m, i) = Ops!Bit(y, i) BY <2>1, <3>3, LowBits
      <4>3. i \in 0 .. m BY <2>1
      <4> QED BY <2>3, <4>1, <4>2, <4>3
    <3>5. u \in 0 .. 2^m - 1 /\ v \in 0 .. 2^m - 1 BY <3>2
    <3>6. u = v BY <1>3, <3>4, <3>5 DEF T, Equal
    <3>7. c * P \in Int BY <3>2 DEF c
    <3> QED BY <3>6, <3>7
  <2>4. Equal(m + 1) BY <2>1, <2>2, <2>3
  <2> QED BY <2>1, <2>4
<1> HIDE DEF T
<1>4. n \in T BY <1>1, <1>2, <1>3, UpTo
<1> QED BY <1>4 DEF T

(* The C type in which a value of type ty is shifted. *)
Shifted(ty) == IF ty.bits < HelperInt THEN Ops!Type(HelperInt, TRUE) ELSE ty

LEMMA ShiftedType ==
  ASSUME NEW ty \in CTypes
  PROVE  /\ Shifted(ty) \in CTypes /\ Shifted(ty).bits >= ty.bits /\ Shifted(ty).bits >= HelperInt
         /\ Shifted(ty).bits = HelperInt \/ Shifted(ty) = ty
<1>1. HelperInt \in Exponents \ {0} BY HelperScale
<1>2. HelperInt \in Nat /\ ty.bits \in Nat BY <1>1 DEF CTypes, Exponents
<1> PICK t : t = Ops!Type(HelperInt, TRUE) OBVIOUS
<1>3. t \in CTypes /\ t.bits = HelperInt BY <1>1, TypeFacts
<1> PICK m \in Nat, n \in Nat : m = HelperInt /\ n = ty.bits BY <1>2
<1>4. CASE n < m
  <2>1. Shifted(ty) = t /\ m >= n /\ m >= m BY <1>4 DEF Shifted
  <2> QED BY <1>3, <2>1
<1>5. CASE ~(n < m)
  <2>1. Shifted(ty) = ty /\ n >= m /\ n >= n BY <1>5 DEF Shifted
  <2> QED BY <2>1
<1> QED BY <1>4, <1>5

LEMMA HelperShifts ==
  ASSUME NEW x, CVal(x), NEW s
  PROVE  /\ Helpers!Shl(x, s) = Ops!Val(Shifted(x.ty), x.v * 2^s)
         /\ Helpers!Shr(x, s) = Ops!Val(Shifted(x.ty), x.v \div 2^s)
         /\ Helpers!Promote(x).ty = Shifted(x.ty)
<1>1. HelperInt \in Exponents \ {0} BY HelperScale
<1> PICK p : p = PromoteAt(HelperInt, x) OBVIOUS
<1>2. p.v = x.v BY <1>1, PromotedType
<1>3. p.ty = Shifted(x.ty)
  <2>1. x.ty.bits \in Nat /\ HelperInt \in Nat BY <1>1 DEF CVal, CTypes, Exponents
  <2>2. CASE x.ty.bits < HelperInt BY <1>1, <2>2, PromoteFacts DEF Shifted
  <2>3. CASE ~(x.ty.bits < HelperInt)
    <3>1. x.ty.bits >= HelperInt BY <2>1, <2>3
    <3> QED BY <1>1, <2>3, <3>1, PromoteFacts DEF Shifted
  <2> QED BY <2>2, <2>3
<1>4. Helpers!Promote(x) = p BY HelpersC
<1> QED BY <1>2, <1>3, <1>4, HelpersC DEF Helpers!Shl, Helpers!Shr

(* Converting to ty the | of two shifted values keeps their lower bits. *)
LEMMA OrOfShifts ==
  ASSUME NEW ty \in CTypes, NEW t \in CTypes, t.bits >= ty.bits, t.bits >= HelperInt,
         NEW v \in Int, NEW w \in Int, NEW i \in 0 .. ty.bits - 1
  PROVE  LET r == Helpers!Cast(ty, Helpers!BitOr(Ops!Val(t, v), Ops!Val(t, w)))
         IN /\ CVal(r) /\ r.ty = ty
            /\ Ops!Bit(r.v, i) = IF Ops!Bit(v, i) + Ops!Bit(w, i) = 0 THEN 0 ELSE 1
<1> PICK x, y : x = Ops!Val(t, v) /\ y = Ops!Val(t, w) OBVIOUS
<1>1. CVal(x) /\ CVal(y) /\ x.ty = t /\ y.ty = t /\ Same(t.bits, x.v, v) /\ Same(t.bits, y.v, w)
  BY ValFacts
<1>2. HelperInt \in Exponents \ {0} BY HelperScale
<1> PICK m \in Exponents \ {0}, n \in Exponents \ {0} : m = t.bits /\ n = ty.bits BY DEF CTypes
<1>3. m \in Nat /\ n \in Nat /\ i \in 0 .. m - 1 /\ i \in 0 .. n - 1 BY DEF Exponents
<1>4. x.v \in Int /\ y.v \in Int BY <1>1 DEF CVal
<1> DEFINE z == Ops!OrBits(m, x.v % 2^m, y.v % 2^m)
<1>5. Helpers!BitOr(x, y) = Ops!Val(t, z)
  <2>1. Helpers!BitOr(x, y) = BinAt(HelperInt, "|", x, y) BY HelpersC DEF Helpers!BitOr
  <2>2. BinAt(HelperInt, "|", x, y) = Ops!Val(t, Ops!Apply("|", m, x.v, y.v)) BY <1>1, <1>2, BinWide
  <2>3. Ops!Apply("|", m, x.v, y.v) = z BY <1>4, ApplyFacts
  <2> QED BY <2>1, <2>2, <2>3
<1> PICK a \in Int, b \in Int : a = x.v % 2^m /\ b = y.v % 2^m
  <2> PICK P \in Nat \ {0} : P = 2^m BY PowerType
  <2>1. x.v % P \in Int /\ y.v % P \in Int BY <1>4
  <2> QED BY <2>1
<1>6. /\ z \in 0 .. 2^m - 1
      /\ Ops!Bit(z, i) = IF Ops!Bit(a, i) + Ops!Bit(b, i) = 0 THEN 0 ELSE 1
  BY <1>3, BitwiseFacts
<1>7. Ops!Bit(a, i) = Ops!Bit(v, i) /\ Ops!Bit(b, i) = Ops!Bit(w, i)
  <2>1. Ops!Pattern(m, x.v) = a /\ Ops!Pattern(m, y.v) = b BY DEF Ops!Pattern
  <2> QED BY <1>1, <1>3, <1>4, <2>1, PatternBits
<1>8. z \in Int
  <2>1. 2^m \in Nat BY PowerType
  <2> QED BY <1>6, <2>1
<1> HIDE DEF z
<1> DEFINE r == Ops!Cast(ty, Ops!Val(t, z))
<1>9. CVal(r) /\ r.ty = ty /\ Same(n, r.v, z) BY <1>8, CastVal
<1>10. r.v \in Int BY <1>9 DEF CVal
<1>11. Ops!Bit(r.v, i) = Ops!Bit(z, i) BY <1>3, <1>8, <1>9, <1>10, SameBits
<1>12. Helpers!Cast(ty, Helpers!BitOr(x, y)) = r BY <1>5, HelpersC
<1> HIDE DEF r
<1> QED BY <1>6, <1>7, <1>9, <1>11, <1>12

(* An operand, converted to the unsigned type. *)
LEMMA UnsignedOperand ==
  ASSUME NEW ty \in Helpers!Types, NEW a \in 0 .. 2^ty.bits - 1
  PROVE  LET u == Helpers!Cast(Helpers!Unsigned(ty), Helpers!Val(ty, a))
         IN CVal(u) /\ u.ty = Helpers!Unsigned(ty) /\ u.v = a
<1>1. ty \in CTypes /\ ty.bits \in Exponents \ {0} BY HelperTypes
<1> PICK t : t = Helpers!Unsigned(ty) OBVIOUS
<1>2. t \in CTypes /\ t.bits = ty.bits /\ ~t.sgn
  <2>1. t = Ops!Type(ty.bits, FALSE) BY HelpersC DEF Helpers!Unsigned
  <2> QED BY <1>1, <2>1, TypeFacts
<1>3. a \in Int
  <2>1. 2^ty.bits \in Nat BY <1>1, PowerType
  <2> QED BY <2>1
<1> PICK x : x = Ops!Val(ty, a) OBVIOUS
<1>4. x.v \in Int /\ Same(t.bits, x.v, a) BY <1>1, <1>2, <1>3, ValFacts DEF CVal
<1>5. CVal(Ops!Cast(t, x)) /\ Ops!Cast(t, x).ty = t /\ Ops!Cast(t, x).v = Ops!Wrap(t, a)
  BY <1>2, <1>4, CastPattern
<1>6. Ops!Wrap(t, a) = a BY <1>2, PatternValue
<1>7. Helpers!Cast(Helpers!Unsigned(ty), Helpers!Val(ty, a)) = Ops!Cast(t, x) BY HelpersC
<1> QED BY <1>5, <1>6, <1>7

(* Bit j of a shifted to the left by s, or'ed with b shifted to the right  *)
(* by k, in n bits.                                                        *)
Merged(n, a, s, b, k, j) ==
  IF (j >= s /\ Ops!Bit(a, j - s) = 1) \/ (j + k < n /\ Ops!Bit(b, j + k) = 1) THEN 1 ELSE 0

LEMMA MergedBits ==
  ASSUME NEW ty \in Helpers!Types, NEW x, NEW y, CVal(x), CVal(y),
         x.ty = Helpers!Unsigned(ty), y.ty = Helpers!Unsigned(ty),
         NEW s \in 0 .. ty.bits - 1, NEW k \in 0 .. ty.bits - 1, NEW j \in 0 .. ty.bits - 1
  PROVE  /\ LET r == Helpers!Cast(ty, Helpers!BitOr(Helpers!Shl(x, s), Helpers!Shr(y, k)))
            IN CVal(r) /\ r.ty = ty /\ Ops!Bit(r.v, j) = Merged(ty.bits, x.v, s, y.v, k, j)
         /\ LET r == Helpers!Cast(ty, Helpers!BitOr(Helpers!Shr(y, k), Helpers!Shl(x, s)))
            IN CVal(r) /\ r.ty = ty /\ Ops!Bit(r.v, j) = Merged(ty.bits, x.v, s, y.v, k, j)
<1>1. ty \in CTypes /\ ty.bits \in Exponents \ {0} BY HelperTypes
<1> PICK n \in Exponents \ {0} : n = ty.bits BY <1>1
<1> PICK u : u = Helpers!Unsigned(ty) OBVIOUS
<1>2. u \in CTypes /\ u.bits = n /\ ~u.sgn
  <2>1. u = Ops!Type(n, FALSE) BY HelpersC DEF Helpers!Unsigned
  <2> QED BY <2>1, TypeFacts
<1> PICK t : t = Shifted(u) OBVIOUS
<1>3. t \in CTypes /\ t.bits >= n /\ t.bits >= HelperInt BY <1>2, ShiftedType
<1>4. s \in Exponents /\ k \in Exponents /\ j \in Exponents /\ n \in Nat BY PowersOfTwo DEF Exponents
<1>5. x.v \in Int /\ y.v \in Int /\ Fits(u, y.v) BY DEF CVal
<1> PICK v \in Int, w \in Int : v = x.v * 2^s /\ w = y.v \div 2^k
  <2> PICK P \in Nat \ {0}, Q \in Nat \ {0} : P = 2^s /\ Q = 2^k BY <1>4, PowerType
  <2>1. x.v * P \in Int /\ y.v \div Q \in Int BY <1>5
  <2> QED BY <2>1
<1>6. Helpers!Shl(x, s) = Ops!Val(t, v) /\ Helpers!Shr(y, k) = Ops!Val(t, w)
  BY HelperShifts
<1>7. Ops!Bit(v, j) = IF j >= s THEN Ops!Bit(x.v, j - s) ELSE 0 BY <1>4, <1>5, ShlBits
<1>8. Ops!Bit(w, j) = IF j + k < n THEN Ops!Bit(y.v, j + k) ELSE 0 BY <1>2, <1>5, ShrBits
<1>9. Ops!Bit(v, j) \in {0, 1} /\ Ops!Bit(w, j) \in {0, 1} BY <1>4, BitType
<1>10. /\ Merged(n, x.v, s, y.v, k, j) = IF Ops!Bit(v, j) + Ops!Bit(w, j) = 0 THEN 0 ELSE 1
       /\ Merged(n, x.v, s, y.v, k, j) = IF Ops!Bit(w, j) + Ops!Bit(v, j) = 0 THEN 0 ELSE 1
  <2> PICK e \in {0, 1}, f \in {0, 1} : e = Ops!Bit(v, j) /\ f = Ops!Bit(w, j) BY <1>9
  <2>1. (j >= s /\ Ops!Bit(x.v, j - s) = 1) <=> e = 1 BY <1>7
  <2>2. (j + k < n /\ Ops!Bit(y.v, j + k) = 1) <=> f = 1 BY <1>8
  <2>3. Merged(n, x.v, s, y.v, k, j) = IF e = 1 \/ f = 1 THEN 1 ELSE 0 BY <2>1, <2>2, Zenon DEF Merged
  <2>4. (IF e = 1 \/ f = 1 THEN 1 ELSE 0) = IF e + f = 0 THEN 0 ELSE 1 OBVIOUS
  <2>5. (IF e = 1 \/ f = 1 THEN 1 ELSE 0) = IF f + e = 0 THEN 0 ELSE 1 OBVIOUS
  <2> QED BY <2>3, <2>4, <2>5
<1> DEFINE r1 == Helpers!Cast(ty, Helpers!BitOr(Ops!Val(t, v), Ops!Val(t, w)))
           r2 == Helpers!Cast(ty, Helpers!BitOr(Ops!Val(t, w), Ops!Val(t, v)))
<1>11. CVal(r1) /\ r1.ty = ty /\ Ops!Bit(r1.v, j) = IF Ops!Bit(v, j) + Ops!Bit(w, j) = 0 THEN 0 ELSE 1
  BY <1>1, <1>3, OrOfShifts
<1>12. CVal(r2) /\ r2.ty = ty /\ Ops!Bit(r2.v, j) = IF Ops!Bit(w, j) + Ops!Bit(v, j) = 0 THEN 0 ELSE 1
  BY <1>1, <1>3, OrOfShifts
<1>13. /\ Helpers!Cast(ty, Helpers!BitOr(Helpers!Shl(x, s), Helpers!Shr(y, k))) = r1
       /\ Helpers!Cast(ty, Helpers!BitOr(Helpers!Shr(y, k), Helpers!Shl(x, s))) = r2
  BY <1>6
<1> HIDE DEF r1, r2
<1> QED BY <1>10, <1>11, <1>12, <1>13

(* The amounts and places of a rotation, from the amount below the width. *)
LEMMA RotateAmounts ==
  ASSUME NEW n \in Nat \ {0}, NEW s \in 0 .. 2 * n, NEW i \in 0 .. n - 1
  PROVE  \E m \in 0 .. n - 1 :
           /\ s % n = m
           /\ (n - s) % n = IF m = 0 THEN 0 ELSE n - m
           /\ (i + s) % n = IF i + m < n THEN i + m ELSE i + m - n
           /\ (i + 2 * n - s) % n = IF i >= m THEN i - m ELSE i - m + n
<1>1. PICK c \in {0, 1, 2}, m \in 0 .. n - 1 : s = c * n + m
  <2>1. CASE s < n BY <2>1
  <2>2. CASE n <= s /\ s < 2 * n
    <3>1. s - n \in 0 .. n - 1 /\ s = 1 * n + (s - n) BY <2>2
    <3> QED BY <3>1
  <2>3. CASE s = 2 * n
    <3>1. 0 \in 0 .. n - 1 /\ s = 2 * n + 0 BY <2>3
    <3> QED BY <3>1
  <2> QED BY <2>1, <2>2, <2>3
<1>2. c * n \in Int /\ \A d \in Int : (d - c) * n = d * n - c * n /\ (d + c) * n = d * n + c * n OBVIOUS
<1>3. s % n = m BY <1>1, ModUnique
<1>4. (n - s) % n = IF m = 0 THEN 0 ELSE n - m
  <2>1. CASE m = 0
    <3>1. n - s = (1 - c) * n + 0 /\ 1 - c \in Int /\ n - s \in Int /\ 0 \in 0 .. n - 1 BY <1>1, <1>2, <2>1
    <3> QED BY <2>1, <3>1, ModUnique
  <2>2. CASE m # 0
    <3>1. (n - s) = (0 - c) * n + (n - m) /\ 0 - c \in Int /\ n - s \in Int /\ n - m \in 0 .. n - 1
      BY <1>1, <1>2, <2>2
    <3> QED BY <2>2, <3>1, ModUnique
  <2> QED BY <2>1, <2>2
<1>5. (i + s) % n = IF i + m < n THEN i + m ELSE i + m - n
  <2>1. CASE i + m < n
    <3>1. i + s = c * n + (i + m) /\ i + s \in Int /\ i + m \in 0 .. n - 1 /\ c \in Int BY <1>1, <1>2, <2>1
    <3> QED BY <2>1, <3>1, ModUnique
  <2>2. CASE ~(i + m < n)
    <3>1. i + s = (1 + c) * n + (i + m - n) /\ i + s \in Int /\ i + m - n \in 0 .. n - 1 /\ 1 + c \in Int
      BY <1>1, <1>2, <2>2
    <3> QED BY <2>2, <3>1, ModUnique
  <2> QED BY <2>1, <2>2
<1>6. (i + 2 * n - s) % n = IF i >= m THEN i - m ELSE i - m + n
  <2>1. CASE i >= m
    <3>1. i + 2 * n - s = (2 - c) * n + (i - m) /\ i + 2 * n - s \in Int /\ i - m \in 0 .. n - 1 /\ 2 - c \in Int
      BY <1>1, <1>2, <2>1
    <3> QED BY <2>1, <3>1, ModUnique
  <2>2. CASE ~(i >= m)
    <3>1. i + 2 * n - s = (1 - c) * n + (i - m + n) /\ i + 2 * n - s \in Int
          /\ i - m + n \in 0 .. n - 1 /\ 1 - c \in Int
      BY <1>1, <1>2, <2>2
    <3> QED BY <2>2, <3>1, ModUnique
  <2> QED BY <2>1, <2>2
<1> QED BY <1>3, <1>4, <1>5, <1>6

(* Both words of a rotation are a: bit i comes to i + m, modulo n, and to  *)
(* i - m.                                                                  *)
TurnedBit(n, a, m, i) ==
  LET k == IF m = 0 THEN 0 ELSE n - m
      left == IF i + m < n THEN i + m ELSE i + m - n
      right == IF i >= m THEN i - m ELSE i - m + n
  IN /\ k \in 0 .. n - 1 /\ left \in 0 .. n - 1 /\ right \in 0 .. n - 1
     /\ Merged(n, a, m, a, k, left) = Ops!Bit(a, i)
     /\ Merged(n, a, k, a, m, right) = Ops!Bit(a, i)

LEMMA RotatedBit ==
  ASSUME NEW n \in Exponents \ {0}, NEW a \in Int, NEW m \in 0 .. n - 1, NEW i \in 0 .. n - 1
  PROVE  TurnedBit(n, a, m, i)
<1> DEFINE k == IF m = 0 THEN 0 ELSE n - m
           left == IF i + m < n THEN i + m ELSE i + m - n
           right == IF i >= m THEN i - m ELSE i - m + n
<1>1. n \in Nat /\ i \in Exponents BY PowersOfTwo DEF Exponents
<1>2. k \in 0 .. n - 1 /\ left \in 0 .. n - 1 /\ right \in 0 .. n - 1 BY <1>1
<1>3. Ops!Bit(a, i) \in {0, 1} BY <1>1, BitType
<1>4. Merged(n, a, m, a, k, left) = Ops!Bit(a, i)
  <2>1. /\ left >= m => left - m = i
        /\ left + k < n => left + k = i
        /\ left >= m \/ left + k < n
    BY <1>1
  <2> HIDE DEF left, k
  <2> QED BY <1>3, <2>1, Zenon DEF Merged
<1>5. Merged(n, a, k, a, m, right) = Ops!Bit(a, i)
  <2>1. /\ right >= k => right - k = i
        /\ right + m < n => right + m = i
        /\ right >= k \/ right + m < n
    BY <1>1
  <2> HIDE DEF right, k
  <2> QED BY <1>3, <2>1, Zenon DEF Merged
<1> QED BY <1>2, <1>4, <1>5 DEF TurnedBit

(* Rotations by any amount, the width and more included. *)
LEMMA RotateExact ==
  ASSUME NEW ty \in Helpers!Types, NEW a \in 0 .. 2^ty.bits - 1, NEW s \in 0 .. 2 * ty.bits,
         NEW left \in BOOLEAN, NEW r, r \in Helpers!codegen_rotate(left, ty, Helpers!Val(ty, a), s),
         NEW i \in 0 .. ty.bits - 1
  PROVE  Ops!Bit(Ops!Pattern(ty.bits, r.v),
                 IF left THEN (i + s) % ty.bits ELSE (i + 2 * ty.bits - s) % ty.bits) = Ops!Bit(a, i)
<1>1. ty \in CTypes /\ ty.bits \in Exponents \ {0} BY HelperTypes
<1> PICK n \in Exponents \ {0} : n = ty.bits BY <1>1
<1>2. n \in Nat \ {0} BY DEF Exponents
<1>3. a \in Int
  <2>1. 2^n \in Nat BY PowerType
  <2> QED BY <2>1
<1>4. PICK m \in 0 .. n - 1 :
           /\ s % n = m
           /\ (n - s) % n = IF m = 0 THEN 0 ELSE n - m
           /\ (i + s) % n = IF i + m < n THEN i + m ELSE i + m - n
           /\ (i + 2 * n - s) % n = IF i >= m THEN i - m ELSE i - m + n
  BY <1>2, RotateAmounts
<1> DEFINE k == (n - s) % n
           up == (i + s) % n
           down == (i + 2 * n - s) % n
           u == Helpers!Cast(Helpers!Unsigned(ty), Helpers!Val(ty, a))
<1>5. /\ k \in 0 .. n - 1 /\ up \in 0 .. n - 1 /\ down \in 0 .. n - 1
      /\ Merged(n, a, m, a, k, up) = Ops!Bit(a, i)
      /\ Merged(n, a, k, a, m, down) = Ops!Bit(a, i)
  <2> DEFINE k1 == IF m = 0 THEN 0 ELSE n - m
             up1 == IF i + m < n THEN i + m ELSE i + m - n
             down1 == IF i >= m THEN i - m ELSE i - m + n
  <2>1. /\ k1 \in 0 .. n - 1 /\ up1 \in 0 .. n - 1 /\ down1 \in 0 .. n - 1
        /\ Merged(n, a, m, a, k1, up1) = Ops!Bit(a, i)
        /\ Merged(n, a, k1, a, m, down1) = Ops!Bit(a, i)
    <3>1. TurnedBit(n, a, m, i) BY <1>3, RotatedBit
    <3> QED BY <3>1, Zenon DEF TurnedBit
  <2>2. k = k1 /\ up = up1 /\ down = down1 BY <1>4
  <2> HIDE DEF k, up, down, k1, up1, down1
  <2> QED BY <2>1, <2>2
<1>6. CVal(u) /\ u.ty = Helpers!Unsigned(ty) /\ u.v = a BY UnsignedOperand
<1>7. r = Helpers!Cast(ty, IF left THEN Helpers!BitOr(Helpers!Shl(u, m), Helpers!Shr(u, k))
                           ELSE Helpers!BitOr(Helpers!Shr(u, m), Helpers!Shl(u, k)))
  BY <1>4 DEF Helpers!codegen_rotate
<1> HIDE DEF k, up, down, u
<1> PICK j \in 0 .. n - 1 : j = IF left THEN up ELSE down BY <1>5
<1>8. CVal(r) /\ r.ty = ty /\ Ops!Bit(r.v, j) = Ops!Bit(a, i)
  <2>1. CASE left
    <3>1. r = Helpers!Cast(ty, Helpers!BitOr(Helpers!Shl(u, m), Helpers!Shr(u, k))) /\ j = up BY <1>7, <2>1
    <3>2. CVal(r) /\ r.ty = ty /\ Ops!Bit(r.v, j) = Merged(n, a, m, a, k, j)
      BY <1>5, <1>6, <3>1, MergedBits
    <3> QED BY <1>5, <3>1, <3>2
  <2>2. CASE ~left
    <3>1. r = Helpers!Cast(ty, Helpers!BitOr(Helpers!Shr(u, m), Helpers!Shl(u, k))) /\ j = down BY <1>7, <2>2
    <3>2. CVal(r) /\ r.ty = ty /\ Ops!Bit(r.v, j) = Merged(n, a, k, a, m, j)
      BY <1>5, <1>6, <3>1, MergedBits
    <3> QED BY <1>5, <3>1, <3>2
  <2> QED BY <2>1, <2>2
<1>9. r.v \in Int BY <1>8 DEF CVal
<1>10. Ops!Bit(Ops!Pattern(n, r.v), j) = Ops!Bit(r.v, j) BY <1>9, SameItself, PatternBits
<1> QED BY <1>8, <1>10 DEF up, down

(* A number a of n bits, turned by s. *)
IsTurnedLeft(n, r, a, s) == \A i \in 0 .. n - 1 : Ops!Bit(Ops!Pattern(n, r), (i + s) % n) = Ops!Bit(a, i)
IsTurnedRight(n, r, a, s) ==
  \A i \in 0 .. n - 1 : Ops!Bit(Ops!Pattern(n, r), (i + 2 * n - s) % n) = Ops!Bit(a, i)

LEMMA TurnedExact ==
  ASSUME NEW ty \in Helpers!Types, NEW a \in 0 .. 2^ty.bits - 1, NEW s \in 0 .. 2 * ty.bits, NEW r
  PROVE  /\ r \in Helpers!codegen_rotate(TRUE, ty, Helpers!Val(ty, a), s) => IsTurnedLeft(ty.bits, r.v, a, s)
         /\ r \in Helpers!codegen_rotate(FALSE, ty, Helpers!Val(ty, a), s) => IsTurnedRight(ty.bits, r.v, a, s)
<1>1. ASSUME NEW left \in BOOLEAN, r \in Helpers!codegen_rotate(left, ty, Helpers!Val(ty, a), s),
             NEW i \in 0 .. ty.bits - 1
      PROVE  Ops!Bit(Ops!Pattern(ty.bits, r.v),
                     IF left THEN (i + s) % ty.bits ELSE (i + 2 * ty.bits - s) % ty.bits) = Ops!Bit(a, i)
  BY <1>1, RotateExact
<1>2. ASSUME r \in Helpers!codegen_rotate(TRUE, ty, Helpers!Val(ty, a), s) PROVE IsTurnedLeft(ty.bits, r.v, a, s)
  BY <1>1, <1>2 DEF IsTurnedLeft
<1>3. ASSUME r \in Helpers!codegen_rotate(FALSE, ty, Helpers!Val(ty, a), s) PROVE IsTurnedRight(ty.bits, r.v, a, s)
  BY <1>1, <1>3 DEF IsTurnedRight
<1> QED BY <1>2, <1>3

(* The upper word of a double word that is shifted to the left: the number *)
(* of a's lower bits with b's upper bits behind them.                      *)
IsUpper(S, K, P, a, b) ==
  /\ b \div K \in 0 .. S - 1
  /\ ((a * P + b) * S) \div P = a * S + b \div K

LEMMA UpperWord ==
  ASSUME NEW S \in Nat \ {0}, NEW K \in Nat \ {0}, NEW P \in Nat \ {0}, P = S * K,
         NEW a \in Nat, NEW b \in 0 .. P - 1
  PROVE  IsUpper(S, K, P, a, b)
<1> PICK d \in Int, e \in 0 .. K - 1 : d = b \div K /\ b = d * K + e BY ModFacts
<1>1. d \in 0 .. S - 1
  <2>1. d >= 0
    <3> SUFFICES ASSUME d <= -1 PROVE FALSE OBVIOUS
    <3>1. d * K <= (-1) * K
      <4>1. (-1 - d) * K >= 0 BY -1 - d >= 0
      <4>2. (-1 - d) * K = (-1) * K - d * K OBVIOUS
      <4> QED BY <4>1, <4>2
    <3> QED BY <3>1
  <2>2. d < S
    <3> SUFFICES ASSUME d >= S PROVE FALSE OBVIOUS
    <3>1. d * K >= S * K
      <4>1. (d - S) * K >= 0 BY d - S >= 0
      <4>2. (d - S) * K = d * K - S * K OBVIOUS
      <4> QED BY <4>1, <4>2
    <3>2. d * K \in Int OBVIOUS
    <3> QED BY <3>1, <3>2
  <2> QED BY <2>1, <2>2
<1>2. e * S \in 0 .. P - 1
  <2>1. e * S >= 0 OBVIOUS
  <2>2. (K - 1 - e) * S >= 0 BY K - 1 - e >= 0
  <2>3. (K - 1 - e) * S = K * S - S - e * S OBVIOUS
  <2>4. K * S = P /\ e * S \in Int OBVIOUS
  <2> QED BY <2>1, <2>2, <2>3, <2>4
<1>3. (a * P + b) * S = (a * S + d) * P + e * S
  <2>1. (a * P + b) * S = (a * P) * S + b * S OBVIOUS
  <2>2. b * S = (d * K) * S + e * S OBVIOUS
  <2>3. (a * P) * S = (a * S) * P /\ (d * K) * S = d * P OBVIOUS
  <2>4. (a * S + d) * P = (a * S) * P + d * P OBVIOUS
  <2> QED BY <2>1, <2>2, <2>3, <2>4
<1>4. a * S + d \in Int /\ (a * P + b) * S \in Int OBVIOUS
<1>5. ((a * P + b) * S) \div P = a * S + d BY <1>2, <1>3, <1>4, ModUnique
<1> QED BY <1>1, <1>5 DEF IsUpper

LEMMA UpperOfDouble ==
  ASSUME NEW s \in Nat, NEW k \in Nat, s + k \in Exponents, NEW n, n = s + k,
         NEW a \in Nat, NEW b \in 0 .. 2^n - 1
  PROVE  IsUpper(2^s, 2^k, 2^n, a, b)
<1>1. /\ s \in Exponents /\ k \in Exponents /\ n \in Exponents /\ 2^n = 2^s * 2^k
  BY PowerSum
<1>2. 2^s \in Nat \ {0} /\ 2^k \in Nat \ {0} /\ 2^n \in Nat \ {0} BY <1>1, PowerType
<1> QED BY <1>1, <1>2, UpperWord

LEMMA UpperBits ==
  ASSUME NEW s \in Exponents, NEW a \in Nat, NEW d \in 0 .. 2^s - 1, NEW j \in Exponents
  PROVE  Ops!Bit(a * 2^s + d, j) = IF j >= s THEN Ops!Bit(a, j - s) ELSE Ops!Bit(d, j)
<1> PICK S \in Nat \ {0} : S = 2^s BY PowerType
<1> PICK w \in Int : w = a * S + d OBVIOUS
<1>1. s \in Nat /\ j \in Nat BY DEF Exponents
<1>2. CASE j >= s
  <2>1. j - s \in Nat /\ s + (j - s) = j BY <1>1, <1>2
  <2>2. j - s \in Exponents /\ 2^j = S * 2^(j - s) BY <1>1, <2>1, PowerSum
  <2> PICK D \in Nat \ {0} : D = 2^(j - s) BY <2>2, PowerType
  <2>3. (w \div S) \div D = w \div (S * D) BY DivDiv
  <2>4. w \div S = a BY ModUnique
  <2>5. w \div 2^j = a \div 2^(j - s) BY <2>2, <2>3, <2>4
  <2> QED BY <1>2, <2>5 DEF Ops!Bit
<1>3. CASE ~(j >= s)
  <2>1. j \in 0 .. s - 1 BY <1>1, <1>3
  <2>2. w = d + a * S BY DEF Same
  <2>3. Same(s, w, d) BY <2>2 DEF Same
  <2>4. d \in Int OBVIOUS
  <2>5. Ops!Bit(w, j) = Ops!Bit(d, j) BY <2>1, <2>3, <2>4, SameBits
  <2> QED BY <1>3, <2>5
<1> QED BY <1>2, <1>3

(* A funnel shift to the left, by an amount that is not 0. *)
UpperShifted(n, a, b, s) == (((a * 2^n + b) * 2^s) \div 2^n) % 2^n

LEMMA FunnelLeft ==
  ASSUME NEW ty \in Helpers!Types, NEW a \in 0 .. 2^ty.bits - 1, NEW b \in 0 .. 2^ty.bits - 1,
         NEW s \in 1 .. ty.bits - 1, NEW r,
         r \in Helpers!codegen_funnel_shift(TRUE, ty, Helpers!Val(ty, a), Helpers!Val(ty, b), s)
  PROVE  Helpers!Pattern(ty.bits, r.v) = UpperShifted(ty.bits, a, b, s)
<1>1. ty \in CTypes /\ ty.bits \in Exponents \ {0} BY HelperTypes
<1> PICK n \in Exponents \ {0} : n = ty.bits BY <1>1
<1> PICK k \in 1 .. n - 1 : k = n - s BY DEF Exponents
<1>2. /\ s \in Nat /\ k \in Nat /\ s + k = n /\ s \in 0 .. n - 1 /\ k \in 0 .. n - 1
      /\ s \in Exponents /\ k \in Exponents /\ n \in Nat
  BY PowersOfTwo DEF Exponents
<1> PICK P \in Nat \ {0}, S \in Nat \ {0}, K \in Nat \ {0} : P = 2^n /\ S = 2^s /\ K = 2^k
  BY <1>2, PowerType
<1>4. a \in Nat /\ b \in Nat OBVIOUS
<1>3. IsUpper(S, K, P, a, b) BY <1>2, <1>4, UpperOfDouble
<1> PICK d \in 0 .. S - 1 : d = b \div K BY <1>3 DEF IsUpper
<1>5. ((a * P + b) * S) \div P = a * S + d BY <1>3, Zenon DEF IsUpper
<1> DEFINE ua == Helpers!Cast(Helpers!Unsigned(ty), Helpers!Val(ty, a))
           ub == Helpers!Cast(Helpers!Unsigned(ty), Helpers!Val(ty, b))
<1>6. /\ CVal(ua) /\ ua.ty = Helpers!Unsigned(ty) /\ ua.v = a
      /\ CVal(ub) /\ ub.ty = Helpers!Unsigned(ty) /\ ub.v = b
  BY UnsignedOperand
<1> PICK u : u = Helpers!Unsigned(ty) OBVIOUS
<1>7. u \in CTypes /\ u.bits = n /\ ~u.sgn
  <2>1. u = Ops!Type(n, FALSE) BY HelpersC DEF Helpers!Unsigned
  <2> QED BY <2>1, TypeFacts
<1>8. r = Helpers!Cast(ty, Helpers!BitOr(Helpers!Shl(ua, s), Helpers!Shr(ub, k)))
  <2>1. Helpers!Promote(ub).ty = Shifted(u) BY <1>6, HelperShifts
  <2>2. Shifted(u) \in CTypes /\ Shifted(u).bits >= n BY <1>7, ShiftedType
  <2>3. ~(k >= Helpers!Promote(ub).ty.bits)
    <3> PICK m \in Nat : m = Shifted(u).bits BY <2>2 DEF CTypes, Exponents
    <3>1. m >= n BY <2>2
    <3>2. ~(k >= m) BY <1>2, <3>1
    <3> QED BY <2>1, <3>2
  <2> QED BY <2>3 DEF Helpers!codegen_funnel_shift
<1> HIDE DEF ua, ub
<1> PICK w \in Int : w = a * S + d OBVIOUS
<1>9. ASSUME NEW j \in 0 .. n - 1
      PROVE  CVal(r) /\ Ops!Bit(r.v, j) = Ops!Bit(w, j)
  <2>1. CVal(r) /\ Ops!Bit(r.v, j) = Merged(n, a, s, b, k, j) BY <1>2, <1>6, <1>8, MergedBits
  <2>2. j \in Exponents /\ j \in Nat BY <1>2, PowersOfTwo DEF Exponents
  <2>3. Ops!Bit(w, j) = IF j >= s THEN Ops!Bit(a, j - s) ELSE Ops!Bit(d, j) BY <1>2, <1>4, <2>2, UpperBits
  <2>4. CASE j >= s
    <3>1. ~(j + k < n) /\ j - s \in Exponents BY <1>2, <2>2, <2>4, PowersOfTwo DEF Exponents
    <3>2. Ops!Bit(a, j - s) \in {0, 1} BY <1>4, <3>1, BitType
    <3>3. Merged(n, a, s, b, k, j) = Ops!Bit(a, j - s) BY <2>4, <3>1, <3>2, Zenon DEF Merged
    <3> QED BY <2>1, <2>3, <2>4, <3>3
  <2>5. CASE ~(j >= s)
    <3>1. j + k < n /\ j + k \in Exponents BY <1>2, <2>2, <2>5, PowersOfTwo DEF Exponents
    <3>2. Ops!Bit(b, j + k) \in {0, 1} BY <1>4, <3>1, BitType
    <3>3. Merged(n, a, s, b, k, j) = Ops!Bit(b, j + k) BY <2>5, <3>1, <3>2, Zenon DEF Merged
    <3>4. Fits(u, b) BY <1>6 DEF CVal
    <3>5. Ops!Bit(b \div 2^k, j) = Ops!Bit(b, j + k) BY <1>2, <1>7, <3>1, <3>4, ShrBits
    <3> QED BY <2>1, <2>3, <2>5, <3>3, <3>5
  <2> QED BY <2>4, <2>5
<1>10. r.v \in Int
  <2>1. 0 \in 0 .. n - 1 BY <1>2
  <2> QED BY <1>9, <2>1 DEF CVal
<1> PICK p \in 0 .. P - 1, q \in 0 .. P - 1 : p = r.v % P /\ q = w % P BY <1>10, ModFacts
<1>11. ASSUME NEW j \in 0 .. n - 1 PROVE Ops!Bit(p, j) = Ops!Bit(q, j)
  <2>1. Ops!Bit(Ops!Pattern(n, r.v), j) = Ops!Bit(r.v, j) BY <1>10, SameItself, PatternBits
  <2>2. Ops!Bit(Ops!Pattern(n, w), j) = Ops!Bit(w, j) BY SameItself, PatternBits
  <2>3. Ops!Pattern(n, r.v) = p /\ Ops!Pattern(n, w) = q BY DEF Ops!Pattern
  <2> QED BY <1>9, <2>1, <2>2, <2>3
<1>12. p = q BY <1>11, BitsOnce
<1> QED BY <1>5, <1>12 DEF Helpers!Pattern, UpperShifted

(* The constant 1 is an int, and int has a bit beside the sign. *)
HelperIntType == Ops!Type(HelperInt, TRUE)

LEMMA HelperOne ==
  /\ 1 \in Exponents /\ HelperIntType \in CTypes /\ HelperIntType.bits = HelperInt /\ HelperIntType.sgn
  /\ CVal(Helpers!One) /\ Helpers!One.ty = HelperIntType /\ Helpers!One.v = 1
<1>1. HelperInt \in Exponents \ {0} /\ HelperInt \in Nat /\ HelperInt >= 2
  <2>1. HelperBits \in Nat \ {0} /\ HelperInt \in Exponents \ {0} BY HelperScale
  <2> QED BY <2>1 DEF HelperInt
<1>2. 1 \in Exponents BY <1>1, PowersOfTwo DEF Exponents
<1>3. HelperIntType \in CTypes /\ HelperIntType.bits = HelperInt /\ HelperIntType.sgn
  BY <1>1, TypeFacts DEF HelperIntType
<1>4. Helpers!One = Ops!Val(HelperIntType, 1) BY HelpersC, Zenon DEF Helpers!One, HelperInt, HelperIntType
<1>5. Fits(HelperIntType, 1)
  <2>1. HelperInt - 1 \in Exponents \ {0} BY <1>1, PowersOfTwo DEF Exponents
  <2> PICK Q \in Nat \ {0} : 2^(HelperInt - 1) = 2 * Q
    <3>1. (HelperInt - 1) - 1 \in Exponents /\ 2^(HelperInt - 1) = 2 * 2^((HelperInt - 1) - 1) BY <2>1, PowerStep
    <3> QED BY <3>1, PowerType
  <2> PICK R \in Nat : R = 2^(HelperInt - 1) /\ R = 2 * Q OBVIOUS
  <2>2. -R <= 1 /\ 1 < R OBVIOUS
  <2>3. R = 2^(HelperIntType.bits - 1) BY <1>3
  <2> QED BY <1>3, <2>2, <2>3 DEF Fits
<1>6. CVal(Helpers!One) /\ Helpers!One.ty = HelperIntType /\ Helpers!One.v = 1
  <2>1. 1 \in Int OBVIOUS
  <2> QED BY <1>3, <1>4, <1>5, <2>1, ValFacts
<1> QED BY <1>2, <1>3, <1>6

LEMMA BitsOfOne ==
  ASSUME NEW j \in Exponents
  PROVE  /\ Ops!Bit(1, j) = IF j = 0 THEN 1 ELSE 0
         /\ Ops!Bit(0, j) = 0
<1> PICK P \in Nat \ {0} : P = 2^j BY PowerType
<1>1. Ops!Bit(0, j) = 0
  <2>1. 0 \div P = 0 BY ModSmall
  <2> QED BY <2>1 DEF Ops!Bit
<1>2. CASE j = 0
  <2>1. P = 1 BY <1>2, PowersOfTwo
  <2>2. 1 \div P = 1 BY <2>1
  <2> QED BY <1>1, <1>2, <2>2 DEF Ops!Bit
<1>3. CASE j # 0
  <2> PICK Q \in Nat \ {0} : P = 2 * Q BY <1>3, PowerStep, PowerType
  <2>1. 1 \div P = 0
    <3>1. 1 < P /\ -P <= 1 /\ 1 >= 0 OBVIOUS
    <3> QED BY <3>1, ModSmall
  <2> QED BY <1>1, <1>3, <2>1 DEF Ops!Bit
<1> QED BY <1>2, <1>3

(* & 1 keeps the lowest bit of a shifted value, and its type. *)
Lowest(t, w, z) ==
  /\ Helpers!BitAnd(Ops!Val(t, w), Helpers!One) = Ops!Val(t, z)
  /\ \A j \in 0 .. t.bits - 1 : Ops!Bit(z, j) = IF j = 0 THEN Ops!Bit(w, 0) ELSE 0

LEMMA AndOne ==
  ASSUME NEW t \in CTypes, t.bits >= HelperInt, NEW w \in Int
  PROVE  \E z \in Int : Lowest(t, w, z)
<1> PICK x, y : x = Ops!Val(t, w) /\ y = Helpers!One OBVIOUS
<1> PICK int : int = HelperIntType OBVIOUS
<1>1. HelperInt \in Exponents \ {0} BY HelperScale
<1>2. CVal(x) /\ x.ty = t /\ x.v \in Int /\ Same(t.bits, x.v, w) BY ValFacts DEF CVal
<1>3. CVal(y) /\ y.ty = int /\ y.v = 1 /\ int \in CTypes /\ int.bits = HelperInt /\ int.sgn BY HelperOne
<1> PICK m \in Exponents \ {0} : m = t.bits BY DEF CTypes
<1>4. m \in Nat /\ HelperInt \in Nat BY <1>1 DEF Exponents
<1>5. CommonAt(HelperInt, x, y) = t
  <2>1. PromoteAt(HelperInt, x) = x BY <1>1, <1>2, PromoteFacts
  <2>2. int.bits >= HelperInt
    <3> PICK h \in Nat : h = HelperInt BY <1>4
    <3>1. int.bits = h /\ h >= h BY <1>3
    <3> QED BY <3>1
  <2>3. PromoteAt(HelperInt, y) = y BY <1>1, <1>3, <2>2, PromoteFacts
  <2>4. CommonAt(HelperInt, x, y) = Ops!CommonType(t, int) BY <1>2, <1>3, <2>1, <2>3 DEF CommonAt
  <2>5. CASE m = HelperInt
    <3>1. Ops!CommonType(t, int) = Ops!Type(m, t.sgn /\ int.sgn) BY <1>3, <2>5 DEF Ops!CommonType
    <3>2. t = [bits |-> m, sgn |-> t.sgn] /\ t.sgn \in BOOLEAN BY DEF CTypes
    <3>3. (t.sgn /\ int.sgn) = t.sgn BY <1>3, <3>2
    <3> QED BY <2>4, <3>1, <3>2, <3>3 DEF Ops!Type
  <2>6. CASE m # HelperInt
    <3>1. m > HelperInt BY <1>4, <2>6
    <3> QED BY <1>3, <2>4, <2>6, <3>1 DEF Ops!CommonType
  <2> QED BY <2>5, <2>6
<1> PICK c, d : c = Ops!Cast(t, x).v /\ d = Ops!Cast(t, y).v OBVIOUS
<1>6. c \in Int /\ Same(m, c, x.v) /\ d \in Int /\ Same(m, d, 1)
  <2>1. Ops!Cast(t, x) = Ops!Val(t, x.v) /\ Ops!Cast(t, y) = Ops!Val(t, 1) BY <1>3, CastFacts
  <2>2. CVal(Ops!Val(t, x.v)) /\ Same(m, c, x.v) BY <1>2, <2>1, ValFacts
  <2>3. CVal(Ops!Val(t, 1)) /\ Same(m, d, 1) BY <2>1, ValFacts
  <2> QED BY <2>1, <2>2, <2>3 DEF CVal
<1>7. Same(m, c, w) BY <1>2, <1>6, SameBoth
<1> PICK a \in Int, b \in Int : a = c % 2^m /\ b = d % 2^m
  <2> PICK P \in Nat \ {0} : P = 2^m BY PowerType
  <2>1. c % P \in Int /\ d % P \in Int BY <1>6
  <2> QED BY <2>1
<1> DEFINE z == Ops!AndBits(m, a, b)
<1>8. Helpers!BitAnd(x, y) = Ops!Val(t, z)
  <2>1. Helpers!BitAnd(x, y) = BinAt(HelperInt, "&", x, y) BY HelpersC DEF Helpers!BitAnd
  <2>2. BinAt(HelperInt, "&", x, y) = Ops!Val(t, Ops!Apply("&", m, c, d)) BY <1>5 DEF BinAt
  <2>3. Ops!Apply("&", m, c, d) = z BY <1>6, ApplyFacts
  <2> QED BY <2>1, <2>2, <2>3
<1>9. z \in 0 .. 2^m - 1 /\ \A j \in 0 .. m - 1 : Ops!Bit(z, j) = Ops!Bit(a, j) * Ops!Bit(b, j)
  BY BitwiseFacts
<1>10. z \in Int
  <2>1. 2^m \in Nat BY PowerType
  <2> QED BY <1>9, <2>1
<1> HIDE DEF z
<1>11. ASSUME NEW j \in 0 .. m - 1 PROVE Ops!Bit(z, j) = IF j = 0 THEN Ops!Bit(w, 0) ELSE 0
  <2>1. j \in Exponents BY <1>4, PowersOfTwo DEF Exponents
  <2>2. Ops!Pattern(m, c) = a /\ Ops!Pattern(m, d) = b BY DEF Ops!Pattern
  <2>3. Ops!Bit(a, j) = Ops!Bit(w, j) BY <1>6, <1>7, <2>2, PatternBits
  <2>4. Ops!Bit(b, j) = Ops!Bit(1, j) BY <1>6, <2>2, PatternBits
  <2>5. Ops!Bit(1, j) = IF j = 0 THEN 1 ELSE 0 BY <2>1, BitsOfOne
  <2> PICK e \in {0, 1} : e = Ops!Bit(w, j) BY <2>1, BitType
  <2>6. Ops!Bit(z, j) = e * (IF j = 0 THEN 1 ELSE 0) BY <1>9, <2>3, <2>4, <2>5
  <2> QED BY <2>6
<1> QED BY <1>8, <1>10, <1>11 DEF Lowest

(* One round of the loop of codegen_bitreverse, and the results of all.    *)
Round(ty, u, x, i) ==
  Helpers!Cast(ty, Helpers!BitOr(Helpers!Shl(Helpers!Cast(Helpers!Unsigned(ty), x), 1),
                                 Helpers!BitAnd(Helpers!Shr(u, i - 1), Helpers!One)))
IsReversal(n, ty, u, g) ==
  g = [i \in 0 .. n |-> IF i = 0 THEN Helpers!Val(ty, 0) ELSE Round(ty, u, g[i - 1], i)]

LEMMA ReversalExists ==
  ASSUME NEW n \in Nat, NEW ty, NEW u
  PROVE  \E g : IsReversal(n, ty, u, g)
<1> DEFINE T == {m \in 0 .. n : \E g : IsReversal(m, ty, u, g)}
<1>1. 0 \in T
  <2> DEFINE g == [i \in 0 .. 0 |-> Helpers!Val(ty, 0)]
  <2>1. IsReversal(0, ty, u, g) BY DEF IsReversal
  <2> HIDE DEF g
  <2> QED BY <2>1
<1>2. ASSUME NEW m \in 0 .. n - 1, m \in T PROVE m + 1 \in T
  <2>1. PICK g : IsReversal(m, ty, u, g) BY <1>2
  <2> DEFINE h == [i \in 0 .. m + 1 |-> IF i = m + 1 THEN Round(ty, u, g[m], m + 1) ELSE g[i]]
  <2>2. ASSUME NEW i \in 0 .. m + 1
        PROVE  h[i] = IF i = 0 THEN Helpers!Val(ty, 0) ELSE Round(ty, u, h[i - 1], i)
    <3>1. CASE i = m + 1
      <4>1. m \in 0 .. m + 1 /\ m # m + 1 /\ i - 1 = m /\ i # 0 BY <3>1
      <4>2. h[i] = Round(ty, u, g[m], m + 1) /\ h[m] = g[m] BY <3>1, <4>1
      <4> QED BY <3>1, <4>1, <4>2
    <3>2. CASE i # m + 1
      <4>1. i \in 0 .. m BY <3>2
      <4>2. h[i] = g[i] BY <3>2
      <4>3. g[i] = IF i = 0 THEN Helpers!Val(ty, 0) ELSE Round(ty, u, g[i - 1], i)
        BY <2>1, <4>1 DEF IsReversal
      <4>4. i # 0 => h[i - 1] = g[i - 1] BY <4>1
      <4> QED BY <4>2, <4>3, <4>4
    <3> QED BY <3>1, <3>2
  <2>3. h = [i \in 0 .. m + 1 |-> h[i]] OBVIOUS
  <2> HIDE DEF h
  <2>4. h = [i \in 0 .. m + 1 |-> IF i = 0 THEN Helpers!Val(ty, 0) ELSE Round(ty, u, h[i - 1], i)]
    BY <2>2, <2>3
  <2>5. IsReversal(m + 1, ty, u, h) BY <2>4 DEF IsReversal
  <2> QED BY <2>5
<1> HIDE DEF T
<1>3. n \in T BY <1>1, <1>2, UpTo
<1> QED BY <1>3 DEF T

LEMMA ReversalIs ==
  ASSUME NEW ty, ty.bits \in Nat, NEW v
  PROVE  \E g : /\ IsReversal(ty.bits, ty, Helpers!Cast(Helpers!Unsigned(ty), v), g)
               /\ Helpers!codegen_bitreverse(ty, v) = g[ty.bits]
<1> DEFINE u == Helpers!Cast(Helpers!Unsigned(ty), v)
           g == CHOOSE r : r = [i \in 0 .. ty.bits |->
                  IF i = 0 THEN Helpers!Val(ty, 0)
                  ELSE Helpers!Cast(ty, Helpers!BitOr(
                         Helpers!Shl(Helpers!Cast(Helpers!Unsigned(ty), r[i - 1]), 1),
                         Helpers!BitAnd(Helpers!Shr(u, i - 1), Helpers!One)))]
<1>1. IsReversal(ty.bits, ty, u, g) BY ReversalExists DEF IsReversal, Round
<1>2. Helpers!codegen_bitreverse(ty, v) = g[ty.bits] BY DEF Helpers!codegen_bitreverse
<1> QED BY <1>1, <1>2

(* A round moves the bits up and puts bit i - 1 of a behind them. *)
LEMMA RoundBit ==
  ASSUME NEW ty \in Helpers!Types, NEW a \in Int, NEW u, CVal(u), u.ty = Helpers!Unsigned(ty), u.v = a,
         NEW x, CVal(x), x.ty = ty, NEW i \in 1 .. ty.bits, NEW j \in 0 .. ty.bits - 1
  PROVE  LET y == Round(ty, u, x, i)
         IN /\ CVal(y) /\ y.ty = ty
            /\ Ops!Bit(y.v, j) = IF j = 0 THEN Ops!Bit(a, i - 1) ELSE Ops!Bit(x.v, j - 1)
<1>1. ty \in CTypes /\ ty.bits \in Exponents \ {0} BY HelperTypes
<1> PICK n \in Exponents \ {0} : n = ty.bits BY <1>1
<1> PICK U : U = Helpers!Unsigned(ty) OBVIOUS
<1>2. U \in CTypes /\ U.bits = n /\ ~U.sgn
  <2>1. U = Ops!Type(n, FALSE) BY HelpersC DEF Helpers!Unsigned
  <2> QED BY <2>1, TypeFacts
<1> PICK t : t = Shifted(U) OBVIOUS
<1>3. t \in CTypes /\ t.bits >= n /\ t.bits >= HelperInt BY <1>2, ShiftedType
<1>4. n \in Nat /\ i - 1 \in 0 .. n - 1 /\ j \in 0 .. n - 1 /\ j \in Exponents /\ i - 1 \in Exponents
      /\ 1 \in Exponents /\ 0 \in 0 .. n - 1
  BY HelperOne, PowersOfTwo DEF Exponents
<1> PICK p : p = Helpers!Cast(U, x) OBVIOUS
<1>5. CVal(p) /\ p.ty = U /\ p.v \in Int /\ x.v \in Int /\ Same(n, p.v, x.v)
  <2>1. p = Ops!Val(U, x.v) BY <1>2, HelpersC, CastFacts
  <2>2. x.v \in Int BY DEF CVal
  <2> QED BY <1>2, <2>1, <2>2, ValFacts DEF CVal
<1> PICK v \in Int, w \in Int : v = p.v * 2^1 /\ w = a \div 2^(i - 1)
  <2> PICK P \in Nat \ {0}, Q \in Nat \ {0} : P = 2^1 /\ Q = 2^(i - 1) BY <1>4, PowerType
  <2>1. p.v * P \in Int /\ a \div Q \in Int BY <1>5
  <2> QED BY <2>1
<1>6. Helpers!Shl(p, 1) = Ops!Val(t, v) /\ Helpers!Shr(u, i - 1) = Ops!Val(t, w)
  BY <1>5, HelperShifts
<1>7. Ops!Bit(v, j) = IF j >= 1 THEN Ops!Bit(p.v, j - 1) ELSE 0
  <2> PICK q \in Int : q = p.v BY <1>5
  <2>1. Ops!Bit(q * 2^1, j) = IF j >= 1 THEN Ops!Bit(q, j - 1) ELSE 0 BY <1>4, ShlBits
  <2> QED BY <2>1
<1>8. Ops!Bit(w, 0) = Ops!Bit(a, i - 1)
  <2>1. Fits(U, a) BY DEF CVal
  <2>2. 0 + (i - 1) = i - 1 /\ 0 + (i - 1) < n BY <1>4
  <2>3. Ops!Bit(w, 0) = IF 0 + (i - 1) < n THEN Ops!Bit(a, 0 + (i - 1)) ELSE 0
    BY <1>2, <1>4, <2>1, ShrBits
  <2> QED BY <2>2, <2>3
<1>9. PICK z \in Int : Lowest(t, w, z) BY <1>3, AndOne
<1>10. Ops!Bit(z, j) = IF j = 0 THEN Ops!Bit(a, i - 1) ELSE 0
  <2> PICK m \in Nat : m = t.bits BY <1>3 DEF CTypes, Exponents
  <2>1. j \in 0 .. m - 1 BY <1>3, <1>4
  <2> QED BY <1>8, <1>9, <2>1 DEF Lowest
<1> DEFINE y == Helpers!Cast(ty, Helpers!BitOr(Ops!Val(t, v), Ops!Val(t, z)))
<1>11. /\ CVal(y) /\ y.ty = ty
       /\ Ops!Bit(y.v, j) = IF Ops!Bit(v, j) + Ops!Bit(z, j) = 0 THEN 0 ELSE 1
  BY <1>1, <1>3, OrOfShifts
<1>12. Round(ty, u, x, i) = y BY <1>6, <1>9 DEF Round, Lowest
<1> HIDE DEF y
<1>13. CASE j = 0
  <2> PICK e \in {0, 1} : e = Ops!Bit(a, i - 1) BY <1>4, BitType
  <2>1. Ops!Bit(v, j) = 0 /\ Ops!Bit(z, j) = e BY <1>7, <1>10, <1>13
  <2>2. Ops!Bit(y.v, j) = IF 0 + e = 0 THEN 0 ELSE 1 BY <1>11, <2>1
  <2> QED BY <1>11, <1>12, <1>13, <2>2
<1>14. CASE j # 0
  <2>1. j >= 1 /\ j - 1 \in 0 .. n - 1 /\ j - 1 \in Exponents BY <1>4, <1>14, PowersOfTwo DEF Exponents
  <2>2. Ops!Bit(p.v, j - 1) = Ops!Bit(x.v, j - 1) BY <1>5, <2>1, SameBits
  <2> PICK e \in {0, 1} : e = Ops!Bit(x.v, j - 1) BY <1>5, <2>1, BitType
  <2>3. Ops!Bit(v, j) = e /\ Ops!Bit(z, j) = 0 BY <1>7, <1>10, <1>14, <2>1, <2>2
  <2>4. Ops!Bit(y.v, j) = IF e + 0 = 0 THEN 0 ELSE 1 BY <1>11, <2>3
  <2> QED BY <1>11, <1>12, <1>14, <2>4
<1> QED BY <1>13, <1>14

(* After i rounds the result has the lowest i bits of a, mirrored. *)
LEMMA ReverseExact ==
  ASSUME NEW ty \in Helpers!Types, NEW a \in 0 .. 2^ty.bits - 1, NEW i \in 0 .. ty.bits - 1
  PROVE  Ops!Bit(Ops!Pattern(ty.bits, Helpers!codegen_bitreverse(ty, Helpers!Val(ty, a)).v), ty.bits - 1 - i)
           = Ops!Bit(a, i)
<1>1. ty \in CTypes /\ ty.bits \in Exponents \ {0} BY HelperTypes
<1> PICK n \in Exponents \ {0} : n = ty.bits BY <1>1
<1>2. n \in Nat /\ \A j \in 0 .. n : j \in Exponents BY PowersOfTwo DEF Exponents
<1>3. a \in Int
  <2>1. 2^n \in Nat BY PowerType
  <2> QED BY <2>1
<1> DEFINE u == Helpers!Cast(Helpers!Unsigned(ty), Helpers!Val(ty, a))
<1>4. PICK g : IsReversal(n, ty, u, g) /\ Helpers!codegen_bitreverse(ty, Helpers!Val(ty, a)) = g[n]
  BY <1>2, ReversalIs
<1>5. CVal(u) /\ u.ty = Helpers!Unsigned(ty) /\ u.v = a BY UnsignedOperand
<1> HIDE DEF u
<1> DEFINE Ok(m) == /\ CVal(g[m]) /\ g[m].ty = ty
                    /\ \A j \in 0 .. n - 1 :
                         Ops!Bit(g[m].v, j) = IF j < m THEN Ops!Bit(a, m - 1 - j) ELSE 0
           T == {m \in 0 .. n : Ok(m)}
<1>6. \A m \in 0 .. n : g[m] = IF m = 0 THEN Helpers!Val(ty, 0) ELSE Round(ty, u, g[m - 1], m)
  BY <1>4 DEF IsReversal
<1>7. 0 \in T
  <2>1. g[0] = Ops!Val(ty, 0)
    <3>1. 0 \in 0 .. n BY <1>2
    <3>2. g[0] = Helpers!Val(ty, 0) BY <1>6, <3>1
    <3> QED BY <3>2, HelpersC
  <2>2. CVal(g[0]) /\ g[0].ty = ty /\ g[0].v \in Int /\ Same(n, g[0].v, 0)
    BY <1>1, <2>1, ValFacts DEF CVal
  <2>3. ASSUME NEW j \in 0 .. n - 1 PROVE Ops!Bit(g[0].v, j) = IF j < 0 THEN Ops!Bit(a, 0 - 1 - j) ELSE 0
    <3>1. Ops!Bit(g[0].v, j) = Ops!Bit(0, j) BY <2>2, SameBits
    <3>2. j \in Exponents BY <1>2
    <3> QED BY <3>1, <3>2, BitsOfOne
  <2> QED BY <1>2, <2>2, <2>3
<1>8. ASSUME NEW m \in 0 .. n - 1, m \in T PROVE m + 1 \in T
  <2>1. m + 1 \in 0 .. n /\ m + 1 # 0 /\ (m + 1) - 1 = m /\ m + 1 \in 1 .. n BY <1>2
  <2>2. g[m + 1] = Round(ty, u, g[m], m + 1) BY <1>6, <2>1
  <2> PICK x : x = g[m] OBVIOUS
  <2>3. CVal(x) /\ x.ty = ty BY <1>8
  <2>4. ASSUME NEW j \in 0 .. n - 1
        PROVE  /\ CVal(g[m + 1]) /\ g[m + 1].ty = ty
               /\ Ops!Bit(g[m + 1].v, j) = IF j < m + 1 THEN Ops!Bit(a, (m + 1) - 1 - j) ELSE 0
    <3>1. /\ CVal(g[m + 1]) /\ g[m + 1].ty = ty
          /\ Ops!Bit(g[m + 1].v, j) = IF j = 0 THEN Ops!Bit(a, m) ELSE Ops!Bit(x.v, j - 1)
      BY <1>3, <1>5, <2>1, <2>2, <2>3, RoundBit
    <3>2. CASE j = 0
      <4>1. j < m + 1 /\ (m + 1) - 1 - j = m BY <3>2
      <4> QED BY <3>1, <3>2, <4>1
    <3>3. CASE j # 0
      <4>1. j - 1 \in 0 .. n - 1 /\ (j - 1 < m <=> j < m + 1) /\ m - 1 - (j - 1) = (m + 1) - 1 - j
        BY <1>2, <3>3
      <4>2. Ops!Bit(x.v, j - 1) = IF j - 1 < m THEN Ops!Bit(a, m - 1 - (j - 1)) ELSE 0 BY <1>8, <4>1
      <4> QED BY <3>1, <3>3, <4>1, <4>2
    <3> QED BY <3>2, <3>3
  <2>5. 0 \in 0 .. n - 1 BY <1>2
  <2> QED BY <2>1, <2>4, <2>5
<1> HIDE DEF T
<1>9. n \in T BY <1>2, <1>7, <1>8, UpTo
<1>10. Ok(n) BY <1>9 DEF T
<1> PICK r : r = g[n] OBVIOUS
<1> PICK j \in 0 .. n - 1 : j = n - 1 - i BY <1>2
<1>11. r.v \in Int /\ Ops!Bit(r.v, j) = Ops!Bit(a, i)
  <2>1. r.v \in Int BY <1>10 DEF CVal
  <2>2. j < n /\ n - 1 - j = i BY <1>2
  <2>3. Ops!Bit(r.v, j) = IF j < n THEN Ops!Bit(a, n - 1 - j) ELSE 0 BY <1>10
  <2> QED BY <2>1, <2>2, <2>3
<1>12. Ops!Bit(Ops!Pattern(n, r.v), j) = Ops!Bit(r.v, j) BY <1>11, SameItself, PatternBits
<1> QED BY <1>4, <1>11, <1>12

(* All operands of a call are numbers of its type. *)
LEMMA CornerPatterns ==
  ASSUME NEW n \in Exponents \ {0}, NEW p \in Helpers!Corners(n)
  PROVE  p \in 0 .. 2^n - 1
<1>1. n \in Nat /\ n - 1 \in Exponents /\ n \div 2 \in Nat /\ n \div 2 <= n - 1
  BY PowersOfTwo DEF Exponents
<1>2. n \div 2 \in Exponents BY <1>1, PowersOfTwo DEF Exponents
<1> PICK P \in Nat \ {0}, Q \in Nat \ {0}, R \in Nat \ {0} : P = 2^n /\ Q = 2^(n \div 2) /\ R = 2^(n - 1)
  BY <1>1, <1>2, PowerType
<1>3. P = 2 * R BY PowerStep
<1>4. Q <= R BY <1>1, PowerMono
<1>5. p \in 0 .. P - 1 \/ p \in {0, 1, Q - 1, Q, R - 1, R, P - 2, P - 1}
  BY DEF Helpers!Corners, Helpers!Patterns
<1>6. p \in 0 .. P - 1 BY <1>3, <1>4, <1>5
<1> QED BY <1>6

LEMMA MoveCalls ==
  ASSUME Helpers!HelperCall
  PROVE  /\ <<call.op, call.ty>> \in HelperCalls /\ call.ty \in Helpers!Types
         /\ call.op \in Helpers!RotateOps =>
              call.a \in 0 .. 2^call.ty.bits - 1 /\ call.s \in 0 .. 2 * call.ty.bits
         /\ call.op = "bitreverse" => call.a \in 0 .. 2^call.ty.bits - 1
         /\ call.op \in Helpers!FunnelOps =>
              /\ call.a \in 0 .. 2^call.ty.bits - 1 /\ call.b \in 0 .. 2^call.ty.bits - 1
              /\ call.s \in MinFunnelShift .. call.ty.bits - 1
<1>1. PICK e \in HelperCalls :
        LET op == e[1]
            ty == e[2]
        IN \/ /\ op \in Helpers!BinaryOps
              /\ \E a, b \in Helpers!Patterns(ty.bits) : call = [op |-> op, ty |-> ty, a |-> a, b |-> b]
           \/ /\ op \in Helpers!RotateOps
              /\ \E a \in Helpers!Patterns(ty.bits), s \in 0 .. 2 * ty.bits :
                   call = [op |-> op, ty |-> ty, a |-> a, s |-> s]
           \/ /\ op \in Helpers!FunnelOps
              /\ \E a, b \in Helpers!Corners(ty.bits), s \in MinFunnelShift .. ty.bits - 1 :
                   call = [op |-> op, ty |-> ty, a |-> a, b |-> b, s |-> s]
           \/ /\ op = "bitreverse"
              /\ \E a \in Helpers!Patterns(ty.bits) : call = [op |-> op, ty |-> ty, a |-> a]
           \/ /\ op = "carrying_mul_add"
              /\ \E a, b, x, y \in Helpers!Corners(ty.bits) :
                   call = [op |-> op, ty |-> ty, a |-> a, b |-> b, c |-> x, d |-> y]
  BY DEF Helpers!HelperCall
<1>2. PICK op \in Helpers!AllOps, ty \in Helpers!Types : e = <<op, ty>> BY HelperCallsAreKnown
<1>3. e[1] = op /\ e[2] = ty BY <1>2
<1>4. call.op = op /\ call.ty = ty BY <1>1, <1>3
<1>5. ty.bits \in Exponents \ {0} BY HelperTypes
<1>6. ASSUME op \in Helpers!RotateOps
      PROVE  call.a \in 0 .. 2^ty.bits - 1 /\ call.s \in 0 .. 2 * ty.bits
  <2>1. PICK a \in Helpers!Patterns(ty.bits), s \in 0 .. 2 * ty.bits :
          call = [op |-> op, ty |-> ty, a |-> a, s |-> s]
    BY <1>1, <1>3, <1>6 DEF Helpers!BinaryOps, Helpers!CheckedOps, Helpers!SaturatingOps,
                            Helpers!RotateOps, Helpers!FunnelOps
  <2> QED BY <2>1 DEF Helpers!Patterns
<1>7. ASSUME op = "bitreverse" PROVE call.a \in 0 .. 2^ty.bits - 1
  <2>1. PICK a \in Helpers!Patterns(ty.bits) : call = [op |-> op, ty |-> ty, a |-> a]
    BY <1>1, <1>3, <1>7 DEF Helpers!BinaryOps, Helpers!CheckedOps, Helpers!SaturatingOps,
                            Helpers!RotateOps, Helpers!FunnelOps
  <2> QED BY <2>1 DEF Helpers!Patterns
<1>8. ASSUME op \in Helpers!FunnelOps
      PROVE  /\ call.a \in 0 .. 2^ty.bits - 1 /\ call.b \in 0 .. 2^ty.bits - 1
             /\ call.s \in MinFunnelShift .. ty.bits - 1
  <2>1. PICK a \in Helpers!Corners(ty.bits), b \in Helpers!Corners(ty.bits),
             s \in MinFunnelShift .. ty.bits - 1 :
          call = [op |-> op, ty |-> ty, a |-> a, b |-> b, s |-> s]
    BY <1>1, <1>3, <1>8 DEF Helpers!BinaryOps, Helpers!CheckedOps, Helpers!SaturatingOps,
                            Helpers!RotateOps, Helpers!FunnelOps
  <2>2. a \in 0 .. 2^ty.bits - 1 /\ b \in 0 .. 2^ty.bits - 1 BY <1>5, CornerPatterns
  <2> QED BY <2>1, <2>2
<1> QED BY <1>2, <1>4, <1>6, <1>7, <1>8

LEMMA BitOfBit == \A p, i : Helpers!BitOf(p, i) = Ops!Bit(p, i)
BY DEF Helpers!BitOf, Ops!Bit

LEMMA OutcomeOfMove ==
  ASSUME NEW c
  PROVE  LET v == Helpers!Val(c.ty, c.a)
         IN /\ c.op = "rotate_left" => Helpers!Outcomes(c) = Helpers!codegen_rotate(TRUE, c.ty, v, c.s)
            /\ c.op = "rotate_right" => Helpers!Outcomes(c) = Helpers!codegen_rotate(FALSE, c.ty, v, c.s)
            /\ c.op = "bitreverse" => Helpers!Outcomes(c) = {Helpers!codegen_bitreverse(c.ty, v)}
            /\ c.op = "funnel_shl" =>
                 Helpers!Outcomes(c) = Helpers!codegen_funnel_shift(TRUE, c.ty, v, Helpers!Val(c.ty, c.b), c.s)
<1>2. CASE c.op = "rotate_left"
  <2>1. Helpers!Outcomes(c) =
          Helpers!codegen_rotate(c.op = "rotate_left", c.ty, Helpers!Val(c.ty, c.a), c.s)
    BY <1>2 DEF Helpers!Outcomes, Helpers!RotateOps, Helpers!CheckedOps, Helpers!SaturatingOps, Helpers!FunnelOps
  <2>2. (c.op = "rotate_left") = TRUE BY <1>2
  <2> QED BY <1>2, <2>1, <2>2
<1>3. CASE c.op = "rotate_right"
  <2>1. Helpers!Outcomes(c) =
          Helpers!codegen_rotate(c.op = "rotate_left", c.ty, Helpers!Val(c.ty, c.a), c.s)
    BY <1>3 DEF Helpers!Outcomes, Helpers!RotateOps, Helpers!CheckedOps, Helpers!SaturatingOps, Helpers!FunnelOps
  <2>2. (c.op = "rotate_left") = FALSE BY <1>3
  <2> QED BY <1>3, <2>1, <2>2
<1>4. CASE c.op = "bitreverse"
  BY <1>4 DEF Helpers!Outcomes, Helpers!RotateOps, Helpers!CheckedOps, Helpers!SaturatingOps, Helpers!FunnelOps
<1>5. CASE c.op = "funnel_shl"
  <2>1. Helpers!Outcomes(c) = Helpers!codegen_funnel_shift(
          c.op = "funnel_shl", c.ty, Helpers!Val(c.ty, c.a), Helpers!Val(c.ty, c.b), c.s)
    BY <1>5 DEF Helpers!Outcomes, Helpers!RotateOps, Helpers!CheckedOps, Helpers!SaturatingOps, Helpers!FunnelOps
  <2>2. (c.op = "funnel_shl") = TRUE BY <1>5
  <2> QED BY <1>5, <2>1, <2>2
<1> QED BY <1>2, <1>3, <1>4, <1>5

LEMMA RotateCall ==
  ASSUME Helpers!HelperCall, call.op \in Helpers!RotateOps \cup {"bitreverse"},
         out \in Helpers!Outcomes(call)
  PROVE  Helpers!RotationsExact
<1> DEFINE ty == call.ty
           n == call.ty.bits
           v == Helpers!Val(call.ty, call.a)
<1>1. ty \in Helpers!Types BY MoveCalls
<1>2. CASE call.op \in Helpers!RotateOps
  <2>1. call.a \in 0 .. 2^n - 1 /\ call.s \in 0 .. 2 * n BY <1>2, MoveCalls
  <2>2. call.op = "rotate_left" \/ call.op = "rotate_right" BY <1>2 DEF Helpers!RotateOps
  <2>3. CASE call.op = "rotate_left"
    <3>1. out \in Helpers!codegen_rotate(TRUE, ty, v, call.s) BY <2>3, OutcomeOfMove
    <3>2. IsTurnedLeft(n, out.v, call.a, call.s) BY <1>1, <2>1, <3>1, TurnedExact
    <3>3. \A i \in 0 .. n - 1 :
            Helpers!BitOf(Helpers!Pattern(n, out.v), (i + call.s) % n) = Helpers!BitOf(call.a, i)
      BY <3>2, HelpersC, BitOfBit, Zenon DEF IsTurnedLeft
    <3> QED BY <2>3, <3>3 DEF Helpers!RotationsExact
  <2>4. CASE call.op = "rotate_right"
    <3>1. out \in Helpers!codegen_rotate(FALSE, ty, v, call.s) BY <2>4, OutcomeOfMove
    <3>2. IsTurnedRight(n, out.v, call.a, call.s) BY <1>1, <2>1, <3>1, TurnedExact
    <3>3. \A i \in 0 .. n - 1 :
            Helpers!BitOf(Helpers!Pattern(n, out.v), (i + 2 * n - call.s) % n) = Helpers!BitOf(call.a, i)
      BY <3>2, HelpersC, BitOfBit, Zenon DEF IsTurnedRight
    <3> QED BY <2>4, <3>3 DEF Helpers!RotationsExact
  <2> QED BY <2>2, <2>3, <2>4
<1>3. CASE call.op = "bitreverse"
  <2>1. call.a \in 0 .. 2^n - 1 BY <1>3, MoveCalls
  <2>2. out = Helpers!codegen_bitreverse(ty, v) BY <1>3, OutcomeOfMove
  <2>3. \A i \in 0 .. n - 1 : Ops!Bit(Ops!Pattern(n, out.v), n - 1 - i) = Ops!Bit(call.a, i)
    BY <1>1, <2>1, <2>2, ReverseExact
  <2>4. \A i \in 0 .. n - 1 : Helpers!BitOf(Helpers!Pattern(n, out.v), n - 1 - i) = Helpers!BitOf(call.a, i)
    BY <2>3, HelpersC, BitOfBit
  <2> QED BY <1>3, <2>4 DEF Helpers!RotationsExact
<1> QED BY <1>2, <1>3

LEMMA FunnelCall ==
  ASSUME Helpers!HelperCall, call.op = "funnel_shl", MinFunnelShift >= 1, out \in Helpers!Outcomes(call)
  PROVE  Helpers!FunnelExact
<1> DEFINE ty == call.ty
           n == call.ty.bits
<1>1. ty \in Helpers!Types BY MoveCalls
<1>2. /\ call.a \in 0 .. 2^n - 1 /\ call.b \in 0 .. 2^n - 1
      /\ call.s \in MinFunnelShift .. n - 1
  BY MoveCalls DEF Helpers!FunnelOps
<1>3. call.s \in 1 .. n - 1
  <2>1. MinFunnelShift \in Nat /\ n \in Nat
    BY <1>1, HelperTypes, ScalesAreFaithful DEF Helpers!ScaleOK, Exponents
  <2> QED BY <1>2, <2>1
<1>4. out \in Helpers!codegen_funnel_shift(TRUE, ty, Helpers!Val(ty, call.a), Helpers!Val(ty, call.b), call.s)
  BY OutcomeOfMove
<1>5. Helpers!Pattern(n, out.v) = UpperShifted(n, call.a, call.b, call.s)
  BY <1>1, <1>2, <1>3, <1>4, FunnelLeft
<1> QED BY <1>5 DEF Helpers!FunnelExact, UpperShifted

(* For every width: a rotation by any amount, the width and more included, *)
(* moves bit i to i + s or i - s, whatever the sign of the type; bit       *)
(* reversal moves it to the mirrored place; and a funnel shift to the left *)
(* gives the upper word of the shifted double word.  The funnel shifts by  *)
(* 0 and to the right are left out: the code does not do this for them.    *)
THEOREM MovesAlwaysExact ==
  ASSUME MinFunnelShift >= 1, \A ty : <<"funnel_shr", ty>> \notin HelperCalls
  PROVE  Spec => []MovesExact
<1>1. HelpersInv => MovesExact
  <2> SUFFICES ASSUME HelpersInv, family = "helpers"
               PROVE  Helpers!RotationsExact /\ Helpers!FunnelExact
    BY DEF MovesExact
  <2>1. CASE out = NoResult BY <2>1 DEF Helpers!RotationsExact, Helpers!FunnelExact
  <2>2. CASE out \in Helpers!Outcomes(call)
    <3>1. Helpers!HelperCall BY DEF HelpersInv
    <3>2. Helpers!RotationsExact BY <2>2, <3>1, RotateCall DEF Helpers!RotationsExact
    <3>3. call.op \in Helpers!FunnelOps => call.op = "funnel_shl" BY <3>1, MoveCalls DEF Helpers!FunnelOps
    <3>4. Helpers!FunnelExact BY <2>2, <3>1, <3>3, FunnelCall DEF Helpers!FunnelExact
    <3> QED BY <3>2, <3>4
  <2> QED BY <2>1, <2>2 DEF HelpersInv
<1> QED BY <1>1, HelpersInvariant, PTL

-----------------------------------------------------------------------------
(* The C types of CallAbi                                                  *)

Sizes == {1, 2, 4, 8, 16}

LEMMA AlignUpFacts ==
  ASSUME NEW n \in Nat, NEW a \in Sizes
  PROVE  /\ Abi!AlignUp(n, a) \in Nat /\ n <= Abi!AlignUp(n, a)
         /\ \A m \in Nat : m % a = 0 /\ n <= m => Abi!AlignUp(n, a) <= m
         /\ n = 0 => Abi!AlignUp(n, a) = 0
         /\ a = 1 => Abi!AlignUp(n, a) = n
<1>1. CASE a = 1 BY <1>1 DEF Abi!AlignUp
<1>2. CASE a = 2 BY <1>2 DEF Abi!AlignUp
<1>3. CASE a = 4 BY <1>3 DEF Abi!AlignUp
<1>4. CASE a = 8 BY <1>4 DEF Abi!AlignUp
<1>5. CASE a = 16 BY <1>5 DEF Abi!AlignUp
<1> QED BY <1>1, <1>2, <1>3, <1>4, <1>5 DEF Sizes

LEMMA CBytesFacts ==
  ASSUME NEW n \in Sizes
  PROVE  Abi!c_bytes(n) = n
<1> DEFINE S == {w \in {1, 2, 4, 8, 16} : n <= w} \cup {16}
<1>1. n \in S /\ \A y \in S : n <= y BY DEF Sizes
<1>2. \A x \in S : (\A y \in S : x <= y) => x = n BY <1>1 DEF Sizes
<1>3. Abi!c_bytes(n) = Abi!Min(S) BY DEF Abi!c_bytes
<1> HIDE DEF S
<1>4. Abi!Min(S) = CHOOSE x \in S : \A y \in S : x <= y BY DEF Abi!Min
<1> QED BY <1>1, <1>2, <1>3, <1>4

(* The C type of a scalar in a pair, and alone. *)
LEMMA ScalarTypes ==
  ASSUME NEW s, Abi!ScalarOK(s)
  PROVE  /\ s.size \in Sizes
         /\ Abi!scalar_to_c_type(s).kind \in {"bool", "int", "float", "ptr"}
         /\ Abi!scalar_to_c_type(s).size = s.size
         /\ s.prim = "bool" <=> Abi!scalar_to_c_type(s) = Abi!Bool
         /\ s.word => Abi!scalar_to_c_type(s).kind = "int" /\ s.size = Abi!PtrWidth.size
<1>1. s.size \in Sizes BY DEF Abi!ScalarOK, Sizes
<1>2. CASE s.prim = "bool"
  BY <1>1, <1>2 DEF Abi!ScalarOK, Abi!scalar_to_c_type, Abi!Bool, Abi!Prim
<1>3. CASE s.prim = "int"
  BY <1>1, <1>3, CBytesFacts DEF Abi!ScalarOK, Abi!scalar_to_c_type, Abi!Bool, Abi!CInt, Abi!Prim, Abi!PtrWidth
<1>4. CASE s.prim = "float"
  BY <1>1, <1>4 DEF Abi!ScalarOK, Abi!scalar_to_c_type, Abi!Bool, Abi!Prim
<1>5. CASE s.prim = "ptr"
  BY <1>1, <1>5 DEF Abi!ScalarOK, Abi!scalar_to_c_type, Abi!Bool, Abi!Prim, Abi!Ptr
<1> QED BY <1>2, <1>3, <1>4, <1>5 DEF Abi!ScalarOK

(* The types of the fields of a pair. *)
LEMMA FieldTypes ==
  ASSUME NEW l, NEW i, Abi!ScalarOK(l.scalars[i])
  PROVE  /\ Abi!scalar_field_to_c_type(l, i).kind \in {"bool", "int", "float", "ptr", "word"}
         /\ Abi!scalar_field_to_c_type(l, i).size = l.scalars[i].size
         /\ l.scalars[i].prim = "bool" <=> Abi!scalar_field_to_c_type(l, i) = Abi!Bool
         /\ l.scalars[i].word => Abi!scalar_field_to_c_type(l, i) = Abi!PtrWidth
         /\ ~l.scalars[i].word =>
              Abi!scalar_field_to_c_type(l, i) = Abi!scalar_to_c_type(l.scalars[i])
<1>1. CASE l.scalars[i].word
  BY <1>1, ScalarTypes DEF Abi!scalar_field_to_c_type, Abi!PtrWidth, Abi!Prim, Abi!Bool, Abi!ScalarOK
<1>2. CASE ~l.scalars[i].word BY <1>2, ScalarTypes DEF Abi!scalar_field_to_c_type
<1> QED BY <1>1, <1>2

(* The ends of fields, for structs of up to two. *)
IsEnds(fields, g) ==
  g = [i \in 0 .. Len(fields) |->
         IF i = 0 THEN 0 ELSE Abi!AlignUp(g[i - 1], Abi!ScalarAlign(fields[i])) + fields[i].size]

LEMMA EndsOf ==
  ASSUME NEW fields, Len(fields) \in 0 .. 2
  PROVE  /\ Abi!FieldEnds(fields)[0] = 0
         /\ Len(fields) >= 1 =>
              Abi!FieldEnds(fields)[1] = Abi!AlignUp(0, Abi!ScalarAlign(fields[1])) + fields[1].size
         /\ Len(fields) = 2 =>
              Abi!FieldEnds(fields)[2] =
                Abi!AlignUp(Abi!FieldEnds(fields)[1], Abi!ScalarAlign(fields[2])) + fields[2].size
<1> DEFINE e1 == Abi!AlignUp(0, Abi!ScalarAlign(fields[1])) + fields[1].size
           e2 == Abi!AlignUp(e1, Abi!ScalarAlign(fields[2])) + fields[2].size
           h == [i \in 0 .. Len(fields) |-> IF i = 0 THEN 0 ELSE IF i = 1 THEN e1 ELSE e2]
           end == CHOOSE g : IsEnds(fields, g)
<1>1. ASSUME NEW i \in 0 .. Len(fields)
      PROVE  h[i] = IF i = 0 THEN 0
                    ELSE Abi!AlignUp(h[i - 1], Abi!ScalarAlign(fields[i])) + fields[i].size
  <2>1. CASE i = 0 BY <2>1
  <2>2. CASE i = 1 BY <2>2
  <2>3. CASE i = 2 BY <2>3
  <2> QED BY <2>1, <2>2, <2>3
<1>2. h = [i \in 0 .. Len(fields) |-> h[i]] OBVIOUS
<1> HIDE DEF h
<1>3. IsEnds(fields, h) BY <1>1, <1>2 DEF IsEnds
<1>4. IsEnds(fields, end) BY <1>3
<1>5. Abi!FieldEnds(fields) = end BY DEF Abi!FieldEnds, IsEnds
<1> HIDE DEF end
<1> QED BY <1>4, <1>5 DEF IsEnds

LEMMA AlignOfPair ==
  ASSUME NEW s \in Sizes, NEW t \in Sizes, NEW S, S = {s, t, 1}
  PROVE  Abi!Max(S) \in {s, t} /\ Abi!Max(S) \in Sizes
<1> DEFINE m == IF s >= t THEN s ELSE t
<1>1. m \in S /\ \A y \in S : m >= y BY DEF Sizes
<1>2. \A x \in S : (\A y \in S : x >= y) => x = m BY <1>1 DEF Sizes
<1>3. Abi!Max(S) = CHOOSE x \in S : \A y \in S : x >= y BY DEF Abi!Max
<1>4. Abi!Max(S) = m BY <1>1, <1>2, <1>3
<1> QED BY <1>4

(* A struct of two scalars: the second is where the layout has it, and the *)
(* struct is not greater than the layout.                                  *)
LEMMA PairStruct ==
  ASSUME NEW l, Abi!LayoutOK(l), l.repr = "pair"
  PROVE  LET ty == Abi!layout_to_c_type(l)
         IN /\ ty.kind = "struct" /\ ty.fields = <<Abi!scalar_field_to_c_type(l, 1),
                                                   Abi!scalar_field_to_c_type(l, 2)>>
            /\ Abi!FieldOffset(ty, 1) = 0 /\ Abi!FieldOffset(ty, 2) = l.second
            /\ Abi!SizeOf(ty) \in Nat /\ Abi!SizeOf(ty) <= l.size
            /\ l.second + l.scalars[2].size <= Abi!SizeOf(ty)
            /\ l.second = Abi!b_offset(l)
            /\ l.second \in Nat /\ l.scalars[1].size <= l.second
            /\ l.scalars[1].size \in Sizes /\ l.scalars[2].size \in Sizes
<1> DEFINE f1 == Abi!scalar_field_to_c_type(l, 1)
           f2 == Abi!scalar_field_to_c_type(l, 2)
           fs == <<f1, f2>>
           ty == Abi!layout_to_c_type(l)
<1>1. /\ Abi!ScalarOK(l.scalars[1]) /\ Abi!ScalarOK(l.scalars[2]) /\ l.size \in Nat
      /\ l.second = Abi!AlignUp(l.scalars[1].size, l.scalars[2].size)
      /\ l.second + l.scalars[2].size <= l.size
      /\ l.size % l.scalars[1].size = 0 /\ l.size % l.scalars[2].size = 0
  BY DEF Abi!LayoutOK
<1>2. /\ f1.kind \in {"bool", "int", "float", "ptr", "word"} /\ f1.size = l.scalars[1].size
      /\ f2.kind \in {"bool", "int", "float", "ptr", "word"} /\ f2.size = l.scalars[2].size
  BY <1>1, FieldTypes
<1>3. ty = [kind |-> "struct", fields |-> fs] BY DEF Abi!layout_to_c_type, Abi!Struct
<1>4. PICK s \in Sizes, t \in Sizes : s = l.scalars[1].size /\ t = l.scalars[2].size
  BY <1>1, ScalarTypes
<1> HIDE DEF f1, f2
<1>5. Abi!ScalarAlign(f1) = s /\ Abi!ScalarAlign(f2) = t BY <1>2, <1>4 DEF Abi!ScalarAlign
<1>6. s \in Nat /\ t \in Nat BY DEF Sizes
<1>7. Len(fs) = 2 /\ fs[1] = f1 /\ fs[2] = f2 /\ DOMAIN fs = 1 .. 2 OBVIOUS
<1>8. Abi!AlignUp(0, s) = 0 BY AlignUpFacts
<1>9. /\ Abi!FieldEnds(fs)[1] = s
      /\ Abi!FieldEnds(fs)[2] = Abi!AlignUp(s, t) + t
  BY <1>2, <1>4, <1>5, <1>6, <1>7, <1>8, EndsOf
<1>10. PICK e \in Nat : e = l.second /\ e = Abi!AlignUp(s, t) /\ s <= e
  BY <1>1, <1>4, <1>6, AlignUpFacts
<1> DEFINE S == {Abi!ScalarAlign(fs[i]) : i \in DOMAIN fs} \cup {1}
<1>11. S = {s, t, 1} BY <1>5, <1>7
<1> HIDE DEF fs
<1>12. Abi!natural_align_bytes(ty) = Abi!Max(S) BY <1>3 DEF Abi!natural_align_bytes
<1> HIDE DEF S
<1>13. PICK a \in Sizes : a = Abi!natural_align_bytes(ty) /\ a \in {s, t}
  BY <1>11, <1>12, AlignOfPair
<1>14. Abi!SizeOf(ty) = Abi!AlignUp(e + t, a)
  <2>1. ty.kind = "struct" /\ ty.fields = fs BY <1>3
  <2>2. Abi!SizeOf(ty) = Abi!AlignUp(Abi!FieldEnds(fs)[Len(fs)], a) BY <2>1, <1>13 DEF Abi!SizeOf
  <2> QED BY <2>2, <1>7, <1>9, <1>10
<1>15. l.size % a = 0 /\ l.size \in Nat /\ e + t <= l.size /\ e + t \in Nat
  BY <1>1, <1>4, <1>6, <1>10, <1>13
<1>16. Abi!SizeOf(ty) \in Nat /\ e + t <= Abi!SizeOf(ty) /\ Abi!SizeOf(ty) <= l.size
  BY <1>14, <1>15, AlignUpFacts
<1>17. Abi!FieldOffset(ty, 1) = 0 /\ Abi!FieldOffset(ty, 2) = e
  BY <1>2, <1>3, <1>4, <1>6, <1>7, <1>9, <1>10 DEF Abi!FieldOffset
<1>18. l.second = Abi!b_offset(l) BY <1>1 DEF Abi!b_offset
<1>19. l.second \in Nat /\ l.scalars[1].size <= l.second BY <1>4, <1>10
<1>20. l.second + l.scalars[2].size <= Abi!SizeOf(ty) BY <1>4, <1>10, <1>16
<1>21. Abi!FieldOffset(ty, 2) = l.second BY <1>10, <1>17
<1>22. ty.kind = "struct" /\ ty.fields = <<Abi!scalar_field_to_c_type(l, 1), Abi!scalar_field_to_c_type(l, 2)>>
  BY <1>3 DEF fs, f1, f2
<1> HIDE DEF ty
<1> QED BY <1>4, <1>16, <1>17, <1>18, <1>19, <1>20, <1>21, <1>22 DEF ty

(* The sizes of the other types. *)
LEMMA PlainSizes ==
  ASSUME NEW l, Abi!LayoutOK(l), l.repr # "pair"
  PROVE  Abi!SizeOf(Abi!layout_to_c_type(l)) = l.size /\ l.size \in Nat
<1>1. l.size \in Nat BY DEF Abi!LayoutOK
<1>2. CASE l.repr = "zst"
  <2>1. Abi!layout_to_c_type(l) = [kind |-> "struct", fields |-> <<>>]
    BY <1>2 DEF Abi!layout_to_c_type, Abi!Struct
  <2> DEFINE S == {Abi!ScalarAlign(<<>>[i]) : i \in DOMAIN <<>>} \cup {1}
  <2>2. S = {1} OBVIOUS
  <2>3. Abi!natural_align_bytes(Abi!layout_to_c_type(l)) = Abi!Max(S)
    BY <2>1 DEF Abi!natural_align_bytes
  <2> HIDE DEF S
  <2>4. Abi!Max(S) = 1 BY <2>2, AlignOfPair DEF Sizes
  <2>5. Abi!FieldEnds(<<>>)[0] = 0 /\ Len(<<>>) = 0 BY EndsOf
  <2>6. Abi!SizeOf(Abi!layout_to_c_type(l)) = Abi!AlignUp(0, 1)
    BY <2>1, <2>3, <2>4, <2>5 DEF Abi!SizeOf
  <2>7. l.size = 0 BY <1>2 DEF Abi!LayoutOK
  <2>8. Abi!AlignUp(0, 1) = 0 BY AlignUpFacts DEF Sizes
  <2> QED BY <1>1, <2>6, <2>7, <2>8
<1>3. CASE l.repr = "scalar"
  <2>1. Abi!ScalarOK(l.scalars[1]) /\ l.size = l.scalars[1].size BY <1>3 DEF Abi!LayoutOK
  <2>2. Abi!layout_to_c_type(l) = Abi!scalar_field_to_c_type(l, 1)
    BY <1>3 DEF Abi!layout_to_c_type, Abi!scalar_field_to_c_type
  <2> QED BY <1>1, <2>1, <2>2, FieldTypes DEF Abi!SizeOf
<1>4. CASE l.repr = "vector"
  BY <1>1, <1>4 DEF Abi!layout_to_c_type, Abi!Prim, Abi!SizeOf
<1>5. CASE l.repr = "memory"
  <2> DEFINE f == [kind |-> "bytes", size |-> l.size]
             fs == <<f>>
  <2>1. Abi!layout_to_c_type(l) = [kind |-> "struct", fields |-> fs]
    BY <1>5 DEF Abi!layout_to_c_type, Abi!Struct, Abi!Prim
  <2>2. Abi!ScalarAlign(f) = 1 BY DEF Abi!ScalarAlign
  <2>3. Len(fs) = 1 /\ fs[1] = f /\ DOMAIN fs = 1 .. 1 OBVIOUS
  <2> DEFINE S == {Abi!ScalarAlign(fs[i]) : i \in DOMAIN fs} \cup {1}
  <2>4. S = {1} BY <2>2, <2>3
  <2>5. f.size = l.size OBVIOUS
  <2> HIDE DEF f
  <2>6. Abi!AlignUp(0, 1) = 0 /\ Abi!AlignUp(l.size, 1) = l.size BY <1>1, AlignUpFacts DEF Sizes
  <2>7. Abi!FieldEnds(fs)[1] = l.size BY <1>1, <2>2, <2>3, <2>5, <2>6, EndsOf
  <2> HIDE DEF fs
  <2>8. Abi!natural_align_bytes(Abi!layout_to_c_type(l)) = Abi!Max(S)
    BY <2>1 DEF Abi!natural_align_bytes
  <2> HIDE DEF S
  <2>9. Abi!Max(S) = 1 BY <2>4, AlignOfPair DEF Sizes
  <2>10. Abi!layout_to_c_type(l).kind = "struct" /\ Abi!layout_to_c_type(l).fields = fs BY <2>1
  <2>11. Abi!SizeOf(Abi!layout_to_c_type(l)) = Abi!AlignUp(Abi!FieldEnds(fs)[Len(fs)], 1)
    BY <2>8, <2>9, <2>10 DEF Abi!SizeOf
  <2> QED BY <1>1, <2>3, <2>6, <2>7, <2>11
<1> QED BY <1>2, <1>3, <1>4, <1>5 DEF Abi!LayoutOK

-----------------------------------------------------------------------------
(* Memory and values of CallAbi                                            *)

Inside(m) == \A i \in DOMAIN m.at : i >= m.size => m.at[i] = Abi!Guard
Place(m, n) == m = [size |-> n, at |-> m.at] /\ DOMAIN m.at = 0 .. n + 15

(* v is a value of n bytes, and those from 0 to c - 1 are the bytes of     *)
(* object k, from one on.                                                  *)
Carries(v, k, from, c, n) ==
  /\ v = [ty |-> v.ty, bytes |-> v.bytes] /\ Abi!SizeOf(v.ty) = n
  /\ \A i \in 0 .. c - 1 : v.bytes[i] = <<k, from + i>>

LEMMA ObjectFacts ==
  ASSUME NEW k, NEW n \in Nat
  PROVE  /\ Place(Abi!Object(k, n), n) /\ Inside(Abi!Object(k, n))
         /\ \A i \in 0 .. n - 1 : Abi!Object(k, n).at[i] = <<k, i>>
         /\ \A i \in 0 .. n - 1 : Abi!Read(Abi!Object(k, n), i) = <<k, i>>
<1> DEFINE f == [i \in 0 .. n + 15 |-> IF i < n THEN <<k, i>> ELSE Abi!Guard]
<1>1. n + Abi!Zone - 1 = n + 15 BY DEF Abi!Zone
<1>2. Abi!Object(k, n) = [size |-> n, at |-> f] BY <1>1 DEF Abi!Object
<1>3. DOMAIN f = 0 .. n + 15 OBVIOUS
<1>4. \A i \in 0 .. n + 15 : i < n => f[i] = <<k, i>> OBVIOUS
<1>5. \A i \in 0 .. n + 15 : i >= n => f[i] = Abi!Guard OBVIOUS
<1> HIDE DEF f
<1> QED BY <1>2, <1>3, <1>4, <1>5 DEF Place, Inside, Abi!Read

LEMMA AllocaFacts ==
  ASSUME NEW n \in Nat
  PROVE  Place(Abi!alloca(n), n) /\ Inside(Abi!alloca(n))
<1> DEFINE f == [i \in 0 .. n + 15 |-> IF i < n THEN Abi!Junk ELSE Abi!Guard]
<1>1. n + Abi!Zone - 1 = n + 15 BY DEF Abi!Zone
<1>2. Abi!alloca(n) = [size |-> n, at |-> f] BY <1>1 DEF Abi!alloca
<1>3. DOMAIN f = 0 .. n + 15 OBVIOUS
<1>5. \A i \in 0 .. n + 15 : i >= n => f[i] = Abi!Guard OBVIOUS
<1> HIDE DEF f
<1> QED BY <1>2, <1>3, <1>5 DEF Place, Inside

(* What store and memcpy do. *)
Written(r, m, n, v, off, w) ==
  /\ Place(r, n)
  /\ \A i \in 0 .. n + 15 : r.at[i] = IF i \in off .. off + w - 1 THEN v.bytes[i - off] ELSE m.at[i]
Copied(r, m, n, src, c) ==
  /\ Place(r, n)
  /\ \A i \in 0 .. n + 15 : r.at[i] = IF i < c THEN Abi!Read(src, i) ELSE m.at[i]

LEMMA StoreFacts ==
  ASSUME NEW n \in Nat, NEW off \in Nat, NEW w \in Nat, NEW m, Place(m, n), NEW v, Abi!SizeOf(v.ty) = w
  PROVE  /\ Written(Abi!store(v, m, off), m, n, v, off, w)
         /\ off + w <= n /\ Inside(m) => Inside(Abi!store(v, m, off))
<1> DEFINE f == [i \in 0 .. n + 15 |->
                   IF i \in off .. off + w - 1 THEN v.bytes[i - off] ELSE m.at[i]]
<1>1. m = [size |-> n, at |-> m.at] /\ DOMAIN m.at = 0 .. n + 15 BY DEF Place
<1>2. Abi!store(v, m, off) = [m EXCEPT !.at = f] BY <1>1 DEF Abi!store
<1>3. DOMAIN f = 0 .. n + 15 /\ \A i \in 0 .. n + 15 :
        f[i] = IF i \in off .. off + w - 1 THEN v.bytes[i - off] ELSE m.at[i]
  OBVIOUS
<1> HIDE DEF f
<1>4. Abi!store(v, m, off) = [size |-> n, at |-> f] BY <1>1, <1>2
<1> DEFINE m2 == Abi!store(v, m, off)
<1>5. m2.size = n /\ m2.at = f /\ m.size = n BY <1>1, <1>4
<1>6. Place(m2, n) BY <1>3, <1>4 DEF Place
<1> HIDE DEF m2
<1>7. ASSUME off + w <= n, Inside(m), NEW i \in 0 .. n + 15, i >= n PROVE f[i] = Abi!Guard
  <2>1. i \notin off .. off + w - 1 BY <1>7
  <2>2. m.at[i] = Abi!Guard BY <1>1, <1>5, <1>7 DEF Inside
  <2> QED BY <1>3, <2>1, <2>2
<1>8. off + w <= n /\ Inside(m) => Inside(m2) BY <1>3, <1>5, <1>7 DEF Inside
<1> QED BY <1>3, <1>5, <1>6, <1>8 DEF m2, Written

LEMMA MemcpyFacts ==
  ASSUME NEW n \in Nat, NEW c \in Nat, NEW m, Place(m, n), NEW src
  PROVE  /\ Copied(Abi!memcpy(m, src, c), m, n, src, c)
         /\ c <= n /\ Inside(m) => Inside(Abi!memcpy(m, src, c))
<1> DEFINE f == [i \in 0 .. n + 15 |-> IF i < c THEN Abi!Read(src, i) ELSE m.at[i]]
<1>1. m = [size |-> n, at |-> m.at] /\ DOMAIN m.at = 0 .. n + 15 BY DEF Place
<1>2. Abi!memcpy(m, src, c) = [m EXCEPT !.at = f] BY <1>1 DEF Abi!memcpy
<1>3. DOMAIN f = 0 .. n + 15 /\ \A i \in 0 .. n + 15 :
        f[i] = IF i < c THEN Abi!Read(src, i) ELSE m.at[i]
  OBVIOUS
<1> HIDE DEF f
<1>4. Abi!memcpy(m, src, c) = [size |-> n, at |-> f] BY <1>1, <1>2
<1> QED BY <1>1, <1>3, <1>4 DEF Place, Inside, Copied

LEMMA LoadFacts ==
  ASSUME NEW ty, NEW mem, NEW off
  PROVE  LET v == Abi!load(ty, mem, off)
         IN /\ v = [ty |-> ty, bytes |-> v.bytes] /\ v.ty = ty
            /\ \A i \in 0 .. Abi!SizeOf(ty) - 1 : v.bytes[i] = Abi!Read(mem, off + i)
<1> DEFINE f == [i \in 0 .. Abi!SizeOf(ty) - 1 |-> Abi!Read(mem, off + i)]
<1>1. Abi!load(ty, mem, off) = [ty |-> ty, bytes |-> f] BY DEF Abi!load
<1>2. \A i \in 0 .. Abi!SizeOf(ty) - 1 : f[i] = Abi!Read(mem, off + i) OBVIOUS
<1> HIDE DEF f
<1> QED BY <1>1, <1>2

(* Reading an object. *)
LEMMA LoadObject ==
  ASSUME NEW k, NEW n \in Nat, NEW ty, NEW w \in Nat, Abi!SizeOf(ty) = w, NEW off \in Nat,
         NEW c \in Nat, c <= w, off + c <= n
  PROVE  Carries(Abi!load(ty, Abi!Object(k, n), off), k, off, c, w)
         /\ Abi!load(ty, Abi!Object(k, n), off).ty = ty
<1>1. ASSUME NEW i \in 0 .. c - 1
      PROVE  Abi!load(ty, Abi!Object(k, n), off).bytes[i] = <<k, off + i>>
  <2>1. i \in 0 .. w - 1 /\ off + i \in 0 .. n - 1 OBVIOUS
  <2> QED BY <2>1, LoadFacts, ObjectFacts
<1> QED BY <1>1, LoadFacts DEF Carries

LEMMA ConvertCarries ==
  ASSUME NEW v, NEW k, NEW from, NEW n \in Nat, NEW c \in 0 .. n, Carries(v, k, from, c, n), NEW ty,
         \/ v.ty = ty
         \/ /\ v.ty.kind \in {"bool", "int", "word", "ptr"} /\ ty.kind \in {"bool", "int", "word", "ptr"}
            /\ ty.size = n
  PROVE  Carries(Abi!Convert(v, ty), k, from, c, n) /\ Abi!Convert(v, ty).ty = ty
<1>1. CASE v.ty = ty BY <1>1 DEF Abi!Convert
<1>2. CASE v.ty # ty
  <2> DEFINE f == [i \in 0 .. ty.size - 1 |-> IF i < v.ty.size THEN v.bytes[i] ELSE Abi!Junk]
  <2>1. {v.ty.kind, ty.kind} \subseteq {"bool", "int", "word", "ptr"} BY <1>2
  <2>2. "bytes" \in DOMAIN v BY DEF Carries
  <2>3. Abi!Convert(v, ty) = [ty |-> ty, bytes |-> f] BY <1>2, <2>1, <2>2 DEF Abi!Convert
  <2>4. v.ty.size = n /\ Abi!SizeOf(ty) = n /\ ty.size = n BY <1>2, <2>1 DEF Carries, Abi!SizeOf
  <2>5. \A i \in 0 .. c - 1 : f[i] = v.bytes[i] BY <2>4
  <2> HIDE DEF f
  <2> QED BY <2>3, <2>4, <2>5 DEF Carries
<1> QED BY <1>1, <1>2

LEMMA FromImmediate ==
  ASSUME NEW v, NEW k, NEW from, NEW n \in Nat, NEW c \in 0 .. n, Carries(v, k, from, c, n)
  PROVE  /\ Carries(Abi!from_immediate(v), k, from, c, n)
         /\ Abi!from_immediate(v).ty = IF v.ty = Abi!Bool THEN Abi!CInt(1) ELSE v.ty
<1>1. CASE v.ty = Abi!Bool
  <2>1. Abi!CInt(1) = [kind |-> "int", size |-> 1] BY CBytesFacts DEF Abi!CInt, Abi!Prim, Sizes
  <2>2. v.ty.kind = "bool" /\ n = 1 BY <1>1 DEF Abi!Bool, Abi!Prim, Carries, Abi!SizeOf
  <2> QED BY <1>1, <2>1, <2>2, ConvertCarries DEF Abi!from_immediate
<1>2. CASE v.ty # Abi!Bool BY <1>2 DEF Abi!from_immediate
<1> QED BY <1>1, <1>2

(* What is loaded of a value that is no pair, ... *)
LEMMA LoadPlain ==
  ASSUME NEW l, Abi!LayoutOK(l), l.repr # "pair", NEW k
  PROVE  LET vs == Abi!load_operand(l, Abi!Object(k, l.size))
         IN /\ vs = <<vs[1]>> /\ Carries(vs[1], k, 0, l.size, l.size)
            /\ vs[1].ty = IF l.repr = "scalar" THEN Abi!scalar_to_c_type(l.scalars[1])
                          ELSE Abi!layout_to_c_type(l)
<1> DEFINE ty == Abi!layout_to_c_type(l)
           obj == Abi!Object(k, l.size)
           v == Abi!load(ty, obj, 0)
<1>1. l.size \in Nat /\ Abi!SizeOf(ty) = l.size BY PlainSizes
<1>2. Carries(v, k, 0, l.size, l.size) /\ v.ty = ty BY <1>1, LoadObject
<1> HIDE DEF v, obj
<1>3. CASE l.repr # "scalar"
  <2>1. Abi!load_operand(l, obj) = <<v>> BY <1>3 DEF Abi!load_operand, v
  <2> QED BY <1>2, <1>3, <2>1 DEF obj
<1>4. CASE l.repr = "scalar"
  <2> DEFINE s == l.scalars[1]
             w == Abi!to_immediate_scalar(v, s)
  <2>1. Abi!load_operand(l, obj) = <<w>> BY <1>4 DEF Abi!load_operand, v
  <2>2. Abi!ScalarOK(s) /\ l.size = s.size BY <1>4 DEF Abi!LayoutOK
  <2>3. Carries(w, k, 0, l.size, l.size) /\ w.ty = Abi!scalar_to_c_type(s)
    <3>1. CASE s.prim = "bool"
      <4>1. w = Abi!Convert(v, Abi!Bool) BY <3>1 DEF Abi!to_immediate_scalar
      <4>2. ty = Abi!Bool /\ Abi!scalar_to_c_type(s) = Abi!Bool
        BY <1>4, <2>2, <3>1 DEF Abi!layout_to_c_type, Abi!scalar_to_c_type, Abi!ScalarOK
      <4> QED BY <1>2, <4>1, <4>2 DEF Abi!Convert
    <3>2. CASE s.prim # "bool"
      <4>1. w = [v EXCEPT !.ty = Abi!scalar_to_c_type(s)] BY <3>2 DEF Abi!to_immediate_scalar
      <4>2. v = [ty |-> v.ty, bytes |-> v.bytes] BY <1>2 DEF Carries
      <4>3. w = [ty |-> Abi!scalar_to_c_type(s), bytes |-> v.bytes] BY <4>1, <4>2
      <4>4. Abi!SizeOf(Abi!scalar_to_c_type(s)) = l.size BY <2>2, ScalarTypes DEF Abi!SizeOf
      <4> HIDE DEF w
      <4> QED BY <1>2, <4>3, <4>4 DEF Carries
    <3> QED BY <3>1, <3>2
  <2> HIDE DEF w
  <2> QED BY <1>4, <2>1, <2>3 DEF obj
<1> QED BY <1>3, <1>4

LEMMA PairSizes ==
  ASSUME NEW l, Abi!LayoutOK(l), l.repr = "pair"
  PROVE  /\ l.size \in Nat /\ l.scalars[1].size \in Nat \ {0} /\ l.scalars[2].size \in Nat \ {0}
         /\ l.second \in Nat /\ l.scalars[1].size <= l.second
         /\ l.second + l.scalars[2].size <= l.size /\ l.scalars[1].size <= l.size
<1>1. l.scalars[1].size \in Nat \ {0} /\ l.scalars[2].size \in Nat \ {0} /\ l.second \in Nat
  BY PairStruct DEF Sizes
<1>2. l.scalars[1].size <= l.second BY PairStruct
<1>3. l.size \in Nat /\ l.second + l.scalars[2].size <= l.size BY DEF Abi!LayoutOK
<1> QED BY <1>1, <1>2, <1>3

(* ... and of a pair. *)
LEMMA LoadPair ==
  ASSUME NEW l, Abi!LayoutOK(l), l.repr = "pair", NEW k
  PROVE  LET vs == Abi!load_operand(l, Abi!Object(k, l.size))
         IN /\ vs = <<vs[1], vs[2]>>
            /\ Carries(vs[1], k, 0, l.scalars[1].size, l.scalars[1].size)
            /\ Carries(vs[2], k, l.second, l.scalars[2].size, l.scalars[2].size)
            /\ vs[1].ty = Abi!scalar_field_to_c_type(l, 1)
            /\ vs[2].ty = Abi!scalar_field_to_c_type(l, 2)
<1> DEFINE f1 == Abi!scalar_field_to_c_type(l, 1)
           f2 == Abi!scalar_field_to_c_type(l, 2)
           obj == Abi!Object(k, l.size)
           v == Abi!load(f1, obj, 0)
           w == Abi!load(f2, obj, l.second)
<1>1. l.second = Abi!b_offset(l) BY PairStruct
<1>2. Abi!load_operand(l, obj) = <<v, w>> BY <1>1 DEF Abi!load_operand
<1>3. Abi!ScalarOK(l.scalars[1]) /\ Abi!ScalarOK(l.scalars[2]) /\ l.size \in Nat BY DEF Abi!LayoutOK
<1>4. Abi!SizeOf(f1) = l.scalars[1].size /\ Abi!SizeOf(f2) = l.scalars[2].size
  BY <1>3, FieldTypes DEF Abi!SizeOf
<1>5. /\ l.scalars[1].size \in Nat /\ l.scalars[2].size \in Nat /\ l.second \in Nat
      /\ l.second + l.scalars[2].size <= l.size /\ 0 + l.scalars[1].size <= l.size
  BY PairSizes
<1> HIDE DEF f1, f2
<1>6. Carries(v, k, 0, l.scalars[1].size, l.scalars[1].size) /\ v.ty = f1
  BY <1>3, <1>4, <1>5, LoadObject
<1>7. Carries(w, k, l.second, l.scalars[2].size, l.scalars[2].size) /\ w.ty = f2
  BY <1>3, <1>4, <1>5, LoadObject
<1> HIDE DEF v, w, obj
<1> QED BY <1>2, <1>6, <1>7 DEF f1, f2, obj

-----------------------------------------------------------------------------
(* Storing what was loaded                                                 *)

LEMMA DataFacts ==
  ASSUME NEW l, Abi!LayoutOK(l)
  PROVE  /\ l.size \in Nat /\ Abi!SizeOf(Abi!layout_to_c_type(l)) \in Nat
         /\ Abi!SizeOf(Abi!layout_to_c_type(l)) <= l.size
         /\ \A i \in Abi!DataBytes(l) :
              i \in 0 .. l.size - 1 /\ i < Abi!SizeOf(Abi!layout_to_c_type(l))
<1>1. CASE l.repr = "pair"
  <2>1. PICK z \in Nat : z = Abi!SizeOf(Abi!layout_to_c_type(l)) /\ z <= l.size /\ l.second + l.scalars[2].size <= z
    BY <1>1, PairStruct
  <2>2. Abi!DataBytes(l) = (0 .. l.scalars[1].size - 1) \cup (l.second .. l.second + l.scalars[2].size - 1)
    BY <1>1 DEF Abi!DataBytes
  <2>3. PICK a \in Nat, b \in Nat, c \in Nat, d \in Nat :
          a = l.scalars[1].size /\ b = l.scalars[2].size /\ c = l.second /\ d = l.size
    BY <1>1, PairSizes
  <2>4. a <= c /\ c + b <= z /\ z <= d BY <1>1, <2>1, <2>3, PairSizes
  <2>5. \A i \in Abi!DataBytes(l) : i \in 0 .. z - 1 BY <2>2, <2>3, <2>4
  <2> QED BY <2>1, <2>3, <2>4, <2>5
<1>2. CASE l.repr # "pair"
  <2>1. Abi!SizeOf(Abi!layout_to_c_type(l)) = l.size /\ l.size \in Nat BY <1>2, PlainSizes
  <2>2. Abi!DataBytes(l) \subseteq 0 .. l.size - 1 BY <1>2 DEF Abi!DataBytes, Abi!LayoutOK
  <2> QED BY <2>1, <2>2
<1> QED BY <1>1, <1>2

(* The first c bytes of a value of w bytes are at off, and nothing else    *)
(* was written.                                                            *)
BytesAt(r, m, n, k, from, c, off, w) ==
  /\ Place(r, n) /\ Inside(r)
  /\ \A i \in 0 .. c - 1 : r.at[off + i] = <<k, from + i>>
  /\ \A i \in 0 .. n + 15 : i \notin off .. off + w - 1 => r.at[i] = m.at[i]

LEMMA StoreOne ==
  ASSUME NEW n \in Nat, NEW off \in Nat, NEW w \in Nat, NEW c \in 0 .. w, NEW m, Place(m, n), Inside(m),
         off + w <= n, NEW v, NEW k, NEW from \in Nat, Carries(v, k, from, c, w)
  PROVE  BytesAt(Abi!store(v, m, off), m, n, k, from, c, off, w)
<1> DEFINE r == Abi!store(v, m, off)
<1>1. Abi!SizeOf(v.ty) = w BY DEF Carries
<1>2. Written(r, m, n, v, off, w) /\ Inside(r) BY <1>1, StoreFacts
<1> HIDE DEF r
<1>3. \A i \in 0 .. n + 15 : r.at[i] = IF i \in off .. off + w - 1 THEN v.bytes[i - off] ELSE m.at[i]
  BY <1>2 DEF Written
<1>4. ASSUME NEW i \in 0 .. c - 1 PROVE r.at[off + i] = <<k, from + i>>
  <2>1. off + i \in 0 .. n + 15 /\ off + i \in off .. off + w - 1 /\ (off + i) - off = i OBVIOUS
  <2>2. r.at[off + i] = v.bytes[i] BY <1>3, <2>1
  <2> QED BY <2>2 DEF Carries
<1> QED BY <1>2, <1>3, <1>4 DEF r, BytesAt, Written

(* One element of layout l is at off, and nothing else was written. *)
ElementAt(r, m, n, k, l, off) ==
  /\ Place(r, n) /\ Inside(r)
  /\ \A i \in Abi!DataBytes(l) : r.at[off + i] = <<k, i>>
  /\ \A i \in 0 .. n + 15 : i \notin off .. off + l.size - 1 => r.at[i] = m.at[i]

LEMMA StorePair ==
  ASSUME NEW l, Abi!LayoutOK(l), l.repr = "pair",
         NEW n \in Nat, NEW off \in Nat, NEW m, Place(m, n), Inside(m), off + l.size <= n,
         NEW k, NEW v, Carries(v, k, 0, l.scalars[1].size, l.scalars[1].size),
         NEW w, Carries(w, k, l.second, l.scalars[2].size, l.scalars[2].size)
  PROVE  ElementAt(Abi!store(w, Abi!store(v, m, off), off + Abi!b_offset(l)), m, n, k, l, off)
<1>1. PICK a \in Nat, b \in Nat, c \in Nat, d \in Nat :
        a = l.scalars[1].size /\ b = l.scalars[2].size /\ c = l.second /\ d = l.size
  BY PairSizes
<1>2. a <= c /\ c + b <= d BY <1>1, PairSizes
<1>3. c = Abi!b_offset(l) BY <1>1, PairStruct
<1> DEFINE r1 == Abi!store(v, m, off)
           r == Abi!store(w, r1, off + c)
<1>4. BytesAt(r1, m, n, k, 0, a, off, a)
  <2>1. off + a <= n /\ a \in 0 .. a BY <1>1, <1>2
  <2>2. Carries(v, k, 0, a, a) BY <1>1
  <2> QED BY <2>1, <2>2, StoreOne
<1> HIDE DEF r1
<1>5. BytesAt(r, r1, n, k, c, b, off + c, b)
  <2>1. (off + c) + b <= n /\ off + c \in Nat BY <1>1, <1>2
  <2>2. Place(r1, n) /\ Inside(r1) BY <1>4 DEF BytesAt
  <2>3. Carries(w, k, c, b, b) /\ b \in 0 .. b BY <1>1
  <2> QED BY <2>1, <2>2, <2>3, StoreOne
<1> HIDE DEF r
<1>6. ASSUME NEW i \in Abi!DataBytes(l) PROVE r.at[off + i] = <<k, i>>
  <2>1. Abi!DataBytes(l) = (0 .. a - 1) \cup (c .. c + b - 1) BY <1>1 DEF Abi!DataBytes
  <2>2. CASE i \in 0 .. a - 1
    <3>1. off + i \in 0 .. n + 15 /\ off + i \notin off + c .. (off + c) + b - 1 BY <1>1, <1>2, <2>2
    <3> QED BY <1>4, <1>5, <2>2, <3>1 DEF BytesAt
  <2>3. CASE i \in c .. c + b - 1
    <3>1. i - c \in 0 .. b - 1 /\ (off + c) + (i - c) = off + i /\ c + (i - c) = i BY <1>1, <1>2, <2>3
    <3> QED BY <1>5, <3>1 DEF BytesAt
  <2> QED BY <2>1, <2>2, <2>3
<1>7. ASSUME NEW i \in 0 .. n + 15, i \notin off .. off + d - 1 PROVE r.at[i] = m.at[i]
  <2>1. i \notin off + c .. (off + c) + b - 1 /\ i \notin off .. off + a - 1 BY <1>2, <1>7
  <2> QED BY <1>4, <1>5, <2>1 DEF BytesAt
<1> QED BY <1>1, <1>3, <1>5, <1>6, <1>7 DEF ElementAt, BytesAt, r, r1

(* The same for a value that is no pair, or is taken whole. *)
LEMMA StoreWhole ==
  ASSUME NEW l, Abi!LayoutOK(l),
         NEW n \in Nat, NEW off \in Nat, NEW m, Place(m, n), Inside(m), off + l.size <= n,
         NEW k, NEW w \in Nat, w <= l.size, \A i \in Abi!DataBytes(l) : i < w,
         NEW v, Carries(v, k, 0, w, w)
  PROVE  ElementAt(Abi!store(v, m, off), m, n, k, l, off)
<1>1. PICK d \in Nat : d = l.size BY DataFacts
<1> DEFINE r == Abi!store(v, m, off)
<1>2. BytesAt(r, m, n, k, 0, w, off, w) BY <1>1, StoreOne
<1> HIDE DEF r
<1>3. ASSUME NEW i \in Abi!DataBytes(l) PROVE r.at[off + i] = <<k, i>>
  <2>1. i \in 0 .. w - 1 /\ 0 + i = i BY <1>1, DataFacts
  <2> QED BY <1>2, <2>1 DEF BytesAt
<1>4. \A i \in 0 .. n + 15 : i \notin off .. off + d - 1 => r.at[i] = m.at[i]
  BY <1>1, <1>2 DEF BytesAt
<1> QED BY <1>1, <1>2, <1>3, <1>4 DEF ElementAt, BytesAt, r

Holds(m, k, l) == Inside(m) /\ \A i \in Abi!DataBytes(l) : m.at[i] = <<k, i>>

LEMMA ElementHolds ==
  ASSUME NEW l, Abi!LayoutOK(l), NEW r, NEW m, NEW n, NEW k, ElementAt(r, m, n, k, l, 0)
  PROVE  Holds(r, k, l)
<1>1. \A i \in Abi!DataBytes(l) : 0 + i = i BY DataFacts
<1> QED BY <1>1 DEF ElementAt, Holds

LEMMA CopyHolds ==
  ASSUME NEW l, Abi!LayoutOK(l), NEW k, NEW src, \A i \in Abi!DataBytes(l) : Abi!Read(src, i) = <<k, i>>
  PROVE  Holds(Abi!memcpy(Abi!alloca(l.size), src, l.size), k, l)
<1>1. PICK d \in Nat : d = l.size BY DataFacts
<1> DEFINE m == Abi!alloca(d)
           r == Abi!memcpy(m, src, d)
<1>2. Place(m, d) /\ Inside(m) BY AllocaFacts
<1> HIDE DEF m
<1>3. Copied(r, m, d, src, d) /\ Inside(r) BY <1>2, MemcpyFacts
<1> HIDE DEF r
<1>4. \A i \in Abi!DataBytes(l) : i \in 0 .. d + 15 /\ i < d BY <1>1, DataFacts
<1> QED BY <1>1, <1>3, <1>4 DEF Holds, Copied, r, m

(* A value that is stored through the buffer of a cast. *)
LEMMA CastHolds ==
  ASSUME NEW r, Abi!LayoutOK(r.layout), Abi!CastOK(r), NEW k, NEW v,
         Carries(v, k, 0, r.layout.size, Abi!cast_size(r.cast))
  PROVE  LET w == Abi!StoreCast(r.cast, v, r.layout)
         IN w = <<w[1], w[2]>> /\ Holds(w[1], k, r.layout) /\ Inside(w[2])
<1>1. PICK d \in Nat, z \in Nat, u \in Nat :
        d = r.layout.size /\ z = Abi!cast_size(r.cast) /\ u = Abi!unaligned_size(r.cast) /\ d <= u /\ u <= z
  BY DataFacts DEF Abi!CastOK
<1> DEFINE m == Abi!alloca(z)
           scratch == Abi!store(v, m, 0)
           c == Abi!Min({u, d})
           p == Abi!memcpy(Abi!alloca(d), scratch, c)
<1>2. c = d
  <2> DEFINE S == {u, d}
  <2>1. d \in S /\ \A y \in S : d <= y BY <1>1
  <2>2. \A x \in S : (\A y \in S : x <= y) => x = d BY <1>1
  <2>3. Abi!Min(S) = CHOOSE x \in S : \A y \in S : x <= y BY DEF Abi!Min
  <2> QED BY <2>1, <2>2, <2>3
<1>3. Abi!StoreCast(r.cast, v, r.layout) = <<p, scratch>> BY <1>1 DEF Abi!StoreCast
<1>4. Place(m, z) /\ Inside(m) BY AllocaFacts
<1> HIDE DEF m, c
<1>5. BytesAt(scratch, m, z, k, 0, d, 0, z)
  <2>1. Carries(v, k, 0, d, z) /\ d \in 0 .. z /\ 0 + z <= z BY <1>1
  <2> QED BY <1>4, <2>1, StoreOne
<1> HIDE DEF scratch
<1>6. ASSUME NEW i \in Abi!DataBytes(r.layout) PROVE Abi!Read(scratch, i) = <<k, i>>
  <2>1. i \in 0 .. d - 1 /\ 0 + i = i /\ i < z BY <1>1, DataFacts
  <2>2. scratch.size = z BY <1>5 DEF BytesAt, Place
  <2>3. scratch.at[i] = <<k, i>> BY <1>5, <2>1 DEF BytesAt
  <2> QED BY <2>1, <2>2, <2>3 DEF Abi!Read
<1>7. Holds(p, k, r.layout) BY <1>1, <1>2, <1>6, CopyHolds
<1> HIDE DEF p
<1> QED BY <1>3, <1>5, <1>7 DEF BytesAt

-----------------------------------------------------------------------------
(* The result of a call                                                    *)

LEMMA DirectValue ==
  ASSUME NEW l, Abi!LayoutOK(l), l.repr \in {"scalar", "vector"}, NEW k
  PROVE  LET v == Abi!load_operand(l, Abi!Object(k, l.size))[1]
             ty == Abi!layout_to_c_type(l)
         IN /\ Carries(v, k, 0, l.size, l.size)
            /\ v.ty = ty \/ (v.ty.kind = "int" /\ ty.kind = "word" /\ ty.size = l.size)
            /\ ty.kind \in {"bool", "int", "float", "ptr", "word", "vector"}
            /\ v.ty.kind \in {"bool", "int", "float", "ptr", "word", "vector"}
<1> DEFINE v == Abi!load_operand(l, Abi!Object(k, l.size))[1]
           ty == Abi!layout_to_c_type(l)
<1>1. Carries(v, k, 0, l.size, l.size) BY LoadPlain
<1>2. v.ty = IF l.repr = "scalar" THEN Abi!scalar_to_c_type(l.scalars[1]) ELSE ty BY LoadPlain
<1> HIDE DEF v
<1>3. CASE l.repr = "vector"
  <2>1. ty = [kind |-> "vector", size |-> l.size] BY <1>3 DEF Abi!layout_to_c_type, Abi!Prim
  <2> QED BY <1>1, <1>2, <1>3, <2>1 DEF v
<1>4. CASE l.repr = "scalar"
  <2>1. Abi!ScalarOK(l.scalars[1]) /\ l.size = l.scalars[1].size BY <1>4 DEF Abi!LayoutOK
  <2>2. v.ty = Abi!scalar_to_c_type(l.scalars[1]) BY <1>2, <1>4
  <2>3. CASE l.scalars[1].word
    <3>1. ty = Abi!PtrWidth BY <1>4, <2>3 DEF Abi!layout_to_c_type
    <3>2. ty.kind = "word" /\ v.ty.kind = "int" /\ ty.size = l.size
      BY <2>1, <2>2, <2>3, <3>1, ScalarTypes DEF Abi!PtrWidth, Abi!Prim
    <3> QED BY <1>1, <3>2 DEF v
  <2>4. CASE ~l.scalars[1].word
    <3>1. ty = v.ty BY <1>4, <2>2, <2>4 DEF Abi!layout_to_c_type
    <3>2. v.ty.kind \in {"bool", "int", "float", "ptr"} BY <2>1, <2>2, ScalarTypes
    <3> QED BY <1>1, <3>1, <3>2 DEF v
  <2> QED BY <2>3, <2>4
<1> QED BY <1>3, <1>4

(* Inserting a value into a struct. *)
IsStruct(agg, ty, z) ==
  agg = [ty |-> ty, bytes |-> agg.bytes] /\ DOMAIN agg.bytes = 0 .. z - 1
Inserted(r, agg, ty, z, elt, from, n) ==
  /\ IsStruct(r, ty, z)
  /\ \A j \in 0 .. z - 1 :
       r.bytes[j] = IF j \in from .. from + n - 1 THEN elt.bytes[j - from] ELSE agg.bytes[j]

LEMMA InsertFacts ==
  ASSUME NEW agg, NEW ty, NEW z, IsStruct(agg, ty, z), NEW v, NEW i
  PROVE  Inserted(Abi!insert_value(agg, v, i), agg, ty, z, Abi!Convert(v, ty.fields[i]),
                  Abi!FieldOffset(ty, i), ty.fields[i].size)
<1> DEFINE elt == Abi!Convert(v, ty.fields[i])
           from == Abi!FieldOffset(ty, i)
           n == ty.fields[i].size
           g == [j \in 0 .. z - 1 |-> IF j \in from .. from + n - 1 THEN elt.bytes[j - from] ELSE agg.bytes[j]]
<1>1. agg.ty = ty /\ DOMAIN agg.bytes = 0 .. z - 1 /\ agg = [ty |-> ty, bytes |-> agg.bytes]
  BY DEF IsStruct
<1>2. Abi!insert_value(agg, v, i) = [agg EXCEPT !.bytes = g] BY <1>1 DEF Abi!insert_value
<1>3. DOMAIN g = 0 .. z - 1 /\ \A j \in 0 .. z - 1 :
        g[j] = IF j \in from .. from + n - 1 THEN elt.bytes[j - from] ELSE agg.bytes[j]
  OBVIOUS
<1> HIDE DEF g
<1>4. Abi!insert_value(agg, v, i) = [ty |-> ty, bytes |-> g] BY <1>1, <1>2
<1> QED BY <1>3, <1>4 DEF Inserted, IsStruct

LEMMA ExtractFacts ==
  ASSUME NEW agg, NEW i, NEW k, NEW n \in Nat, NEW p, NEW from,
         agg.ty.fields[i].size = n, Abi!FieldOffset(agg.ty, i) = p,
         Abi!SizeOf(agg.ty.fields[i]) = n,
         \A j \in 0 .. n - 1 : agg.bytes[p + j] = <<k, from + j>>
  PROVE  /\ Carries(Abi!extract_value(agg, i), k, from, n, n)
         /\ Abi!extract_value(agg, i).ty = agg.ty.fields[i]
<1> DEFINE g == [j \in 0 .. n - 1 |-> agg.bytes[p + j]]
<1>1. Abi!extract_value(agg, i) = [ty |-> agg.ty.fields[i], bytes |-> g] BY DEF Abi!extract_value
<1>2. \A j \in 0 .. n - 1 : g[j] = <<k, from + j>> OBVIOUS
<1> HIDE DEF g
<1> QED BY <1>1, <1>2 DEF Carries

(* A scalar that is converted for the struct and back. *)
LEMMA ThereAndBack ==
  ASSUME NEW l, NEW i, Abi!ScalarOK(l.scalars[i]), NEW v, NEW k, NEW from \in Nat,
         Carries(v, k, from, l.scalars[i].size, l.scalars[i].size),
         v.ty = Abi!scalar_field_to_c_type(l, i)
  PROVE  /\ LET e == Abi!Convert(Abi!from_immediate(v), Abi!scalar_field_to_c_type(l, i))
            IN Carries(e, k, from, l.scalars[i].size, l.scalars[i].size)
         /\ LET e == Abi!from_immediate(Abi!to_immediate_scalar(v, l.scalars[i]))
            IN Carries(e, k, from, l.scalars[i].size, l.scalars[i].size)
<1> DEFINE f == Abi!scalar_field_to_c_type(l, i)
           s == l.scalars[i]
           e1 == Abi!from_immediate(v)
           w == Abi!to_immediate_scalar(v, s)
<1>1. PICK n \in Nat : n = s.size /\ n \in 0 .. n BY ScalarTypes DEF Sizes
<1>2. f.kind \in {"bool", "int", "float", "ptr", "word"} /\ f.size = n BY <1>1, FieldTypes
<1>3. Carries(e1, k, from, n, n) /\ e1.ty = IF v.ty = Abi!Bool THEN Abi!CInt(1) ELSE v.ty
  BY <1>1, FromImmediate
<1>4. e1.ty = f \/ (e1.ty.kind = "int" /\ f.kind = "bool")
  BY <1>3 DEF Abi!CInt, Abi!Prim, Abi!Bool
<1> HIDE DEF e1
<1>5. Carries(Abi!Convert(e1, f), k, from, n, n)
  BY <1>1, <1>2, <1>3, <1>4, ConvertCarries
<1>6. Carries(w, k, from, n, n)
  <2>1. CASE s.prim = "bool"
    <3>1. f = Abi!Bool /\ w = Abi!Convert(v, Abi!Bool) BY <2>1, FieldTypes DEF Abi!to_immediate_scalar
    <3> QED BY <1>1, <3>1 DEF Abi!Convert
  <2>2. CASE s.prim # "bool"
    <3>1. w = [v EXCEPT !.ty = Abi!scalar_to_c_type(s)] BY <2>2 DEF Abi!to_immediate_scalar
    <3>2. v = [ty |-> v.ty, bytes |-> v.bytes] BY DEF Carries
    <3>3. w = [ty |-> Abi!scalar_to_c_type(s), bytes |-> v.bytes] BY <3>1, <3>2
    <3>4. Abi!SizeOf(Abi!scalar_to_c_type(s)) = n BY <1>1, ScalarTypes DEF Abi!SizeOf
    <3> HIDE DEF w
    <3> QED BY <1>1, <3>3, <3>4 DEF Carries
  <2> QED BY <2>1, <2>2
<1> HIDE DEF w
<1>7. Carries(Abi!from_immediate(w), k, from, n, n) BY <1>1, <1>6, FromImmediate
<1> QED BY <1>1, <1>5, <1>7 DEF e1, w

(* A pair that is returned as a struct. *)
LEMMA PairResult ==
  ASSUME NEW r, Abi!LayoutOK(r.layout), r.layout.repr = "pair", r.mode = "pair"
  PROVE  LET w == Abi!StoreResult(r) IN w = <<w[1]>> /\ Holds(w[1], 0, r.layout)
<1> DEFINE l == r.layout
           ty == Abi!layout_to_c_type(l)
           f1 == Abi!scalar_field_to_c_type(l, 1)
           f2 == Abi!scalar_field_to_c_type(l, 2)
           vs == Abi!load_operand(l, Abi!Object(0, l.size))
           a0 == Abi!Undef(ty)
           a1 == Abi!insert_value(a0, Abi!from_immediate(vs[1]), 1)
           a2 == Abi!insert_value(a1, Abi!from_immediate(vs[2]), 2)
           part(i) == Abi!from_immediate(Abi!to_immediate_scalar(Abi!extract_value(a2, i), l.scalars[i]))
           m == Abi!alloca(l.size)
<1>1. PICK s \in Nat, t \in Nat, o \in Nat, d \in Nat :
        /\ s = l.scalars[1].size /\ t = l.scalars[2].size /\ o = l.second /\ d = l.size
        /\ s <= o /\ o + t <= d
  BY PairSizes
<1>2. PICK z \in Nat : z = Abi!SizeOf(ty) /\ o + t <= z BY <1>1, PairStruct
<1>3. Abi!ScalarOK(l.scalars[1]) /\ Abi!ScalarOK(l.scalars[2]) BY DEF Abi!LayoutOK
<1>4. ty.fields = <<f1, f2>> /\ Abi!FieldOffset(ty, 1) = 0 /\ Abi!FieldOffset(ty, 2) = o
  BY <1>1, PairStruct
<1>5. f1.size = s /\ f2.size = t /\ Abi!SizeOf(f1) = s /\ Abi!SizeOf(f2) = t
  BY <1>1, <1>3, FieldTypes DEF Abi!SizeOf
<1>6. /\ Carries(vs[1], 0, 0, s, s) /\ vs[1].ty = f1
      /\ Carries(vs[2], 0, o, t, t) /\ vs[2].ty = f2
  BY <1>1, LoadPair
<1>7. Abi!Returned(r) = a2 BY DEF Abi!Returned, Abi!fn_abi_ret_type
<1>8. Abi!StoreResult(r) =
        <<Abi!store(part(2), Abi!store(part(1), m, 0), Abi!b_offset(l))>>
  BY <1>7 DEF Abi!StoreResult
<1> DEFINE e1 == Abi!Convert(Abi!from_immediate(vs[1]), f1)
           e2 == Abi!Convert(Abi!from_immediate(vs[2]), f2)
<1> HIDE DEF vs, f1, f2, ty, l
<1>9. Carries(e1, 0, 0, s, s) BY <1>1, <1>3, <1>6, ThereAndBack DEF f1
<1>10. Carries(e2, 0, o, t, t) BY <1>1, <1>3, <1>6, ThereAndBack DEF f2
<1>11. IsStruct(a0, ty, z)
  <2> DEFINE g == [i \in 0 .. z - 1 |-> Abi!Junk]
  <2>1. a0 = [ty |-> ty, bytes |-> g] /\ DOMAIN g = 0 .. z - 1 BY <1>2 DEF Abi!Undef
  <2> HIDE DEF g
  <2> QED BY <2>1 DEF IsStruct
<1> HIDE DEF a0
<1>12. ty.fields[1] = f1 /\ ty.fields[2] = f2 BY <1>4
<1>13. Inserted(a1, a0, ty, z, e1, 0, s) BY <1>4, <1>5, <1>11, <1>12, InsertFacts
<1> HIDE DEF a1, e1
<1>14. IsStruct(a1, ty, z) BY <1>13 DEF Inserted
<1>15. Inserted(a2, a1, ty, z, e2, o, t) BY <1>4, <1>5, <1>14, <1>12, InsertFacts
<1> HIDE DEF a2, e2
<1>16. a2.ty = ty BY <1>15 DEF Inserted, IsStruct
<1>17. ASSUME NEW j \in 0 .. s - 1 PROVE a2.bytes[0 + j] = <<0, 0 + j>>
  <2>1. j \in 0 .. z - 1 /\ j \notin o .. o + t - 1 /\ j \in 0 .. 0 + s - 1 /\ j - 0 = j /\ 0 + j = j
    BY <1>1, <1>2
  <2>2. a2.bytes[j] = a1.bytes[j] BY <1>15, <2>1 DEF Inserted
  <2>3. a1.bytes[j] = e1.bytes[j] BY <1>13, <2>1 DEF Inserted
  <2> QED BY <1>9, <2>1, <2>2, <2>3 DEF Carries
<1>18. ASSUME NEW j \in 0 .. t - 1 PROVE a2.bytes[o + j] = <<0, o + j>>
  <2>1. o + j \in 0 .. z - 1 /\ o + j \in o .. o + t - 1 /\ (o + j) - o = j BY <1>1, <1>2
  <2>2. a2.bytes[o + j] = e2.bytes[j] BY <1>15, <2>1 DEF Inserted
  <2> QED BY <1>10, <2>2 DEF Carries
<1>19. Carries(Abi!extract_value(a2, 1), 0, 0, s, s) /\ Abi!extract_value(a2, 1).ty = f1
  <2>1. PICK q \in Nat : q = 0 OBVIOUS
  <2>2. \A j \in 0 .. s - 1 : a2.bytes[q + j] = <<0, q + j>> BY <1>17, <2>1
  <2>3. a2.ty.fields[1].size = s /\ Abi!FieldOffset(a2.ty, 1) = q /\ Abi!SizeOf(a2.ty.fields[1]) = s
    BY <1>4, <1>5, <1>12, <1>16, <2>1
  <2>4. Carries(Abi!extract_value(a2, 1), 0, q, s, s) /\ Abi!extract_value(a2, 1).ty = a2.ty.fields[1]
    BY <2>2, <2>3, ExtractFacts
  <2> QED BY <1>12, <1>16, <2>1, <2>4
<1>20. Carries(Abi!extract_value(a2, 2), 0, o, t, t) /\ Abi!extract_value(a2, 2).ty = f2
  BY <1>4, <1>5, <1>12, <1>16, <1>18, ExtractFacts
<1>21. Carries(part(1), 0, 0, s, s) BY <1>1, <1>3, <1>19, ThereAndBack DEF f1
<1>22. Carries(part(2), 0, o, t, t) BY <1>1, <1>3, <1>20, ThereAndBack DEF f2
<1> DEFINE p1 == part(1)
           p2 == part(2)
           res == Abi!store(p2, Abi!store(p1, m, 0), Abi!b_offset(l))
<1>23. Abi!StoreResult(r) = <<res>> BY <1>8
<1>24. Carries(p1, 0, 0, s, s) /\ Carries(p2, 0, o, t, t) BY <1>21, <1>22
<1> HIDE DEF p1, p2
<1>25. Place(m, d) /\ Inside(m) BY <1>1, AllocaFacts
<1> HIDE DEF m
<1>26. 0 + Abi!b_offset(l) = Abi!b_offset(l) BY <1>1, PairStruct DEF l
<1>27. Abi!LayoutOK(l) /\ l.repr = "pair" BY DEF l
<1>28. ElementAt(Abi!store(p2, Abi!store(p1, m, 0), 0 + Abi!b_offset(l)), m, d, 0, l, 0)
  BY <1>1, <1>24, <1>25, <1>27, StorePair
<1>29. ElementAt(res, m, d, 0, l, 0) BY <1>26, <1>28
<1> HIDE DEF res
<1>30. Holds(res, 0, l) BY <1>27, <1>29, ElementHolds
<1> QED BY <1>23, <1>30 DEF l

(* What is written for a value: its place, and perhaps a second one. *)
Stored(w, k, l) ==
  /\ w = <<w[1]>> \/ (w = <<w[1], w[2]>> /\ Inside(w[2]))
  /\ Holds(w[1], k, l)

LEMMA ResultStored ==
  ASSUME NEW r, Abi!ResultOK(r)
  PROVE  Stored(Abi!StoreResult(r), 0, r.layout)
<1> DEFINE l == r.layout
           m == Abi!alloca(l.size)
           ty == Abi!layout_to_c_type(l)
           obj == Abi!Object(0, l.size)
<1>1. Abi!LayoutOK(l) BY DEF Abi!ResultOK
<1>2. PICK d \in Nat : d = l.size BY <1>1, DataFacts
<1>3. Place(m, d) /\ Inside(m) BY <1>2, AllocaFacts
<1>4. CASE r.mode = "ignore"
  <2>1. Abi!StoreResult(r) = <<m>> BY <1>4 DEF Abi!StoreResult
  <2>2. l.repr = "zst" BY <1>4 DEF Abi!ResultOK
  <2>3. Abi!DataBytes(l) = {} BY <2>2 DEF Abi!DataBytes
  <2> HIDE DEF m
  <2> QED BY <1>3, <2>1, <2>3 DEF Stored, Holds
<1>5. CASE r.mode = "direct"
  <2> DEFINE v == Abi!load_operand(l, obj)[1]
             c == Abi!Convert(v, ty)
             e == Abi!from_immediate(c)
             s == Abi!store(e, m, 0)
  <2>1. l.repr \in {"scalar", "vector"} BY <1>5 DEF Abi!ResultOK
  <2>2. /\ Carries(v, 0, 0, d, d)
        /\ v.ty = ty \/ (v.ty.kind = "int" /\ ty.kind = "word" /\ ty.size = d)
    BY <1>1, <1>2, <2>1, DirectValue
  <2>3. Abi!StoreResult(r) = <<s>> BY <1>5 DEF Abi!StoreResult, Abi!Returned, Abi!fn_abi_ret_type
  <2> HIDE DEF v
  <2>4. d \in 0 .. d OBVIOUS
  <2>5. Carries(c, 0, 0, d, d) BY <2>2, <2>4, ConvertCarries
  <2> HIDE DEF c
  <2>6. Carries(e, 0, 0, d, d) BY <2>4, <2>5, FromImmediate
  <2> HIDE DEF e, m
  <2>7. d <= l.size /\ 0 + l.size <= d /\ \A i \in Abi!DataBytes(l) : i < d BY <1>1, <1>2, DataFacts
  <2>8. ElementAt(s, m, d, 0, l, 0) BY <1>1, <1>3, <2>6, <2>7, StoreWhole
  <2> HIDE DEF s
  <2> QED BY <1>1, <2>3, <2>8, ElementHolds DEF Stored
<1>6. CASE r.mode = "pair"
  <2>1. l.repr = "pair" BY <1>6 DEF Abi!ResultOK
  <2> QED BY <1>1, <1>6, <2>1, PairResult DEF Stored
<1>7. CASE r.mode = "cast"
  <2>1. Abi!CastOK(r) BY <1>7 DEF Abi!ResultOK
  <2> DEFINE ct == Abi!cast_target_to_c_type(r.cast)
             v == Abi!load(ct, obj, 0)
  <2>2. Abi!StoreResult(r) = Abi!StoreCast(r.cast, v, l)
    BY <1>7 DEF Abi!StoreResult, Abi!Returned, Abi!fn_abi_ret_type
  <2>3. PICK z \in Nat : z = Abi!cast_size(r.cast) /\ Abi!SizeOf(ct) = z /\ d <= z
    BY <1>2, <2>1 DEF Abi!CastOK
  <2>4. Carries(v, 0, 0, d, z) BY <1>2, <2>3, LoadObject
  <2> HIDE DEF v
  <2> QED BY <1>1, <1>2, <2>1, <2>2, <2>3, <2>4, CastHolds DEF Stored
<1>8. CASE r.mode = "indirect"
  <2>1. PICK z \in Nat : z = Abi!SizeOf(ty) /\ z <= d /\ \A i \in Abi!DataBytes(l) : i < z
    BY <1>1, <1>2, DataFacts
  <2> DEFINE m0 == Abi!alloca(z)
             buf == Abi!memcpy(m0, obj, d)
             v == Abi!load(ty, buf, 0)
             s == Abi!store(v, m, 0)
  <2>2. Abi!StoreResult(r) = <<s>>
    BY <1>2, <1>8, <2>1 DEF Abi!StoreResult, Abi!Returned, Abi!fn_abi_ret_type
  <2>3. Place(m0, z) BY AllocaFacts
  <2> HIDE DEF m0
  <2>4. Copied(buf, m0, z, obj, d) BY <2>3, MemcpyFacts
  <2> HIDE DEF buf
  <2>5. ASSUME NEW i \in 0 .. z - 1 PROVE Abi!Read(buf, 0 + i) = <<0, 0 + i>>
    <3>1. i \in 0 .. z + 15 /\ i < d /\ i \in 0 .. d - 1 /\ 0 + i = i BY <2>1
    <3>2. buf.at[i] = Abi!Read(obj, i) /\ buf.size = z BY <2>4, <3>1 DEF Copied, Place
    <3>3. Abi!Read(obj, i) = <<0, i>> BY <1>2, <3>1, ObjectFacts
    <3> QED BY <3>1, <3>2, <3>3 DEF Abi!Read
  <2>6. Carries(v, 0, 0, z, z) BY <2>1, <2>5, LoadFacts DEF Carries
  <2> HIDE DEF v, m
  <2>7. ElementAt(s, m, d, 0, l, 0) BY <1>1, <1>2, <1>3, <2>1, <2>6, StoreWhole
  <2> HIDE DEF s
  <2> QED BY <1>1, <2>2, <2>7, ElementHolds DEF Stored
<1> QED BY <1>4, <1>5, <1>6, <1>7, <1>8 DEF Abi!ResultOK

-----------------------------------------------------------------------------
(* One argument                                                            *)

(* What get_param gives for C parameter i of argument k. *)
Taken(k, a, i) ==
  LET v == Abi!Passed(Abi!LlArgs(k, a)[i], Abi!ArgTypes(a)[i])
  IN IF a.on_stack THEN Abi!AddressOf([size |-> Abi!SizeOf(v.ty), at |-> v.bytes]) ELSE v

LEMMA ArgLengths ==
  ASSUME NEW a, Abi!ArgumentOK(a), NEW k
  PROVE  /\ Abi!ArgTypes(a) = << >> \/ (\E x : Abi!ArgTypes(a) = <<x>>) \/ (\E x, y : Abi!ArgTypes(a) = <<x, y>>)
         /\ Abi!LlArgs(k, a) = << >> \/ (\E x : Abi!LlArgs(k, a) = <<x>>) \/ (\E x, y : Abi!LlArgs(k, a) = <<x, y>>)
         /\ Len(Abi!LlArgs(k, a)) = Len(Abi!ArgTypes(a))
         /\ a.on_stack => Len(Abi!ArgTypes(a)) = 1
<1>0. Abi!ResultOK(a) BY DEF Abi!ArgumentOK
<1>1. CASE a.mode = "ignore"
  <2>1. Abi!ArgTypes(a) = << >> /\ Abi!LlArgs(k, a) = << >> /\ ~a.on_stack
    BY <1>1 DEF Abi!ArgTypes, Abi!LlArgs, Abi!ArgumentOK
  <2> QED BY <2>1
<1>2. CASE a.mode = "pair"
  <2>1. \E x, y : Abi!ArgTypes(a) = <<x, y>> BY <1>2 DEF Abi!ArgTypes
  <2>2. a.layout.repr = "pair" /\ ~a.on_stack BY <1>2 DEF Abi!ArgumentOK, Abi!ResultOK
  <2>3. \E x, y : Abi!LlArgs(k, a) = <<x, y>> BY <1>2, <2>2 DEF Abi!LlArgs, Abi!load_operand
  <2> QED BY <2>1, <2>2, <2>3
<1>3. CASE a.mode = "direct"
  <2>1. \E x : Abi!ArgTypes(a) = <<x>> BY <1>3 DEF Abi!ArgTypes
  <2>2. a.layout.repr # "pair" BY <1>3 DEF Abi!ArgumentOK, Abi!ResultOK
  <2>3. \E x : Abi!LlArgs(k, a) = <<x>> BY <1>3, <2>2 DEF Abi!LlArgs, Abi!load_operand
  <2> QED BY <2>1, <2>3
<1>4. CASE a.mode = "cast"
  <2>1. \E x : Abi!ArgTypes(a) = <<x>> BY <1>4 DEF Abi!ArgTypes
  <2>2. \E x : Abi!LlArgs(k, a) = <<x>> BY <1>4 DEF Abi!LlArgs
  <2> QED BY <2>1, <2>2
<1>5. CASE a.mode = "indirect" /\ a.meta
  <2>1. \E x, y : Abi!ArgTypes(a) = <<x, y>> BY <1>5 DEF Abi!ArgTypes
  <2>2. \E x, y : Abi!LlArgs(k, a) = <<x, y>> BY <1>5 DEF Abi!LlArgs
  <2>3. ~a.on_stack BY <1>5 DEF Abi!ArgumentOK
  <2> QED BY <2>1, <2>2, <2>3
<1>6. CASE a.mode = "indirect" /\ ~a.meta
  <2>1. \E x : Abi!ArgTypes(a) = <<x>> BY <1>6 DEF Abi!ArgTypes
  <2>2. \E x : Abi!LlArgs(k, a) = <<x>> BY <1>6 DEF Abi!LlArgs
  <2> QED BY <2>1, <2>2
<1> QED BY <1>0, <1>1, <1>2, <1>3, <1>4, <1>5, <1>6 DEF Abi!ResultOK

(* A value that is not an address is passed by C's conversion. *)
LEMMA PassCarries ==
  ASSUME NEW v, NEW k, NEW from, NEW n \in Nat, NEW c \in 0 .. n, Carries(v, k, from, c, n), NEW ty,
         v.ty # Abi!Ptr \/ ty.kind # "struct",
         \/ v.ty = ty
         \/ /\ v.ty.kind \in {"bool", "int", "word", "ptr"} /\ ty.kind \in {"bool", "int", "word", "ptr"}
            /\ ty.size = n
  PROVE  Carries(Abi!Passed(v, ty), k, from, c, n) /\ Abi!Passed(v, ty).ty = ty
<1> DEFINE e == Abi!coerce_ptr_int(v, ty)
<1>1. Abi!Passed(v, ty) = Abi!Convert(e, ty) BY DEF Abi!Passed
<1>2. Carries(e, k, from, c, n) /\ (e.ty = ty \/ e = v)
  <2>1. CASE e = v BY <2>1
  <2>2. CASE e # v
    <3>1. e = Abi!Convert(v, ty) BY <2>2 DEF Abi!coerce_ptr_int
    <3> QED BY <3>1, ConvertCarries
  <2> QED BY <2>1, <2>2
<1> HIDE DEF e
<1> QED BY <1>1, <1>2, ConvertCarries

Delivered(s, k, a) ==
  /\ s.used = Len(Abi!ArgTypes(a)) /\ Stored(s.written, k, a.layout)
  /\ a.meta => \A i \in 0 .. 7 : s.written[2].at[i] = <<k, i>>

LEMMA ArgDelivered ==
  ASSUME NEW a, Abi!ArgumentOK(a), NEW k, NEW sig, NEW params, NEW idx \in Nat,
         \A i \in 0 .. Len(Abi!ArgTypes(a)) - 1 : Abi!get_param(sig, params, idx + i) = Taken(k, a, i + 1)
  PROVE  Delivered(Abi!store_fn_arg(sig, params, a, idx), k, a)
<1> DEFINE l == a.layout
           m == Abi!alloca(l.size)
           obj == Abi!Object(k, l.size)
           p0 == Abi!get_param(sig, params, idx + 0)
           p1 == Abi!get_param(sig, params, idx + 1)
           ty == Abi!layout_to_c_type(l)
           st == Abi!store_fn_arg(sig, params, a, idx)
<1>1. Abi!LayoutOK(l) /\ Abi!ResultOK(a) BY DEF Abi!ArgumentOK, Abi!ResultOK
<1>2. PICK d \in Nat : d = l.size BY <1>1, DataFacts
<1>3. Place(m, d) /\ Inside(m) BY <1>2, AllocaFacts
<1>4. /\ a.on_stack \in BOOLEAN /\ a.meta \in BOOLEAN /\ (a.meta => a.mode = "indirect" /\ ~a.on_stack)
      /\ a.on_stack => a.mode = "indirect" /\ l.repr \in {"pair", "memory"}
  BY DEF Abi!ArgumentOK
<1>5. CASE a.mode = "ignore"
  <2>1. st = [written |-> <<m>>, used |-> 0] BY <1>5 DEF Abi!store_fn_arg
  <2>2. Abi!ArgTypes(a) = << >> BY <1>5 DEF Abi!ArgTypes
  <2>3. Abi!DataBytes(l) = {} BY <1>1, <1>5 DEF Abi!ResultOK, Abi!DataBytes
  <2>4. ~a.meta BY <1>4, <1>5
  <2> HIDE DEF m
  <2> QED BY <1>3, <2>1, <2>2, <2>3, <2>4 DEF Delivered, Stored, Holds
<1>6. CASE a.mode = "pair"
  <2> DEFINE f1 == Abi!scalar_field_to_c_type(l, 1)
             f2 == Abi!scalar_field_to_c_type(l, 2)
             vs == Abi!load_operand(l, obj)
             s == Abi!store(p1, Abi!store(p0, m, 0), Abi!b_offset(l))
  <2>1. l.repr = "pair" BY <1>1, <1>6 DEF Abi!ResultOK
  <2>2. st = [written |-> <<s>>, used |-> 2] BY <1>6 DEF Abi!store_fn_arg
  <2>3. Abi!ArgTypes(a) = <<f1, f2>> /\ Len(<<f1, f2>>) = 2 BY <1>6 DEF Abi!ArgTypes
  <2>4. Abi!LlArgs(k, a) = vs BY <1>6 DEF Abi!LlArgs
  <2>5. ~a.on_stack /\ ~a.meta BY <1>4, <1>6
  <2>6. p0 = Abi!Passed(vs[1], f1)
    <3>1. p0 = Taken(k, a, 0 + 1) BY <2>3
    <3> QED BY <3>1, <2>3, <2>4, <2>5 DEF Taken
  <2>7. p1 = Abi!Passed(vs[2], f2)
    <3>1. p1 = Taken(k, a, 1 + 1) BY <2>3
    <3> QED BY <3>1, <2>3, <2>4, <2>5 DEF Taken
  <2>8. PICK x \in Nat, y \in Nat, o \in Nat :
          x = l.scalars[1].size /\ y = l.scalars[2].size /\ o = l.second
    BY <1>1, <2>1, PairSizes
  <2>9. Carries(vs[1], k, 0, x, x) /\ vs[1].ty = f1 /\ Carries(vs[2], k, o, y, y) /\ vs[2].ty = f2
    BY <1>1, <2>1, <2>8, LoadPair
  <2>10. f1.kind # "struct" /\ f2.kind # "struct"
    <3>1. Abi!ScalarOK(l.scalars[1]) /\ Abi!ScalarOK(l.scalars[2]) BY <1>1, <2>1 DEF Abi!LayoutOK
    <3> QED BY <3>1, FieldTypes
  <2> HIDE DEF vs, f1, f2
  <2>11. Carries(p0, k, 0, x, x) BY <2>6, <2>9, <2>10, PassCarries
  <2>12. Carries(p1, k, o, y, y) BY <2>7, <2>9, <2>10, PassCarries
  <2> HIDE DEF p0, p1, m
  <2>13. 0 + Abi!b_offset(l) = Abi!b_offset(l) BY <1>1, <2>1, PairStruct
  <2>14. ElementAt(Abi!store(p1, Abi!store(p0, m, 0), 0 + Abi!b_offset(l)), m, d, k, l, 0)
    BY <1>1, <1>2, <1>3, <2>1, <2>8, <2>11, <2>12, StorePair
  <2>15. ElementAt(s, m, d, k, l, 0) BY <2>13, <2>14
  <2> HIDE DEF s
  <2>16. Holds(s, k, l) BY <1>1, <2>15, ElementHolds
  <2> QED BY <2>2, <2>3, <2>5, <2>16 DEF Delivered, Stored
<1>7. CASE a.mode = "direct"
  <2> DEFINE v == Abi!load_operand(l, obj)[1]
             s == Abi!store(p0, m, 0)
  <2>1. l.repr \in {"scalar", "vector"} BY <1>1, <1>7 DEF Abi!ResultOK
  <2>2. st = [written |-> <<s>>, used |-> 1] BY <1>7 DEF Abi!store_fn_arg
  <2>3. Abi!ArgTypes(a) = <<ty>> /\ Len(<<ty>>) = 1 BY <1>7 DEF Abi!ArgTypes, Abi!fn_abi_arg_type
  <2>4. Abi!LlArgs(k, a)[1] = v BY <1>7 DEF Abi!LlArgs
  <2>5. ~a.on_stack /\ ~a.meta BY <1>4, <1>7
  <2>6. p0 = Abi!Passed(v, ty)
    <3>1. p0 = Taken(k, a, 0 + 1) BY <2>3
    <3> QED BY <3>1, <2>3, <2>4, <2>5 DEF Taken
  <2>7. /\ Carries(v, k, 0, d, d) /\ ty.kind # "struct"
        /\ v.ty = ty \/ (v.ty.kind = "int" /\ ty.kind = "word" /\ ty.size = d)
    BY <1>1, <1>2, <2>1, DirectValue
  <2> HIDE DEF v
  <2>8. Carries(p0, k, 0, d, d) BY <2>6, <2>7, PassCarries
  <2> HIDE DEF p0, m
  <2>9. d <= l.size /\ 0 + l.size <= d /\ \A i \in Abi!DataBytes(l) : i < d BY <1>1, <1>2, DataFacts
  <2>10. ElementAt(s, m, d, k, l, 0) BY <1>1, <1>3, <2>8, <2>9, StoreWhole
  <2> HIDE DEF s
  <2>11. Holds(s, k, l) BY <1>1, <2>10, ElementHolds
  <2> QED BY <2>2, <2>3, <2>5, <2>11 DEF Delivered, Stored
<1>8. CASE a.mode = "cast"
  <2> DEFINE ct == Abi!cast_target_to_c_type(a.cast)
             c == Abi!Min({Abi!unaligned_size(a.cast), l.size})
             buf == Abi!memcpy(Abi!alloca(Abi!cast_size(a.cast)), obj, c)
             v == Abi!load(ct, buf, 0)
             w == Abi!StoreCast(a.cast, p0, l)
  <2>1. Abi!CastOK(a) BY <1>1, <1>8 DEF Abi!ResultOK
  <2>2. st = [written |-> w, used |-> 1] BY <1>8 DEF Abi!store_fn_arg
  <2>3. Abi!ArgTypes(a) = <<ct>> /\ Len(<<ct>>) = 1 BY <1>8 DEF Abi!ArgTypes, Abi!fn_abi_arg_type
  <2>4. Abi!LlArgs(k, a)[1] = v BY <1>8 DEF Abi!LlArgs
  <2>5. ~a.on_stack /\ ~a.meta BY <1>4, <1>8
  <2>6. p0 = Abi!Passed(v, ct)
    <3>1. p0 = Taken(k, a, 0 + 1) BY <2>3
    <3> QED BY <3>1, <2>3, <2>4, <2>5 DEF Taken
  <2>7. PICK z \in Nat, u \in Nat :
          /\ z = Abi!cast_size(a.cast) /\ u = Abi!unaligned_size(a.cast)
          /\ Abi!SizeOf(ct) = z /\ d <= u /\ u <= z
    BY <1>2, <2>1 DEF Abi!CastOK
  <2>8. c = d
    <3> DEFINE S == {u, d}
    <3>1. d \in S /\ \A y \in S : d <= y BY <2>7
    <3>2. \A x \in S : (\A y \in S : x <= y) => x = d BY <2>7
    <3>3. Abi!Min(S) = CHOOSE x \in S : \A y \in S : x <= y BY DEF Abi!Min
    <3>4. Abi!Min(S) = d BY <3>1, <3>2, <3>3
    <3> QED BY <1>2, <2>7, <3>4
  <2> DEFINE m0 == Abi!alloca(z)
  <2>9. buf = Abi!memcpy(m0, obj, d) BY <2>7, <2>8
  <2>10. Place(m0, z) BY AllocaFacts
  <2> HIDE DEF m0, c, buf
  <2>11. Copied(buf, m0, z, obj, d) BY <2>9, <2>10, MemcpyFacts
  <2>12. ASSUME NEW i \in 0 .. d - 1 PROVE Abi!Read(buf, 0 + i) = <<k, 0 + i>>
    <3>1. i \in 0 .. z + 15 /\ i < d /\ i < z /\ 0 + i = i BY <2>7
    <3>2. buf.at[i] = Abi!Read(obj, i) /\ buf.size = z BY <2>11, <3>1 DEF Copied, Place
    <3>3. Abi!Read(obj, i) = <<k, i>> BY <1>2, ObjectFacts
    <3> QED BY <3>1, <3>2, <3>3 DEF Abi!Read
  <2>13. Carries(v, k, 0, d, z) /\ v.ty = ct
    <3>1. 0 .. d - 1 \subseteq 0 .. z - 1 BY <2>7
    <3> QED BY <2>7, <2>12, <3>1, LoadFacts DEF Carries
  <2>14. ct # Abi!Ptr \/ ct.kind # "struct" BY DEF Abi!Ptr, Abi!Prim
  <2> HIDE DEF v
  <2>15. d \in 0 .. z BY <2>7
  <2>16. Carries(p0, k, 0, d, z) BY <2>6, <2>13, <2>14, <2>15, PassCarries
  <2> HIDE DEF p0
  <2>17. w = <<w[1], w[2]>> /\ Holds(w[1], k, l) /\ Inside(w[2])
    BY <1>1, <1>2, <2>1, <2>7, <2>16, CastHolds
  <2> HIDE DEF w
  <2> QED BY <2>2, <2>3, <2>5, <2>17 DEF Delivered, Stored
<1>9. CASE a.mode = "indirect" /\ ~a.meta
  <2> DEFINE s == Abi!memcpy(m, p0.to, l.size)
             pt == Abi!fn_abi_arg_type(a)
             ad == Abi!AddressOf(obj)
             v == Abi!Passed(ad, pt)
  <2>1. st = [written |-> <<s>>, used |-> 1] BY <1>9 DEF Abi!store_fn_arg
  <2>2. Abi!ArgTypes(a) = <<pt>> /\ Len(<<pt>>) = 1 BY <1>9 DEF Abi!ArgTypes
  <2>3. Abi!LlArgs(k, a)[1] = ad BY <1>9 DEF Abi!LlArgs
  <2>4. p0 = IF a.on_stack THEN Abi!AddressOf([size |-> Abi!SizeOf(v.ty), at |-> v.bytes]) ELSE v
    <3>1. p0 = Taken(k, a, 0 + 1) BY <2>2
    <3> QED BY <3>1, <2>2, <2>3 DEF Taken
  <2>5. ad = [ty |-> Abi!Ptr, to |-> obj] BY DEF Abi!AddressOf
  <2>6. Abi!Ptr = [kind |-> "ptr", size |-> 8] BY DEF Abi!Ptr, Abi!Prim
  <2> HIDE DEF ad, obj
  <2>7. ASSUME NEW i \in Abi!DataBytes(l) PROVE Abi!Read(p0.to, i) = <<k, i>>
    <3>1. i \in 0 .. d - 1 /\ Abi!Read(obj, i) = <<k, i>> BY <1>1, <1>2, DataFacts, ObjectFacts DEF obj
    <3>2. CASE ~a.on_stack
      <4>1. pt = Abi!Ptr BY <1>9, <3>2 DEF Abi!fn_abi_arg_type
      <4>2. v = ad BY <2>5, <2>6, <4>1 DEF Abi!Passed, Abi!coerce_ptr_int, Abi!Convert
      <4>3. p0.to = obj BY <2>4, <2>5, <3>2, <4>2
      <4> QED BY <3>1, <4>3
    <3>3. CASE a.on_stack
      <4>1. pt = ty BY <1>9, <3>3 DEF Abi!fn_abi_arg_type
      <4>2. ty.kind = "struct"
        <5>1. CASE l.repr = "pair" BY <1>1, <5>1, PairStruct
        <5>2. CASE l.repr = "memory" BY <5>2 DEF Abi!layout_to_c_type, Abi!Struct
        <5> QED BY <1>4, <3>3, <5>1, <5>2
      <4>3. v = Abi!load(ty, obj, 0) BY <2>5, <4>1, <4>2 DEF Abi!Passed
      <4>4. PICK z \in Nat : z = Abi!SizeOf(ty) /\ i < z BY <1>1, DataFacts
      <4>5. v.ty = ty /\ v.bytes[i] = Abi!Read(obj, 0 + i) BY <3>1, <4>3, <4>4, LoadFacts
      <4>6. p0.to = [size |-> z, at |-> v.bytes] BY <2>4, <3>3, <4>4, <4>5 DEF Abi!AddressOf
      <4>7. 0 + i = i BY <3>1
      <4> HIDE DEF v, p0
      <4> QED BY <3>1, <4>4, <4>5, <4>6, <4>7 DEF Abi!Read
    <3> QED BY <1>4, <3>2, <3>3
  <2> HIDE DEF p0
  <2>8. Holds(s, k, l) BY <1>1, <2>7, CopyHolds
  <2> HIDE DEF s
  <2> QED BY <1>9, <2>1, <2>2, <2>8 DEF Delivered, Stored
<1>10. CASE a.mode = "indirect" /\ a.meta
  <2> DEFINE mw == Abi!alloca(8)
             s == Abi!store(p1, mw, 0)
             ad == Abi!AddressOf(obj)
             v == Abi!load(Abi!PtrWidth, Abi!Object(k, 8), 0)
  <2>1. st = [written |-> <<p0.to, s>>, used |-> 2] BY <1>10 DEF Abi!store_fn_arg
  <2>2. Abi!ArgTypes(a) = <<Abi!Ptr, Abi!Ptr>> /\ Len(<<Abi!Ptr, Abi!Ptr>>) = 2 BY <1>10 DEF Abi!ArgTypes
  <2>3. Abi!LlArgs(k, a) = <<ad, v>> BY <1>10 DEF Abi!LlArgs
  <2>4. ~a.on_stack BY <1>4, <1>10
  <2>5. p0 = Abi!Passed(ad, Abi!Ptr)
    <3>1. p0 = Taken(k, a, 0 + 1) BY <2>2
    <3> QED BY <3>1, <2>2, <2>3, <2>4 DEF Taken
  <2>6. p1 = Abi!Passed(v, Abi!Ptr)
    <3>1. p1 = Taken(k, a, 1 + 1) BY <2>2
    <3> QED BY <3>1, <2>2, <2>3, <2>4 DEF Taken
  <2>7. Abi!Ptr = [kind |-> "ptr", size |-> 8] /\ Abi!PtrWidth = [kind |-> "word", size |-> 8]
    BY DEF Abi!Ptr, Abi!PtrWidth, Abi!Prim
  <2>8. p0.to = obj
    <3>1. ad = [ty |-> Abi!Ptr, to |-> obj] BY DEF Abi!AddressOf
    <3> HIDE DEF ad, obj
    <3>2. p0 = ad BY <2>5, <2>7, <3>1 DEF Abi!Passed, Abi!coerce_ptr_int, Abi!Convert
    <3> QED BY <3>1, <3>2
  <2>9. Abi!SizeOf(Abi!PtrWidth) = 8 BY <2>7 DEF Abi!SizeOf
  <2>10. Carries(v, k, 0, 8, 8) /\ v.ty = Abi!PtrWidth BY <2>9, LoadObject
  <2> HIDE DEF v
  <2>11. Carries(p1, k, 0, 8, 8) BY <2>6, <2>7, <2>10, PassCarries
  <2> HIDE DEF p1
  <2>12. Place(mw, 8) /\ Inside(mw) BY AllocaFacts
  <2> HIDE DEF mw
  <2>13. BytesAt(s, mw, 8, k, 0, 8, 0, 8) BY <2>11, <2>12, StoreOne
  <2> HIDE DEF s
  <2>14. Inside(s) /\ \A i \in 0 .. 7 : s.at[i] = <<k, i>>
    <3>1. Inside(s) /\ \A i \in 0 .. 7 : s.at[0 + i] = <<k, 0 + i>>
      <4>1. 8 - 1 = 7 OBVIOUS
      <4> QED BY <2>13, <4>1, Zenon DEF BytesAt
    <3>2. ASSUME NEW i \in 0 .. 7 PROVE s.at[i] = <<k, i>>
      <4>1. 0 + i = i OBVIOUS
      <4> QED BY <3>1, <4>1
    <3> QED BY <3>1, <3>2
  <2>15. Holds(obj, k, l)
    <3>1. \A i \in Abi!DataBytes(l) : i \in 0 .. l.size - 1 BY <1>1, DataFacts
    <3>2. Inside(obj) /\ \A i \in 0 .. l.size - 1 : obj.at[i] = <<k, i>> BY <1>2, ObjectFacts
    <3> QED BY <3>1, <3>2 DEF Holds
  <2> HIDE DEF p0
  <2> QED BY <2>1, <2>2, <2>8, <2>14, <2>15 DEF Delivered, Stored
<1> QED BY <1>1, <1>4, <1>5, <1>6, <1>7, <1>8, <1>9, <1>10 DEF Abi!ResultOK

-----------------------------------------------------------------------------
(* The numbering of parameters                                             *)

IsFlat(n, seqs, g) == g = [i \in 1 .. n |-> IF i = 1 THEN seqs[i] ELSE g[i - 1] \o seqs[i]]

LEMMA FlatExists ==
  ASSUME NEW n \in Nat, NEW seqs
  PROVE  \E g : IsFlat(n, seqs, g)
<1> DEFINE T == {m \in 0 .. n : \E g : IsFlat(m, seqs, g)}
<1>1. 0 \in T
  <2> DEFINE g == [i \in 1 .. 0 |-> 0]
  <2>1. g = [i \in 1 .. 0 |-> IF i = 1 THEN seqs[i] ELSE g[i - 1] \o seqs[i]] OBVIOUS
  <2> HIDE DEF g
  <2>2. IsFlat(0, seqs, g) BY <2>1 DEF IsFlat
  <2> QED BY <2>2
<1>2. ASSUME NEW m \in 0 .. n - 1, m \in T PROVE m + 1 \in T
  <2>1. PICK g : IsFlat(m, seqs, g) BY <1>2
  <2> DEFINE last == IF m = 0 THEN seqs[1] ELSE g[m] \o seqs[m + 1]
             h == [i \in 1 .. m + 1 |-> IF i = m + 1 THEN last ELSE g[i]]
  <2>2. ASSUME NEW i \in 1 .. m + 1
        PROVE  h[i] = IF i = 1 THEN seqs[i] ELSE h[i - 1] \o seqs[i]
    <3>1. CASE i = m + 1
      <4>1. h[i] = last BY <3>1
      <4>2. m # 0 => m \in 1 .. m + 1 /\ m # m + 1 /\ i - 1 = m /\ i # 1 BY <3>1
      <4>3. m # 0 => h[i - 1] = g[m] BY <4>2
      <4>4. m = 0 => i = 1 BY <3>1
      <4> QED BY <3>1, <4>1, <4>2, <4>3, <4>4
    <3>2. CASE i # m + 1
      <4>1. i \in 1 .. m BY <3>2
      <4>2. h[i] = g[i] BY <3>2
      <4>3. g[i] = IF i = 1 THEN seqs[i] ELSE g[i - 1] \o seqs[i] BY <2>1, <4>1 DEF IsFlat
      <4>4. i # 1 => h[i - 1] = g[i - 1] BY <4>1
      <4> QED BY <4>2, <4>3, <4>4
    <3> QED BY <3>1, <3>2
  <2>3. h = [i \in 1 .. m + 1 |-> h[i]] OBVIOUS
  <2> HIDE DEF h
  <2>4. IsFlat(m + 1, seqs, h) BY <2>2, <2>3 DEF IsFlat
  <2> QED BY <2>4
<1> HIDE DEF T
<1>3. n \in T BY <1>1, <1>2, UpTo
<1> QED BY <1>3 DEF T

LEMMA FlattenIs ==
  ASSUME NEW n \in Nat \ {0}, NEW seqs, Len(seqs) = n
  PROVE  \E g : IsFlat(n, seqs, g) /\ Abi!FlattenSeq(seqs) = g[n]
<1> DEFINE g == CHOOSE s : s = [i \in 1 .. n |-> IF i = 1 THEN seqs[i] ELSE s[i - 1] \o seqs[i]]
<1>1. IsFlat(n, seqs, g) BY FlatExists DEF IsFlat
<1>2. Abi!FlattenSeq(seqs) = g[n] BY DEF Abi!FlattenSeq
<1> QED BY <1>1, <1>2

(* off[i] is the number of elements in the first i sequences. *)
Offsets(off, n, seqs) ==
  /\ off[0] = 0 /\ \A i \in 0 .. n : off[i] \in Nat
  /\ \A i \in 1 .. n : off[i] = off[i - 1] + Len(seqs[i])

LEMMA OffsetsGrow ==
  ASSUME NEW n \in Nat, NEW seqs, NEW off, Offsets(off, n, seqs), \A i \in 1 .. n : Len(seqs[i]) \in Nat,
         NEW p \in 0 .. n
  PROVE  \A q \in 0 .. n : p <= q => off[p] <= off[q]
<1> DEFINE T == {q \in 0 .. n : p <= q => off[p] <= off[q]}
<1>1. 0 \in T
  <2>1. 0 \in 0 .. n /\ (p <= 0 => p = 0) /\ off[0] = 0 BY DEF Offsets
  <2> QED BY <2>1
<1>2. ASSUME NEW q \in 0 .. n - 1, q \in T PROVE q + 1 \in T
  <2>1. q + 1 \in 1 .. n /\ (q + 1) - 1 = q OBVIOUS
  <2>2. off[q + 1] = off[q] + Len(seqs[q + 1]) /\ off[q] \in Nat /\ Len(seqs[q + 1]) \in Nat
    BY <2>1 DEF Offsets
  <2>3. off[p] \in Nat BY DEF Offsets
  <2>4. p <= q + 1 => p <= q \/ p = q + 1 OBVIOUS
  <2> QED BY <1>2, <2>1, <2>2, <2>3, <2>4
<1> HIDE DEF T
<1>3. \A q \in 0 .. n : q \in T BY <1>1, <1>2, UpTo
<1> QED BY <1>3 DEF T

(* What is appended to s starts after its last element. *)
LEMMA AppendedAt ==
  ASSUME NEW S, NEW s \in Seq(S), NEW t \in Seq(S), NEW j \in 1 .. Len(t)
  PROVE  (s \o t)[Len(s) + j] = t[j]
OBVIOUS

LEMMA FlatFacts ==
  ASSUME NEW S, NEW n \in Nat, NEW seqs \in Seq(Seq(S)), Len(seqs) = n, NEW off, Offsets(off, n, seqs)
  PROVE  /\ Abi!FlattenSeq(seqs) \in Seq(S) /\ Len(Abi!FlattenSeq(seqs)) = off[n]
         /\ \A p \in 1 .. n : \A j \in 1 .. Len(seqs[p]) :
              Abi!FlattenSeq(seqs)[off[p - 1] + j] = seqs[p][j]
<1>1. CASE n = 0
  <2>1. seqs = << >> BY <1>1
  <2>2. Abi!FlattenSeq(seqs) = seqs BY <1>1 DEF Abi!FlattenSeq
  <2>3. << >> \in Seq(S) /\ Len(<< >>) = 0 OBVIOUS
  <2>4. off[n] = 0 /\ 1 .. n = {} BY <1>1 DEF Offsets
  <2> QED BY <2>1, <2>2, <2>3, <2>4
<1>2. CASE n # 0
  <2>1. PICK g : IsFlat(n, seqs, g) /\ Abi!FlattenSeq(seqs) = g[n] BY <1>2, FlattenIs
  <2>2. \A i \in 1 .. n : seqs[i] \in Seq(S) /\ Len(seqs[i]) \in Nat OBVIOUS
  <2> DEFINE Ok(i) == /\ g[i] \in Seq(S) /\ Len(g[i]) = off[i]
                      /\ \A p \in 1 .. i : \A j \in 1 .. Len(seqs[p]) : g[i][off[p - 1] + j] = seqs[p][j]
             T == {i \in 0 .. n : i # 0 => Ok(i)}
  <2>3. 0 \in T OBVIOUS
  <2>4. ASSUME NEW i \in 0 .. n - 1, i \in T PROVE i + 1 \in T
    <3>1. i + 1 \in 1 .. n /\ (i + 1) - 1 = i OBVIOUS
    <3>2. /\ off[i + 1] = off[i] + Len(seqs[i + 1]) /\ off[i] \in Nat /\ off[0] = 0
      BY <3>1 DEF Offsets
    <3>3. seqs[i + 1] \in Seq(S) BY <2>2, <3>1
    <3>4. CASE i = 0
      <4>1. g[i + 1] = seqs[i + 1] BY <2>1, <3>1, <3>4 DEF IsFlat
      <4>2. Len(g[i + 1]) = off[i + 1] BY <3>2, <3>3, <3>4, <4>1
      <4>3. ASSUME NEW p \in 1 .. i + 1, NEW j \in 1 .. Len(seqs[p])
            PROVE  g[i + 1][off[p - 1] + j] = seqs[p][j]
        <5>1. p = i + 1 /\ off[p - 1] + j = j BY <3>2, <3>4
        <5> QED BY <4>1, <5>1
      <4>4. Ok(i + 1) BY <3>3, <4>1, <4>2, <4>3
      <4> QED BY <3>1, <4>4
    <3>5. CASE i # 0
      <4>1. g[i + 1] = g[i] \o seqs[i + 1]
        <5>1. i + 1 # 1 BY <3>5
        <5>2. \A q \in 1 .. n : g[q] = IF q = 1 THEN seqs[q] ELSE g[q - 1] \o seqs[q] BY <2>1 DEF IsFlat
        <5> QED BY <3>1, <5>1, <5>2
      <4>2. Ok(i) BY <2>4, <3>5
      <4>3. PICK s \in Seq(S), t \in Seq(S) : s = g[i] /\ t = seqs[i + 1] BY <3>3, <4>2
      <4>4. g[i + 1] = s \o t /\ s \o t \in Seq(S) /\ Len(s \o t) = Len(s) + Len(t) BY <4>1, <4>3
      <4>5. Len(s) = off[i] BY <4>2, <4>3
      <4>6. Len(g[i + 1]) = off[i + 1] BY <3>2, <4>3, <4>4, <4>5
      <4>7. ASSUME NEW p \in 1 .. i + 1, NEW j \in 1 .. Len(seqs[p])
            PROVE  g[i + 1][off[p - 1] + j] = seqs[p][j]
        <5>1. CASE p = i + 1
          <6>1. off[p - 1] + j = Len(s) + j /\ j \in 1 .. Len(t) BY <3>1, <4>3, <4>5, <5>1
          <6>2. (s \o t)[Len(s) + j] = t[j] BY <6>1, AppendedAt
          <6> QED BY <4>3, <4>4, <5>1, <6>1, <6>2
        <5>2. CASE p # i + 1
          <6>1. p \in 1 .. i /\ p - 1 \in 0 .. n /\ p \in 1 .. n /\ p \in 0 .. n /\ p <= i /\ i \in 0 .. n
            BY <5>2
          <6>2. off[p] = off[p - 1] + Len(seqs[p]) /\ off[p - 1] \in Nat /\ off[p] \in Nat
            BY <6>1 DEF Offsets
          <6>3. off[p] <= off[i] BY <2>2, <6>1, OffsetsGrow
          <6>4. off[p - 1] + j \in 1 .. Len(s)
            <7>1. Len(seqs[p]) \in Nat BY <2>2, <6>1
            <7>2. PICK x \in Nat, y \in Nat, z \in Nat, e \in Nat :
                    x = off[p - 1] /\ y = off[p] /\ z = off[i] /\ e = Len(seqs[p])
              BY <3>2, <6>2, <7>1
            <7>3. j \in 1 .. e /\ y = x + e /\ y <= z BY <6>2, <6>3, <7>2
            <7>4. x + j \in 1 .. z BY <7>3
            <7> QED BY <4>5, <7>2, <7>4
          <6>5. (s \o t)[off[p - 1] + j] = s[off[p - 1] + j] BY <6>4
          <6> QED BY <4>2, <4>3, <4>4, <6>1, <6>5
        <5> QED BY <5>1, <5>2
      <4>8. Ok(i + 1) BY <4>4, <4>6, <4>7
      <4> QED BY <3>1, <4>8
    <3> QED BY <3>4, <3>5
  <2> HIDE DEF T
  <2>5. \A i \in 0 .. n : i \in T BY <2>3, <2>4, UpTo
  <2>6. Ok(n) BY <1>2, <2>5 DEF T
  <2> QED BY <2>1, <2>6
<1> QED BY <1>1, <1>2

LEMMA OffsetsExist ==
  ASSUME NEW S, NEW n \in Nat, NEW seqs \in Seq(Seq(S)), Len(seqs) = n
  PROVE  \E off : Offsets(off, n, seqs)
<1>1. PICK g : IsFlat(n, seqs, g) BY FlatExists
<1> DEFINE off == [i \in 0 .. n |-> IF i = 0 THEN 0 ELSE Len(g[i])]
<1>2. off[0] = 0 /\ \A i \in 1 .. n : off[i] = Len(g[i]) OBVIOUS
<1>3. \A q \in 1 .. n : g[q] = IF q = 1 THEN seqs[q] ELSE g[q - 1] \o seqs[q] BY <1>1 DEF IsFlat
<1> HIDE DEF off
<1> DEFINE Ok(i) == g[i] \in Seq(S) /\ off[i] = off[i - 1] + Len(seqs[i])
           T == {i \in 0 .. n : i # 0 => Ok(i)}
<1>4. 0 \in T OBVIOUS
<1>5. ASSUME NEW i \in 0 .. n - 1, i \in T PROVE i + 1 \in T
  <2>1. i + 1 \in 1 .. n /\ (i + 1) - 1 = i /\ i \in 0 .. n OBVIOUS
  <2>2. seqs[i + 1] \in Seq(S) /\ Len(seqs[i + 1]) \in Nat BY <2>1
  <2>3. off[i + 1] = Len(g[i + 1]) BY <1>2, <2>1
  <2>4. CASE i = 0
    <3>1. i + 1 = 1 /\ off[i] = 0 BY <1>2, <2>4
    <3>2. g[i + 1] = seqs[i + 1] BY <1>3, <2>1, <3>1
    <3>3. off[i + 1] = off[i] + Len(seqs[i + 1]) BY <2>2, <2>3, <3>1, <3>2
    <3>4. Ok(i + 1) BY <2>1, <2>2, <3>2, <3>3
    <3> QED BY <2>1, <3>4
  <2>5. CASE i # 0
    <3>1. i + 1 # 1 /\ i \in 1 .. n BY <2>1, <2>5
    <3>2. g[i + 1] = g[i] \o seqs[i + 1] BY <1>3, <2>1, <3>1
    <3>3. PICK s \in Seq(S), t \in Seq(S) : s = g[i] /\ t = seqs[i + 1] BY <1>5, <2>2, <2>5
    <3>4. g[i + 1] = s \o t /\ s \o t \in Seq(S) /\ Len(s \o t) = Len(s) + Len(t) BY <3>2, <3>3
    <3>5. off[i] = Len(s) BY <1>2, <3>1, <3>3
    <3>6. off[i + 1] = off[i] + Len(seqs[i + 1]) BY <2>3, <3>3, <3>4, <3>5
    <3>7. Ok(i + 1) BY <2>1, <3>4, <3>6
    <3> QED BY <2>1, <3>7
  <2> QED BY <2>4, <2>5
<1> HIDE DEF T
<1>6. \A i \in 0 .. n : i \in T BY <1>4, <1>5, UpTo
<1>7. \A i \in 1 .. n : g[i] \in Seq(S) /\ off[i] = off[i - 1] + Len(seqs[i]) BY <1>6 DEF T
<1>8. ASSUME NEW i \in 0 .. n PROVE off[i] \in Nat
  <2>1. CASE i = 0 BY <1>2, <2>1
  <2>2. CASE i # 0
    <3>1. i \in 1 .. n BY <2>2
    <3>2. g[i] \in Seq(S) /\ off[i] = Len(g[i]) BY <1>2, <1>7, <3>1
    <3> QED BY <3>2
  <2> QED BY <2>1, <2>2
<1> QED BY <1>2, <1>7, <1>8 DEF Offsets

LEMMA ShortSeq ==
  ASSUME NEW s, s = << >> \/ (\E x : s = <<x>>) \/ (\E x, y : s = <<x, y>>), NEW S,
         \A j \in DOMAIN s : s[j] \in S
  PROVE  s \in Seq(S)
<1>1. CASE s = << >> BY <1>1
<1>2. CASE \E x : s = <<x>>
  <2>1. PICK x : s = <<x>> BY <1>2
  <2>2. x \in S
    <3>1. 1 \in DOMAIN s /\ s[1] = x BY <2>1
    <3> QED BY <3>1
  <2> QED BY <2>1, <2>2
<1>3. CASE \E x, y : s = <<x, y>>
  <2>1. PICK x, y : s = <<x, y>> BY <1>3
  <2>2. x \in S /\ y \in S
    <3>1. 1 \in DOMAIN s /\ s[1] = x /\ 2 \in DOMAIN s /\ s[2] = y BY <2>1
    <3> QED BY <3>1
  <2> QED BY <2>1, <2>2
<1> QED BY <1>1, <1>2, <1>3

ArgSeqs(args) == [k \in DOMAIN args |-> Abi!ArgTypes(args[k])]
ValueSeqs(args) == [k \in DOMAIN args |-> Abi!LlArgs(k, args[k])]

LEMMA SeqsOfArgs ==
  ASSUME NEW args, args \in Seq(Abi!Range(args)), \A k \in DOMAIN args : Abi!ArgumentOK(args[k])
  PROVE  /\ Len(args) \in Nat /\ DOMAIN args = 1 .. Len(args)
         /\ \E S : ArgSeqs(args) \in Seq(Seq(S))
         /\ \E S : ValueSeqs(args) \in Seq(Seq(S))
         /\ Len(ArgSeqs(args)) = Len(args) /\ Len(ValueSeqs(args)) = Len(args)
         /\ \A k \in 1 .. Len(args) : ArgSeqs(args)[k] = Abi!ArgTypes(args[k])
                                      /\ ValueSeqs(args)[k] = Abi!LlArgs(k, args[k])
                                      /\ Len(ValueSeqs(args)[k]) = Len(ArgSeqs(args)[k])
<1>1. PICK n \in Nat : n = Len(args) /\ DOMAIN args = 1 .. n OBVIOUS
<1> DEFINE S == UNION {{Abi!ArgTypes(args[k])[j] : j \in DOMAIN Abi!ArgTypes(args[k])} : k \in 1 .. n}
           V == UNION {{Abi!LlArgs(k, args[k])[j] : j \in DOMAIN Abi!LlArgs(k, args[k])} : k \in 1 .. n}
<1>2. ASSUME NEW k \in 1 .. n PROVE Abi!ArgTypes(args[k]) \in Seq(S)
  <2>1. Abi!ArgumentOK(args[k]) BY <1>1
  <2>2. \A j \in DOMAIN Abi!ArgTypes(args[k]) : Abi!ArgTypes(args[k])[j] \in S OBVIOUS
  <2> HIDE DEF S
  <2> QED BY <2>1, <2>2, ArgLengths, ShortSeq
<1>3. ASSUME NEW k \in 1 .. n PROVE Abi!LlArgs(k, args[k]) \in Seq(V)
  <2>1. Abi!ArgumentOK(args[k]) BY <1>1
  <2>2. \A j \in DOMAIN Abi!LlArgs(k, args[k]) : Abi!LlArgs(k, args[k])[j] \in V OBVIOUS
  <2> HIDE DEF V
  <2> QED BY <2>1, <2>2, ArgLengths, ShortSeq
<1> HIDE DEF S, V
<1>4. ArgSeqs(args) = [k \in 1 .. n |-> Abi!ArgTypes(args[k])] BY <1>1 DEF ArgSeqs
<1>5. ValueSeqs(args) = [k \in 1 .. n |-> Abi!LlArgs(k, args[k])] BY <1>1 DEF ValueSeqs
<1>6. ArgSeqs(args) \in Seq(Seq(S)) /\ Len(ArgSeqs(args)) = n BY <1>2, <1>4
<1>7. ValueSeqs(args) \in Seq(Seq(V)) /\ Len(ValueSeqs(args)) = n BY <1>3, <1>5
<1>8. ASSUME NEW k \in 1 .. n
      PROVE  /\ ArgSeqs(args)[k] = Abi!ArgTypes(args[k]) /\ ValueSeqs(args)[k] = Abi!LlArgs(k, args[k])
             /\ Len(ValueSeqs(args)[k]) = Len(ArgSeqs(args)[k])
  <2>1. Abi!ArgumentOK(args[k]) BY <1>1
  <2>2. Len(Abi!LlArgs(k, args[k])) = Len(Abi!ArgTypes(args[k])) BY <2>1, ArgLengths
  <2> QED BY <1>4, <1>5, <2>2
<1> QED BY <1>1, <1>6, <1>7, <1>8

(* Argument k has the C parameters off[k - 1] + 1 .. off[k]. *)
Numbered(off, sig) ==
  /\ off[0] = 0 /\ \A i \in 0 .. Len(sig.args) : off[i] \in Nat
  /\ \A k \in 1 .. Len(sig.args) :
       /\ off[k] = off[k - 1] + Len(Abi!ArgTypes(sig.args[k]))
       /\ \A j \in 1 .. Len(Abi!ArgTypes(sig.args[k])) :
            Abi!CallParams(sig)[off[k - 1] + j] =
              Abi!Passed(Abi!LlArgs(k, sig.args[k])[j], Abi!ArgTypes(sig.args[k])[j])
       /\ Len(Abi!fn_abi_to_c_type(SubSeq(sig.args, 1, k - 1))) = off[k - 1]

LEMMA PrefixLength ==
  ASSUME NEW args, args \in Seq(Abi!Range(args)), \A k \in DOMAIN args : Abi!ArgumentOK(args[k]),
         NEW off, Offsets(off, Len(args), ArgSeqs(args)), NEW q \in 0 .. Len(args)
  PROVE  Len(Abi!fn_abi_to_c_type(SubSeq(args, 1, q))) = off[q]
<1> DEFINE pre == SubSeq(args, 1, q)
<1>1. Len(args) \in Nat /\ DOMAIN args = 1 .. Len(args) OBVIOUS
<1>2. pre \in Seq(Abi!Range(args)) /\ Len(pre) = q /\ DOMAIN pre = 1 .. q BY <1>1
<1>3. \A k \in 1 .. q : pre[k] = args[k] BY <1>1
<1> HIDE DEF pre
<1>4. pre \in Seq(Abi!Range(pre))
  <2>1. \A k \in 1 .. q : pre[k] \in Abi!Range(pre) BY <1>2 DEF Abi!Range
  <2>2. pre = [k \in 1 .. q |-> pre[k]] BY <1>2
  <2> QED BY <2>1, <2>2
<1>5. \A k \in DOMAIN pre : Abi!ArgumentOK(pre[k]) BY <1>1, <1>2, <1>3
<1>6. /\ Len(ArgSeqs(pre)) = q
      /\ \A k \in 1 .. q : ArgSeqs(pre)[k] = Abi!ArgTypes(pre[k])
  BY <1>2, <1>4, <1>5, SeqsOfArgs
<1>7. PICK S : ArgSeqs(pre) \in Seq(Seq(S)) BY <1>4, <1>5, SeqsOfArgs
<1>8. \A k \in 1 .. Len(args) : ArgSeqs(args)[k] = Abi!ArgTypes(args[k]) BY SeqsOfArgs
<1>9. Offsets(off, q, ArgSeqs(pre))
  <2>1. \A i \in 0 .. q : off[i] \in Nat BY <1>1 DEF Offsets
  <2>2. ASSUME NEW i \in 1 .. q PROVE off[i] = off[i - 1] + Len(ArgSeqs(pre)[i])
    <3>1. i \in 1 .. Len(args) /\ ArgSeqs(pre)[i] = ArgSeqs(args)[i] BY <1>1, <1>3, <1>6, <1>8
    <3> QED BY <3>1 DEF Offsets
  <2> QED BY <2>1, <2>2 DEF Offsets
<1>10. Len(Abi!FlattenSeq(ArgSeqs(pre))) = off[q] BY <1>6, <1>7, <1>9, FlatFacts
<1>11. Abi!fn_abi_to_c_type(pre) = Abi!FlattenSeq(ArgSeqs(pre)) BY DEF Abi!fn_abi_to_c_type, ArgSeqs
<1> QED BY <1>10, <1>11 DEF pre

LEMMA TailOfOne ==
  ASSUME NEW V, NEW s \in Seq(V), NEW x
  PROVE  Tail(<<x>> \o s) = s
<1>1. x \in V \cup {x} /\ s \in Seq(V \cup {x}) /\ <<x>> \in Seq(V \cup {x}) OBVIOUS
<1> DEFINE t == <<x>> \o s
<1>2. t \in Seq(V \cup {x}) /\ Len(t) = 1 + Len(s) /\ t # << >> BY <1>1
<1>3. \A i \in 1 .. Len(s) : t[i + 1] = s[i] BY <1>1
<1> HIDE DEF t
<1>4. Len(Tail(t)) = Len(s) /\ Tail(t) \in Seq(V \cup {x}) BY <1>1, <1>2
<1>5. \A i \in 1 .. Len(s) : Tail(t)[i] = t[i + 1] BY <1>1, <1>2
<1>6. Tail(t) = s BY <1>1, <1>3, <1>4, <1>5
<1> QED BY <1>6 DEF t

LEMMA ParametersNumbered ==
  ASSUME NEW sig, Abi!SignatureOK(sig)
  PROVE  \E off : Numbered(off, sig)
<1> DEFINE args == sig.args
           n == Len(args)
           vals == Abi!FlattenSeq(ValueSeqs(args))
           types == Abi!FlattenSeq(ArgSeqs(args))
<1>1. args \in Seq(Abi!Range(args)) /\ \A k \in DOMAIN args : Abi!ArgumentOK(args[k])
  BY DEF Abi!SignatureOK
<1> HIDE DEF args
<1>2. /\ n \in Nat /\ Len(ArgSeqs(args)) = n /\ Len(ValueSeqs(args)) = n
      /\ \A k \in 1 .. n : ArgSeqs(args)[k] = Abi!ArgTypes(args[k])
                           /\ ValueSeqs(args)[k] = Abi!LlArgs(k, args[k])
                           /\ Len(ValueSeqs(args)[k]) = Len(ArgSeqs(args)[k])
  BY <1>1, SeqsOfArgs
<1>3. PICK S : ArgSeqs(args) \in Seq(Seq(S)) BY <1>1, SeqsOfArgs
<1>4. PICK V : ValueSeqs(args) \in Seq(Seq(V)) BY <1>1, SeqsOfArgs
<1>5. PICK off : Offsets(off, n, ArgSeqs(args)) BY <1>2, <1>3, OffsetsExist
<1>6. Offsets(off, n, ValueSeqs(args)) BY <1>2, <1>5 DEF Offsets
<1>7. /\ types \in Seq(S) /\ Len(types) = off[n]
      /\ \A p \in 1 .. n : \A j \in 1 .. Len(ArgSeqs(args)[p]) :
           types[off[p - 1] + j] = ArgSeqs(args)[p][j]
  <2>1. PICK N \in Nat, q \in Seq(Seq(S)) : N = n /\ q = ArgSeqs(args) /\ Len(q) = N BY <1>2, <1>3
  <2>2. Offsets(off, N, q) BY <1>5, <2>1
  <2>3. /\ Abi!FlattenSeq(q) \in Seq(S) /\ Len(Abi!FlattenSeq(q)) = off[N]
        /\ \A p \in 1 .. N : \A j \in 1 .. Len(q[p]) : Abi!FlattenSeq(q)[off[p - 1] + j] = q[p][j]
    BY <2>1, <2>2, FlatFacts
  <2> QED BY <2>1, <2>3
<1>8. /\ vals \in Seq(V) /\ Len(vals) = off[n]
      /\ \A p \in 1 .. n : \A j \in 1 .. Len(ValueSeqs(args)[p]) :
           vals[off[p - 1] + j] = ValueSeqs(args)[p][j]
  <2>1. PICK N \in Nat, q \in Seq(Seq(V)) : N = n /\ q = ValueSeqs(args) /\ Len(q) = N BY <1>2, <1>4
  <2>2. Offsets(off, N, q) BY <1>6, <2>1
  <2>3. /\ Abi!FlattenSeq(q) \in Seq(V) /\ Len(Abi!FlattenSeq(q)) = off[N]
        /\ \A p \in 1 .. N : \A j \in 1 .. Len(q[p]) : Abi!FlattenSeq(q)[off[p - 1] + j] = q[p][j]
    BY <2>1, <2>2, FlatFacts
  <2> QED BY <2>1, <2>3
<1>9. types = Abi!fn_abi_to_c_type(args) BY DEF Abi!fn_abi_to_c_type, ArgSeqs
<1>10. DOMAIN vals = 1 .. off[n] BY <1>8
<1>11. Abi!CallParams(sig) = [i \in 1 .. off[n] |-> Abi!Passed(vals[i], types[i])]
  <2> DEFINE sret == Abi!AddressOf(Abi!alloca(sig.ret.layout.size))
             all == (IF sig.ret.mode = "indirect" THEN <<sret>> ELSE << >>) \o vals
             actual == IF sig.ret.mode = "indirect" THEN Tail(all) ELSE all
  <2>1. actual = vals
    <3>1. CASE sig.ret.mode = "indirect"
      <4>1. all = <<sret>> \o vals BY <3>1
      <4> HIDE DEF sret, vals
      <4>2. Tail(<<sret>> \o vals) = vals BY <1>8, TailOfOne
      <4> QED BY <3>1, <4>1, <4>2
    <3>2. CASE sig.ret.mode # "indirect"
      <4>1. all = << >> \o vals BY <3>2
      <4> HIDE DEF vals
      <4>2. << >> \o vals = vals BY <1>8
      <4> QED BY <3>2, <4>1, <4>2
    <3> QED BY <3>1, <3>2
  <2>2. vals = Abi!FlattenSeq([k \in DOMAIN sig.args |-> Abi!LlArgs(k, sig.args[k])])
    BY DEF ValueSeqs, args
  <2>3. Abi!CallParams(sig) = [i \in DOMAIN actual |-> Abi!Passed(actual[i], types[i])]
    BY <2>2, <1>9 DEF Abi!CallParams, args
  <2> HIDE DEF actual, types, vals
  <2> QED BY <1>10, <2>1, <2>3
<1> HIDE DEF vals, types
<1>12. ASSUME NEW k \in 1 .. n
       PROVE  /\ off[k] = off[k - 1] + Len(Abi!ArgTypes(args[k]))
              /\ \A j \in 1 .. Len(Abi!ArgTypes(args[k])) :
                   Abi!CallParams(sig)[off[k - 1] + j] =
                     Abi!Passed(Abi!LlArgs(k, args[k])[j], Abi!ArgTypes(args[k])[j])
              /\ Len(Abi!fn_abi_to_c_type(SubSeq(args, 1, k - 1))) = off[k - 1]
  <2>1. off[k] = off[k - 1] + Len(Abi!ArgTypes(args[k])) /\ off[k - 1] \in Nat /\ off[k] \in Nat /\ off[n] \in Nat
    BY <1>2, <1>5 DEF Offsets
  <2>2. off[k] <= off[n]
    <3>1. \A i \in 1 .. n : Len(ArgSeqs(args)[i]) \in Nat BY <1>2, <1>3
    <3>2. k \in 0 .. n /\ n \in 0 .. n /\ k <= n BY <1>2
    <3> HIDE DEF n
    <3> QED BY <1>2, <1>5, <3>1, <3>2, OffsetsGrow
  <2>3. ASSUME NEW j \in 1 .. Len(Abi!ArgTypes(args[k]))
        PROVE  Abi!CallParams(sig)[off[k - 1] + j] =
                 Abi!Passed(Abi!LlArgs(k, args[k])[j], Abi!ArgTypes(args[k])[j])
    <3>1. PICK e \in Nat : e = Len(Abi!ArgTypes(args[k])) BY <1>2, <1>3
    <3>2. PICK x \in Nat, y \in Nat, z \in Nat : x = off[k - 1] /\ y = off[k] /\ z = off[n] BY <2>1
    <3>3. y = x + e /\ y <= z /\ j \in 1 .. e BY <2>1, <2>2, <3>1, <3>2
    <3>4. x + j \in 1 .. z BY <3>3
    <3>5. Abi!CallParams(sig)[x + j] = Abi!Passed(vals[x + j], types[x + j]) BY <1>11, <3>2, <3>4
    <3>6. types[x + j] = Abi!ArgTypes(args[k])[j]
      <4>1. ArgSeqs(args)[k] = Abi!ArgTypes(args[k]) BY <1>2
      <4> QED BY <1>7, <3>2, <4>1
    <3>7. vals[x + j] = Abi!LlArgs(k, args[k])[j]
      <4>1. ValueSeqs(args)[k] = Abi!LlArgs(k, args[k]) /\ Len(Abi!LlArgs(k, args[k])) = Len(Abi!ArgTypes(args[k]))
        BY <1>2
      <4> QED BY <1>8, <3>2, <4>1
    <3> QED BY <3>2, <3>5, <3>6, <3>7
  <2>4. Len(Abi!fn_abi_to_c_type(SubSeq(args, 1, k - 1))) = off[k - 1]
    <3>1. k - 1 \in 0 .. n BY <1>2
    <3> QED BY <1>1, <1>5, <3>1, PrefixLength
  <2> QED BY <2>1, <2>3, <2>4
<1>13. off[0] = 0 /\ \A i \in 0 .. n : off[i] \in Nat BY <1>5 DEF Offsets
<1> QED BY <1>12, <1>13 DEF Numbered, args

First(sig) == IF sig.ret.mode = "indirect" THEN 1 ELSE 0

LEMMA ArgumentFacts ==
  ASSUME NEW sig, Abi!SignatureOK(sig)
  PROVE  /\ Len(sig.args) \in Nat /\ DOMAIN sig.args = 1 .. Len(sig.args)
         /\ \A k \in 1 .. Len(sig.args) :
              Abi!ArgumentOK(sig.args[k]) /\ Len(Abi!ArgTypes(sig.args[k])) \in Nat
<1> DEFINE args == sig.args
<1>1. args \in Seq(Abi!Range(args)) /\ \A k \in DOMAIN args : Abi!ArgumentOK(args[k])
  BY DEF Abi!SignatureOK
<1> HIDE DEF args
<1>2. Len(args) \in Nat /\ DOMAIN args = 1 .. Len(args) BY <1>1
<1>3. ASSUME NEW k \in 1 .. Len(args) PROVE Abi!ArgumentOK(args[k]) /\ Len(Abi!ArgTypes(args[k])) \in Nat
  <2>1. Abi!ArgumentOK(args[k]) BY <1>1, <1>2
  <2>2. LET t == Abi!ArgTypes(args[k]) IN t = << >> \/ (\E x : t = <<x>>) \/ (\E x, y : t = <<x, y>>)
    BY <2>1, ArgLengths
  <2> QED BY <2>1, <2>2
<1> QED BY <1>2, <1>3 DEF args

(* Two arguments never share a C parameter. *)
LEMMA ParametersApart ==
  ASSUME NEW sig, Abi!SignatureOK(sig), NEW off, Numbered(off, sig),
         NEW j \in 1 .. Len(sig.args), NEW k \in 1 .. Len(sig.args), j < k
  PROVE  off[j] <= off[k - 1]
<1> DEFINE n == Len(sig.args)
           seqs == [i \in 1 .. n |-> Abi!ArgTypes(sig.args[i])]
<1>1. n \in Nat /\ \A i \in 1 .. n : Len(seqs[i]) \in Nat BY ArgumentFacts
<1>2. Offsets(off, n, seqs) BY DEF Offsets, Numbered
<1>3. j \in 0 .. n /\ k - 1 \in 0 .. n /\ j <= k - 1 BY <1>1
<1> HIDE DEF n, seqs
<1> QED BY <1>1, <1>2, <1>3, OffsetsGrow

LEMMA OnStackIs ==
  ASSUME NEW sig, Abi!SignatureOK(sig), NEW off, Numbered(off, sig),
         NEW k \in 1 .. Len(sig.args), NEW i \in 0 .. Len(Abi!ArgTypes(sig.args[k])) - 1
  PROVE  off[k - 1] + i \in Abi!on_stack_params(sig.args) <=> sig.args[k].on_stack
<1> DEFINE args == sig.args
           c == off[k - 1] + i
<1>1. PICK n \in Nat : n = Len(args) /\ DOMAIN args = 1 .. n BY ArgumentFacts
<1>2. \A q \in 1 .. n : Abi!ArgumentOK(args[q]) /\ Len(Abi!ArgTypes(args[q])) \in Nat BY <1>1, ArgumentFacts
<1>3. \A q \in 1 .. n : /\ off[q] = off[q - 1] + Len(Abi!ArgTypes(args[q]))
                        /\ off[q - 1] \in Nat /\ off[q] \in Nat
                        /\ Len(Abi!fn_abi_to_c_type(SubSeq(args, 1, q - 1))) = off[q - 1]
  BY <1>1 DEF Numbered
<1>4. \A q \in 1 .. n : args[q].on_stack =>
          Len(Abi!ArgTypes(args[q])) = 1 /\ args[q].mode = "indirect" /\ ~args[q].meta
  BY <1>2, ArgLengths DEF Abi!ArgumentOK
<1>5. ASSUME c \in Abi!on_stack_params(args) PROVE args[k].on_stack
  <2>1. PICK j \in 1 .. n : args[j].on_stack /\ c = off[j - 1]
    BY <1>1, <1>3, <1>5 DEF Abi!on_stack_params
  <2>2. PICK x \in Nat, y \in Nat, z \in Nat, e \in Nat :
          x = off[k - 1] /\ y = off[k] /\ z = off[j] /\ e = Len(Abi!ArgTypes(args[k]))
    BY <1>1, <1>2, <1>3
  <2>3. y = x + e /\ i \in 0 .. e - 1 /\ c = x + i BY <1>1, <1>3, <2>2
  <2>4. z = c + 1 BY <1>3, <1>4, <2>1, <2>2
  <2>5. ~(j < k)
    <3>1. j < k => z <= x BY <1>1, <2>2, ParametersApart
    <3> QED BY <2>3, <2>4, <3>1
  <2>6. ~(k < j)
    <3>1. k < j => y <= c BY <1>1, <2>1, <2>2, ParametersApart
    <3> QED BY <2>3, <3>1
  <2>7. j = k BY <1>1, <2>5, <2>6
  <2> QED BY <2>1, <2>7
<1>6. ASSUME args[k].on_stack PROVE c \in Abi!on_stack_params(args)
  <2>1. i = 0
    <3>1. k \in 1 .. n BY <1>1
    <3>2. Len(Abi!ArgTypes(args[k])) = 1 BY <1>4, <1>6, <3>1
    <3> QED BY <3>2
  <2>2. c = off[k - 1] BY <1>1, <1>3, <2>1
  <2> QED BY <1>1, <1>3, <1>4, <1>6, <2>2 DEF Abi!on_stack_params
<1> QED BY <1>5, <1>6

LEMMA ParameterTaken ==
  ASSUME NEW sig, Abi!SignatureOK(sig), NEW off, Numbered(off, sig),
         NEW k \in 1 .. Len(sig.args), NEW i \in 0 .. Len(Abi!ArgTypes(sig.args[k])) - 1
  PROVE  Abi!get_param(sig, Abi!CallParams(sig), off[k - 1] + First(sig) + i) = Taken(k, sig.args[k], i + 1)
<1> DEFINE a == sig.args[k]
           params == Abi!CallParams(sig)
           index == off[k - 1] + First(sig) + i
           v == Abi!Passed(Abi!LlArgs(k, a)[i + 1], Abi!ArgTypes(a)[i + 1])
<1>1. PICK x \in Nat : x = off[k - 1]
  <2>1. Len(sig.args) \in Nat BY ArgumentFacts
  <2> QED BY <2>1 DEF Numbered
<1>2. Len(Abi!ArgTypes(a)) \in Nat BY ArgumentFacts
<1>3. i + 1 \in 1 .. Len(Abi!ArgTypes(a)) /\ x + i + 1 = x + (i + 1) BY <1>1, <1>2
<1>4. params[x + i + 1] = v BY <1>1, <1>3 DEF Numbered
<1>5. (IF sig.ret.mode = "indirect" THEN index - 1 ELSE index) = x + i BY <1>1, <1>2 DEF First
<1>6. x + i \in Abi!on_stack_params(sig.args) <=> a.on_stack BY <1>1, OnStackIs
<1> HIDE DEF index, v, params
<1>7. Abi!get_param(sig, params, index) =
        IF x + i \in Abi!on_stack_params(sig.args)
        THEN Abi!AddressOf([size |-> Abi!SizeOf(v.ty), at |-> v.bytes]) ELSE v
  BY <1>4, <1>5 DEF Abi!get_param
<1>8. Taken(k, a, i + 1) = IF a.on_stack THEN Abi!AddressOf([size |-> Abi!SizeOf(v.ty), at |-> v.bytes]) ELSE v
  BY DEF Taken, v
<1> QED BY <1>6, <1>7, <1>8 DEF index, params

-----------------------------------------------------------------------------
(* The arguments, one after the other                                      *)

(* Entry after argument k, from what it was before. *)
EntryStep(sig, params, k, x) ==
  LET s == Abi!store_fn_arg(sig, params, sig.args[k], x.idx)
  IN [idx |-> x.idx + s.used, written |-> Append(x.written, s.written)]
IsEntry(n, sig, params, at) ==
  at = [k \in 0 .. n |-> IF k = 0 THEN [idx |-> First(sig), written |-> << >>]
                         ELSE EntryStep(sig, params, k, at[k - 1])]

LEMMA EntryExists ==
  ASSUME NEW n \in Nat, NEW sig, NEW params
  PROVE  \E at : IsEntry(n, sig, params, at)
<1> DEFINE T == {m \in 0 .. n : \E at : IsEntry(m, sig, params, at)}
<1>1. 0 \in T
  <2> DEFINE g == [k \in 0 .. 0 |-> [idx |-> First(sig), written |-> << >>]]
  <2>1. g = [k \in 0 .. 0 |-> IF k = 0 THEN [idx |-> First(sig), written |-> << >>]
                              ELSE EntryStep(sig, params, k, g[k - 1])]
    OBVIOUS
  <2> HIDE DEF g
  <2>2. IsEntry(0, sig, params, g) BY <2>1 DEF IsEntry
  <2> QED BY <2>2
<1>2. ASSUME NEW m \in 0 .. n - 1, m \in T PROVE m + 1 \in T
  <2>1. PICK g : IsEntry(m, sig, params, g) BY <1>2
  <2> DEFINE last == EntryStep(sig, params, m + 1, g[m])
             h == [k \in 0 .. m + 1 |-> IF k = m + 1 THEN last ELSE g[k]]
  <2>2. ASSUME NEW k \in 0 .. m + 1
        PROVE  h[k] = IF k = 0 THEN [idx |-> First(sig), written |-> << >>]
                      ELSE EntryStep(sig, params, k, h[k - 1])
    <3>1. CASE k = m + 1
      <4>1. h[k] = last BY <3>1
      <4>2. m \in 0 .. m + 1 /\ m # m + 1 /\ k - 1 = m /\ k # 0 BY <3>1
      <4>3. h[k - 1] = g[m] BY <4>2
      <4> QED BY <3>1, <4>1, <4>2, <4>3
    <3>2. CASE k # m + 1
      <4>1. k \in 0 .. m BY <3>2
      <4>2. h[k] = g[k] BY <3>2
      <4>3. g[k] = IF k = 0 THEN [idx |-> First(sig), written |-> << >>]
                   ELSE EntryStep(sig, params, k, g[k - 1])
        BY <2>1, <4>1 DEF IsEntry
      <4>4. k # 0 => h[k - 1] = g[k - 1] BY <4>1
      <4> QED BY <4>2, <4>3, <4>4
    <3> QED BY <3>1, <3>2
  <2>3. h = [k \in 0 .. m + 1 |-> h[k]] OBVIOUS
  <2> HIDE DEF h
  <2>4. IsEntry(m + 1, sig, params, h) BY <2>2, <2>3 DEF IsEntry
  <2> QED BY <2>4
<1> HIDE DEF T
<1>3. n \in T BY <1>1, <1>2, UpTo
<1> QED BY <1>3 DEF T

LEMMA EntryIs ==
  ASSUME NEW sig, NEW params, Len(sig.args) \in Nat
  PROVE  \E at : IsEntry(Len(sig.args), sig, params, at) /\ Abi!Entry(sig, params) = at[Len(sig.args)].written
<1> DEFINE n == Len(sig.args)
           Raw(f) == f = [k \in 0 .. n |->
             IF k = 0 THEN [idx |-> IF sig.ret.mode = "indirect" THEN 1 ELSE 0, written |-> << >>]
             ELSE LET s == Abi!store_fn_arg(sig, params, sig.args[k], f[k - 1].idx)
                  IN [idx |-> f[k - 1].idx + s.used, written |-> Append(f[k - 1].written, s.written)]]
           at == CHOOSE f : Raw(f)
<1>1. \A f : Raw(f) <=> IsEntry(n, sig, params, f) BY DEF IsEntry, EntryStep, First
<1>2. Abi!Entry(sig, params) = at[n].written BY DEF Abi!Entry
<1>3. \E f : Raw(f) BY <1>1, EntryExists
<1> HIDE DEF Raw
<1>4. Raw(at) BY <1>3
<1> QED BY <1>1, <1>2, <1>4

LEMMA ArgumentsDelivered ==
  ASSUME NEW sig, Abi!SignatureOK(sig)
  PROVE  LET e == Abi!Entry(sig, Abi!CallParams(sig))
         IN /\ DOMAIN e = 1 .. Len(sig.args)
            /\ \A k \in 1 .. Len(sig.args) :
                 /\ Stored(e[k], k, sig.args[k].layout)
                 /\ sig.args[k].meta => \A i \in 0 .. 7 : e[k][2].at[i] = <<k, i>>
<1> DEFINE params == Abi!CallParams(sig)
           st(k, idx) == Abi!store_fn_arg(sig, params, sig.args[k], idx)
<1>1. PICK n \in Nat : n = Len(sig.args) BY ArgumentFacts
<1>2. PICK off : Numbered(off, sig) BY ParametersNumbered
<1>3. PICK at : IsEntry(n, sig, params, at) /\ Abi!Entry(sig, params) = at[n].written
  BY <1>1, EntryIs
<1> DEFINE s(k) == st(k, off[k - 1] + First(sig))
           W == {s(k).written : k \in 1 .. n}
<1>4. \A k \in 0 .. n : off[k] \in Nat BY <1>1, <1>2 DEF Numbered
<1>5. ASSUME NEW k \in 1 .. n PROVE Delivered(s(k), k, sig.args[k])
  <2>1. Abi!ArgumentOK(sig.args[k]) BY <1>1, ArgumentFacts
  <2>2. off[k - 1] + First(sig) \in Nat
    <3>1. k - 1 \in 0 .. n OBVIOUS
    <3> QED BY <1>4, <3>1 DEF First
  <2>3. \A i \in 0 .. Len(Abi!ArgTypes(sig.args[k])) - 1 :
          Abi!get_param(sig, params, off[k - 1] + First(sig) + i) = Taken(k, sig.args[k], i + 1)
    BY <1>1, <1>2, ParameterTaken
  <2> HIDE DEF params
  <2> QED BY <2>1, <2>2, <2>3, ArgDelivered
<1> HIDE DEF params
<1> DEFINE Ok(k) == /\ at[k].idx = off[k] + First(sig) /\ at[k].written \in Seq(W) /\ Len(at[k].written) = k
                    /\ \A j \in 1 .. k : at[k].written[j] = s(j).written
           T == {k \in 0 .. n : Ok(k)}
<1>6. 0 \in T
  <2>1. at[0] = [idx |-> First(sig), written |-> << >>] BY <1>3 DEF IsEntry
  <2>2. off[0] = 0 BY <1>2 DEF Numbered
  <2>3. at[0].idx = off[0] + First(sig) BY <2>1, <2>2 DEF First
  <2>4. at[0].written = << >> /\ 1 .. 0 = {} BY <2>1
  <2> HIDE DEF W
  <2>5. at[0].written \in Seq(W) /\ Len(at[0].written) = 0 BY <2>4
  <2>6. \A j \in 1 .. 0 : at[0].written[j] = s(j).written BY <2>4
  <2> HIDE DEF s
  <2> QED BY <2>3, <2>5, <2>6
<1>7. ASSUME NEW k \in 0 .. n - 1, k \in T PROVE k + 1 \in T
  <2>1. k + 1 \in 1 .. n /\ (k + 1) - 1 = k /\ k + 1 # 0 /\ k + 1 \in 0 .. n OBVIOUS
  <2>2. at[k + 1] = EntryStep(sig, params, k + 1, at[k])
    <3>1. \A q \in 0 .. n : at[q] = IF q = 0 THEN [idx |-> First(sig), written |-> << >>]
                                    ELSE EntryStep(sig, params, q, at[q - 1])
      BY <1>3 DEF IsEntry
    <3> QED BY <2>1, <3>1
  <2>3. Ok(k) BY <1>7
  <2> DEFINE u == s(k + 1)
  <2>4. u = st(k + 1, at[k].idx) BY <2>1, <2>3
  <2>5. at[k + 1] = [idx |-> at[k].idx + u.used, written |-> Append(at[k].written, u.written)]
    BY <2>2, <2>4 DEF EntryStep
  <2>6. u.used = Len(Abi!ArgTypes(sig.args[k + 1])) BY <1>5, <2>1 DEF Delivered
  <2>7. off[k + 1] = off[k] + Len(Abi!ArgTypes(sig.args[k + 1])) BY <1>1, <1>2, <2>1 DEF Numbered
  <2>8. u.written \in W BY <2>1
  <2> HIDE DEF u, W
  <2>9. at[k + 1].idx = off[k + 1] + First(sig)
    <3>1. PICK x \in Nat, y \in Nat, z \in Nat : x = off[k] /\ y = Len(Abi!ArgTypes(sig.args[k + 1])) /\ z = First(sig)
      BY <1>1, <1>4, <2>1, ArgumentFacts DEF First
    <3>2. (x + z) + y = (x + y) + z OBVIOUS
    <3> QED BY <2>3, <2>5, <2>6, <2>7, <3>1, <3>2
  <2>10. PICK q \in Seq(W) : q = at[k].written /\ Len(q) = k BY <2>3
  <2>11. at[k + 1].written = Append(q, u.written) BY <2>5, <2>10
  <2>12. Append(q, u.written) \in Seq(W) /\ Len(Append(q, u.written)) = k + 1 BY <2>8, <2>10
  <2>13. ASSUME NEW j \in 1 .. k + 1 PROVE at[k + 1].written[j] = s(j).written
    <3>1. CASE j = k + 1
      <4>1. Append(q, u.written)[k + 1] = u.written BY <2>8, <2>10
      <4> QED BY <2>11, <3>1, <4>1 DEF u
    <3>2. CASE j # k + 1
      <4>1. j \in 1 .. k BY <3>2
      <4>2. Append(q, u.written)[j] = q[j] BY <2>8, <2>10, <4>1
      <4> QED BY <2>3, <2>10, <2>11, <4>1, <4>2
    <3> QED BY <3>1, <3>2
  <2>14. Ok(k + 1) BY <2>9, <2>11, <2>12, <2>13
  <2> QED BY <2>1, <2>14
<1> HIDE DEF T
<1>8. n \in T BY <1>6, <1>7, UpTo
<1>9. Ok(n) BY <1>8 DEF T
<1> DEFINE e == Abi!Entry(sig, params)
<1>10. e \in Seq(W) /\ Len(e) = n /\ \A j \in 1 .. n : e[j] = s(j).written BY <1>3, <1>9
<1>11. ASSUME NEW k \in 1 .. n
       PROVE  /\ Stored(e[k], k, sig.args[k].layout)
              /\ sig.args[k].meta => \A i \in 0 .. 7 : e[k][2].at[i] = <<k, i>>
  <2>1. e[k] = s(k).written BY <1>10
  <2> HIDE DEF e, s
  <2> QED BY <1>5, <2>1 DEF Delivered
<1>12. DOMAIN e = 1 .. n
  <2> HIDE DEF e, W
  <2> QED BY <1>10
<1> QED BY <1>1, <1>11, <1>12 DEF params

-----------------------------------------------------------------------------
(* Repeated elements                                                       *)

LEMMA OperandStored ==
  ASSUME NEW l, Abi!LayoutOK(l), NEW n \in Nat, NEW off \in Nat, NEW m, Place(m, n), Inside(m), off + l.size <= n
  PROVE  ElementAt(Abi!StoreOperand(l, m, off), m, n, 0, l, off)
<1> DEFINE obj == Abi!Object(0, l.size)
           vs == Abi!load_operand(l, obj)
<1>1. CASE l.repr = "pair"
  <2> DEFINE v == Abi!from_immediate(vs[1])
             w == Abi!from_immediate(vs[2])
  <2>1. PICK a \in Nat, b \in Nat : a = l.scalars[1].size /\ b = l.scalars[2].size BY <1>1, PairSizes
  <2>2. Carries(vs[1], 0, 0, a, a) /\ Carries(vs[2], 0, l.second, b, b) BY <1>1, <2>1, LoadPair
  <2>3. a \in 0 .. a /\ b \in 0 .. b BY <2>1
  <2>4. Abi!StoreOperand(l, m, off) = Abi!store(w, Abi!store(v, m, off), off + Abi!b_offset(l))
    BY <1>1 DEF Abi!StoreOperand
  <2> HIDE DEF vs
  <2>5. Carries(v, 0, 0, a, a) /\ Carries(w, 0, l.second, b, b) BY <2>2, <2>3, FromImmediate
  <2> HIDE DEF v, w
  <2> QED BY <1>1, <2>1, <2>4, <2>5, StorePair
<1>2. CASE l.repr # "pair"
  <2>1. PICK d \in Nat : d = l.size /\ Abi!SizeOf(Abi!layout_to_c_type(l)) = d BY <1>2, PlainSizes
  <2>2. \A i \in Abi!DataBytes(l) : i < d BY <2>1, DataFacts
  <2>3. CASE l.repr = "memory"
    <3> DEFINE v == Abi!load(Abi!layout_to_c_type(l), obj, 0)
    <3>1. Carries(v, 0, 0, d, d) BY <2>1, LoadObject
    <3>2. Abi!StoreOperand(l, m, off) = Abi!store(v, m, off) BY <2>3 DEF Abi!StoreOperand
    <3> HIDE DEF v
    <3> QED BY <2>1, <2>2, <3>1, <3>2, StoreWhole
  <2>4. CASE l.repr # "memory"
    <3> DEFINE v == Abi!from_immediate(vs[1])
    <3>1. Carries(vs[1], 0, 0, d, d) BY <1>2, <2>1, LoadPlain
    <3>2. Abi!StoreOperand(l, m, off) = Abi!store(v, m, off) BY <1>2, <2>4 DEF Abi!StoreOperand
    <3> HIDE DEF vs
    <3>3. Carries(v, 0, 0, d, d) BY <2>1, <3>1, FromImmediate
    <3> HIDE DEF v
    <3> QED BY <2>1, <2>2, <3>2, <3>3, StoreWhole
  <2> QED BY <2>3, <2>4
<1> QED BY <1>1, <1>2

IsRepeated(count, l, dst, f) ==
  f = [n \in 0 .. count |-> IF n = 0 THEN dst ELSE Abi!StoreOperand(l, f[n - 1], (n - 1) * l.size)]

LEMMA RepeatedExists ==
  ASSUME NEW count \in Nat, NEW l, NEW dst
  PROVE  \E f : IsRepeated(count, l, dst, f)
<1> DEFINE T == {m \in 0 .. count : \E f : IsRepeated(m, l, dst, f)}
<1>1. 0 \in T
  <2> DEFINE g == [n \in 0 .. 0 |-> dst]
  <2>1. g = [n \in 0 .. 0 |-> IF n = 0 THEN dst ELSE Abi!StoreOperand(l, g[n - 1], (n - 1) * l.size)] OBVIOUS
  <2> HIDE DEF g
  <2>2. IsRepeated(0, l, dst, g) BY <2>1 DEF IsRepeated
  <2> QED BY <2>2
<1>2. ASSUME NEW m \in 0 .. count - 1, m \in T PROVE m + 1 \in T
  <2>1. PICK g : IsRepeated(m, l, dst, g) BY <1>2
  <2> DEFINE last == Abi!StoreOperand(l, g[m], m * l.size)
             h == [n \in 0 .. m + 1 |-> IF n = m + 1 THEN last ELSE g[n]]
  <2>2. ASSUME NEW n \in 0 .. m + 1
        PROVE  h[n] = IF n = 0 THEN dst ELSE Abi!StoreOperand(l, h[n - 1], (n - 1) * l.size)
    <3>1. CASE n = m + 1
      <4>1. h[n] = last BY <3>1
      <4>2. m \in 0 .. m + 1 /\ m # m + 1 /\ n - 1 = m /\ n # 0 BY <3>1
      <4>3. h[n - 1] = g[m] BY <4>2
      <4> QED BY <3>1, <4>1, <4>2, <4>3
    <3>2. CASE n # m + 1
      <4>1. n \in 0 .. m BY <3>2
      <4>2. h[n] = g[n] BY <3>2
      <4>3. g[n] = IF n = 0 THEN dst ELSE Abi!StoreOperand(l, g[n - 1], (n - 1) * l.size)
        BY <2>1, <4>1 DEF IsRepeated
      <4>4. n # 0 => h[n - 1] = g[n - 1] BY <4>1
      <4> QED BY <4>2, <4>3, <4>4
    <3> QED BY <3>1, <3>2
  <2>3. h = [n \in 0 .. m + 1 |-> h[n]] OBVIOUS
  <2> HIDE DEF h
  <2>4. IsRepeated(m + 1, l, dst, h) BY <2>2, <2>3 DEF IsRepeated
  <2> QED BY <2>4
<1> HIDE DEF T
<1>3. count \in T BY <1>1, <1>2, UpTo
<1> QED BY <1>3 DEF T

(* The elements before the n-th end where it begins. *)
LEMMA ElementsApart ==
  ASSUME NEW s \in Nat, NEW j \in Nat, NEW n \in Nat, j < n
  PROVE  j * s + s <= n * s
<1>1. PICK d \in Nat : n = j + 1 + d
  <2>1. n - j - 1 \in Nat /\ n = j + 1 + (n - j - 1) OBVIOUS
  <2> QED BY <2>1
<1>2. n * s = j * s + s + d * s BY <1>1
<1>3. d * s \in Nat /\ j * s \in Nat OBVIOUS
<1> QED BY <1>2, <1>3

(* The first n elements are in place. *)
Repeated(m, n, l, size) ==
  /\ Place(m, size) /\ Inside(m)
  /\ \A j \in 0 .. n - 1 : \A i \in Abi!DataBytes(l) : m.at[j * l.size + i] = <<0, i>>

LEMMA StoresRepeat ==
  ASSUME NEW l, Abi!LayoutOK(l), NEW count \in Nat, NEW f,
         IsRepeated(count, l, Abi!alloca(l.size * count), f)
  PROVE  Repeated(f[count], count, l, l.size * count)
<1>1. PICK s \in Nat : s = l.size BY DataFacts
<1>2. PICK size \in Nat : size = s * count OBVIOUS
<1> DEFINE T == {n \in 0 .. count : Repeated(f[n], n, l, size)}
<1>3. \A n \in 0 .. count :
        f[n] = IF n = 0 THEN Abi!alloca(size) ELSE Abi!StoreOperand(l, f[n - 1], (n - 1) * s)
  BY <1>1, <1>2 DEF IsRepeated
<1>4. \A i \in Abi!DataBytes(l) : i \in 0 .. s - 1 BY <1>1, DataFacts
<1>5. 0 \in T
  <2>1. f[0] = Abi!alloca(size) BY <1>3
  <2>2. 0 .. 0 - 1 = {} OBVIOUS
  <2>3. Repeated(f[0], 0, l, size) BY <2>1, <2>2, AllocaFacts DEF Repeated
  <2> QED BY <2>3
<1>6. ASSUME NEW n \in 0 .. count - 1, n \in T PROVE n + 1 \in T
  <2>1. n + 1 \in 0 .. count /\ n + 1 # 0 /\ (n + 1) - 1 = n OBVIOUS
  <2>2. f[n + 1] = Abi!StoreOperand(l, f[n], n * s) BY <1>3, <2>1
  <2>3. PICK p \in Nat : p = n * s OBVIOUS
  <2>4. p + s <= size
    <3>1. n \in Nat /\ n < count OBVIOUS
    <3>2. n * s + s <= count * s BY <3>1, ElementsApart
    <3>3. count * s = s * count OBVIOUS
    <3> QED BY <1>2, <2>3, <3>2, <3>3
  <2>5. Repeated(f[n], n, l, size) BY <1>6
  <2>6. ElementAt(f[n + 1], f[n], size, 0, l, p)
    BY <1>1, <2>2, <2>3, <2>4, <2>5, OperandStored DEF Repeated
  <2>7. ASSUME NEW j \in 0 .. n, NEW i \in Abi!DataBytes(l) PROVE f[n + 1].at[j * l.size + i] = <<0, i>>
    <3>1. CASE j = n BY <1>1, <2>3, <2>6, <3>1 DEF ElementAt
    <3>2. CASE j # n
      <4>1. j \in 0 .. n - 1 /\ j \in Nat /\ n \in Nat /\ j < n BY <3>2
      <4>2. PICK q \in Nat : q = j * s OBVIOUS
      <4>3. q + s <= p BY <2>3, <4>1, <4>2, ElementsApart
      <4>4. i \in 0 .. s - 1 BY <1>4
      <4>5. q + i \in 0 .. size + 15 /\ q + i \notin p .. p + s - 1 BY <2>4, <4>3, <4>4
      <4>6. f[n + 1].at[q + i] = f[n].at[q + i] BY <1>1, <2>6, <4>5 DEF ElementAt
      <4>7. f[n].at[q + i] = <<0, i>> BY <1>1, <2>5, <4>1, <4>2 DEF Repeated
      <4> QED BY <1>1, <4>2, <4>6, <4>7
    <3> QED BY <3>1, <3>2
  <2>8. (n + 1) - 1 = n OBVIOUS
  <2>9. Repeated(f[n + 1], n + 1, l, size) BY <2>6, <2>7, <2>8 DEF Repeated, ElementAt
  <2> QED BY <2>1, <2>9
<1> HIDE DEF T
<1>7. count \in T BY <1>5, <1>6, UpTo
<1> QED BY <1>1, <1>2, <1>7 DEF T

LEMMA ElementsRepeated ==
  ASSUME NEW l, NEW count, Abi!LayoutOK(l), count \in Nat,
         l.repr = "memory" /\ l.size = 1 => count <= Abi!UNROLL_LIMIT
  PROVE  Repeated(Abi!write_operand_repeatedly(l, count), count, l, l.size * count)
<1> DEFINE dst == Abi!alloca(l.size * count)
           elem == Abi!load_operand(l, Abi!Object(0, l.size))[1]
           first == Abi!StoreOperand(l, dst, 0)
           Raw(f) == f = [n \in 0 .. count |->
             IF n = 0 THEN dst ELSE Abi!StoreOperand(l, f[n - 1], (n - 1) * l.size)]
           stored == CHOOSE f : Raw(f)
           w == Abi!write_operand_repeatedly(l, count)
<1>1. PICK s \in Nat : s = l.size BY DataFacts
<1>2. PICK size \in Nat : size = l.size * count BY <1>1
<1>3. Place(dst, size) /\ Inside(dst) BY <1>2, AllocaFacts
<1>4. dst = [size |-> size, at |-> dst.at] /\ DOMAIN dst.at = 0 .. size + 15 BY <1>3 DEF Place
<1>5. \A i \in Abi!DataBytes(l) : i \in 0 .. s - 1 BY <1>1, DataFacts
<1>6. CASE count > Abi!UNROLL_LIMIT /\ l.size = 1
  <2>1. l.repr # "memory" BY <1>6 DEF Abi!UNROLL_LIMIT
  <2> DEFINE at == [i \in 0 .. size + 15 |-> IF i < count THEN elem.bytes[0] ELSE dst.at[i]]
  <2>2. w = [dst EXCEPT !.at = [i \in DOMAIN @ |-> IF i < count THEN elem.bytes[0] ELSE @[i]]]
    BY <1>6, <2>1 DEF Abi!write_operand_repeatedly
  <2>3. l.repr # "pair"
    <3>1. l.repr = "pair" => \E a \in Nat \ {0}, b \in Nat \ {0}, c \in Nat : a <= c /\ c + b <= 1
      BY <1>6, PairSizes
    <3> QED BY <3>1
  <2>4. elem.bytes[0] = <<0, 0>>
    <3>1. Carries(elem, 0, 0, 1, 1) BY <1>6, <2>3, LoadPlain
    <3> HIDE DEF elem
    <3> QED BY <3>1 DEF Carries
  <2>5. \A i \in 0 .. size + 15 : at[i] = IF i < count THEN <<0, 0>> ELSE dst.at[i] BY <2>4
  <2> HIDE DEF dst, elem
  <2>6. w = [size |-> size, at |-> at]
    <3>1. w = [dst EXCEPT !.at = at] BY <1>4, <2>2
    <3> HIDE DEF at
    <3> QED BY <1>4, <3>1
  <2>7. DOMAIN at = 0 .. size + 15 OBVIOUS
  <2> HIDE DEF at, w
  <2>8. size = count /\ s = 1 BY <1>1, <1>2, <1>6
  <2>9. Place(w, size) BY <2>6, <2>7 DEF Place
  <2>10. Inside(w) BY <1>3, <1>4, <2>5, <2>6, <2>7, <2>8 DEF Inside
  <2>11. ASSUME NEW j \in 0 .. count - 1, NEW i \in Abi!DataBytes(l) PROVE w.at[j * l.size + i] = <<0, i>>
    <3>1. i = 0 BY <1>5, <2>8
    <3>2. j * l.size + i = j BY <1>1, <2>8, <3>1
    <3>3. j \in 0 .. size + 15 /\ j < count BY <2>8
    <3> QED BY <2>5, <2>6, <3>1, <3>2, <3>3
  <2> QED BY <1>2, <2>9, <2>10, <2>11 DEF Repeated, w
<1>7. CASE count > Abi!UNROLL_LIMIT /\ l.size # 1
  <2> DEFINE at == [i \in 0 .. size + 15 |-> IF i < size THEN Abi!Read(first, i % s) ELSE first.at[i]]
  <2>1. count \in Nat /\ count > 0 BY <1>7 DEF Abi!UNROLL_LIMIT
  <2>2. s <= size
    <3>1. 0 * s + s <= count * s BY <2>1, ElementsApart
    <3> QED BY <1>1, <1>2, <3>1
  <2>3. w = [first EXCEPT !.at = [i \in DOMAIN @ |->
               IF i < count * l.size THEN Abi!Read(first, i % l.size) ELSE @[i]]]
    BY <1>7 DEF Abi!write_operand_repeatedly
  <2> HIDE DEF dst
  <2>4. ElementAt(first, dst, size, 0, l, 0) BY <1>1, <1>3, <2>2, OperandStored
  <2> HIDE DEF first
  <2>5. first = [size |-> size, at |-> first.at] /\ DOMAIN first.at = 0 .. size + 15
    BY <2>4 DEF ElementAt, Place
  <2>6. count * l.size = size BY <1>1, <1>2
  <2>7. w = [size |-> size, at |-> at]
    <3>1. w = [first EXCEPT !.at = [i \in DOMAIN @ |->
                 IF i < size THEN Abi!Read(first, i % s) ELSE @[i]]]
      BY <1>1, <2>3, <2>6
    <3>2. w = [first EXCEPT !.at = at] BY <2>5, <3>1
    <3> HIDE DEF at
    <3> QED BY <2>5, <3>2
  <2>8. DOMAIN at = 0 .. size + 15 OBVIOUS
  <2>9. \A i \in 0 .. size + 15 : at[i] = IF i < size THEN Abi!Read(first, i % s) ELSE first.at[i] OBVIOUS
  <2> HIDE DEF at, w
  <2>10. Place(w, size) BY <2>7, <2>8 DEF Place
  <2>11. Inside(w)
    <3>1. Inside(first) BY <2>4 DEF ElementAt
    <3> QED BY <2>5, <2>7, <2>8, <2>9, <3>1 DEF Inside
  <2>12. ASSUME NEW j \in 0 .. count - 1, NEW i \in Abi!DataBytes(l) PROVE w.at[j * l.size + i] = <<0, i>>
    <3>1. i \in 0 .. s - 1 /\ s \in Nat \ {0} BY <1>5
    <3>2. PICK p \in Nat : p = j * s OBVIOUS
    <3>3. p + s <= size
      <4>1. j \in Nat /\ j < count BY <2>1
      <4>2. j * s + s <= count * s BY <2>1, <4>1, ElementsApart
      <4> QED BY <1>1, <2>6, <3>2, <4>2
    <3>4. p + i \in 0 .. size + 15 /\ p + i < size BY <3>1, <3>3
    <3>5. (p + i) % s = i BY <3>1, <3>2, ModUnique
    <3>6. w.at[p + i] = Abi!Read(first, i) BY <2>7, <2>9, <3>4, <3>5
    <3>7. i < first.size BY <2>2, <2>5, <3>1
    <3>8. first.at[0 + i] = <<0, i>> /\ 0 + i = i BY <2>4, <3>1 DEF ElementAt
    <3>9. Abi!Read(first, i) = <<0, i>> BY <3>7, <3>8 DEF Abi!Read
    <3> QED BY <1>1, <3>2, <3>6, <3>9
  <2> QED BY <1>2, <2>10, <2>11, <2>12 DEF Repeated, w
<1>8. CASE ~(count > Abi!UNROLL_LIMIT)
  <2>1. w = stored[count] BY <1>8 DEF Abi!write_operand_repeatedly
  <2>2. \A f : Raw(f) <=> IsRepeated(count, l, dst, f) BY DEF IsRepeated
  <2>3. \E f : Raw(f) BY <2>2, RepeatedExists
  <2> HIDE DEF Raw, dst
  <2>4. Raw(stored) BY <2>3
  <2>5. IsRepeated(count, l, dst, stored) BY <2>2, <2>4
  <2> HIDE DEF stored, w
  <2> QED BY <2>1, <2>5, StoresRepeat DEF dst, w
<1> QED BY <1>6, <1>7, <1>8

-----------------------------------------------------------------------------
(* The calls                                                               *)

(* A call that was passed on is one of Signatures or Repeats, and has its  *)
(* result or none.                                                         *)
CallResult ==
  \/ /\ call.op = "call" /\ call.sig \in Signatures
     /\ out = NoResult \/ out = [args |-> Abi!Entry(call.sig, Abi!CallParams(call.sig)),
                                 ret |-> Abi!StoreResult(call.sig.ret)]
  \/ /\ call.op = "repeat" /\ \E r \in Repeats : call.layout = r[1] /\ call.count = r[2]
     /\ out = NoResult \/ out = Abi!write_operand_repeatedly(call.layout, call.count)
CallsInv == family = "calls" => CallResult

LEMMA CallsInvariant == Spec => []CallsInv
<1>1. Init => CallsInv
  <2> SUFFICES ASSUME Init, family = "calls" PROVE CallResult BY DEF CallsInv
  <2>1. Abi!Init BY DEF Init
  <2>2. CASE \E sig \in Signatures : call = [op |-> "call", sig |-> sig]
    BY <2>1, <2>2 DEF Abi!Init, CallResult
  <2>3. CASE \E r \in Repeats : call = [op |-> "repeat", layout |-> r[1], count |-> r[2]]
    BY <2>1, <2>3 DEF Abi!Init, CallResult
  <2> QED BY <2>1, <2>2, <2>3 DEF Abi!Init
<1>2. CallsInv /\ [Next]_vars => CallsInv'
  <2> SUFFICES ASSUME CallsInv, [Next]_vars, family' = "calls" PROVE CallResult' BY DEF CallsInv
  <2>1. CASE UNCHANGED vars
    <3>1. family' = family /\ call' = call /\ out' = out BY <2>1 DEF vars
    <3> QED BY <3>1 DEF CallsInv, CallResult
  <2>2. CASE Next
    <3>1. family = "calls" /\ Abi!Next BY <2>2 DEF Next
    <3>2. CallResult BY <3>1 DEF CallsInv
    <3>3. CASE call.op = "call" BY <3>1, <3>2, <3>3 DEF Abi!Next, CallResult
    <3>4. CASE call.op = "repeat" BY <3>1, <3>2, <3>4 DEF Abi!Next, CallResult
    <3> QED BY <3>2, <3>3, <3>4 DEF CallResult
  <2> QED BY <2>1, <2>2
<1> QED BY <1>1, <1>2, PTL DEF Spec

(* For every signature and every repeat expression that rustc may pass     *)
(* down, with any number of arguments: the data bytes of each argument     *)
(* reach the place the callee reads, those of the result the place the     *)
(* caller reads, and those of a repeated element each of its places.       *)
(* Arguments that are ignored, split in two or passed on the stack, and    *)
(* the return pointer that is counted but not passed, never shift the      *)
(* numbering of the C parameters.                                          *)
THEOREM BytesAlwaysArrive ==
  ASSUME \A sig \in Signatures : Abi!SignatureOK(sig), \A r \in Repeats : Abi!RepeatOK(r)
  PROVE  Spec => []BytesArrive
<1>1. CallsInv => BytesArrive
  <2> SUFFICES ASSUME CallResult, out # NoResult PROVE Abi!BytesArrive
    BY DEF CallsInv, BytesArrive, Abi!BytesArrive
  <2>1. CASE call.op = "call"
    <3> DEFINE sig == call.sig
               e == Abi!Entry(sig, Abi!CallParams(sig))
               ret == Abi!StoreResult(sig.ret)
    <3>1. Abi!SignatureOK(sig) /\ out = [args |-> e, ret |-> ret] BY <2>1 DEF CallResult
    <3>2. DOMAIN sig.args = 1 .. Len(sig.args) BY <3>1, ArgumentFacts
    <3>3. \A k \in 1 .. Len(sig.args) :
            /\ Stored(e[k], k, sig.args[k].layout)
            /\ sig.args[k].meta => \A i \in 0 .. 7 : e[k][2].at[i] = <<k, i>>
      BY <3>1, ArgumentsDelivered
    <3>4. Stored(ret, 0, sig.ret.layout) BY <3>1, ResultStored DEF Abi!SignatureOK
    <3> HIDE DEF e, ret
    <3>5. out.args = e /\ out.ret = ret BY <3>1
    <3>6. ASSUME NEW k \in DOMAIN sig.args
          PROVE  /\ \A i \in Abi!DataBytes(sig.args[k].layout) : out.args[k][1].at[i] = <<k, i>>
                 /\ sig.args[k].meta => \A i \in 0 .. 8 - 1 : out.args[k][2].at[i] = <<k, i>>
      <4>1. k \in 1 .. Len(sig.args) /\ 8 - 1 = 7 BY <3>2
      <4>2. Holds(e[k][1], k, sig.args[k].layout) BY <3>3, <4>1 DEF Stored
      <4> QED BY <3>3, <3>5, <4>1, <4>2 DEF Holds
    <3>7. \A i \in Abi!DataBytes(sig.ret.layout) : out.ret[1].at[i] = <<0, i>>
      BY <3>4, <3>5 DEF Stored, Holds
    <3> QED BY <2>1, <3>6, <3>7 DEF Abi!BytesArrive
  <2>2. CASE call.op = "repeat"
    <3>1. PICK r \in Repeats : call.layout = r[1] /\ call.count = r[2] BY <2>2 DEF CallResult
    <3>2. out = Abi!write_operand_repeatedly(call.layout, call.count) BY <2>2 DEF CallResult
    <3>3. Repeated(out, call.count, call.layout, call.layout.size * call.count)
      BY <3>1, <3>2, ElementsRepeated DEF Abi!RepeatOK
    <3> QED BY <2>2, <3>3 DEF Repeated, Abi!BytesArrive
  <2> QED BY <2>1, <2>2 DEF CallResult
<1> QED BY <1>1, CallsInvariant, PTL

(* For the same calls: no store writes behind the local or the buffer it   *)
(* is for, also where the C type is wider than what Rust passes.           *)
THEOREM StoresAlwaysInside ==
  ASSUME \A sig \in Signatures : Abi!SignatureOK(sig), \A r \in Repeats : Abi!RepeatOK(r)
  PROVE  Spec => []StoresStayInside
<1>1. CallsInv => StoresStayInside
  <2> SUFFICES ASSUME CallResult, out # NoResult PROVE Abi!StoresStayInside
    BY DEF CallsInv, StoresStayInside, Abi!StoresStayInside
  <2>0. ASSUME NEW w, NEW k, NEW l, Stored(w, k, l) PROVE \A m \in Abi!Range(w) : Inside(m)
    <3>1. CASE w = <<w[1]>>
      <4>1. Abi!Range(w) = {w[1]} BY <3>1 DEF Abi!Range
      <4> QED BY <2>0, <4>1 DEF Stored, Holds
    <3>2. CASE w = <<w[1], w[2]>> /\ Inside(w[2])
      <4>1. Abi!Range(w) = {w[1], w[2]} BY <3>2 DEF Abi!Range
      <4> QED BY <2>0, <3>2, <4>1 DEF Stored, Holds
    <3> QED BY <2>0, <3>1, <3>2 DEF Stored
  <2>1. CASE call.op = "call"
    <3> DEFINE sig == call.sig
               e == Abi!Entry(sig, Abi!CallParams(sig))
               ret == Abi!StoreResult(sig.ret)
    <3>1. Abi!SignatureOK(sig) /\ out = [args |-> e, ret |-> ret] BY <2>1 DEF CallResult
    <3>2. DOMAIN e = 1 .. Len(sig.args) /\ \A k \in 1 .. Len(sig.args) : Stored(e[k], k, sig.args[k].layout)
      BY <3>1, ArgumentsDelivered
    <3>3. Stored(ret, 0, sig.ret.layout) BY <3>1, ResultStored DEF Abi!SignatureOK
    <3> HIDE DEF e, ret
    <3>4. out.args = e /\ out.ret = ret BY <3>1
    <3>5. ASSUME NEW w \in Abi!Range(out.args) \cup {out.ret} PROVE \A m \in Abi!Range(w) : Inside(m)
      <4>1. CASE w = ret BY <2>0, <3>3, <4>1
      <4>2. CASE w \in Abi!Range(e)
        <5>1. PICK k \in 1 .. Len(sig.args) : w = e[k] BY <3>2, <4>2 DEF Abi!Range
        <5> QED BY <2>0, <3>2, <5>1
      <4> QED BY <3>4, <4>1, <4>2
    <3>6. \A m \in UNION {Abi!Range(w) : w \in Abi!Range(out.args) \cup {out.ret}} : Inside(m) BY <3>5
    <3>7. call.op # "repeat" BY <2>1
    <3> QED BY <3>6, <3>7 DEF Inside, Abi!StoresStayInside
  <2>2. CASE call.op = "repeat"
    <3>1. PICK r \in Repeats : call.layout = r[1] /\ call.count = r[2] BY <2>2 DEF CallResult
    <3>2. out = Abi!write_operand_repeatedly(call.layout, call.count) BY <2>2 DEF CallResult
    <3>3. Repeated(out, call.count, call.layout, call.layout.size * call.count)
      BY <3>1, <3>2, ElementsRepeated DEF Abi!RepeatOK
    <3> QED BY <2>2, <3>3 DEF Repeated, Inside, Abi!StoresStayInside
  <2> QED BY <2>1, <2>2 DEF CallResult
<1> QED BY <1>1, CallsInvariant, PTL
=============================================================================
