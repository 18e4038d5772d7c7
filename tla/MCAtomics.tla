----------------------------- MODULE MCAtomics ------------------------------
(***************************************************************************)
(* Instances of AtomicLowering: objects of two one-bit halves, so a value  *)
(* is a two's complement number of Width bits, -2 .. 1, or unsigned 0 .. 3.*)
(***************************************************************************)
EXTENDS AtomicLowering

Width == 2
MCHalf == {0, 1}
MCZero == <<0, 0>>

Unsigned(v) == 2 * v[1] + v[2]
Signed(v) == IF v[1] = 1 THEN Unsigned(v) - 2 ^ Width ELSE Unsigned(v)
Truncate(n) == << (n \div 2) % 2, n % 2 >>

Bitwise2(F(_, _), v, w) == << F(v[1], w[1]), F(v[2], w[2]) >>
And(a, b) == a * b
Or(a, b) == a + b - a * b
Xor(a, b) == (a + b) % 2
Not(v) == << 1 - v[1], 1 - v[2] >>

(* The C expression of each read-modify-write: operands old and s of the   *)
(* object's type, the result converted back to it; umin and umax compare   *)
(* as unsigned_type(ty).                                                   *)
MCRmw(op, old_, s) ==
  CASE op = "add" -> Truncate(Unsigned(old_) + Unsigned(s))
    [] op = "sub" -> Truncate(Unsigned(old_) + 2 ^ Width - Unsigned(s))
    [] op = "and" -> Bitwise2(And, old_, s)
    [] op = "or" -> Bitwise2(Or, old_, s)
    [] op = "xor" -> Bitwise2(Xor, old_, s)
    [] op = "clr" -> Bitwise2(And, old_, Not(s))
    [] op = "nand" -> Not(Bitwise2(And, old_, s))
    [] op = "min" -> IF Signed(old_) < Signed(s) THEN old_ ELSE s
    [] op = "max" -> IF Signed(old_) > Signed(s) THEN old_ ELSE s
    [] op = "umin" -> IF Unsigned(old_) < Unsigned(s) THEN old_ ELSE s
    [] op = "umax" -> IF Unsigned(old_) > Unsigned(s) THEN old_ ELSE s

Request(o, a, c) == [op |-> o, arg |-> a, cmp |-> c]

(* Operands that make the operations interfere: values that differ in one  *)
(* half and in both, comparisons that succeed after another thread's write.*)
Common ==
  {Request("load", MCZero, MCZero),
   Request("cmpxchg", <<1, 1>>, MCZero), Request("cmpxchg", MCZero, <<1, 1>>)}
    \cup {Request("store", a, MCZero) : a \in {<<0, 1>>, <<1, 1>>}}

(* The read-modify-writes share their control: three with a primitive of   *)
(* their own and three that loop.                                          *)
MCRequests ==
  Common \cup {Request("store", MCZero, MCZero), Request("swp", <<1, 0>>, MCZero)}
         \cup {Request(o, <<0, 1>>, MCZero) :
                 o \in {"xchg", "add", "clr"} \cup (LoopOps \ {"umin", "max"})}
=============================================================================
