----------------------------- MODULE MCNumbers ------------------------------
(***************************************************************************)
(* The calls of a run.                                                     *)
(***************************************************************************)
EXTENDS Numbers

AllFamilies == {"ops", "bits", "helpers", "floats", "vectors", "calls"}

(* The calls of the helpers, but for those that do not give the results    *)
(* Rust specifies.                                                         *)
MCCalls ==
  ({"checked_add", "checked_sub", "checked_mul", "saturating_add", "saturating_sub",
    "funnel_shl", "rotate_left", "rotate_right", "bitreverse", "carrying_mul_add"}
     \X [bits : {HelperBits, 2 * HelperBits, 4 * HelperBits, 8 * HelperBits}, sgn : BOOLEAN])
    \ Deviating

(* Layouts, and how rustc passes values of them on 64-bit targets. *)
Scalar(prim, size) == [prim |-> prim, size |-> size, word |-> FALSE]
BoolScalar == Scalar("bool", 1)
U8 == Scalar("int", 1)
U32 == Scalar("int", 4)
U128 == Scalar("int", 16)
Usize == [prim |-> "int", size |-> 8, word |-> TRUE]
Layout(repr, size, scalars, second) ==
  [repr |-> repr, size |-> size, scalars |-> scalars, second |-> second]
One(s) == Layout("scalar", s.size, <<s>>, 0)
ByteAndWord == Layout("pair", 8, <<U8, U32>>, 4)
Fat == Layout("pair", 16, <<Scalar("ptr", 8), Usize>>, 8)
Bytes(n) == Layout("memory", n, <<>>, 0)
Vector128 == Layout("vector", 16, <<>>, 0)

Arg(mode, layout) ==
  [mode |-> mode, layout |-> layout, on_stack |-> FALSE, meta |-> FALSE,
   cast |-> [prefix |-> <<>>, unit |-> 1, total |-> 0]]
CastArg(size, prefix, unit, total) ==
  [Arg("cast", Bytes(size)) EXCEPT !.cast = [prefix |-> prefix, unit |-> unit, total |-> total]]
OnStack(layout) == [Arg("indirect", layout) EXCEPT !.on_stack = TRUE]
Nothing == Arg("ignore", Layout("zst", 0, <<>>, 0))

Results ==
  {Nothing, Arg("direct", Vector128), Arg("indirect", Bytes(24))}
    \cup {Arg("direct", One(s)) : s \in {BoolScalar, U32, Usize, U128, Scalar("float", 8)}}
    \cup {Arg("pair", l) : l \in {Fat, ByteAndWord, Layout("pair", 8, <<U32, BoolScalar>>, 4),
                                  Layout("pair", 32, <<BoolScalar, U128>>, 16)}}
    \cup {CastArg(3, <<>>, 3, 3), CastArg(12, <<>>, 12, 12), CastArg(16, <<>>, 8, 16),
          CastArg(12, <<8>>, 4, 4), CastArg(11, <<8>>, 3, 3)}
Arguments ==
  Results \cup {OnStack(Bytes(24)), OnStack(Fat), [Arg("indirect", Bytes(24)) EXCEPT !.meta = TRUE]}
MCSignatures == [ret : Results, args : Arguments \X Arguments]
MCRepeats ==
  {One(U8), One(BoolScalar), One(U32), ByteAndWord, Bytes(3)} \X {0, 1, 16, 17, 18}

(* These calls are among those that the proofs are about. *)
ASSUME MCCallsArePassable ==
  (\A sig \in MCSignatures : Abi!SignatureOK(sig)) /\ (\A r \in MCRepeats : Abi!RepeatOK(r))

(* Three floats in three registers, as AArch64 passes [f32; 3]. *)
ThreeFloats == [ret : {Nothing}, args : {<<CastArg(12, <<>>, 4, 12)>>}]
=============================================================================
