--------------------------- MODULE MCCodegenUnit ----------------------------
(***************************************************************************)
(* Units for CodegenUnit.  Nodes and C identifiers are strings; a function *)
(* or static that is not an item belongs to another unit or crate.         *)
(***************************************************************************)
EXTENDS CodegenUnit

MCFns == {"f", "builtin", "ext", "intrinsic", "compare", "wrapper"}
MCStatics == {"s1", "s2", "flat", "extStatic", "weak"}
MCAllocs == {"vtable", "inner", "str"}
MCItems == {"f", "builtin", "s1", "s2", "flat"}
MCEntry == {"wrapper"}

(* s1 and s2 point to each other, s2 also to itself; a vtable points to a  *)
(* function of another crate and to a constant that points back to s1.     *)
MCRefs == [x \in MCFns \cup MCStatics \cup MCAllocs |->
  CASE x = "f" -> {"ext", "s2", "vtable", "compare"}
    [] x = "builtin" -> {"f", "intrinsic", "flat", "weak"}
    [] x = "wrapper" -> {"f"}
    [] x = "s1" -> {"s2", "vtable"}
    [] x = "s2" -> {"s1", "s2", "f", "extStatic"}
    [] x = "vtable" -> {"ext", "inner"}
    [] x = "inner" -> {"s1", "str"}
    [] OTHER -> {}]

MCArity == [f \in MCFns |-> CASE f \in {"builtin", "compare"} -> 3 [] f = "intrinsic" -> 2 [] OTHER -> 1]

(* What preamble.c declares, and what CModule::new puts into declared_fns. *)
MCPreamble == {"memcpy", "memset", "memmove", "memcmp", "abort",
               "_Unwind_RaiseException", "__rust_try"}
MCKnown == {"memcpy", "memset", "memmove", "abort", "__rust_try", "_Unwind_RaiseException"}

(* compiler_builtins defines a function that the preamble declares; f is   *)
(* the fallback of an intrinsic with one more parameter; C's memcmp comes  *)
(* from an `extern` block.                                                 *)
MCNames == MCPreamble \cup {"f", "ext", "main", "s1", "s2", "flat", "extStatic", "weak"}
MCCName == [x \in MCFns \cup MCStatics |->
  CASE x = "builtin" -> "memcpy" [] x = "compare" -> "memcmp" [] x = "intrinsic" -> "f"
    [] x = "wrapper" -> "main" [] OTHER -> x]

(* The hypothesis of the theorems about the names. *)
ASSUME MCNamesAssumption == DistinctNames
=============================================================================
