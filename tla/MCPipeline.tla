----------------------------- MODULE MCPipeline -----------------------------
(***************************************************************************)
(* Instances of Pipeline.  Units are named after their crate and number,   *)
(* their files sort as strings do, "app_10.c" before "app_2.c".            *)
(***************************************************************************)
EXTENDS Pipeline, TLC

ASSUME MCHypotheses == OneProgram /\ AllListed /\ Linkable

Def(n, b) == [name |-> n, body |-> b]
Tag(u) == Def("_S0", u)

(* Two libraries that are built in parallel and a program of two units.    *)
(* Version 2 of the program moves f to the other unit and changes it, and  *)
(* gives both units the same struct, which fat LTO does not compile.       *)
MCDeps == [c \in {"liba", "libb", "app"} |-> IF c = "app" THEN {"liba", "libb"} ELSE {}]
MCCode ==
  "liba" :> << "liba.0" :> {Def("a", 1), Tag("liba.0")} >> @@
  "libb" :> << "libb.0" :> {Def("b", 1)}, "libb.0" :> {Def("b", 2)} >> @@
  "app" :> << "app.2" :> {Def("main", 1)} @@ "app.10" :> {Def("f", 1), Tag("app.10")},
              "app.2" :> {Def("main", 1), Def("f", 2), Tag("pair")}
                @@ "app.10" :> {Def("g", 2), Tag("pair")},
              "app.2" :> {Def("main", 3), Def("f", 3)} >>
MCSafeName ==
  "liba.0" :> "liba_0.c" @@ "libb.0" :> "libb_0.c" @@ "app.2" :> "app_2.c" @@ "app.10" :> "app_10.c"
MCListing == << "app_10.c", "app_2.c", "liba_0.c", "libb_0.c", "native_stubs.c" >>
MCStubs == {Def("rust_psm_stack_pointer", 0)}
MCBlocks == "liba" :> 2 @@ "libb" :> 3 @@ "app" :> 1

(* One program; version 2 has fewer units. *)
MCShrinkingDeps == "app" :> {}
MCShrinkingCode ==
  "app" :> << "app.2" :> {Def("main", 1)} @@ "app.10" :> {Def("f", 1)},
              "app.2" :> {Def("main", 1), Def("f", 2)} >>
=============================================================================
