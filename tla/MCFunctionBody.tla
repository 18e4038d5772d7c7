--------------------------- MODULE MCFunctionBody ---------------------------
(* Instance of FunctionBody: one function of each kind, of which one has   *)
(* room for two invokes.                                                   *)
EXTENDS FunctionBody, TLC

CONSTANTS main, helper, leaf, b1

MCKind == (main :> "direct") @@ (helper :> "indirect") @@ (leaf :> "void")
MCMaxBlocks == (main :> 5) @@ (helper :> 2) @@ (leaf :> 1)
MCMaxCalls == (main :> 1) @@ (helper :> 0) @@ (leaf :> 0)
=============================================================================
