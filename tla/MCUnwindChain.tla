---------------------------- MODULE MCUnwindChain ---------------------------
(* UnwindChain with concrete stacks for TLC. *)
EXTENDS UnwindChain

(* Stack memory before its first use: a context that, if it were ever      *)
(* believed, would send a panic to a frame that does not exist.            *)
MCJunk == {[prev |-> MaxDepth, exn |-> CHOOSE e \in Exn : TRUE, buf |-> "landCleanup"]}
=============================================================================
