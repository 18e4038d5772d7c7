-------------------------- MODULE MCInt128Division --------------------------
(* Division of six bits, whose halves are of three. *)
EXTENDS Int128Division, TLC

MCBits == 6
MCPow == [k \in 0 .. MCBits |-> 2^k]
=============================================================================
