---------------------------- MODULE FunctionBody ----------------------------
(***************************************************************************)
(* How the builder fills the basic blocks of the open functions.           *)
(*                                                                         *)
(* All functions of a unit are open at once.  A block id is a counter of   *)
(* its own function; block_to_function, keyed by that id alone, says which *)
(* function a new builder writes to.  rustc_codegen_ssa (external)         *)
(* translates one MIR body after the other: it creates the block of a MIR  *)
(* block when it is first referred to, and builds every block it created.  *)
(*                                                                         *)
(* A statement carries the function it was emitted for, so that one that   *)
(* ends up in another function is noticed.                                 *)
(***************************************************************************)
EXTENDS Integers, Sequences, FiniteSets

CONSTANTS Functions,
          Kind,        \* how a function returns: "void", "direct" or "indirect"
          MirBlocks,   \* the MIR blocks of a body, without the first
          CleanupBlock,\* its one cleanup block
          NParams,     \* Rust parameters of every function
          MaxBlocks,   \* bound on the blocks of each function
          MaxCalls,    \* bound on the plain calls in each
          NamedTailCalls, \* whether tail calls name a function: {TRUE}, or BOOLEAN
          None

ASSUME KindAssumption == Kind \in [Functions -> {"void", "direct", "indirect"}]
ASSUME BoundAssumption ==
  /\ NParams \in Nat /\ MaxBlocks \in [Functions -> Nat \ {0}] /\ MaxCalls \in [Functions -> Nat]
  /\ NamedTailCalls \subseteq BOOLEAN
  /\ None \notin Functions /\ None \notin Nat /\ None \notin [fn : Functions, bb : Nat]
  /\ CleanupBlock \notin MirBlocks

VARIABLES open,               \* open_functions: blocks, retbuf_name, invoke_counter, local_decls
          block_to_function,
          params,             \* the C parameters that each body reads as its Rust ones
          builder,            \* current_fn and current_bb, or None
          cur,                \* the function being translated, or None
          llbb,               \* its block of each MIR block, or None
          unbuilt,            \* its MIR blocks whose block is created and not built
          inCleanup,          \* the block being built is the cleanup block
          calls,              \* the plain calls emitted in this body
          done                \* the functions translated

vars == <<open, block_to_function, params, builder, cur, llbb, unbuilt, inCleanup, calls, done>>

Ids == UNION {0 .. MaxBlocks[f] - 1 : f \in Functions}
AllMir == MirBlocks \cup {CleanupBlock}

Terminators == {"goto", "invoke", "return", "unreachable", "resume"}

Stmt(kind, labels, info) == [of |-> cur, kind |-> kind, labels |-> labels, info |-> info]

-----------------------------------------------------------------------------
(* FunctionDef and the builder, on m, a record of the two maps.            *)

(* Mutant of Label: the counter is left out. *)
LabelNameOnly(counter, name) == <<0, name>>
Label(counter, name) == <<counter, name>>

new_block(fd, name) ==
  [fd EXCEPT !.blocks = Append(@, [label |-> Label(Len(fd.blocks), name),
                                   stmts |-> <<>>, terminated |-> FALSE])]

(* Mutant of Register: only an id that no function has used is entered. *)
RegisterOnce(map, b, f) == IF map[b] = None THEN [map EXCEPT ![b] = f] ELSE map
Register(map, b, f) == [map EXCEPT ![b] = f]

(* The id of the next block, and the state with it. *)
NextId(m, f) == Len(m.open[f].blocks)
append_block(m, f, name) ==
  [open |-> [m.open EXCEPT ![f] = new_block(@, name)],
   map |-> Register(m.map, NextId(m, f), f)]

build(m, b) == [fn |-> m.map[b], bb |-> b]

(* Mutant of switch_to_block: stays where it is. *)
stay(bu, b) == bu
switch_to_block(bu, b) == [bu EXCEPT !.bb = b]

HasBlock(m, f, b) == f \in Functions /\ b < Len(m.open[f].blocks)

emit(m, bu, stmt) ==
  IF HasBlock(m, bu.fn, bu.bb)
  THEN [m EXCEPT !.open[bu.fn].blocks[bu.bb + 1].stmts = Append(@, stmt)] ELSE m

set_terminated(m, bu) ==
  IF HasBlock(m, bu.fn, bu.bb)
  THEN [m EXCEPT !.open[bu.fn].blocks[bu.bb + 1].terminated = TRUE] ELSE m

terminate(m, bu, stmt) == set_terminated(emit(m, bu, stmt), bu)

(* A block that the function does not have gets a label no block has. *)
block_label(m, f, b) ==
  IF HasBlock(m, f, b) THEN m.open[f].blocks[b + 1].label ELSE <<b, "missing">>

(* Mutant of declare_context: declared by every invoke. *)
declare_contextAgain(fd) ==
  [fd EXCEPT !.local_decls = Append(@, "__unwind_ctx"), !.invoke_counter = @ + 1]

(* All invokes of a function share one context. *)
declare_context(fd) ==
  [fd EXCEPT !.local_decls = IF fd.invoke_counter = 0 THEN Append(@, "__unwind_ctx") ELSE @,
             !.invoke_counter = @ + 1]

-----------------------------------------------------------------------------
(* Parameters and returns.  codegen_ssa's index 0 is the return pointer if *)
(* there is one; the C function has no such parameter.                     *)

(* Mutant of c_index: the return pointer is counted. *)
c_indexShifted(f, index) == index
c_index(f, index) == IF Kind[f] = "indirect" THEN index - 1 ELSE index

ParamsOf(f) ==
  LET first == IF Kind[f] = "indirect" THEN 1 ELSE 0
  IN [k \in 1 .. NParams |-> c_index(f, first + k - 1)]

(* get_param(0) of an indirect return makes the buffer. *)
ReturnBuffer(fd) ==
  IF fd.retbuf_name THEN fd
  ELSE [fd EXCEPT !.retbuf_name = TRUE, !.local_decls = Append(@, "_retbuf")]

(* The C arguments of a call: Rust's, without the return pointer. *)
CallArgs(g) ==
  LET args == (IF Kind[g] = "indirect" THEN <<"sret">> ELSE <<>>) \o [k \in 1 .. NParams |-> k]
  IN IF Kind[g] = "indirect" /\ args # <<>> THEN Tail(args) ELSE args

CallStmt(kind, labels, g) == Stmt(kind, labels, [callee |-> g, args |-> CallArgs(g)])

ret_void(m, bu) == IF m.open[bu.fn].retbuf_name THEN "_retbuf" ELSE "none"
ret(m, bu, v) == IF Kind[bu.fn] = "void" THEN "none" ELSE v

(* Mutant of tail_call: decides by the callee's return type alone. *)
tail_callByCallee(m, bu, g, named) ==
  IF ~named \/ Kind[g] = "void" THEN ret_void(m, bu)
  ELSE ret(m, bu, IF Kind[g] = "indirect" THEN "sret" ELSE "value")

(* What is returned after a call; call returns the return pointer if there *)
(* is one.  A callee that is no named function, a function pointer, has no *)
(* signature in the value store and counts as void.                        *)
tail_call(m, bu, g, named) ==
  IF m.open[bu.fn].retbuf_name \/ ~named \/ Kind[g] = "void" THEN ret_void(m, bu)
  ELSE ret(m, bu, IF Kind[g] = "indirect" THEN "sret" ELSE "value")

-----------------------------------------------------------------------------
M == [open |-> open, map |-> block_to_function]
S == [m |-> M, llbb |-> llbb, unbuilt |-> unbuilt]

(* codegen_ssa's llbb(b): the block of MIR block b, created if need be. *)
Referenced(s, b) ==
  IF s.llbb[b] # None THEN s
  ELSE [m |-> append_block(s.m, cur, "bb"),
        llbb |-> [s.llbb EXCEPT ![b] = NextId(s.m, cur)],
        unbuilt |-> s.unbuilt \cup {b}]

Becomes(s) ==
  /\ open' = s.m.open /\ block_to_function' = s.m.map
  /\ llbb' = s.llbb /\ unbuilt' = s.unbuilt

(* A terminator of the current block ends its builder. *)
Terminate(s, stmt) ==
  /\ Becomes([s EXCEPT !.m = terminate(@, builder, stmt)])
  /\ builder' = None
  /\ UNCHANGED <<params, cur, inCleanup, calls, done>>

Building == builder # None /\ cur # None
Room(n) == NextId(M, cur) + n <= MaxBlocks[cur]

Init ==
  /\ open = [f \in Functions |->
               [blocks |-> <<>>, retbuf_name |-> FALSE, invoke_counter |-> 0, local_decls |-> <<>>]]
  /\ block_to_function = [b \in Ids |-> None]
  /\ params = [f \in Functions |-> <<>>]
  /\ builder = None /\ cur = None
  /\ llbb = [b \in AllMir |-> None]
  /\ unbuilt = {} /\ inCleanup = FALSE /\ calls = 0
  /\ done = {}

(* A body begins: its start block, the return buffer, the parameters. *)
StartBody(f) ==
  /\ cur = None /\ f \notin done
  /\ cur' = f
  /\ LET m == append_block(M, f, "start")
         bu == build(m, NextId(M, f))
     IN /\ builder' = bu
        /\ open' = IF Kind[bu.fn] = "indirect" THEN [m.open EXCEPT ![bu.fn] = ReturnBuffer(@)]
                                               ELSE m.open
        /\ block_to_function' = m.map
        /\ params' = [params EXCEPT ![f] = ParamsOf(bu.fn)]
  /\ UNCHANGED <<llbb, unbuilt, inCleanup, calls, done>>

(* A call within a block. *)
Call(g) ==
  /\ Building /\ ~inCleanup
  /\ calls < MaxCalls[cur] /\ calls' = calls + 1
  /\ open' = emit(M, builder, CallStmt("call", {}, g)).open
  /\ UNCHANGED <<block_to_function, params, builder, cur, llbb, unbuilt, inCleanup, done>>

(* br, and cond_br or switch to two targets. *)
Branch(a, b) ==
  /\ Building /\ ~inCleanup
  /\ Room(Cardinality({t \in {a, b} : llbb[t] = None}))
  /\ LET s == Referenced(Referenced(S, a), b)
     IN Terminate(s, Stmt("goto", {block_label(s.m, builder.fn, s.llbb[t]) : t \in {a, b}}, None))

(* codegen_ssa branches to a block of its own, of no MIR block, and goes   *)
(* on there, with this builder or with a new one.                          *)
Sibling(b, rebuild) ==
  /\ Building /\ ~inCleanup
  /\ Room(1 + Cardinality({t \in {b} : llbb[t] = None}))
  /\ LET id == NextId(M, builder.fn)
         s == Referenced([S EXCEPT !.m = append_block(@, builder.fn, "next")], b)
         labels == {block_label(s.m, builder.fn, id), block_label(s.m, builder.fn, s.llbb[b])}
     IN /\ Becomes([s EXCEPT !.m = terminate(@, builder, Stmt("goto", labels, None))])
        /\ builder' = IF rebuild THEN build(s.m, id) ELSE switch_to_block(builder, id)
  /\ UNCHANGED <<params, cur, inCleanup, calls, done>>

(* A call that may unwind: first its landing pad, in a builder of its own. *)
Invoke(g, b) ==
  /\ Building /\ ~inCleanup
  /\ Room(1 + Cardinality({t \in {b, CleanupBlock} : llbb[t] = None}))
  /\ LET pad == NextId(M, cur)
         s1 == Referenced([S EXCEPT !.m = append_block(@, cur, "cleanup")], CleanupBlock)
         padder == build(s1.m, pad)
         s2 == [s1 EXCEPT !.m = terminate(@, padder,
                  Stmt("goto", {block_label(s1.m, padder.fn, s1.llbb[CleanupBlock])}, None))]
         s3 == Referenced(s2, b)
         s4 == [s3 EXCEPT !.m.open[builder.fn] = declare_context(@)]
         labels == {block_label(s4.m, builder.fn, pad), block_label(s4.m, builder.fn, s4.llbb[b])}
     IN Terminate(s4, CallStmt("invoke", labels, g))

(* codegen_ssa returns a value from a direct function only. *)
Return ==
  /\ Building /\ ~inCleanup
  /\ Terminate(S, Stmt("return", {}, IF Kind[cur] = "direct" THEN ret(M, builder, "value")
                                                            ELSE ret_void(M, builder)))

(* A tail call's callee has the signature of the caller. *)
TailCall(g, named) ==
  /\ Building /\ ~inCleanup
  /\ Kind[g] = Kind[cur]
  /\ LET m == emit(M, builder, CallStmt("call", {}, g))
     IN Terminate([S EXCEPT !.m = m], Stmt("return", {}, tail_call(m, builder, g, named)))

Unreachable == Building /\ Terminate(S, Stmt("unreachable", {}, None))

(* resume, and cleanup_ret to the caller. *)
Resume == Building /\ inCleanup /\ Terminate(S, Stmt("resume", {}, None))

(* The next MIR block. *)
NextBlock(b) ==
  /\ builder = None /\ b \in unbuilt
  /\ builder' = build(M, llbb[b])
  /\ unbuilt' = unbuilt \ {b}
  /\ inCleanup' = (b = CleanupBlock)
  /\ UNCHANGED <<open, block_to_function, params, cur, llbb, calls, done>>

EndBody ==
  /\ builder = None /\ cur # None /\ unbuilt = {}
  /\ done' = done \cup {cur}
  /\ cur' = None
  /\ llbb' = [b \in AllMir |-> None]
  /\ inCleanup' = FALSE /\ calls' = 0
  /\ UNCHANGED <<open, block_to_function, params, builder, unbuilt>>

Next ==
  \/ \E f \in Functions : StartBody(f) \/ Call(f)
  \/ \E g \in Functions, named \in NamedTailCalls : TailCall(g, named)
  \/ \E a, b \in MirBlocks : Branch(a, b)
  \/ \E b \in MirBlocks, rebuild \in BOOLEAN : Sibling(b, rebuild)
  \/ \E g \in Functions, b \in MirBlocks : Invoke(g, b)
  \/ Return \/ Unreachable \/ Resume
  \/ \E b \in AllMir : NextBlock(b)
  \/ EndBody

Spec == Init /\ [][Next]_vars

-----------------------------------------------------------------------------
BlocksOf(f) == {open[f].blocks[k] : k \in 1 .. Len(open[f].blocks)}
StmtsOf(f) == UNION {{b.stmts[k] : k \in 1 .. Len(b.stmts)} : b \in BlocksOf(f)}

(* No statement is emitted into another function than the one it is for,   *)
(* although builders find their function by a block id that is not unique. *)
OwnStatements == \A f \in Functions : \A s \in StmtsOf(f) : s.of = f

(* Every label a function jumps to labels exactly one of its blocks. *)
GotosResolve ==
  \A f \in Functions : \A s \in StmtsOf(f) : \A l \in s.labels :
    Cardinality({k \in 1 .. Len(open[f].blocks) : open[f].blocks[k].label = l}) = 1

(* Each block of a finished body ends in its only terminator: none falls   *)
(* through to the next label, and nothing follows a jump.                  *)
BlocksEndOnce ==
  \A f \in done : \A b \in BlocksOf(f) :
    /\ b.terminated /\ b.stmts # <<>>
    /\ \A k \in 1 .. Len(b.stmts) : (b.stmts[k].kind \in Terminators) <=> (k = Len(b.stmts))

(* A function returns what its C type says, an indirect one its buffer. *)
ReturnsMatch ==
  \A f \in Functions : \A s \in StmtsOf(f) : s.kind = "return" =>
    s.info = CASE Kind[f] = "void" -> "none"
               [] Kind[f] = "direct" -> "value"
               [] Kind[f] = "indirect" -> "_retbuf"

Declarations(f, name) ==
  Cardinality({k \in 1 .. Len(open[f].local_decls) : open[f].local_decls[k] = name})

(* The variables with fixed names are declared once by the functions that  *)
(* use them, and by no other.                                              *)
LocalsDeclaredOnce ==
  \A f \in done :
    /\ Declarations(f, "__unwind_ctx") = IF \E s \in StmtsOf(f) : s.kind = "invoke" THEN 1 ELSE 0
    /\ Declarations(f, "_retbuf") = IF Kind[f] = "indirect" THEN 1 ELSE 0

(* Caller and callee agree, with and without a return pointer: what a call *)
(* passes for the k-th parameter is what the callee reads as the k-th.     *)
ArgumentsMatch ==
  \A f \in Functions, g \in done : \A s \in StmtsOf(f) :
    (s.kind \in {"call", "invoke"} /\ s.info.callee = g) =>
      /\ Len(s.info.args) = NParams
      /\ \A k \in 1 .. NParams : params[g][k] + 1 \in 1 .. NParams /\ s.info.args[params[g][k] + 1] = k
=============================================================================
