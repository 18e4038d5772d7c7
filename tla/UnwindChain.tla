----------------------------- MODULE UnwindChain ----------------------------
(***************************************************************************)
(* Panics as the generated C executes them: a thread-local linked list of  *)
(* contexts that live in stack frames, setjmp on the way in, longjmp on    *)
(* the way out.  Modelled: the code that Builder::invoke, resume and       *)
(* cleanup_landing_pad emit into every function, the catch_unwind          *)
(* intrinsic, and the C runtime functions __rust_try and                   *)
(* _Unwind_RaiseException.                                                 *)
(*                                                                         *)
(* A thread's stack is 1..MaxDepth and the address of a frame's context is *)
(* the frame's depth, so a new frame takes over the memory of the one that *)
(* was popped there: ctx, exnPtr and slot keep whatever the previous       *)
(* occupant left, exactly as uninitialised C locals do.  A context pointer *)
(* that outlives its frame is therefore visible, and longjmp through it    *)
(* goes wherever the stale jump buffer says.                               *)
(***************************************************************************)
EXTENDS Integers

CONSTANTS Threads,   \* threads running generated code
          MaxDepth,  \* bound: frames on one thread's stack
          MaxCalls,  \* bound: calls one thread's program makes
          Exn,       \* exception objects
          NoExn,     \* the null pointer in exception_ptr
          Junk       \* contexts uninitialised stack memory may look like

VARIABLES
  sp,       \* sp[t]: depth of the executing frame, 0 once the thread is done
  pc,       \* pc[t][d]: where frame d is (its caller-saved control state)
  chain,    \* chain[t]: __rustc_unwind_chain, 0 is NULL
  ctx,      \* ctx[t][d]: the struct __rustc_unwind_context of frame d
  exnPtr,   \* exnPtr[t][d]: the local __exn_ptr of frame d
  slot,     \* slot[t][d]: the personality slot, or __exn in __rust_try
  calls,    \* calls[t]: calls made so far (only bounds the program)
  aborted   \* abort() was called

vars == <<sp, pc, chain, ctx, exnPtr, slot, calls, aborted>>

Depths == 1 .. MaxDepth

(* The places a frame can be at.                                           *)
(*   run           straight-line code of a generated function              *)
(*   call          in a plain call                                         *)
(*   invokeCleanup in an invoke whose catch block is a cleanup             *)
(*   invokeAbort   in an invoke whose catch block is the terminate block   *)
(*   landCleanup   setjmp returned non-zero, catch block a cleanup         *)
(*   landAbort     setjmp returned non-zero, catch block terminate         *)
(*   terminate     in the terminate block                                  *)
(*   pad           at the start of the landing pad                         *)
(*   cleanup       in the cleanup blocks, the exception in the slot        *)
(*   dropInvoke    in an invoke made by a cleanup (catch: terminate)       *)
(*   tryBody       __rust_try, in try_fn                                   *)
(*   landTry       __rust_try, setjmp returned non-zero                    *)
(*   catchFn       __rust_try, in catch_fn                                 *)
(*   tryDone       __rust_try, about to return                             *)
(*   dead          not on the stack                                        *)
Places == {"run", "call", "invokeCleanup", "invokeAbort", "landCleanup",
           "landAbort", "terminate", "pad", "cleanup", "dropInvoke",
           "tryBody", "landTry", "catchFn", "tryDone", "dead"}

Landings == {"landCleanup", "landAbort", "landTry"}

(* The place to which the setjmp of a guarded call returns a second time. *)
LandingOf == [p \in {"invokeCleanup", "invokeAbort", "dropInvoke", "tryBody"} |->
                CASE p = "invokeCleanup" -> "landCleanup"
                  [] p = "tryBody" -> "landTry"
                  [] OTHER -> "landAbort"]

Armed == {"invokeCleanup", "invokeAbort", "dropInvoke", "tryBody"}

Contexts == [prev : 0 .. MaxDepth, exn : Exn \cup {NoExn}, buf : Landings]

ASSUME UnwindAssumption ==
  /\ MaxDepth \in Nat \ {0}
  /\ MaxCalls \in Nat
  /\ NoExn \notin Exn
  /\ Junk \subseteq Contexts

Init ==
  /\ sp = [t \in Threads |-> 1]
  /\ pc = [t \in Threads |-> [d \in Depths |-> IF d = 1 THEN "run" ELSE "dead"]]
  /\ chain = [t \in Threads |-> 0]
  /\ \E j \in Junk :
       /\ ctx = [t \in Threads |-> [d \in Depths |-> j]]
       /\ exnPtr = [t \in Threads |-> [d \in Depths |-> j.exn]]
       /\ slot = [t \in Threads |-> [d \in Depths |-> j.exn]]
  /\ calls = [t \in Threads |-> 0]
  /\ aborted = FALSE

(* Frame sp[t] goes to place p and k frames are pushed, the last running. *)
Push(t, p, k) ==
  /\ sp[t] + k <= MaxDepth
  /\ calls[t] < MaxCalls
  /\ calls' = [calls EXCEPT ![t] = @ + 1]
  /\ sp' = [sp EXCEPT ![t] = @ + k]
  /\ pc' = [pc EXCEPT ![t][sp[t]] = p, ![t][sp[t] + k] = "run"]

(* Mutant of Link: setjmp only at the first invoke of a function, since    *)
(* the context is shared anyway.                                           *)
LinkWithoutSetjmp(t, d, p) ==
  /\ ctx' = [ctx EXCEPT ![t][d] =
               [prev |-> chain[t], exn |-> NoExn, buf |-> ctx[t][d].buf]]
  /\ chain' = [chain EXCEPT ![t] = d]

(* Mutant of Link: __rustc_unwind_chain is not _Thread_local. *)
LinkGlobally(t, d, p) ==
  /\ ctx' = [ctx EXCEPT ![t][d] =
               [prev |-> chain[t], exn |-> NoExn, buf |-> LandingOf[p]]]
  /\ chain' = [u \in Threads |-> d]

(* ctx.prev = chain; ctx.exception_ptr = 0; chain = &ctx; setjmp(ctx.buf). *)
Link(t, d, p) ==
  /\ ctx' = [ctx EXCEPT ![t][d] =
               [prev |-> chain[t], exn |-> NoExn, buf |-> LandingOf[p]]]
  /\ chain' = [chain EXCEPT ![t] = d]

(* chain = ctx.prev. *)
Unlink(t, d) == chain' = [chain EXCEPT ![t] = ctx[t][d].prev]

(* chain->exception_ptr = e; longjmp(chain->buf, 1), or abort(). *)
Unwind(t, e) ==
  \/ /\ chain[t] = 0
     /\ aborted' = TRUE
     /\ UNCHANGED <<sp, pc, ctx>>
  \/ /\ chain[t] # 0
     /\ ctx' = [ctx EXCEPT ![t][chain[t]].exn = e]
     /\ sp' = [sp EXCEPT ![t] = chain[t]]
     /\ pc' = [pc EXCEPT ![t] =
                 [d \in Depths |-> IF d < chain[t] THEN @[d]
                                   ELSE IF d = chain[t] THEN ctx[t][d].buf
                                   ELSE "dead"]]
     /\ UNCHANGED aborted

(* Frame sp[t] returns; its caller, at place p, goes on at place q. *)
Pop(t, p, q) ==
  /\ sp[t] > 1
  /\ pc[t][sp[t]] \in {"run", "tryDone"}
  /\ pc[t][sp[t] - 1] = p
  /\ pc' = [pc EXCEPT ![t][sp[t]] = "dead", ![t][sp[t] - 1] = q]
  /\ sp' = [sp EXCEPT ![t] = @ - 1]

At(t, p) == sp[t] > 0 /\ pc[t][sp[t]] = p

-----------------------------------------------------------------------------
(* Generated functions.                                                    *)

Call(t) ==
  /\ At(t, "run")
  /\ Push(t, "call", 1)
  /\ UNCHANGED <<chain, ctx, exnPtr, slot, aborted>>

ReturnFromCall(t) ==
  /\ Pop(t, "call", "run")
  /\ UNCHANGED <<chain, ctx, exnPtr, slot, calls, aborted>>

(* Builder::invoke on the normal path: the catch block is a cleanup, or    *)
(* the terminate block in a function that must not unwind.                 *)
Invoke(t, p) ==
  /\ At(t, "run")
  /\ Link(t, sp[t], p)
  /\ Push(t, p, 1)
  /\ UNCHANGED <<exnPtr, slot, aborted>>

(* Mutant of ReturnFromInvoke: the normal path forgets to pop. *)
ReturnFromInvokeLinked(t, p) ==
  /\ Pop(t, p, "run")
  /\ UNCHANGED <<chain, ctx, exnPtr, slot, calls, aborted>>

ReturnFromInvoke(t, p) ==
  /\ Pop(t, p, "run")
  /\ Unlink(t, sp[t] - 1)
  /\ UNCHANGED <<ctx, exnPtr, slot, calls, aborted>>

(* Mutant of DropInvoke: a cleanup's invoke is lowered to a plain call. *)
DropInvokeUnlinked(t) ==
  /\ At(t, "cleanup")
  /\ Push(t, "dropInvoke", 1)
  /\ UNCHANGED <<chain, ctx, exnPtr, slot, aborted>>

(* An invoke in a cleanup block, its catch block the terminate block. It   *)
(* uses the function's only __unwind_ctx again.                            *)
DropInvoke(t) ==
  /\ At(t, "cleanup")
  /\ Link(t, sp[t], "dropInvoke")
  /\ Push(t, "dropInvoke", 1)
  /\ UNCHANGED <<exnPtr, slot, aborted>>

ReturnFromDrop(t) ==
  /\ Pop(t, "dropInvoke", "cleanup")
  /\ Unlink(t, sp[t] - 1)
  /\ UNCHANGED <<ctx, exnPtr, slot, calls, aborted>>

(* Mutant of LandCleanup: the catch path forgets to pop. *)
LandCleanupLinked(t) ==
  /\ At(t, "landCleanup")
  /\ exnPtr' = [exnPtr EXCEPT ![t][sp[t]] = ctx[t][sp[t]].exn]
  /\ pc' = [pc EXCEPT ![t][sp[t]] = "pad"]
  /\ UNCHANGED <<sp, chain, ctx, slot, calls, aborted>>

(* Mutant of LandCleanup: __exn_ptr = &__unwind_ctx. *)
LandCleanupAddress(t) ==
  /\ At(t, "landCleanup")
  /\ exnPtr' = [exnPtr EXCEPT ![t][sp[t]] = sp[t]]
  /\ Unlink(t, sp[t])
  /\ pc' = [pc EXCEPT ![t][sp[t]] = "pad"]
  /\ UNCHANGED <<sp, ctx, slot, calls, aborted>>

(* if (setjmp(...) != 0) { __exn_ptr = ctx.exception_ptr;                  *)
(*                         chain = ctx.prev; goto catch; }                 *)
LandCleanup(t) ==
  /\ At(t, "landCleanup")
  /\ exnPtr' = [exnPtr EXCEPT ![t][sp[t]] = ctx[t][sp[t]].exn]
  /\ Unlink(t, sp[t])
  /\ pc' = [pc EXCEPT ![t][sp[t]] = "pad"]
  /\ UNCHANGED <<sp, ctx, slot, calls, aborted>>

(* The same code with the terminate block as its target, which aborts. *)
LandAbort(t) ==
  /\ At(t, "landAbort")
  /\ exnPtr' = [exnPtr EXCEPT ![t][sp[t]] = ctx[t][sp[t]].exn]
  /\ Unlink(t, sp[t])
  /\ pc' = [pc EXCEPT ![t][sp[t]] = "terminate"]
  /\ UNCHANGED <<sp, ctx, slot, calls, aborted>>

Terminate(t) ==
  /\ At(t, "terminate")
  /\ aborted' = TRUE
  /\ UNCHANGED <<sp, pc, chain, ctx, exnPtr, slot, calls>>

(* Mutant of LandingPad: the exception is not saved in the slot. *)
LandingPadNoStore(t) ==
  /\ At(t, "pad")
  /\ pc' = [pc EXCEPT ![t][sp[t]] = "cleanup"]
  /\ UNCHANGED <<sp, chain, ctx, exnPtr, slot, calls, aborted>>

(* cleanup_landing_pad hands out __exn_ptr; rustc_codegen_ssa stores it in *)
(* the function's personality slot before anything else runs.              *)
LandingPad(t) ==
  /\ At(t, "pad")
  /\ slot' = [slot EXCEPT ![t][sp[t]] = exnPtr[t][sp[t]]]
  /\ pc' = [pc EXCEPT ![t][sp[t]] = "cleanup"]
  /\ UNCHANGED <<sp, chain, ctx, exnPtr, calls, aborted>>

(* Mutant of Resume: sends on __unwind_ctx.exception_ptr, not the slot. *)
ResumeFromContext(t) ==
  /\ At(t, "cleanup")
  /\ Unwind(t, ctx[t][sp[t]].exn)
  /\ UNCHANGED <<chain, exnPtr, slot, calls>>

Resume(t) ==
  /\ At(t, "cleanup")
  /\ Unwind(t, slot[t][sp[t]])
  /\ UNCHANGED <<chain, exnPtr, slot, calls>>

ThreadExit(t) ==
  /\ sp[t] = 1
  /\ At(t, "run")
  /\ sp' = [sp EXCEPT ![t] = 0]
  /\ pc' = [pc EXCEPT ![t][1] = "dead"]
  /\ UNCHANGED <<chain, ctx, exnPtr, slot, calls, aborted>>

-----------------------------------------------------------------------------
(* The C runtime.                                                          *)

RaiseException(t, e) ==
  /\ At(t, "run")
  /\ Unwind(t, e)
  /\ UNCHANGED <<chain, exnPtr, slot, calls>>

(* The catch_unwind intrinsic is a plain call of __rust_try, which links   *)
(* its own context and calls try_fn.                                       *)
RustTry(t) ==
  /\ At(t, "run")
  /\ sp[t] + 2 <= MaxDepth
  /\ calls[t] < MaxCalls
  /\ calls' = [calls EXCEPT ![t] = @ + 1]
  /\ sp' = [sp EXCEPT ![t] = @ + 2]
  /\ pc' = [pc EXCEPT ![t][sp[t]] = "call", ![t][sp[t] + 1] = "tryBody",
                      ![t][sp[t] + 2] = "run"]
  /\ Link(t, sp[t] + 1, "tryBody")
  /\ UNCHANGED <<exnPtr, slot, aborted>>

(* Mutant of ReturnFromTryFn: returns 0 without popping. *)
ReturnFromTryFnLinked(t) ==
  /\ Pop(t, "tryBody", "tryDone")
  /\ UNCHANGED <<chain, ctx, exnPtr, slot, calls, aborted>>

ReturnFromTryFn(t) ==
  /\ Pop(t, "tryBody", "tryDone")
  /\ Unlink(t, sp[t] - 1)
  /\ UNCHANGED <<ctx, exnPtr, slot, calls, aborted>>

(* __exn = ctx.exception_ptr; chain = ctx.prev; catch_fn(data, __exn).     *)
(* The frame of catch_fn fits: try_fn's was there before.                  *)
LandTry(t) ==
  /\ At(t, "landTry")
  /\ sp[t] < MaxDepth
  /\ slot' = [slot EXCEPT ![t][sp[t]] = ctx[t][sp[t]].exn]
  /\ Unlink(t, sp[t])
  /\ sp' = [sp EXCEPT ![t] = @ + 1]
  /\ pc' = [pc EXCEPT ![t][sp[t]] = "catchFn", ![t][sp[t] + 1] = "run"]
  /\ UNCHANGED <<ctx, exnPtr, calls, aborted>>

ReturnFromCatchFn(t) ==
  /\ Pop(t, "catchFn", "tryDone")
  /\ UNCHANGED <<chain, ctx, exnPtr, slot, calls, aborted>>

-----------------------------------------------------------------------------
Step(t) ==
  /\ ~aborted
  /\ \/ Call(t) \/ ReturnFromCall(t)
     \/ \E p \in {"invokeCleanup", "invokeAbort"} : Invoke(t, p) \/ ReturnFromInvoke(t, p)
     \/ DropInvoke(t) \/ ReturnFromDrop(t)
     \/ LandCleanup(t) \/ LandAbort(t) \/ Terminate(t) \/ LandingPad(t) \/ Resume(t)
     \/ ThreadExit(t)
     \/ \E e \in Exn : RaiseException(t, e)
     \/ RustTry(t) \/ ReturnFromTryFn(t) \/ LandTry(t) \/ ReturnFromCatchFn(t)

Next == \E t \in Threads : Step(t)

Spec == Init /\ [][Next]_vars

(* Every thread is scheduled; MaxCalls says that the program's own code    *)
(* ends.                                                                   *)
FairSpec == Spec /\ \A t \in Threads : WF_vars(Step(t))

-----------------------------------------------------------------------------
TypeOK ==
  /\ sp \in [Threads -> 0 .. MaxDepth]
  /\ pc \in [Threads -> [Depths -> Places]]
  /\ chain \in [Threads -> 0 .. MaxDepth]
  /\ ctx \in [Threads -> [Depths -> Contexts]]
  /\ exnPtr \in [Threads -> [Depths -> Exn \cup {NoExn}]]
  /\ slot \in [Threads -> [Depths -> Exn \cup {NoExn}]]
  /\ calls \in [Threads -> 0 .. MaxCalls]
  /\ aborted \in BOOLEAN

(* The places at which a frame's context is on the chain: in a guarded     *)
(* call, or landed and not yet unlinked.                                   *)
LinkedPlaces == Armed \cup Landings

(* With frames at the places row[1], row[2], ..., c is the innermost       *)
(* linked frame of depth at most n, 0 if there is none.                    *)
IsTop(row, n, c) ==
  /\ c <= n
  /\ c # 0 => row[c] \in LinkedPlaces
  /\ \A d \in Depths : c < d /\ d <= n => row[d] \notin LinkedPlaces

(* The frames above sp[t] are dead, those below are waiting for a callee   *)
(* and only the executing one is elsewhere.                                *)
ShapeOf(t) ==
  \A d \in Depths :
    /\ d > sp[t] <=> pc[t][d] = "dead"
    /\ d < sp[t] => pc[t][d] \in Armed \cup {"call", "catchFn"}
    /\ d = sp[t] => pc[t][d] \notin Armed \cup {"call", "catchFn"}

StackShape == \A t \in Threads : ShapeOf(t)

ChainOf(t) ==
  /\ IsTop(pc[t], sp[t], chain[t])
  /\ \A d \in Depths :
       pc[t][d] \in LinkedPlaces => IsTop(pc[t], d - 1, ctx[t][d].prev)

(* __rustc_unwind_chain and the prev pointers link exactly the contexts of *)
(* the live frames that are inside a guarded call, innermost first: no     *)
(* context is lost, none outlives its frame or its call, whatever mixture  *)
(* of returns, longjmps, nested catch_unwinds and drops came before.       *)
ChainIsGuardedFrames == \A t \in Threads : ChainOf(t)

BuffersOf(t) ==
  \A d \in Depths :
    /\ pc[t][d] \in Armed => ctx[t][d].buf = LandingOf[pc[t][d]]
    /\ pc[t][d] \in Landings => ctx[t][d].buf = pc[t][d]

(* The jump buffer that longjmp would use is the one of the guarded call   *)
(* the frame is in now, not one an earlier invoke of the same function, or *)
(* an earlier function at the same stack address, left there.              *)
JumpBufferIsCurrent == \A t \in Threads : BuffersOf(t)

PayloadsOf(t) ==
  \A d \in Depths :
    /\ pc[t][d] \in Landings => ctx[t][d].exn \in Exn
    /\ pc[t][d] \in {"pad", "terminate"} => exnPtr[t][d] \in Exn
    /\ pc[t][d] \in {"cleanup", "dropInvoke"} =>
         slot[t][d] \in Exn /\ exnPtr[t][d] = slot[t][d]
    /\ pc[t][d] = "catchFn" => slot[t][d] \in Exn

(* Code that handles a panic always has its payload: never NULL and never  *)
(* something an earlier occupant of the frame left.  The shared __exn_ptr  *)
(* still equals the slot when a cleanup ends, so cleanup_ret, which reads  *)
(* __exn_ptr, and resume, which reads the slot, would send on the same.    *)
HandlersHoldThePayload == \A t \in Threads : PayloadsOf(t)

(* The inductive invariant. *)
IInv == TypeOK /\ StackShape /\ ChainIsGuardedFrames /\ JumpBufferIsCurrent
        /\ HandlersHoldThePayload

(* A step that discards frames (a longjmp) discards no frame that still    *)
(* guards a call: no cleanup and no catch_unwind is jumped over.           *)
NoGuardSkipped ==
  [][\A t \in Threads : \A d \in Depths :
       sp'[t] < d /\ d < sp[t] => pc[t][d] \notin Armed]_vars

(* Whatever happens inside it, __rust_try hands its caller the chain it    *)
(* was called with (kept in its own context).                              *)
TryRestoresChain ==
  [][\A t \in Threads : \A d \in Depths :
       pc[t][d] = "tryDone" /\ pc'[t][d] = "dead" /\ sp'[t] = d - 1
         => chain'[t] = ctx[t][d].prev]_vars

(* Every panic comes to an end: a frame that a panic has landed in         *)
(* eventually leaves the stack (resume moved on to an outer frame, never   *)
(* back to this one; a catch returned) or the process aborts.              *)
UnwindingEnds ==
  \A t \in Threads : \A d \in Depths :
    (pc[t][d] \in Landings \cup {"pad", "cleanup"}) ~> (aborted \/ pc[t][d] = "dead")

-----------------------------------------------------------------------------
(* The contract this implements.  What a frame guards with, and which      *)
(* handler it runs, is read off its place in the code; the chain is not    *)
(* consulted, so the mapping says nothing about it.                        *)
Guard(p) ==
  CASE p = "invokeCleanup" -> "cleanup"
    [] p \in {"invokeAbort", "dropInvoke"} -> "abort"
    [] p = "tryBody" -> "catch"
    [] OTHER -> "none"

Doing(p) ==
  CASE p \in {"landCleanup", "pad", "cleanup", "dropInvoke"} -> "cleanup"
    [] p \in {"landAbort", "terminate"} -> "abort"
    [] p \in {"landTry", "catchFn"} -> "catch"
    [] OTHER -> "none"

Payload(t, d) ==
  CASE pc[t][d] \in Landings -> ctx[t][d].exn
    [] pc[t][d] \in {"pad", "terminate"} -> exnPtr[t][d]
    [] pc[t][d] \in {"cleanup", "dropInvoke", "catchFn"} -> slot[t][d]
    [] OTHER -> NoExn

Rust == INSTANCE RustUnwind WITH
  depth <- sp,
  guard <- [t \in Threads |-> [d \in Depths |-> Guard(pc[t][d])]],
  doing <- [t \in Threads |-> [d \in Depths |-> Doing(pc[t][d])]],
  payload <- [t \in Threads |-> [d \in Depths |-> Payload(t, d)]]

(* The lowering gives Rust's panic semantics: every panic reaches the      *)
(* innermost guarded frame of its own thread, with the payload that was    *)
(* raised, and aborts exactly where Rust says it does.                     *)
ImplementsRust == Rust!Spec
=============================================================================
