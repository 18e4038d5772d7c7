--------------------------- MODULE AtomicLowering ---------------------------
(***************************************************************************)
(* The C that Builder::atomic_load, atomic_store, atomic_cmpxchg and       *)
(* atomic_rmw emit, and the aarch64 outline atomics of builtins.rs, as the *)
(* threads of a compiled program execute it on one shared object.          *)
(*                                                                         *)
(* An object is a pair of halves.  The C11 operations and the __sync       *)
(* builtins are single steps (their implementation is the C compiler's);   *)
(* a plain C read of a 16-byte object is two, in either order, so another  *)
(* thread's write may fall between them.                                   *)
(*                                                                         *)
(* Every Rust memory ordering is lowered to the default C11 one, seq_cst,  *)
(* so one global order of these steps is what the hardware may show.       *)
(***************************************************************************)
EXTENDS Naturals

CONSTANTS Threads,         \* threads that share the object
          Half,            \* values of half an object
          Requests,        \* records [op, arg, cmp]
          Idle,            \* "no operation in progress"
          Rmw(_, _, _),    \* Rmw(op, old, arg): the C expression of an RMW
          InitialValue,    \* the object before the threads start
          MaxOps           \* bound: operations the program performs

Values == Half \X Half

(* The operations with a C11 (or __sync) primitive of their own, "clr"     *)
(* being __aarch64_ldclr; those lowered to a loop around                   *)
(* atomic_compare_exchange_weak; and __aarch64_swp, which loops around     *)
(* __sync_bool_compare_and_swap.  The outline atomics are called for       *)
(* objects of 1 to 8 bytes only.                                           *)
DirectOps == {"xchg", "add", "sub", "and", "or", "xor", "clr"}
LoopOps == {"nand", "min", "max", "umin", "umax"}
OutlineOps == {"swp", "clr"}
Ops == {"load", "store", "cmpxchg", "swp"} \cup DirectOps \cup LoopOps

(* What an operation leaves in the object when it finds v there. *)
Effect(r, v) ==
  IF r.op = "load" THEN v
  ELSE IF r.op \in {"store", "swp", "xchg"} THEN r.arg
  ELSE IF r.op = "cmpxchg" THEN IF v = r.cmp THEN r.arg ELSE v
  ELSE Rmw(r.op, v, r.arg)

ASSUME AtomicAssumption ==
  /\ Requests \subseteq [op : Ops, arg : Values, cmp : Values]
  /\ Idle \notin Requests
  /\ InitialValue \in Values
  /\ MaxOps \in Nat
  /\ \A r \in Requests, v \in Values :
       r.op \in LoopOps \cup (DirectOps \ {"xchg"}) => Rmw(r.op, v, r.arg) \in Values

VARIABLES wide,      \* TRUE for a 16-byte object (size.bytes() > 8)
          mem,       \* the object
          request,   \* request[t]: the operation t is in, or Idle
          pc,        \* pc[t]: where t is in its operation
          old,       \* old[t]: the C temporary `old`
          desired,   \* desired[t]: the C temporary `desired`
          answer,    \* answer[t]: what t's last operation returned
          ops        \* operations begun (only bounds the program)

vars == <<wide, mem, request, pc, old, desired, answer, ops>>

(*   idle   between operations                                             *)
(*   start  nothing executed yet                                           *)
(*   body   `old` is loaded, `desired` is not yet computed from it         *)
(*   cas    about to compare and swap                                      *)
(*   low    the low half of `old` has been read, the high half not         *)
(*   high   the high half of `old` has been read, the low half not         *)
Places == {"idle", "start", "body", "cas", "low", "high"}

(* Operations that copy *ptr into `old` by a plain read before the CAS. *)
PlainRead(r) == \/ r.op = "swp"
                \/ r.op = "store" /\ wide
Looping(r) == r.op \in LoopOps \/ PlainRead(r)

Init ==
  /\ wide \in BOOLEAN
  /\ mem = InitialValue
  /\ request = [t \in Threads |-> Idle]
  /\ pc = [t \in Threads |-> "idle"]
  /\ old = [t \in Threads |-> InitialValue]
  /\ desired = [t \in Threads |-> InitialValue]
  /\ answer = [t \in Threads |-> InitialValue]
  /\ ops = 0

Begin(t, r) ==
  /\ pc[t] = "idle"
  /\ ops < MaxOps
  /\ r.op \in OutlineOps => ~wide
  /\ ops' = ops + 1
  /\ request' = [request EXCEPT ![t] = r]
  /\ pc' = [pc EXCEPT ![t] = "start"]
  /\ UNCHANGED <<wide, mem, old, desired, answer>>

Goto(t, p, q) == pc[t] = p /\ pc' = [pc EXCEPT ![t] = q]

(* The operation has taken effect and returns v; its temporaries end.      *)
Finish(t, p, v) ==
  /\ Goto(t, p, "idle")
  /\ old' = [old EXCEPT ![t] = InitialValue]
  /\ desired' = [desired EXCEPT ![t] = InitialValue]
  /\ answer' = [answer EXCEPT ![t] = v]
  /\ request' = [request EXCEPT ![t] = Idle]

(* atomic_load of up to 8 bytes, or __sync_val_compare_and_swap(p, 0, 0)   *)
(* of 16, which writes 0 over 0 or nothing; atomic_store of up to 8 bytes; *)
(* atomic_compare_exchange_strong; atomic_exchange and atomic_fetch_*.     *)
Primitive(t) ==
  /\ pc[t] = "start"
  /\ ~Looping(request[t])
  /\ mem' = Effect(request[t], mem)
  /\ Finish(t, "start", mem)
  /\ UNCHANGED <<wide, ops>>

(* old = atomic_load(p), before the loop of an RMW. *)
LoopLoad(t) ==
  /\ Goto(t, "start", "body")
  /\ request[t].op \in LoopOps
  /\ old' = [old EXCEPT ![t] = mem]
  /\ UNCHANGED <<wide, mem, request, desired, answer, ops>>

(* do { desired = ... *)
LoopBody(t) ==
  /\ Goto(t, "body", "cas")
  /\ desired' = [desired EXCEPT ![t] = Rmw(request[t].op, old[t], request[t].arg)]
  /\ UNCHANGED <<wide, mem, request, old, answer, ops>>

(* Mutant: `desired` is computed once, before the loop. *)
WeakCasFailsStale(t) ==
  /\ Goto(t, "cas", "cas")
  /\ request[t].op \in LoopOps
  /\ old' = [old EXCEPT ![t] = mem]
  /\ UNCHANGED <<wide, mem, request, desired, answer, ops>>

(* } while (!atomic_compare_exchange_weak(p, &old, desired)), which on     *)
(* failure loads `old` again; it may fail although the values are equal.   *)
WeakCasFails(t) ==
  /\ Goto(t, "cas", "body")
  /\ request[t].op \in LoopOps
  /\ old' = [old EXCEPT ![t] = mem]
  /\ UNCHANGED <<wide, mem, request, desired, answer, ops>>

(* do { old = *p; ... }: one step for an object a register holds, two for  *)
(* a wide one, in either order.                                            *)
PlainReadWhole(t) ==
  /\ Goto(t, "start", "cas")
  /\ PlainRead(request[t])
  /\ ~wide
  /\ old' = [old EXCEPT ![t] = mem]
  /\ desired' = [desired EXCEPT ![t] = request[t].arg]
  /\ UNCHANGED <<wide, mem, request, answer, ops>>

PlainReadFirst(t) ==
  /\ pc[t] = "start"
  /\ PlainRead(request[t])
  /\ wide
  /\ \/ Goto(t, "start", "high") /\ old' = [old EXCEPT ![t] = <<mem[1], @[2]>>]
     \/ Goto(t, "start", "low") /\ old' = [old EXCEPT ![t] = <<@[1], mem[2]>>]
  /\ UNCHANGED <<wide, mem, request, desired, answer, ops>>

PlainReadSecond(t) ==
  /\ \/ Goto(t, "high", "cas") /\ old' = [old EXCEPT ![t] = <<@[1], mem[2]>>]
     \/ Goto(t, "low", "cas") /\ old' = [old EXCEPT ![t] = <<mem[1], @[2]>>]
  /\ desired' = [desired EXCEPT ![t] = request[t].arg]
  /\ UNCHANGED <<wide, mem, request, answer, ops>>

(* Mutant: the plain read of *p is hoisted out of the loop. *)
BoolCasFailsHoisted(t) ==
  /\ Goto(t, "cas", "cas")
  /\ PlainRead(request[t])
  /\ mem # old[t]
  /\ UNCHANGED <<wide, mem, request, old, desired, answer, ops>>

(* ... while (!__sync_bool_compare_and_swap(p, old, v)), which reads again *)
(* on failure.                                                             *)
BoolCasFails(t) ==
  /\ Goto(t, "cas", "start")
  /\ PlainRead(request[t])
  /\ mem # old[t]
  /\ UNCHANGED <<wide, mem, request, old, desired, answer, ops>>

(* Mutant: the new value is stored without the comparison. *)
CasUnchecked(t) ==
  /\ pc[t] = "cas"
  /\ mem' = desired[t]
  /\ Finish(t, "cas", old[t])
  /\ UNCHANGED <<wide, ops>>

(* Either compare-and-swap finds `old` in the object. *)
CasSucceeds(t) ==
  /\ pc[t] = "cas"
  /\ mem = old[t]
  /\ mem' = desired[t]
  /\ Finish(t, "cas", old[t])
  /\ UNCHANGED <<wide, ops>>

Work(t) ==
  \/ Primitive(t)
  \/ LoopLoad(t) \/ LoopBody(t) \/ WeakCasFails(t)
  \/ PlainReadWhole(t) \/ PlainReadFirst(t) \/ PlainReadSecond(t) \/ BoolCasFails(t)
  \/ CasSucceeds(t)

Next == \E t \in Threads : Work(t) \/ \E r \in Requests : Begin(t, r)

Spec == Init /\ [][Next]_vars

(* Threads are scheduled, and a weak compare-and-swap that keeps finding   *)
(* the value it expects does not fail spuriously for ever.  Beginning an   *)
(* operation is the program's choice.                                      *)
FairSpec == Spec /\ \A t \in Threads : WF_vars(Work(t)) /\ SF_vars(CasSucceeds(t))

-----------------------------------------------------------------------------
TypeOK ==
  /\ wide \in BOOLEAN
  /\ mem \in Values
  /\ request \in [Threads -> Requests \cup {Idle}]
  /\ pc \in [Threads -> Places]
  /\ old \in [Threads -> Values]
  /\ desired \in [Threads -> Values]
  /\ answer \in [Threads -> Values]
  /\ ops \in 0 .. MaxOps

(* Where a thread can be in each operation. *)
PlaceMatchesRequest ==
  \A t \in Threads :
    /\ pc[t] = "idle" <=> request[t] = Idle
    /\ pc[t] = "body" => request[t].op \in LoopOps
    /\ pc[t] \in {"low", "high"} => PlainRead(request[t])
    /\ pc[t] = "cas" => Looping(request[t])

(* When a loop reaches its compare-and-swap, `desired` is what the         *)
(* operation computes from the very `old` that is compared: a value of     *)
(* `desired` left from an earlier, failed round is never installed.        *)
DesiredMatchesOld ==
  \A t \in Threads : pc[t] = "cas" => desired[t] = Effect(request[t], old[t])

(* The inductive invariant. *)
IInv == TypeOK /\ PlaceMatchesRequest /\ DesiredMatchesOld

(* Lock freedom: an operation that was begun comes to its end. *)
OperationsEnd == \A t \in Threads : (pc[t] # "idle") ~> (pc[t] = "idle")

Cell == INSTANCE AtomicCell WITH cell <- mem

(* The lowering is linearizable: every operation takes effect in one step  *)
(* and returns the value it replaced, also when its C code reads the       *)
(* object several times, reads it torn, or retries.                        *)
ImplementsCell == Cell!Spec
=============================================================================
