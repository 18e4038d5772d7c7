------------------------- MODULE UnwindChain_proofs -------------------------
(***************************************************************************)
(* Proofs about UnwindChain for every set of threads, every stack depth    *)
(* and every content of uninitialised memory.  IInv is the inductive       *)
(* invariant: the chain property alone is not inductive, because a return  *)
(* trusts ctx.prev (so the prev links must be right at every depth, not    *)
(* only at the top), because a longjmp trusts ctx.buf, and because a       *)
(* function knows that its own context is free only from the shape of the  *)
(* stack.  TryRestoresChain needs TryInv beside it, the refinement of      *)
(* RustUnwind needs no more.                                               *)
(***************************************************************************)
EXTENDS UnwindChain, TLAPS

(* The executing frame lies in the stack whenever a step looks at it. *)
LEMMA AtIsDepth ==
  ASSUME TypeOK, NEW t \in Threads, NEW p, At(t, p)
  PROVE  sp[t] \in Depths /\ pc[t][sp[t]] = p
  BY UnwindAssumption DEF TypeOK, At, Depths

LEMMA LandingFacts ==
  /\ Armed \subseteq Places /\ Landings \subseteq Places
  /\ \A p \in Armed : LandingOf[p] \in Landings
  /\ LandingOf["invokeCleanup"] = "landCleanup"
  /\ LandingOf["invokeAbort"] = "landAbort"
  /\ LandingOf["dropInvoke"] = "landAbort"
  /\ LandingOf["tryBody"] = "landTry"
  BY DEF Armed, Places, Landings, LandingOf

-----------------------------------------------------------------------------
(* What the building blocks of the actions do to the types.                *)

LEMMA PushTypes ==
  ASSUME TypeOK, NEW t \in Threads, sp[t] \in Depths, NEW p \in Places, Push(t, p, 1)
  PROVE  /\ sp' \in [Threads -> 0 .. MaxDepth]
         /\ pc' \in [Threads -> [Depths -> Places]]
         /\ calls' \in [Threads -> 0 .. MaxCalls]
<1>1. sp[t] + 1 \in Depths
  BY UnwindAssumption DEF Push, Depths
<1>2. sp' \in [Threads -> 0 .. MaxDepth]
  BY <1>1 DEF Push, TypeOK, Depths
<1>3. pc' \in [Threads -> [Depths -> Places]]
  BY <1>1 DEF Push, TypeOK, Places
<1>4. calls' \in [Threads -> 0 .. MaxCalls]
  BY UnwindAssumption DEF Push, TypeOK
<1> QED
  BY <1>2, <1>3, <1>4

LEMMA PopTypes ==
  ASSUME TypeOK, NEW t \in Threads, NEW p, NEW q \in Places, Pop(t, p, q)
  PROVE  /\ sp[t] \in Depths /\ sp[t] - 1 \in Depths
         /\ sp' \in [Threads -> 0 .. MaxDepth]
         /\ pc' \in [Threads -> [Depths -> Places]]
<1>1. sp[t] \in Depths /\ sp[t] - 1 \in Depths
  BY UnwindAssumption DEF Pop, TypeOK, Depths
<1>2. sp' \in [Threads -> 0 .. MaxDepth]
  BY <1>1, UnwindAssumption DEF Pop, TypeOK, Depths
<1>3. pc' \in [Threads -> [Depths -> Places]]
  BY <1>1 DEF Pop, TypeOK, Places
<1> QED
  BY <1>1, <1>2, <1>3

LEMMA LinkTypes ==
  ASSUME TypeOK, NEW t \in Threads, NEW d \in Depths, NEW p \in Armed, Link(t, d, p)
  PROVE  /\ ctx' \in [Threads -> [Depths -> Contexts]]
         /\ chain' \in [Threads -> 0 .. MaxDepth]
<1>1. [prev |-> chain[t], exn |-> NoExn, buf |-> LandingOf[p]] \in Contexts
  BY LandingFacts DEF TypeOK, Contexts
<1>2. ctx' \in [Threads -> [Depths -> Contexts]]
  BY <1>1 DEF Link, TypeOK
<1>3. chain' \in [Threads -> 0 .. MaxDepth]
  BY UnwindAssumption DEF Link, TypeOK, Depths
<1> QED
  BY <1>2, <1>3

LEMMA UnlinkTypes ==
  ASSUME TypeOK, NEW t \in Threads, NEW d \in Depths, Unlink(t, d)
  PROVE  chain' \in [Threads -> 0 .. MaxDepth]
  BY DEF Unlink, TypeOK, Contexts

LEMMA UnwindTypes ==
  ASSUME TypeOK, NEW t \in Threads, NEW e \in Exn \cup {NoExn}, Unwind(t, e),
         UNCHANGED <<chain, exnPtr, slot, calls>>
  PROVE  TypeOK'
<1>1. CASE chain[t] = 0
  BY <1>1 DEF Unwind, TypeOK
<1>2. CASE chain[t] # 0
  <2>1. chain[t] \in Depths /\ chain[t] \in 0 .. MaxDepth
    BY <1>2, UnwindAssumption DEF TypeOK, Depths
  <2>2. sp' \in [Threads -> 0 .. MaxDepth]
    BY <1>2, <2>1 DEF Unwind, TypeOK
  <2>3. \A d \in Depths : ctx[t][d].buf \in Places
    BY LandingFacts DEF TypeOK, Contexts
  <2>4. pc' \in [Threads -> [Depths -> Places]]
    <3> DEFINE row == [d \in Depths |-> IF d < chain[t] THEN pc[t][d]
                                        ELSE IF d = chain[t] THEN ctx[t][d].buf
                                        ELSE "dead"]
    <3>1. row \in [Depths -> Places]
      BY <2>3 DEF TypeOK, Places
    <3>2. pc' = [pc EXCEPT ![t] = row]
      BY <1>2 DEF Unwind, TypeOK
    <3> HIDE DEF row
    <3> QED
      BY <3>1, <3>2 DEF TypeOK
  <2>5. ctx' \in [Threads -> [Depths -> Contexts]]
    <3>1. [ctx[t][chain[t]] EXCEPT !.exn = e] \in Contexts
      <4>1. ctx[t][chain[t]] \in Contexts
        BY <2>1 DEF TypeOK
      <4> QED
        BY <4>1 DEF Contexts
    <3>2. ctx' = [ctx EXCEPT ![t][chain[t]] = [ctx[t][chain[t]] EXCEPT !.exn = e]]
      BY <1>2, <2>1 DEF Unwind, TypeOK
    <3> QED
      BY <3>1, <3>2, <2>1 DEF TypeOK
  <2> QED
    BY <1>2, <2>2, <2>4, <2>5 DEF Unwind, TypeOK
<1> QED
  BY <1>1, <1>2

LEMMA InitTypes == Init => TypeOK
<1> SUFFICES ASSUME Init PROVE TypeOK
  OBVIOUS
<1>1. PICK j \in Junk :
        /\ ctx = [t \in Threads |-> [d \in Depths |-> j]]
        /\ exnPtr = [t \in Threads |-> [d \in Depths |-> j.exn]]
        /\ slot = [t \in Threads |-> [d \in Depths |-> j.exn]]
  BY DEF Init
<1>2. j \in Contexts /\ j.exn \in Exn \cup {NoExn}
  BY UnwindAssumption DEF Contexts
<1>3. ctx \in [Threads -> [Depths -> Contexts]]
  BY <1>1, <1>2
<1>4. /\ exnPtr \in [Threads -> [Depths -> Exn \cup {NoExn}]]
      /\ slot \in [Threads -> [Depths -> Exn \cup {NoExn}]]
  BY <1>1, <1>2
<1>5. pc \in [Threads -> [Depths -> Places]]
  BY DEF Init, Places
<1>6. 0 \in 0 .. MaxDepth /\ 1 \in 0 .. MaxDepth /\ 0 \in 0 .. MaxCalls
  BY UnwindAssumption
<1>7. /\ sp \in [Threads -> 0 .. MaxDepth]
      /\ chain \in [Threads -> 0 .. MaxDepth]
      /\ calls \in [Threads -> 0 .. MaxCalls]
  BY <1>6 DEF Init
<1>8. aborted \in BOOLEAN
  BY DEF Init
<1> QED
  BY <1>3, <1>4, <1>5, <1>7, <1>8 DEF TypeOK

LEMMA StepTypes ==
  ASSUME TypeOK, NEW t \in Threads, Step(t)
  PROVE  TypeOK'
<1> USE UnwindAssumption
<1>a. Armed \subseteq Places /\ {"call", "run", "cleanup", "tryDone"} \subseteq Places
  BY DEF Armed, Places
<1>b. {"invokeCleanup", "invokeAbort", "dropInvoke", "tryBody"} \subseteq Armed
  BY DEF Armed
<1>1. CASE Call(t)
  <2>1. sp[t] \in Depths /\ Push(t, "call", 1)
    BY <1>1, AtIsDepth DEF Call
  <2> QED
    BY <1>1, <2>1, <1>a, PushTypes DEF Call, TypeOK
<1>2. CASE ReturnFromCall(t)
  <2>1. Pop(t, "call", "run")
    BY <1>2 DEF ReturnFromCall
  <2> QED
    BY <1>2, <2>1, <1>a, PopTypes DEF ReturnFromCall, TypeOK
<1>3. ASSUME NEW p \in {"invokeCleanup", "invokeAbort"}, Invoke(t, p) PROVE TypeOK'
  <2>1. sp[t] \in Depths /\ Push(t, p, 1) /\ Link(t, sp[t], p)
    BY <1>3, AtIsDepth DEF Invoke
  <2>2. p \in Armed /\ p \in Places
    BY <1>a, <1>b
  <2>3. /\ sp' \in [Threads -> 0 .. MaxDepth]
        /\ pc' \in [Threads -> [Depths -> Places]]
        /\ calls' \in [Threads -> 0 .. MaxCalls]
    BY <2>1, <2>2, PushTypes
  <2>4. /\ ctx' \in [Threads -> [Depths -> Contexts]]
        /\ chain' \in [Threads -> 0 .. MaxDepth]
    BY <2>1, <2>2, LinkTypes
  <2> QED
    BY <1>3, <2>3, <2>4 DEF Invoke, TypeOK
<1>4. ASSUME NEW p \in {"invokeCleanup", "invokeAbort"}, ReturnFromInvoke(t, p)
      PROVE TypeOK'
  <2>1. Pop(t, p, "run") /\ Unlink(t, sp[t] - 1)
    BY <1>4 DEF ReturnFromInvoke
  <2>2. sp[t] - 1 \in Depths
    BY <2>1, <1>a, PopTypes
  <2>3. chain' \in [Threads -> 0 .. MaxDepth]
    BY <2>1, <2>2, UnlinkTypes
  <2> QED
    BY <1>4, <2>1, <2>3, <1>a, PopTypes DEF ReturnFromInvoke, TypeOK
<1>5. CASE DropInvoke(t)
  <2>1. sp[t] \in Depths /\ Push(t, "dropInvoke", 1) /\ Link(t, sp[t], "dropInvoke")
    BY <1>5, AtIsDepth DEF DropInvoke
  <2>2. "dropInvoke" \in Armed /\ "dropInvoke" \in Places
    BY <1>a, <1>b
  <2>3. /\ sp' \in [Threads -> 0 .. MaxDepth]
        /\ pc' \in [Threads -> [Depths -> Places]]
        /\ calls' \in [Threads -> 0 .. MaxCalls]
    BY <2>1, <2>2, PushTypes
  <2>4. /\ ctx' \in [Threads -> [Depths -> Contexts]]
        /\ chain' \in [Threads -> 0 .. MaxDepth]
    BY <2>1, <2>2, LinkTypes
  <2> QED
    BY <1>5, <2>3, <2>4 DEF DropInvoke, TypeOK
<1>6. CASE ReturnFromDrop(t)
  <2>1. Pop(t, "dropInvoke", "cleanup") /\ Unlink(t, sp[t] - 1)
    BY <1>6 DEF ReturnFromDrop
  <2>2. sp[t] - 1 \in Depths
    BY <2>1, <1>a, PopTypes
  <2>3. chain' \in [Threads -> 0 .. MaxDepth]
    BY <2>1, <2>2, UnlinkTypes
  <2> QED
    BY <1>6, <2>1, <2>3, <1>a, PopTypes DEF ReturnFromDrop, TypeOK
<1>7. CASE LandCleanup(t)
  <2>1. sp[t] \in Depths
    BY <1>7, AtIsDepth DEF LandCleanup
  <2>2. exnPtr' \in [Threads -> [Depths -> Exn \cup {NoExn}]]
    BY <1>7, <2>1 DEF LandCleanup, TypeOK, Contexts
  <2>3. pc' \in [Threads -> [Depths -> Places]]
    BY <1>7, <2>1 DEF LandCleanup, TypeOK, Places
  <2>4. chain' \in [Threads -> 0 .. MaxDepth]
    BY <1>7, <2>1, UnlinkTypes DEF LandCleanup
  <2> QED
    BY <1>7, <2>2, <2>3, <2>4 DEF LandCleanup, TypeOK
<1>8. CASE LandAbort(t)
  <2>1. sp[t] \in Depths
    BY <1>8, AtIsDepth DEF LandAbort
  <2>2. exnPtr' \in [Threads -> [Depths -> Exn \cup {NoExn}]]
    BY <1>8, <2>1 DEF LandAbort, TypeOK, Contexts
  <2>3. pc' \in [Threads -> [Depths -> Places]]
    BY <1>8, <2>1 DEF LandAbort, TypeOK, Places
  <2>4. chain' \in [Threads -> 0 .. MaxDepth]
    BY <1>8, <2>1, UnlinkTypes DEF LandAbort
  <2> QED
    BY <1>8, <2>2, <2>3, <2>4 DEF LandAbort, TypeOK
<1>9. CASE Terminate(t)
  BY <1>9 DEF TypeOK, Terminate
<1>10. CASE LandingPad(t)
  <2>1. sp[t] \in Depths
    BY <1>10, AtIsDepth DEF LandingPad
  <2>2. slot' \in [Threads -> [Depths -> Exn \cup {NoExn}]]
    BY <1>10, <2>1 DEF LandingPad, TypeOK
  <2>3. pc' \in [Threads -> [Depths -> Places]]
    BY <1>10, <2>1 DEF LandingPad, TypeOK, Places
  <2> QED
    BY <1>10, <2>2, <2>3 DEF LandingPad, TypeOK
<1>11. CASE Resume(t)
  <2>1. sp[t] \in Depths
    BY <1>11, AtIsDepth DEF Resume
  <2>2. slot[t][sp[t]] \in Exn \cup {NoExn}
    BY <2>1 DEF TypeOK
  <2> QED
    BY <1>11, <2>2, UnwindTypes DEF Resume
<1>12. CASE ThreadExit(t)
  <2>1. pc' \in [Threads -> [Depths -> Places]]
    BY <1>12 DEF ThreadExit, TypeOK, Places, Depths
  <2> QED
    BY <1>12, <2>1 DEF ThreadExit, TypeOK
<1>13. ASSUME NEW e \in Exn, RaiseException(t, e) PROVE TypeOK'
  BY <1>13, UnwindTypes DEF RaiseException
<1>14. CASE RustTry(t)
  <2>1. /\ sp[t] \in Depths /\ sp[t] + 1 \in Depths /\ sp[t] + 2 \in Depths
        /\ Link(t, sp[t] + 1, "tryBody")
    BY <1>14, AtIsDepth DEF RustTry, Depths
  <2>2. sp' \in [Threads -> 0 .. MaxDepth]
    BY <1>14, <2>1 DEF RustTry, TypeOK, Depths
  <2>3. pc' \in [Threads -> [Depths -> Places]]
    BY <1>14, <2>1 DEF RustTry, TypeOK, Places
  <2>4. calls' \in [Threads -> 0 .. MaxCalls]
    BY <1>14 DEF RustTry, TypeOK
  <2>5. /\ ctx' \in [Threads -> [Depths -> Contexts]]
        /\ chain' \in [Threads -> 0 .. MaxDepth]
    BY <2>1, <1>b, LinkTypes
  <2> QED
    BY <1>14, <2>2, <2>3, <2>4, <2>5 DEF RustTry, TypeOK
<1>15. CASE ReturnFromTryFn(t)
  <2>1. Pop(t, "tryBody", "tryDone") /\ Unlink(t, sp[t] - 1)
    BY <1>15 DEF ReturnFromTryFn
  <2>2. sp[t] - 1 \in Depths
    BY <2>1, <1>a, PopTypes
  <2>3. chain' \in [Threads -> 0 .. MaxDepth]
    BY <2>1, <2>2, UnlinkTypes
  <2> QED
    BY <1>15, <2>1, <2>3, <1>a, PopTypes DEF ReturnFromTryFn, TypeOK
<1>16. CASE LandTry(t)
  <2>1. sp[t] \in Depths /\ sp[t] + 1 \in Depths
    BY <1>16, AtIsDepth DEF LandTry, Depths
  <2>2. sp' \in [Threads -> 0 .. MaxDepth]
    BY <1>16, <2>1 DEF LandTry, TypeOK, Depths
  <2>3. pc' \in [Threads -> [Depths -> Places]]
    BY <1>16, <2>1 DEF LandTry, TypeOK, Places
  <2>4. slot' \in [Threads -> [Depths -> Exn \cup {NoExn}]]
    BY <1>16, <2>1 DEF LandTry, TypeOK, Contexts
  <2>5. chain' \in [Threads -> 0 .. MaxDepth]
    BY <1>16, <2>1, UnlinkTypes DEF LandTry
  <2> QED
    BY <1>16, <2>2, <2>3, <2>4, <2>5 DEF LandTry, TypeOK
<1>17. CASE ReturnFromCatchFn(t)
  <2>1. Pop(t, "catchFn", "tryDone")
    BY <1>17 DEF ReturnFromCatchFn
  <2> QED
    BY <1>17, <2>1, <1>a, PopTypes DEF ReturnFromCatchFn, TypeOK
<1> QED
  BY <1>1, <1>2, <1>3, <1>4, <1>5, <1>6, <1>7, <1>8, <1>9, <1>10, <1>11, <1>12,
     <1>13, <1>14, <1>15, <1>16, <1>17 DEF Step

(* Type correctness: every field of every stack frame keeps its type on    *)
(* every step of the generated code and of the C runtime.                  *)
THEOREM TypeCorrect == Spec => []TypeOK
<1>1. Init => TypeOK
  BY InitTypes
<1>2. TypeOK /\ [Next]_vars => TypeOK'
  <2> SUFFICES ASSUME TypeOK, [Next]_vars PROVE TypeOK'
    OBVIOUS
  <2>1. CASE UNCHANGED vars
    BY <2>1 DEF TypeOK, vars
  <2> QED
    BY <2>1, StepTypes DEF Next
<1> QED
  BY <1>1, <1>2, PTL DEF Spec

-----------------------------------------------------------------------------
(* The chain.  Everything the invariant says is local to a thread, so a    *)
(* step of one thread leaves it true of the others, and for the thread     *)
(* that moves it is argued pointwise, from the value each frame has after  *)
(* the step.                                                               *)

LocalInv(t) == ShapeOf(t) /\ ChainOf(t) /\ BuffersOf(t) /\ PayloadsOf(t)

SameThread(u) ==
  /\ sp'[u] = sp[u] /\ pc'[u] = pc[u] /\ chain'[u] = chain[u]
  /\ ctx'[u] = ctx[u] /\ exnPtr'[u] = exnPtr[u] /\ slot'[u] = slot[u]

LEMMA LocalIInv == IInv <=> TypeOK /\ \A t \in Threads : LocalInv(t)
  BY DEF IInv, LocalInv, StackShape, ChainIsGuardedFrames, JumpBufferIsCurrent,
         HandlersHoldThePayload

LEMMA OtherThread ==
  ASSUME NEW u \in Threads, LocalInv(u), SameThread(u)
  PROVE  LocalInv(u)'
  BY DEF LocalInv, SameThread, ShapeOf, ChainOf, BuffersOf, PayloadsOf, IsTop

(* IsTop looks only at the frames up to n, and only at whether they are    *)
(* linked.                                                                 *)
LEMMA TopKept ==
  ASSUME NEW row, NEW row2, NEW n \in 0 .. MaxDepth, NEW c \in 0 .. MaxDepth,
         IsTop(row, n, c),
         \A d \in Depths : d <= n => (row2[d] \in LinkedPlaces <=> row[d] \in LinkedPlaces)
  PROVE  IsTop(row2, n, c)
  BY UnwindAssumption DEF IsTop, Depths

(* A frame that is not linked may be added or taken away at the end. *)
LEMMA TopExtend ==
  ASSUME NEW row, NEW n \in Depths, NEW c \in 0 .. MaxDepth, row[n] \notin LinkedPlaces
  PROVE  IsTop(row, n, c) <=> IsTop(row, n - 1, c)
  BY UnwindAssumption DEF IsTop, Depths

(* A step after which no frame above k is linked, and nothing has changed  *)
(* up to k, restores the chain if it sets it to the top of those frames.   *)
LEMMA ChainCut ==
  ASSUME TypeOK, TypeOK', NEW t \in Threads, ChainOf(t), NEW k \in 0 .. MaxDepth,
         \A d \in Depths : d <= k =>
           /\ pc'[t][d] \in LinkedPlaces <=> pc[t][d] \in LinkedPlaces
           /\ ctx'[t][d].prev = ctx[t][d].prev,
         \A d \in Depths : d > k => pc'[t][d] \notin LinkedPlaces,
         k <= sp'[t],
         IsTop(pc[t], k, chain'[t])
  PROVE  ChainOf(t)'
<1>1. chain'[t] \in 0 .. MaxDepth /\ sp'[t] \in 0 .. MaxDepth
  BY DEF TypeOK
<1>2. IsTop(pc'[t], sp'[t], chain'[t])
  <2>1. IsTop(pc'[t], k, chain'[t])
    BY <1>1, TopKept
  <2> QED
    BY <1>1, <2>1, UnwindAssumption DEF IsTop, Depths
<1>3. ASSUME NEW d \in Depths, pc'[t][d] \in LinkedPlaces
      PROVE  IsTop(pc'[t], d - 1, ctx'[t][d].prev)
  <2>1. d <= k /\ d - 1 \in 0 .. MaxDepth /\ ctx[t][d].prev \in 0 .. MaxDepth
    BY <1>3, UnwindAssumption DEF Depths, TypeOK, Contexts
  <2>2. IsTop(pc[t], d - 1, ctx[t][d].prev)
    BY <1>3, <2>1 DEF ChainOf
  <2>3. \A x \in Depths : x <= d - 1 => (pc'[t][x] \in LinkedPlaces <=> pc[t][x] \in LinkedPlaces)
    BY <2>1, UnwindAssumption DEF Depths
  <2>4. IsTop(pc'[t], d - 1, ctx[t][d].prev)
    BY <2>1, <2>2, <2>3, TopKept
  <2> QED
    BY <2>1, <2>4
<1> QED
  BY <1>2, <1>3 DEF ChainOf

(* A step that makes frame c the innermost linked one, with the previous   *)
(* top in its prev field.                                                  *)
LEMMA ChainAdd ==
  ASSUME TypeOK, TypeOK', NEW t \in Threads, ChainOf(t), NEW c \in Depths,
         \A d \in Depths : d < c =>
           /\ pc'[t][d] \in LinkedPlaces <=> pc[t][d] \in LinkedPlaces
           /\ ctx'[t][d].prev = ctx[t][d].prev,
         \A d \in Depths : d > c => pc'[t][d] \notin LinkedPlaces,
         pc'[t][c] \in LinkedPlaces,
         c <= sp'[t],
         chain'[t] = c,
         IsTop(pc[t], c - 1, ctx'[t][c].prev)
  PROVE  ChainOf(t)'
<1>1. c - 1 \in 0 .. MaxDepth /\ sp'[t] \in 0 .. MaxDepth
  BY UnwindAssumption DEF TypeOK, Depths
<1>2. IsTop(pc'[t], sp'[t], chain'[t])
  BY <1>1, UnwindAssumption DEF IsTop, Depths
<1>3. ASSUME NEW d \in Depths, pc'[t][d] \in LinkedPlaces
      PROVE  IsTop(pc'[t], d - 1, ctx'[t][d].prev)
  <2>1. d <= c /\ d - 1 \in 0 .. MaxDepth /\ ctx'[t][d].prev \in 0 .. MaxDepth
    <3>1. ctx'[t][d] \in Contexts
      BY DEF TypeOK
    <3>2. ctx'[t][d].prev \in 0 .. MaxDepth
      BY <3>1 DEF Contexts
    <3>3. ~(d > c)
      BY <1>3
    <3>4. d \in 1 .. MaxDepth /\ c \in 1 .. MaxDepth /\ MaxDepth \in Nat
      BY UnwindAssumption DEF Depths
    <3> QED BY <3>2, <3>3, <3>4
  <2>2. IsTop(pc[t], d - 1, ctx'[t][d].prev)
    <3>1. CASE d = c
      BY <3>1
    <3>2. CASE d < c
      BY <1>3, <3>2 DEF ChainOf
    <3> QED
      BY <2>1, <3>1, <3>2 DEF Depths
  <2>3. \A x \in Depths : x <= d - 1 => (pc'[t][x] \in LinkedPlaces <=> pc[t][x] \in LinkedPlaces)
    BY <2>1, UnwindAssumption DEF Depths
  <2> QED
    BY <2>1, <2>2, <2>3, TopKept
<1> QED
  BY <1>2, <1>3 DEF ChainOf

(* Calls and returns, frame by frame. *)
LEMMA PushEffect ==
  ASSUME TypeOK, NEW t \in Threads, sp[t] \in Depths, NEW p, Push(t, p, 1)
  PROVE  /\ sp[t] + 1 \in Depths
         /\ sp'[t] = sp[t] + 1
         /\ \A d \in Depths : pc'[t][d] = IF d = sp[t] THEN p
                                          ELSE IF d = sp[t] + 1 THEN "run" ELSE pc[t][d]
         /\ \A u \in Threads : u # t => sp'[u] = sp[u] /\ pc'[u] = pc[u]
  BY UnwindAssumption DEF TypeOK, Push, Depths

LEMMA PopEffect ==
  ASSUME TypeOK, NEW t \in Threads, NEW p, NEW q, Pop(t, p, q)
  PROVE  /\ sp[t] \in Depths /\ sp[t] - 1 \in Depths
         /\ pc[t][sp[t]] \in {"run", "tryDone"} /\ pc[t][sp[t] - 1] = p
         /\ sp'[t] = sp[t] - 1
         /\ \A d \in Depths : pc'[t][d] = IF d = sp[t] - 1 THEN q
                                          ELSE IF d = sp[t] THEN "dead" ELSE pc[t][d]
         /\ \A u \in Threads : u # t => sp'[u] = sp[u] /\ pc'[u] = pc[u]
  BY UnwindAssumption DEF TypeOK, Pop, Depths

LEMMA LinkEffect ==
  ASSUME TypeOK, NEW t \in Threads, NEW c \in Depths, NEW p, Link(t, c, p)
  PROVE  /\ chain'[t] = c
         /\ ctx'[t][c] = [prev |-> chain[t], exn |-> NoExn, buf |-> LandingOf[p]]
         /\ \A d \in Depths : d # c => ctx'[t][d] = ctx[t][d]
         /\ \A u \in Threads : u # t => chain'[u] = chain[u] /\ ctx'[u] = ctx[u]
  BY DEF TypeOK, Link

LEMMA UnlinkEffect ==
  ASSUME TypeOK, NEW t \in Threads, NEW c \in Depths, Unlink(t, c)
  PROVE  /\ chain'[t] = ctx[t][c].prev
         /\ \A u \in Threads : u # t => chain'[u] = chain[u]
  BY DEF TypeOK, Unlink

(* A longjmp, frame by frame. *)
LEMMA UnwindEffect ==
  ASSUME TypeOK, NEW t \in Threads, NEW e, Unwind(t, e), chain[t] # 0
  PROVE  /\ chain[t] \in Depths
         /\ sp'[t] = chain[t]
         /\ \A d \in Depths : pc'[t][d] = IF d < chain[t] THEN pc[t][d]
                                          ELSE IF d = chain[t] THEN ctx[t][d].buf
                                          ELSE "dead"
         /\ \A d \in Depths : /\ ctx'[t][d].prev = ctx[t][d].prev
                              /\ ctx'[t][d].buf = ctx[t][d].buf
                              /\ ctx'[t][d].exn = IF d = chain[t] THEN e ELSE ctx[t][d].exn
         /\ aborted' = aborted
         /\ \A u \in Threads : u # t => sp'[u] = sp[u] /\ pc'[u] = pc[u] /\ ctx'[u] = ctx[u]
<1>1. chain[t] \in Depths
  BY UnwindAssumption DEF TypeOK, Depths
<1>2. \A d \in Depths : ctx[t][d] \in Contexts
  BY DEF TypeOK
<1>3. \A d \in Depths : ctx'[t][d] = IF d = chain[t] THEN [ctx[t][d] EXCEPT !.exn = e]
                                                     ELSE ctx[t][d]
  <2>1. ctx' = [ctx EXCEPT ![t] = [ctx[t] EXCEPT ![chain[t]] =
                                     [ctx[t][chain[t]] EXCEPT !.exn = e]]]
    BY DEF Unwind
  <2>2. ctx'[t] = [ctx[t] EXCEPT ![chain[t]] = [ctx[t][chain[t]] EXCEPT !.exn = e]]
    BY <2>1 DEF TypeOK
  <2>3. ctx[t] \in [Depths -> Contexts]
    BY DEF TypeOK
  <2> QED
    BY <2>2, <2>3
<1>4. \A d \in Depths : /\ ctx'[t][d].prev = ctx[t][d].prev
                        /\ ctx'[t][d].buf = ctx[t][d].buf
                        /\ ctx'[t][d].exn = IF d = chain[t] THEN e ELSE ctx[t][d].exn
  BY <1>2, <1>3 DEF Contexts
<1>5. \A d \in Depths : pc'[t][d] = IF d < chain[t] THEN pc[t][d]
                                    ELSE IF d = chain[t] THEN ctx[t][d].buf
                                    ELSE "dead"
  BY DEF Unwind, TypeOK
<1>6. sp'[t] = chain[t] /\ aborted' = aborted
  BY DEF Unwind, TypeOK
<1>7. \A u \in Threads : u # t => sp'[u] = sp[u] /\ pc'[u] = pc[u] /\ ctx'[u] = ctx[u]
  BY DEF Unwind, TypeOK
<1> QED
  BY <1>1, <1>4, <1>5, <1>6, <1>7

-----------------------------------------------------------------------------
(* One lemma per kind of step: the moving thread keeps LocalInv.           *)

(* A plain call; the new frame's memory is not looked at. *)
LEMMA CallKeeps ==
  ASSUME TypeOK, TypeOK', NEW t \in Threads, LocalInv(t), Call(t)
  PROVE  LocalInv(t)' /\ \A u \in Threads : u # t => SameThread(u)
<1>1. sp[t] \in Depths /\ pc[t][sp[t]] = "run" /\ Push(t, "call", 1)
  BY AtIsDepth DEF Call
<1>2. /\ sp[t] + 1 \in Depths
      /\ sp'[t] = sp[t] + 1
      /\ \A d \in Depths : pc'[t][d] = IF d = sp[t] THEN "call"
                                       ELSE IF d = sp[t] + 1 THEN "run" ELSE pc[t][d]
      /\ \A u \in Threads : u # t => sp'[u] = sp[u] /\ pc'[u] = pc[u]
  BY <1>1, PushEffect
<1>3. chain' = chain /\ ctx' = ctx /\ exnPtr' = exnPtr /\ slot' = slot
  BY DEF Call
<1>4. ShapeOf(t)'
  BY <1>1, <1>2 DEF LocalInv, ShapeOf, Armed, Depths
<1>5. ChainOf(t)'
  <2>1. \A d \in Depths : pc'[t][d] \in LinkedPlaces <=> pc[t][d] \in LinkedPlaces
    BY <1>1, <1>2 DEF LocalInv, ShapeOf, LinkedPlaces, Armed, Landings, Depths
  <2>2. \A d \in Depths : d > sp[t] => pc'[t][d] \notin LinkedPlaces
    BY <2>1 DEF LocalInv, ShapeOf, LinkedPlaces, Armed, Landings
  <2>3. sp[t] \in 0 .. MaxDepth /\ sp[t] <= sp'[t] /\ IsTop(pc[t], sp[t], chain'[t])
    BY <1>1, <1>2, <1>3 DEF LocalInv, ChainOf, TypeOK
  <2> QED
    BY <1>3, <2>1, <2>2, <2>3, ChainCut DEF LocalInv
<1>6. BuffersOf(t)'
  BY <1>1, <1>2, <1>3 DEF LocalInv, BuffersOf, Armed, Landings
<1>7. PayloadsOf(t)'
  BY <1>1, <1>2, <1>3 DEF LocalInv, PayloadsOf, Landings
<1> QED
  BY <1>2, <1>3, <1>4, <1>5, <1>6, <1>7 DEF LocalInv, SameThread

(* A guarded call (Builder::invoke, on the normal path or in a cleanup). *)
LEMMA GuardedCallKeeps ==
  ASSUME TypeOK, TypeOK', NEW t \in Threads, LocalInv(t),
         NEW p \in {"invokeCleanup", "invokeAbort", "dropInvoke"}, NEW q \in {"run", "cleanup"},
         p = "dropInvoke" <=> q = "cleanup",
         At(t, q), Link(t, sp[t], p), Push(t, p, 1), UNCHANGED <<exnPtr, slot>>
  PROVE  LocalInv(t)' /\ \A u \in Threads : u # t => SameThread(u)
<1>1. sp[t] \in Depths /\ pc[t][sp[t]] = q
  BY AtIsDepth
<1>2. /\ sp[t] + 1 \in Depths
      /\ sp'[t] = sp[t] + 1
      /\ \A d \in Depths : pc'[t][d] = IF d = sp[t] THEN p
                                       ELSE IF d = sp[t] + 1 THEN "run" ELSE pc[t][d]
      /\ \A u \in Threads : u # t => sp'[u] = sp[u] /\ pc'[u] = pc[u]
  BY <1>1, PushEffect
<1>3. /\ chain'[t] = sp[t]
      /\ ctx'[t][sp[t]] = [prev |-> chain[t], exn |-> NoExn, buf |-> LandingOf[p]]
      /\ \A d \in Depths : d # sp[t] => ctx'[t][d] = ctx[t][d]
      /\ \A u \in Threads : u # t => chain'[u] = chain[u] /\ ctx'[u] = ctx[u]
  BY <1>1, LinkEffect
<1>4. ShapeOf(t)'
  BY <1>1, <1>2 DEF LocalInv, ShapeOf, Armed, Depths
<1>5. ChainOf(t)'
  <2>1. \A d \in Depths : d < sp[t] =>
          /\ pc'[t][d] \in LinkedPlaces <=> pc[t][d] \in LinkedPlaces
          /\ ctx'[t][d].prev = ctx[t][d].prev
    BY <1>1, <1>2, <1>3 DEF Depths
  <2>2. \A d \in Depths : d > sp[t] => pc'[t][d] \notin LinkedPlaces
    BY <1>1, <1>2 DEF LocalInv, ShapeOf, LinkedPlaces, Armed, Landings
  <2>3. pc'[t][sp[t]] \in LinkedPlaces /\ sp[t] <= sp'[t]
    BY <1>1, <1>2 DEF LinkedPlaces, Armed, Depths
  <2>4. IsTop(pc[t], sp[t] - 1, chain[t])
    <3>1. pc[t][sp[t]] \notin LinkedPlaces
      BY <1>1 DEF LinkedPlaces, Armed, Landings
    <3> QED
      BY <1>1, <3>1, TopExtend DEF LocalInv, ChainOf, TypeOK
  <2> QED
    BY <1>1, <1>3, <2>1, <2>2, <2>3, <2>4, ChainAdd DEF LocalInv
<1>6. BuffersOf(t)'
  BY <1>1, <1>2, <1>3 DEF LocalInv, BuffersOf, Armed, Landings
<1>7. PayloadsOf(t)'
  BY <1>1, <1>2, <1>3 DEF LocalInv, PayloadsOf, Landings
<1> QED
  BY <1>2, <1>3, <1>4, <1>5, <1>6, <1>7 DEF LocalInv, SameThread

(* A return to a caller that did not guard the call. *)
LEMMA PlainReturnKeeps ==
  ASSUME TypeOK, TypeOK', NEW t \in Threads, LocalInv(t),
         NEW p \in {"call", "catchFn"}, NEW q \in {"run", "tryDone"},
         Pop(t, p, q), UNCHANGED <<chain, ctx, exnPtr, slot>>
  PROVE  LocalInv(t)' /\ \A u \in Threads : u # t => SameThread(u)
<1>1. /\ sp[t] \in Depths /\ sp[t] - 1 \in Depths
      /\ pc[t][sp[t]] \in {"run", "tryDone"} /\ pc[t][sp[t] - 1] = p
      /\ sp'[t] = sp[t] - 1
      /\ \A d \in Depths : pc'[t][d] = IF d = sp[t] - 1 THEN q
                                       ELSE IF d = sp[t] THEN "dead" ELSE pc[t][d]
      /\ \A u \in Threads : u # t => sp'[u] = sp[u] /\ pc'[u] = pc[u]
  BY PopEffect
<1>2. ShapeOf(t)'
  BY <1>1 DEF LocalInv, ShapeOf, Armed, Depths
<1>3. ChainOf(t)'
  <2>1. \A d \in Depths : pc'[t][d] \in LinkedPlaces <=> pc[t][d] \in LinkedPlaces
    BY <1>1 DEF LinkedPlaces, Armed, Landings
  <2>2. \A d \in Depths : d > sp[t] - 1 => pc'[t][d] \notin LinkedPlaces
    BY <1>1 DEF LocalInv, ShapeOf, LinkedPlaces, Armed, Landings, Depths
  <2>3. IsTop(pc[t], sp[t] - 1, chain[t])
    <3>1. pc[t][sp[t]] \notin LinkedPlaces
      BY <1>1 DEF LinkedPlaces, Armed, Landings
    <3> QED
      BY <1>1, <3>1, TopExtend DEF LocalInv, ChainOf, TypeOK
  <2>4. sp[t] - 1 \in 0 .. MaxDepth /\ sp[t] - 1 <= sp'[t]
    BY <1>1, UnwindAssumption DEF Depths
  <2> QED
    BY <2>1, <2>2, <2>3, <2>4, ChainCut DEF LocalInv
<1>4. BuffersOf(t)'
  BY <1>1 DEF LocalInv, BuffersOf, Armed, Landings
<1>5. PayloadsOf(t)'
  BY <1>1 DEF LocalInv, PayloadsOf, Landings
<1> QED
  BY <1>1, <1>2, <1>3, <1>4, <1>5 DEF LocalInv, SameThread

(* A return to a caller that did, which unlinks its context. *)
LEMMA GuardedReturnKeeps ==
  ASSUME TypeOK, TypeOK', NEW t \in Threads, LocalInv(t),
         NEW p \in Armed, NEW q \in {"run", "cleanup", "tryDone"},
         q = "cleanup" => p = "dropInvoke",
         Pop(t, p, q), Unlink(t, sp[t] - 1), UNCHANGED <<ctx, exnPtr, slot>>
  PROVE  LocalInv(t)' /\ \A u \in Threads : u # t => SameThread(u)
<1>1. /\ sp[t] \in Depths /\ sp[t] - 1 \in Depths
      /\ pc[t][sp[t]] \in {"run", "tryDone"} /\ pc[t][sp[t] - 1] = p
      /\ sp'[t] = sp[t] - 1
      /\ \A d \in Depths : pc'[t][d] = IF d = sp[t] - 1 THEN q
                                       ELSE IF d = sp[t] THEN "dead" ELSE pc[t][d]
      /\ \A u \in Threads : u # t => sp'[u] = sp[u] /\ pc'[u] = pc[u]
  BY PopEffect
<1>2. /\ chain'[t] = ctx[t][sp[t] - 1].prev
      /\ \A u \in Threads : u # t => chain'[u] = chain[u]
  BY <1>1, UnlinkEffect
<1>3. ShapeOf(t)'
  BY <1>1 DEF LocalInv, ShapeOf, Armed, Depths
<1>4. ChainOf(t)'
  <2>1. \A d \in Depths : d <= sp[t] - 2 =>
          (pc'[t][d] \in LinkedPlaces <=> pc[t][d] \in LinkedPlaces)
    BY <1>1 DEF Depths
  <2>2. \A d \in Depths : d > sp[t] - 2 => pc'[t][d] \notin LinkedPlaces
    BY <1>1 DEF LocalInv, ShapeOf, LinkedPlaces, Armed, Landings, Depths
  <2>3. IsTop(pc[t], sp[t] - 2, chain'[t])
    <3>1. pc[t][sp[t] - 1] \in LinkedPlaces
      BY <1>1 DEF LinkedPlaces
    <3>2. (sp[t] - 1) - 1 = sp[t] - 2
      BY <1>1 DEF Depths
    <3> QED
      BY <1>1, <1>2, <3>1, <3>2 DEF LocalInv, ChainOf
  <2>4. sp[t] - 2 \in 0 .. MaxDepth /\ sp[t] - 2 <= sp'[t]
    BY <1>1, UnwindAssumption DEF Depths
  <2> QED
    BY <2>1, <2>2, <2>3, <2>4, ChainCut DEF LocalInv
<1>5. BuffersOf(t)'
  BY <1>1 DEF LocalInv, BuffersOf, Armed, Landings
<1>6. PayloadsOf(t)'
  BY <1>1 DEF LocalInv, PayloadsOf, Landings
<1> QED
  BY <1>1, <1>2, <1>3, <1>4, <1>5, <1>6 DEF LocalInv, SameThread

(* The code after a setjmp that returned for the second time in an invoke: *)
(* the context is unlinked before control goes to the catch block.         *)
LEMMA LandKeeps ==
  ASSUME TypeOK, TypeOK', NEW t \in Threads, LocalInv(t),
         NEW p \in {"landCleanup", "landAbort"}, NEW q \in {"pad", "terminate"},
         At(t, p), Unlink(t, sp[t]),
         exnPtr' = [exnPtr EXCEPT ![t][sp[t]] = ctx[t][sp[t]].exn],
         pc' = [pc EXCEPT ![t][sp[t]] = q],
         UNCHANGED <<sp, ctx, slot>>
  PROVE  LocalInv(t)' /\ \A u \in Threads : u # t => SameThread(u)
<1>1. sp[t] \in Depths /\ pc[t][sp[t]] = p
  BY AtIsDepth
<1>2. /\ chain'[t] = ctx[t][sp[t]].prev
      /\ \A u \in Threads : u # t => chain'[u] = chain[u]
  BY <1>1, UnlinkEffect
<1>3. /\ \A d \in Depths : pc'[t][d] = IF d = sp[t] THEN q ELSE pc[t][d]
      /\ \A u \in Threads : u # t => pc'[u] = pc[u]
  BY <1>1 DEF TypeOK
<1>4. /\ exnPtr'[t][sp[t]] = ctx[t][sp[t]].exn
      /\ \A d \in Depths : d # sp[t] => exnPtr'[t][d] = exnPtr[t][d]
      /\ \A u \in Threads : u # t => exnPtr'[u] = exnPtr[u]
  BY <1>1 DEF TypeOK
<1>5. ShapeOf(t)'
  BY <1>1, <1>3 DEF LocalInv, ShapeOf, Armed, Depths
<1>6. ChainOf(t)'
  <2>1. \A d \in Depths : d <= sp[t] - 1 =>
          (pc'[t][d] \in LinkedPlaces <=> pc[t][d] \in LinkedPlaces)
    BY <1>1, <1>3 DEF Depths
  <2>2. \A d \in Depths : d > sp[t] - 1 => pc'[t][d] \notin LinkedPlaces
    BY <1>1, <1>3 DEF LocalInv, ShapeOf, LinkedPlaces, Armed, Landings, Depths
  <2>3. IsTop(pc[t], sp[t] - 1, chain'[t])
    <3>1. pc[t][sp[t]] \in LinkedPlaces
      BY <1>1 DEF LinkedPlaces, Landings
    <3> QED
      BY <1>1, <1>2, <3>1 DEF LocalInv, ChainOf
  <2>4. sp[t] - 1 \in 0 .. MaxDepth /\ sp[t] - 1 <= sp'[t]
    BY <1>1, UnwindAssumption DEF Depths
  <2> QED
    BY <2>1, <2>2, <2>3, <2>4, ChainCut DEF LocalInv
<1>7. BuffersOf(t)'
  BY <1>1, <1>3 DEF LocalInv, BuffersOf, Armed, Landings
<1>8. PayloadsOf(t)'
  BY <1>1, <1>3, <1>4 DEF LocalInv, PayloadsOf, Landings
<1> QED
  BY <1>2, <1>3, <1>4, <1>5, <1>6, <1>7, <1>8 DEF LocalInv, SameThread

(* The landing pad fills the personality slot. *)
LEMMA LandingPadKeeps ==
  ASSUME TypeOK, TypeOK', NEW t \in Threads, LocalInv(t), LandingPad(t)
  PROVE  LocalInv(t)' /\ \A u \in Threads : u # t => SameThread(u)
<1>1. sp[t] \in Depths /\ pc[t][sp[t]] = "pad" /\ sp' = sp /\ chain' = chain /\ ctx' = ctx
      /\ exnPtr' = exnPtr
  BY AtIsDepth DEF LandingPad
<1>2. /\ \A d \in Depths : pc'[t][d] = IF d = sp[t] THEN "cleanup" ELSE pc[t][d]
      /\ \A u \in Threads : u # t => pc'[u] = pc[u]
  BY <1>1 DEF LandingPad, TypeOK
<1>3. /\ slot'[t][sp[t]] = exnPtr[t][sp[t]]
      /\ \A d \in Depths : d # sp[t] => slot'[t][d] = slot[t][d]
      /\ \A u \in Threads : u # t => slot'[u] = slot[u]
  BY <1>1 DEF LandingPad, TypeOK
<1>4. ShapeOf(t)'
  BY <1>1, <1>2 DEF LocalInv, ShapeOf, Armed, Depths
<1>5. ChainOf(t)'
  <2>1. \A d \in Depths : pc'[t][d] \in LinkedPlaces <=> pc[t][d] \in LinkedPlaces
    BY <1>1, <1>2 DEF LinkedPlaces, Armed, Landings
  <2>2. \A d \in Depths : d > sp[t] => pc'[t][d] \notin LinkedPlaces
    BY <2>1 DEF LocalInv, ShapeOf, LinkedPlaces, Armed, Landings
  <2>3. sp[t] \in 0 .. MaxDepth /\ sp[t] <= sp'[t] /\ IsTop(pc[t], sp[t], chain'[t])
    BY <1>1 DEF LocalInv, ChainOf, TypeOK
  <2> QED
    BY <1>1, <2>1, <2>2, <2>3, ChainCut DEF LocalInv
<1>6. BuffersOf(t)'
  BY <1>1, <1>2 DEF LocalInv, BuffersOf, Armed, Landings
<1>7. PayloadsOf(t)'
  BY <1>1, <1>2, <1>3 DEF LocalInv, PayloadsOf, Landings
<1> QED
  BY <1>1, <1>2, <1>3, <1>4, <1>5, <1>6, <1>7 DEF LocalInv, SameThread

(* _Unwind_RaiseException and resume: chain->exception_ptr = e; longjmp. *)
LEMMA UnwindKeeps ==
  ASSUME TypeOK, TypeOK', NEW t \in Threads, LocalInv(t), NEW e \in Exn, sp[t] \in Depths,
         pc[t][sp[t]] \in {"run", "cleanup"},
         Unwind(t, e), UNCHANGED <<chain, exnPtr, slot>>
  PROVE  LocalInv(t)' /\ \A u \in Threads : u # t => SameThread(u)
<1>1. CASE chain[t] = 0
  <2>1. UNCHANGED <<sp, pc, chain, ctx, exnPtr, slot>>
    BY <1>1 DEF Unwind
  <2> QED
    BY <2>1, OtherThread DEF SameThread
<1>2. CASE chain[t] # 0
  <2> DEFINE c == chain[t]
  <2>1. /\ c \in Depths
        /\ sp'[t] = c
        /\ \A d \in Depths : pc'[t][d] = IF d < c THEN pc[t][d]
                                         ELSE IF d = c THEN ctx[t][d].buf ELSE "dead"
        /\ \A d \in Depths : /\ ctx'[t][d].prev = ctx[t][d].prev
                             /\ ctx'[t][d].buf = ctx[t][d].buf
                             /\ ctx'[t][d].exn = IF d = c THEN e ELSE ctx[t][d].exn
        /\ \A u \in Threads : u # t => sp'[u] = sp[u] /\ pc'[u] = pc[u] /\ ctx'[u] = ctx[u]
    BY <1>2, UnwindEffect
  <2>2. chain'[t] = c /\ c \in Depths /\ c <= sp[t] /\ pc[t][c] \in LinkedPlaces
    BY <1>2, <2>1 DEF LocalInv, ChainOf, IsTop
  <2>3. ctx[t][c].buf \in Landings
    BY <2>1 DEF TypeOK, Contexts
  <2> HIDE DEF c
  <2>4. c < sp[t]
    BY <2>1, <2>2 DEF LinkedPlaces, Armed, Landings, Depths
  <2>5. ShapeOf(t)'
    BY <2>1, <2>3, <2>4 DEF LocalInv, ShapeOf, Armed, Landings, Depths
  <2>6. ChainOf(t)'
    <3>1. \A d \in Depths : d < c =>
            /\ pc'[t][d] \in LinkedPlaces <=> pc[t][d] \in LinkedPlaces
            /\ ctx'[t][d].prev = ctx[t][d].prev
      BY <2>1
    <3>2. \A d \in Depths : d > c => pc'[t][d] \notin LinkedPlaces
      BY <2>1 DEF LinkedPlaces, Armed, Landings, Depths
    <3>3. pc'[t][c] \in LinkedPlaces /\ c <= sp'[t]
      BY <2>1, <2>3 DEF LinkedPlaces, Depths
    <3>4. IsTop(pc[t], c - 1, ctx'[t][c].prev)
      BY <2>1, <2>2 DEF LocalInv, ChainOf
    <3> QED
      BY <2>1, <2>2, <3>1, <3>2, <3>3, <3>4, ChainAdd DEF LocalInv
  <2>7. BuffersOf(t)'
    BY <2>1, <2>3 DEF LocalInv, BuffersOf, Armed, Landings, Depths
  <2>8. PayloadsOf(t)'
    BY <2>1, <2>3 DEF LocalInv, PayloadsOf, Landings, Depths
  <2> QED
    BY <2>1, <2>5, <2>6, <2>7, <2>8 DEF LocalInv, SameThread
<1> QED
  BY <1>1, <1>2

LEMMA RustTryEffect ==
  ASSUME TypeOK, NEW t \in Threads, RustTry(t)
  PROVE  /\ sp'[t] = sp[t] + 2
         /\ \A d \in Depths : pc'[t][d] = IF d = sp[t] THEN "call" ELSE IF d = sp[t] + 1 THEN "tryBody"
                                          ELSE IF d = sp[t] + 2 THEN "run" ELSE pc[t][d]
         /\ \A u \in Threads : u # t => sp'[u] = sp[u] /\ pc'[u] = pc[u]
<1>0. /\ sp[t] \in Depths /\ sp[t] + 1 \in Depths /\ sp[t] + 2 \in Depths
  BY AtIsDepth, UnwindAssumption DEF RustTry, Depths
<1>1. pc' = [pc EXCEPT ![t] = [pc[t] EXCEPT ![sp[t]] = "call", ![sp[t] + 1] = "tryBody",
                                            ![sp[t] + 2] = "run"]]
  BY DEF RustTry, TypeOK
<1>2. pc[t] \in [Depths -> Places] /\ sp'[t] = sp[t] + 2
  BY DEF RustTry, TypeOK
<1>3. pc'[t] = [pc[t] EXCEPT ![sp[t]] = "call", ![sp[t] + 1] = "tryBody", ![sp[t] + 2] = "run"]
  BY <1>1 DEF TypeOK
<1>4. \A d \in Depths : pc'[t][d] = IF d = sp[t] THEN "call" ELSE IF d = sp[t] + 1 THEN "tryBody"
                                     ELSE IF d = sp[t] + 2 THEN "run" ELSE pc[t][d]
  <2> DEFINE row == pc[t]
  <2>1. DOMAIN row = Depths
    BY <1>2
  <2>2. sp[t] # sp[t] + 1 /\ sp[t] # sp[t] + 2 /\ sp[t] + 1 # sp[t] + 2
    BY <1>0 DEF Depths
  <2> HIDE DEF row
  <2> QED
    BY <1>0, <1>3, <2>1, <2>2 DEF row
<1>5. \A u \in Threads : u # t => pc'[u] = pc[u]
  <2>1. PICK row : pc' = [pc EXCEPT ![t] = row]
    BY <1>1
  <2> QED
    BY <2>1 DEF TypeOK
<1>6. \A u \in Threads : u # t => sp'[u] = sp[u]
  BY DEF RustTry, TypeOK
<1> QED
  BY <1>2, <1>4, <1>5, <1>6

(* __rust_try links its context and calls try_fn. *)
LEMMA RustTryKeeps ==
  ASSUME TypeOK, TypeOK', NEW t \in Threads, LocalInv(t), RustTry(t)
  PROVE  LocalInv(t)' /\ \A u \in Threads : u # t => SameThread(u)
<1> DEFINE c == sp[t] + 1
<1>1. /\ sp[t] \in Depths /\ pc[t][sp[t]] = "run"
      /\ c \in Depths /\ sp[t] + 2 \in Depths
  BY AtIsDepth, UnwindAssumption DEF RustTry, Depths
<1>2. /\ sp'[t] = sp[t] + 2
      /\ \A d \in Depths : pc'[t][d] = IF d = sp[t] THEN "call" ELSE IF d = c THEN "tryBody"
                                       ELSE IF d = sp[t] + 2 THEN "run" ELSE pc[t][d]
      /\ \A u \in Threads : u # t => sp'[u] = sp[u] /\ pc'[u] = pc[u]
  BY RustTryEffect
<1>3. Link(t, c, "tryBody") /\ exnPtr' = exnPtr /\ slot' = slot
  BY DEF RustTry
<1>4. /\ chain'[t] = c
      /\ ctx'[t][c] = [prev |-> chain[t], exn |-> NoExn, buf |-> LandingOf["tryBody"]]
      /\ \A d \in Depths : d # c => ctx'[t][d] = ctx[t][d]
      /\ \A u \in Threads : u # t => chain'[u] = chain[u] /\ ctx'[u] = ctx[u]
  BY <1>1, <1>3, LinkEffect
<1>5. ShapeOf(t)'
  BY <1>1, <1>2 DEF LocalInv, ShapeOf, Armed, Depths
<1>6. ChainOf(t)'
  <2>1. \A d \in Depths : d < c =>
          /\ pc'[t][d] \in LinkedPlaces <=> pc[t][d] \in LinkedPlaces
          /\ ctx'[t][d].prev = ctx[t][d].prev
    BY <1>1, <1>2, <1>4 DEF LinkedPlaces, Armed, Landings, Depths
  <2>2. \A d \in Depths : d > c => pc'[t][d] \notin LinkedPlaces
    BY <1>1, <1>2 DEF LocalInv, ShapeOf, LinkedPlaces, Armed, Landings, Depths
  <2>3. pc'[t][c] \in LinkedPlaces /\ c <= sp'[t]
    BY <1>1, <1>2 DEF LinkedPlaces, Armed, Depths
  <2>4. IsTop(pc[t], c - 1, ctx'[t][c].prev)
    BY <1>1, <1>4 DEF LocalInv, ChainOf, Depths
  <2> QED
    BY <1>1, <1>4, <2>1, <2>2, <2>3, <2>4, ChainAdd DEF LocalInv
<1>7. BuffersOf(t)'
  BY <1>1, <1>2, <1>4 DEF LocalInv, BuffersOf, Armed, Landings, Depths
<1>8. PayloadsOf(t)'
  BY <1>1, <1>2, <1>3, <1>4 DEF LocalInv, PayloadsOf, Landings, Depths
<1> QED
  BY <1>2, <1>3, <1>4, <1>5, <1>6, <1>7, <1>8 DEF LocalInv, SameThread

LEMMA LandTryEffect ==
  ASSUME TypeOK, NEW t \in Threads, LandTry(t)
  PROVE  /\ sp'[t] = sp[t] + 1
         /\ \A d \in Depths : pc'[t][d] = IF d = sp[t] THEN "catchFn"
                                          ELSE IF d = sp[t] + 1 THEN "run" ELSE pc[t][d]
         /\ \A u \in Threads : u # t => sp'[u] = sp[u] /\ pc'[u] = pc[u]
<1>0. sp[t] \in Depths /\ sp[t] + 1 \in Depths
  BY AtIsDepth, UnwindAssumption DEF LandTry, Depths
<1>1. pc' = [pc EXCEPT ![t] = [pc[t] EXCEPT ![sp[t]] = "catchFn", ![sp[t] + 1] = "run"]]
  BY DEF LandTry, TypeOK
<1>2. pc[t] \in [Depths -> Places] /\ sp'[t] = sp[t] + 1
  BY DEF LandTry, TypeOK
<1>3. pc'[t] = [pc[t] EXCEPT ![sp[t]] = "catchFn", ![sp[t] + 1] = "run"]
  BY <1>1 DEF TypeOK
<1>4. \A d \in Depths : pc'[t][d] = IF d = sp[t] THEN "catchFn"
                                     ELSE IF d = sp[t] + 1 THEN "run" ELSE pc[t][d]
  <2> DEFINE row == pc[t]
  <2>1. DOMAIN row = Depths
    BY <1>2
  <2>2. sp[t] # sp[t] + 1 /\ sp[t] # sp[t] + 2 /\ sp[t] + 1 # sp[t] + 2
    BY <1>0 DEF Depths
  <2> HIDE DEF row
  <2> QED
    BY <1>0, <1>3, <2>1, <2>2 DEF row
<1>5. \A u \in Threads : u # t => pc'[u] = pc[u]
  <2>1. PICK row : pc' = [pc EXCEPT ![t] = row]
    BY <1>1
  <2> QED
    BY <2>1 DEF TypeOK
<1>6. \A u \in Threads : u # t => sp'[u] = sp[u]
  BY DEF LandTry, TypeOK
<1> QED
  BY <1>2, <1>4, <1>5, <1>6

(* __rust_try after a longjmp: it unlinks its context and calls catch_fn. *)
LEMMA LandTryKeeps ==
  ASSUME TypeOK, TypeOK', NEW t \in Threads, LocalInv(t), LandTry(t)
  PROVE  LocalInv(t)' /\ \A u \in Threads : u # t => SameThread(u)
<1>1. /\ sp[t] \in Depths /\ pc[t][sp[t]] = "landTry" /\ sp[t] + 1 \in Depths
      /\ Unlink(t, sp[t]) /\ ctx' = ctx /\ exnPtr' = exnPtr
  BY AtIsDepth, UnwindAssumption DEF LandTry, Depths
<1>2. /\ sp'[t] = sp[t] + 1
      /\ \A d \in Depths : pc'[t][d] = IF d = sp[t] THEN "catchFn"
                                       ELSE IF d = sp[t] + 1 THEN "run" ELSE pc[t][d]
      /\ \A u \in Threads : u # t => sp'[u] = sp[u] /\ pc'[u] = pc[u]
  BY LandTryEffect
<1>3. /\ chain'[t] = ctx[t][sp[t]].prev
      /\ \A u \in Threads : u # t => chain'[u] = chain[u]
  BY <1>1, UnlinkEffect
<1>4. /\ slot'[t][sp[t]] = ctx[t][sp[t]].exn
      /\ \A d \in Depths : d # sp[t] => slot'[t][d] = slot[t][d]
      /\ \A u \in Threads : u # t => slot'[u] = slot[u]
  BY <1>1 DEF LandTry, TypeOK
<1>5. ShapeOf(t)'
  BY <1>1, <1>2 DEF LocalInv, ShapeOf, Armed, Depths
<1>6. ChainOf(t)'
  <2>1. \A d \in Depths : d <= sp[t] - 1 =>
          (pc'[t][d] \in LinkedPlaces <=> pc[t][d] \in LinkedPlaces)
    BY <1>1, <1>2 DEF Depths
  <2>2. \A d \in Depths : d > sp[t] - 1 => pc'[t][d] \notin LinkedPlaces
    BY <1>1, <1>2 DEF LocalInv, ShapeOf, LinkedPlaces, Armed, Landings, Depths
  <2>3. IsTop(pc[t], sp[t] - 1, chain'[t])
    <3>1. pc[t][sp[t]] \in LinkedPlaces
      BY <1>1 DEF LinkedPlaces, Landings
    <3> QED
      BY <1>1, <1>3, <3>1 DEF LocalInv, ChainOf
  <2>4. sp[t] - 1 \in 0 .. MaxDepth /\ sp[t] - 1 <= sp'[t]
    BY <1>1, <1>2, UnwindAssumption DEF Depths
  <2> QED
    BY <1>1, <2>1, <2>2, <2>3, <2>4, ChainCut DEF LocalInv
<1>7. BuffersOf(t)'
  BY <1>1, <1>2 DEF LocalInv, BuffersOf, Armed, Landings, Depths
<1>8. PayloadsOf(t)'
  BY <1>1, <1>2, <1>4 DEF LocalInv, PayloadsOf, Landings, Depths
<1> QED
  BY <1>1, <1>2, <1>3, <1>4, <1>5, <1>6, <1>7, <1>8 DEF LocalInv, SameThread

LEMMA ThreadExitKeeps ==
  ASSUME TypeOK, TypeOK', NEW t \in Threads, LocalInv(t), ThreadExit(t)
  PROVE  LocalInv(t)' /\ \A u \in Threads : u # t => SameThread(u)
<1>1. /\ sp[t] = 1 /\ 1 \in Depths /\ pc[t][1] = "run" /\ sp'[t] = 0
      /\ chain' = chain /\ ctx' = ctx /\ exnPtr' = exnPtr /\ slot' = slot
  BY AtIsDepth DEF ThreadExit, TypeOK
<1>2. /\ \A d \in Depths : pc'[t][d] = IF d = 1 THEN "dead" ELSE pc[t][d]
      /\ \A u \in Threads : u # t => sp'[u] = sp[u] /\ pc'[u] = pc[u]
  BY <1>1 DEF ThreadExit, TypeOK
<1>3. ShapeOf(t)'
  BY <1>1, <1>2 DEF LocalInv, ShapeOf, Depths
<1>4. ChainOf(t)'
  <2>1. \A d \in Depths : pc'[t][d] \notin LinkedPlaces
    BY <1>1, <1>2 DEF LocalInv, ShapeOf, LinkedPlaces, Armed, Landings, Depths
  <2>2. IsTop(pc[t], 0, chain[t])
    BY <1>1 DEF LocalInv, ChainOf, IsTop, LinkedPlaces, Armed, Landings, TypeOK, Depths
  <2>3. 0 \in 0 .. MaxDepth /\ 0 <= sp'[t] /\ \A d \in Depths : d > 0
    BY <1>1, UnwindAssumption DEF Depths
  <2> QED
    BY <1>1, <2>1, <2>2, <2>3, ChainCut DEF LocalInv, Depths
<1>5. BuffersOf(t)'
  BY <1>1, <1>2 DEF LocalInv, BuffersOf, Armed, Landings
<1>6. PayloadsOf(t)'
  BY <1>1, <1>2 DEF LocalInv, PayloadsOf, Landings
<1> QED
  BY <1>1, <1>2, <1>3, <1>4, <1>5, <1>6 DEF LocalInv, SameThread

(* A step keeps the invariant of its own thread and touches no other. *)
LEMMA StepLocal ==
  ASSUME IInv, NEW t \in Threads, Step(t)
  PROVE  /\ TypeOK /\ LocalInv(t) /\ TypeOK'
         /\ LocalInv(t)' /\ \A u \in Threads : u # t => SameThread(u)
<1>0. TypeOK /\ LocalInv(t) /\ TypeOK'
  BY StepTypes, LocalIInv
<1>1. CASE Call(t)
  BY <1>0, <1>1, CallKeeps
<1>2. CASE ReturnFromCall(t)
  BY <1>0, <1>2, PlainReturnKeeps DEF ReturnFromCall
<1>3. ASSUME NEW p \in {"invokeCleanup", "invokeAbort"}, Invoke(t, p)
      PROVE  LocalInv(t)' /\ \A u \in Threads : u # t => SameThread(u)
  BY <1>0, <1>3, GuardedCallKeeps DEF Invoke
<1>4. ASSUME NEW p \in {"invokeCleanup", "invokeAbort"}, ReturnFromInvoke(t, p)
      PROVE  LocalInv(t)' /\ \A u \in Threads : u # t => SameThread(u)
  <2>1. p \in Armed
    BY DEF Armed
  <2> QED
    BY <1>0, <1>4, <2>1, GuardedReturnKeeps DEF ReturnFromInvoke
<1>5. CASE DropInvoke(t)
  BY <1>0, <1>5, GuardedCallKeeps DEF DropInvoke
<1>6. CASE ReturnFromDrop(t)
  <2>1. "dropInvoke" \in Armed
    BY DEF Armed
  <2> QED
    BY <1>0, <1>6, <2>1, GuardedReturnKeeps DEF ReturnFromDrop
<1>7. CASE LandCleanup(t)
  BY <1>0, <1>7, LandKeeps DEF LandCleanup
<1>8. CASE LandAbort(t)
  BY <1>0, <1>8, LandKeeps DEF LandAbort
<1>9. CASE Terminate(t)
  <2>1. \A u \in Threads : SameThread(u)
    BY <1>9 DEF Terminate, SameThread
  <2> QED
    BY <1>0, <2>1, OtherThread
<1>10. CASE LandingPad(t)
  BY <1>0, <1>10, LandingPadKeeps
<1>11. CASE Resume(t)
  <2>1. sp[t] \in Depths /\ pc[t][sp[t]] = "cleanup"
    BY <1>0, <1>11, AtIsDepth DEF Resume
  <2>2. slot[t][sp[t]] \in Exn
    BY <1>0, <2>1 DEF LocalInv, PayloadsOf
  <2> QED
    BY <1>0, <1>11, <2>1, <2>2, UnwindKeeps DEF Resume
<1>12. CASE ThreadExit(t)
  BY <1>0, <1>12, ThreadExitKeeps
<1>13. ASSUME NEW e \in Exn, RaiseException(t, e)
       PROVE  LocalInv(t)' /\ \A u \in Threads : u # t => SameThread(u)
  <2>1. sp[t] \in Depths /\ pc[t][sp[t]] = "run"
    BY <1>0, <1>13, AtIsDepth DEF RaiseException
  <2> QED
    BY <1>0, <1>13, <2>1, UnwindKeeps DEF RaiseException
<1>14. CASE RustTry(t)
  BY <1>0, <1>14, RustTryKeeps
<1>15. CASE ReturnFromTryFn(t)
  <2>1. "tryBody" \in Armed
    BY DEF Armed
  <2> QED
    BY <1>0, <1>15, <2>1, GuardedReturnKeeps DEF ReturnFromTryFn
<1>16. CASE LandTry(t)
  BY <1>0, <1>16, LandTryKeeps
<1>17. CASE ReturnFromCatchFn(t)
  BY <1>0, <1>17, PlainReturnKeeps DEF ReturnFromCatchFn
<1> QED
  BY <1>0, <1>1, <1>2, <1>3, <1>4, <1>5, <1>6, <1>7, <1>8, <1>9, <1>10, <1>11, <1>12,
     <1>13, <1>14, <1>15, <1>16, <1>17 DEF Step

LEMMA StepKeeps ==
  ASSUME IInv, NEW t \in Threads, Step(t)
  PROVE  IInv'
<1>1. TypeOK' /\ LocalInv(t)' /\ \A u \in Threads : u # t => SameThread(u)
  BY StepLocal
<1>2. \A u \in Threads : LocalInv(u)'
  BY <1>1, OtherThread, LocalIInv
<1> QED
  BY <1>1, <1>2 DEF IInv, LocalInv, StackShape, ChainIsGuardedFrames, JumpBufferIsCurrent,
                    HandlersHoldThePayload

LEMMA InitIInv == Init => IInv
<1> SUFFICES ASSUME Init PROVE IInv
  OBVIOUS
<1>1. TypeOK
  BY InitTypes
<1>2. ASSUME NEW t \in Threads PROVE LocalInv(t)
  <2>1. /\ sp[t] = 1 /\ chain[t] = 0
        /\ \A d \in Depths : pc[t][d] = IF d = 1 THEN "run" ELSE "dead"
    BY DEF Init
  <2> QED
    BY <2>1, UnwindAssumption
    DEF LocalInv, ShapeOf, ChainOf, BuffersOf, PayloadsOf, IsTop, LinkedPlaces, Armed,
        Landings, Depths
<1> QED
  BY <1>1, <1>2, LocalIInv

(* The inductive invariant holds throughout. *)
THEOREM InvariantHolds == Spec => []IInv
<1>1. Init => IInv
  BY InitIInv
<1>2. IInv /\ [Next]_vars => IInv'
  <2> SUFFICES ASSUME IInv, [Next]_vars PROVE IInv'
    OBVIOUS
  <2>1. CASE UNCHANGED vars
    <3>1. TypeOK'
      BY <2>1 DEF vars, IInv, TypeOK
    <3>2. \A u \in Threads : LocalInv(u)'
      BY <2>1, LocalIInv, OtherThread DEF vars, SameThread
    <3> QED
      BY <3>1, <3>2 DEF IInv, LocalInv, StackShape, ChainIsGuardedFrames,
                        JumpBufferIsCurrent, HandlersHoldThePayload
  <2> QED
    BY <2>1, StepKeeps DEF Next
<1> QED
  BY <1>1, <1>2, PTL DEF Spec

(* __rustc_unwind_chain links exactly the contexts of the live frames that *)
(* are inside a guarded call, innermost first, for every number of threads *)
(* and every stack depth: no longjmp can reach a frame that has returned.  *)
THEOREM ChainCorrect == Spec => []ChainIsGuardedFrames
  BY InvariantHolds, PTL DEF IInv

(* The jump buffer on the chain is always the one of the current call: a   *)
(* function may use one __unwind_ctx for all of its invokes.               *)
THEOREM BuffersCorrect == Spec => []JumpBufferIsCurrent
  BY InvariantHolds, PTL DEF IInv

(* Every handler has the payload of the panic it handles. *)
THEOREM PayloadsCorrect == Spec => []HandlersHoldThePayload
  BY InvariantHolds, PTL DEF IInv

-----------------------------------------------------------------------------
(* Of the steps, only a longjmp shortens the stack by more than one frame. *)
LEMMA ShrinkIsUnwind ==
  ASSUME IInv, NEW t \in Threads, Step(t), NEW u \in Threads, NEW d \in Depths,
         sp'[u] < d, d < sp[u]
  PROVE  u = t /\ chain[t] # 0 /\ sp'[t] = chain[t]
<1>1. TypeOK /\ d \in Int /\ sp[u] \in Int /\ sp'[u] \in Int
  <2>1. TypeOK
    BY DEF IInv
  <2>2. TypeOK'
    BY <2>1, StepTypes
  <2>3. sp[u] \in 0 .. MaxDepth /\ sp'[u] \in 0 .. MaxDepth
    BY <2>1, <2>2 DEF TypeOK
  <2> QED BY <2>1, <2>3 DEF Depths
<1>2. CASE u = t /\ \E e : Unwind(t, e)
  BY <1>1, <1>2 DEF Unwind, TypeOK
<1>3. CASE sp' = sp
  BY <1>1, <1>3
<1>4. CASE u # t /\ \E n : sp' = [sp EXCEPT ![t] = n]
  BY <1>1, <1>4 DEF TypeOK
<1>5. CASE \E n \in {sp[t] - 1, sp[t] + 1, sp[t] + 2} : sp' = [sp EXCEPT ![t] = n]
  BY <1>1, <1>5 DEF TypeOK
<1>6. \/ \E e : Unwind(t, e)
      \/ sp' = sp
      \/ \E n \in {sp[t] - 1, sp[t] + 1, sp[t] + 2} : sp' = [sp EXCEPT ![t] = n]
  BY <1>1 DEF Step, Call, ReturnFromCall, Invoke, ReturnFromInvoke, DropInvoke,
       ReturnFromDrop, LandCleanup, LandAbort, Terminate, LandingPad, Resume, ThreadExit,
       RaiseException, RustTry, ReturnFromTryFn, LandTry, ReturnFromCatchFn, Push, Pop
<1>7. (\E e : Unwind(t, e)) => \E n : sp' = [sp EXCEPT ![t] = n]
  BY DEF Unwind, TypeOK, IInv
<1> QED
  BY <1>2, <1>3, <1>4, <1>5, <1>6, <1>7

(* No panic jumps over a frame that still guards a call, so no drop and no *)
(* catch_unwind is lost to a longjmp.                                      *)
THEOREM GuardsRespected == Spec => NoGuardSkipped
<1>1. IInv /\ [Next]_vars =>
        [\A t \in Threads : \A d \in Depths :
           sp'[t] < d /\ d < sp[t] => pc[t][d] \notin Armed]_vars
  <2> SUFFICES ASSUME IInv, Next, NEW u \in Threads, NEW d \in Depths,
                      sp'[u] < d, d < sp[u]
               PROVE  pc[u][d] \notin Armed
    OBVIOUS
  <2>1. PICK t \in Threads : Step(t)
    BY DEF Next
  <2>2. u = t /\ sp'[t] = chain[t]
    BY <2>1, ShrinkIsUnwind
  <2>3. IsTop(pc[t], sp[t], chain[t])
    BY DEF IInv, ChainIsGuardedFrames, ChainOf
  <2>4. d <= sp[t] /\ chain[t] < d
    BY <2>2 DEF IInv, TypeOK, Depths
  <2> QED
    BY <2>2, <2>3, <2>4 DEF IsTop, LinkedPlaces
<1> QED
  BY <1>1, InvariantHolds, PTL DEF Spec, NoGuardSkipped

-----------------------------------------------------------------------------
(* catch_unwind.                                                           *)

(* __rust_try, from the call of try_fn to its return. *)
TryPlaces == {"tryBody", "landTry", "catchFn", "tryDone"}

(* Its caller is in a plain call, and once its context is off the chain    *)
(* the prev field still holds what was the top when it was linked.         *)
TryOf(t) ==
  \A d \in Depths :
    /\ pc[t][d] \in TryPlaces => d - 1 \in Depths /\ pc[t][d - 1] = "call"
    /\ pc[t][d] \in {"catchFn", "tryDone"} => IsTop(pc[t], d - 1, ctx[t][d].prev)

TryInv == \A t \in Threads : TryOf(t)

(* Frame k moves, those below it stay and none above it is a __rust_try:   *)
(* if k itself was in one before, with its context on the chain or its     *)
(* context's prev known, then what TryOf says of it stays true.            *)
LEMMA TryKept ==
  ASSUME TypeOK, TypeOK', NEW t \in Threads, LocalInv(t), TryOf(t), NEW k \in Depths,
         \A d \in Depths : d < k => pc'[t][d] = pc[t][d] /\ ctx'[t][d].prev = ctx[t][d].prev,
         \A d \in Depths : d > k => pc'[t][d] \notin TryPlaces,
         pc'[t][k] \in TryPlaces =>
           pc[t][k] \in TryPlaces /\ ctx'[t][k].prev = ctx[t][k].prev
  PROVE  TryOf(t)'
<1> SUFFICES ASSUME NEW d \in Depths, pc'[t][d] \in TryPlaces
             PROVE  /\ d - 1 \in Depths /\ pc'[t][d - 1] = "call"
                    /\ pc'[t][d] \in {"catchFn", "tryDone"} => IsTop(pc'[t], d - 1, ctx'[t][d].prev)
  BY DEF TryOf, TryPlaces
<1>1. d <= k /\ pc[t][d] \in TryPlaces /\ ctx'[t][d].prev = ctx[t][d].prev
  BY DEF Depths
<1>2. d - 1 \in Depths /\ pc'[t][d - 1] = "call"
  BY <1>1 DEF TryOf, Depths
<1>3. IsTop(pc[t], d - 1, ctx[t][d].prev)
  <2>1. CASE pc[t][d] \in LinkedPlaces
    BY <2>1 DEF LocalInv, ChainOf
  <2>2. CASE pc[t][d] \in {"catchFn", "tryDone"}
    BY <2>2 DEF TryOf
  <2> QED BY <1>1, <2>1, <2>2 DEF TryPlaces, LinkedPlaces, Armed, Landings
<1>4. IsTop(pc'[t], d - 1, ctx'[t][d].prev)
  <2>1. d - 1 \in 0 .. MaxDepth /\ ctx[t][d].prev \in 0 .. MaxDepth
    BY UnwindAssumption DEF TypeOK, Contexts, Depths
  <2>2. \A x \in Depths : x <= d - 1 => pc'[t][x] = pc[t][x]
    BY <1>1 DEF Depths
  <2> QED BY <1>1, <1>3, <2>1, <2>2, TopKept
<1> QED BY <1>2, <1>4

LEMMA TryOther ==
  ASSUME NEW u \in Threads, TryOf(u), SameThread(u)
  PROVE  TryOf(u)'
  BY DEF TryOf, SameThread, IsTop

LEMMA TryStep ==
  ASSUME IInv, TryInv, NEW t \in Threads, Step(t)
  PROVE  TryInv'
<1>0. /\ TypeOK /\ LocalInv(t) /\ TypeOK' /\ LocalInv(t)' /\ TryOf(t)
      /\ \A u \in Threads : u # t => SameThread(u)
  BY StepLocal DEF TryInv
<1> SUFFICES TryOf(t)'
  BY <1>0, TryOther DEF TryInv
<1>1. \A d \in Depths : d > sp'[t] => pc'[t][d] = "dead"
  BY <1>0 DEF LocalInv, ShapeOf
<1>2. \A d \in Depths : d > sp[t] => pc[t][d] = "dead"
  BY <1>0 DEF LocalInv, ShapeOf
<1>3. ASSUME NEW p \in {"call", "invokeCleanup", "invokeAbort", "dropInvoke"},
             sp[t] \in Depths, Push(t, p, 1), ctx' = ctx \/ Link(t, sp[t], p)
      PROVE  TryOf(t)'
  <2>1. /\ sp[t] + 1 \in Depths /\ sp'[t] = sp[t] + 1
        /\ \A d \in Depths : pc'[t][d] = IF d = sp[t] THEN p
                                         ELSE IF d = sp[t] + 1 THEN "run" ELSE pc[t][d]
    BY <1>0, <1>3, PushEffect
  <2>2. \A d \in Depths : d # sp[t] => ctx'[t][d] = ctx[t][d]
    BY <1>0, <1>3, LinkEffect
  <2> QED BY <1>0, <1>2, <1>3, <2>1, <2>2, TryKept DEF TryPlaces, Depths
<1>4. ASSUME NEW p, NEW q, Pop(t, p, q), ctx' = ctx,
             q \in {"run", "cleanup"} \/ p \in {"tryBody", "catchFn"}
      PROVE  TryOf(t)'
  <2>1. /\ sp[t] \in Depths /\ sp[t] - 1 \in Depths /\ pc[t][sp[t] - 1] = p
        /\ \A d \in Depths : pc'[t][d] = IF d = sp[t] - 1 THEN q
                                         ELSE IF d = sp[t] THEN "dead" ELSE pc[t][d]
    BY <1>0, <1>4, PopEffect
  <2>2. \A d \in Depths : d > sp[t] - 1 => pc'[t][d] = "dead"
    BY <1>2, <2>1 DEF Depths
  <2> QED BY <1>0, <1>4, <2>1, <2>2, TryKept DEF TryPlaces, Depths
<1>5. ASSUME NEW e, sp[t] \in Depths, pc[t][sp[t]] \in {"run", "cleanup"}, Unwind(t, e)
      PROVE  TryOf(t)'
  <2>1. CASE chain[t] = 0
    BY <1>0, <1>5, <2>1 DEF Unwind, TryOf, IsTop
  <2>2. CASE chain[t] # 0
    <3> DEFINE h == chain[t]
    <3>1. /\ h \in Depths
          /\ \A d \in Depths : pc'[t][d] = IF d < h THEN pc[t][d]
                                           ELSE IF d = h THEN ctx[t][d].buf ELSE "dead"
          /\ \A d \in Depths : ctx'[t][d].prev = ctx[t][d].prev
      BY <1>0, <1>5, <2>2, UnwindEffect
    <3>2. pc[t][h] \in LinkedPlaces
      BY <1>0, <2>2 DEF LocalInv, ChainOf, IsTop
    <3>3. ctx[t][h].buf \in TryPlaces => pc[t][h] \in TryPlaces
      BY <1>0, <3>1, <3>2, LandingFacts
      DEF LocalInv, BuffersOf, LinkedPlaces, Armed, Landings, TryPlaces
    <3> HIDE DEF h
    <3> QED BY <1>0, <3>1, <3>3, TryKept DEF TryPlaces, Depths
  <2> QED BY <2>1, <2>2
<1>6. CASE Call(t) \/ DropInvoke(t) \/ \E p \in {"invokeCleanup", "invokeAbort"} : Invoke(t, p)
  BY <1>0, <1>3, <1>6, AtIsDepth DEF Call, DropInvoke, Invoke
<1>7. CASE \/ ReturnFromCall(t) \/ ReturnFromDrop(t) \/ ReturnFromTryFn(t)
           \/ ReturnFromCatchFn(t)
           \/ \E p \in {"invokeCleanup", "invokeAbort"} : ReturnFromInvoke(t, p)
  BY <1>4, <1>7 DEF ReturnFromCall, ReturnFromDrop, ReturnFromTryFn, ReturnFromCatchFn,
                    ReturnFromInvoke
<1>8. CASE LandCleanup(t) \/ LandAbort(t) \/ LandingPad(t)
  <2>1. /\ sp[t] \in Depths /\ ctx' = ctx
        /\ \E p \in {"pad", "terminate", "cleanup"} : pc' = [pc EXCEPT ![t][sp[t]] = p]
    BY <1>0, <1>8, AtIsDepth DEF LandCleanup, LandAbort, LandingPad
  <2>2. /\ pc'[t][sp[t]] \in {"pad", "terminate", "cleanup"}
        /\ \A d \in Depths : d # sp[t] => pc'[t][d] = pc[t][d]
    BY <1>0, <2>1 DEF TypeOK
  <2> QED BY <1>0, <1>2, <2>1, <2>2, TryKept DEF TryPlaces, Depths
<1>9. CASE Terminate(t)
  BY <1>0, <1>9 DEF Terminate, TryOf, IsTop
<1>10. CASE Resume(t) \/ \E e \in Exn : RaiseException(t, e)
  BY <1>0, <1>5, <1>10, AtIsDepth DEF Resume, RaiseException
<1>11. CASE ThreadExit(t)
  <2>1. 1 \in Depths /\ pc'[t][1] = "dead" /\ ctx' = ctx
        /\ \A d \in Depths : d # 1 => pc'[t][d] = pc[t][d]
    BY <1>0, <1>11, AtIsDepth DEF ThreadExit, TypeOK
  <2> QED BY <1>0, <1>2, <1>11, <2>1, TryKept DEF ThreadExit, TryPlaces, Depths
<1>12. CASE RustTry(t)
  <2>1. /\ sp[t] \in Depths /\ sp[t] + 1 \in Depths /\ sp[t] + 2 \in Depths
    BY <1>0, <1>12, AtIsDepth, UnwindAssumption DEF RustTry, Depths
  <2>2. \A d \in Depths : pc'[t][d] = IF d = sp[t] THEN "call"
                                      ELSE IF d = sp[t] + 1 THEN "tryBody"
                                      ELSE IF d = sp[t] + 2 THEN "run" ELSE pc[t][d]
    BY <1>0, <1>12, RustTryEffect
  <2>3. \A d \in Depths : d # sp[t] + 1 => ctx'[t][d] = ctx[t][d]
    BY <1>0, <1>12, <2>1, LinkEffect DEF RustTry
  <2>4. ASSUME NEW d \in Depths, pc'[t][d] \in TryPlaces, d # sp[t] + 1
        PROVE  /\ d - 1 \in Depths /\ pc'[t][d - 1] = "call"
               /\ pc'[t][d] \in {"catchFn", "tryDone"} => IsTop(pc'[t], d - 1, ctx'[t][d].prev)
    <3>1. d < sp[t] /\ pc'[t][d] = pc[t][d] /\ ctx'[t][d] = ctx[t][d]
      BY <1>2, <2>1, <2>2, <2>3, <2>4 DEF TryPlaces, Depths
    <3>2. d - 1 \in Depths /\ pc'[t][d - 1] = "call"
      <4>1. d - 1 \in Depths /\ pc[t][d - 1] = "call"
        BY <1>0, <2>4, <3>1 DEF TryOf
      <4>2. d - 1 # sp[t] /\ d - 1 # sp[t] + 1 /\ d - 1 # sp[t] + 2
        BY <2>1, <3>1 DEF Depths
      <4> QED BY <2>2, <4>1, <4>2
    <3>3. \A x \in Depths : x <= d - 1 => pc'[t][x] = pc[t][x]
      BY <2>1, <2>2, <3>1 DEF Depths
    <3>4. d - 1 \in 0 .. MaxDepth /\ ctx[t][d].prev \in 0 .. MaxDepth
      BY <1>0, UnwindAssumption DEF TypeOK, Contexts, Depths
    <3>5. pc[t][d] \in {"catchFn", "tryDone"} => IsTop(pc[t], d - 1, ctx[t][d].prev)
      BY <1>0 DEF TryOf
    <3> QED BY <3>1, <3>2, <3>3, <3>4, <3>5, TopKept
  <2>5. pc'[t][sp[t] + 1] = "tryBody" /\ pc'[t][sp[t]] = "call"
    BY <2>1, <2>2 DEF Depths
  <2>7. pc'[t][sp[t] + 1] \notin {"catchFn", "tryDone"}
    BY <2>5
  <2>8. ASSUME NEW d \in Depths
        PROVE  /\ pc'[t][d] \in TryPlaces => d - 1 \in Depths /\ pc'[t][d - 1] = "call"
               /\ pc'[t][d] \in {"catchFn", "tryDone"} => IsTop(pc'[t], d - 1, ctx'[t][d].prev)
    <3>1. CASE d = sp[t] + 1
      <4>1. d - 1 = sp[t]
        BY <2>1, <3>1 DEF Depths
      <4> QED BY <2>1, <2>5, <2>7, <3>1, <4>1
    <3>2. CASE d # sp[t] + 1
      BY <2>4, <3>2 DEF TryPlaces
    <3> QED BY <3>1, <3>2
  <2> QED BY <2>8 DEF TryOf
<1>13. CASE LandTry(t)
  <2>1. /\ sp[t] \in Depths /\ pc[t][sp[t]] = "landTry" /\ ctx' = ctx /\ sp[t] + 1 \in Depths
    BY <1>0, <1>13, AtIsDepth, UnwindAssumption DEF LandTry, Depths
  <2>2. \A d \in Depths : pc'[t][d] = IF d = sp[t] THEN "catchFn"
                                      ELSE IF d = sp[t] + 1 THEN "run" ELSE pc[t][d]
    BY <1>0, <1>13, LandTryEffect
  <2> QED BY <1>0, <1>2, <2>1, <2>2, TryKept DEF TryPlaces, Depths
<1> QED
  BY <1>6, <1>7, <1>8, <1>9, <1>10, <1>11, <1>12, <1>13 DEF Step

(* The innermost linked frame is unique. *)
LEMMA TopUnique ==
  ASSUME NEW row, NEW n \in 0 .. MaxDepth, NEW a \in 0 .. MaxDepth, NEW b \in 0 .. MaxDepth,
         IsTop(row, n, a), IsTop(row, n, b)
  PROVE  a = b
  BY UnwindAssumption DEF IsTop, Depths

(* A step that takes a __rust_try at tryDone off the stack returns from it *)
(* to a plain call, which leaves the chain alone.                          *)
LEMMA TryReturn ==
  ASSUME IInv, TryInv, NEW t \in Threads, Step(t), NEW u \in Threads, NEW d \in Depths,
         pc[u][d] = "tryDone", pc'[u][d] = "dead", sp'[u] = d - 1
  PROVE  chain'[u] = ctx[u][d].prev
<1>0. /\ TypeOK /\ LocalInv(t) /\ TypeOK' /\ LocalInv(u)
      /\ \A v \in Threads : v # t => SameThread(v)
  BY StepLocal, LocalIInv
<1>1. u = t
  BY <1>0 DEF SameThread
<1>2. d - 1 \in Depths /\ pc[t][d - 1] = "call" /\ IsTop(pc[t], d - 1, ctx[t][d].prev)
  BY <1>1 DEF TryInv, TryOf, TryPlaces
<1>3. d = sp[t]
  <2>1. d \in Int /\ sp[t] \in Int
    BY <1>0 DEF TypeOK, Depths
  <2>2. ~(d > sp[t]) /\ ~(d < sp[t])
    BY <1>0, <1>1 DEF LocalInv, ShapeOf, Armed
  <2> QED BY <2>1, <2>2
<1>4. IsTop(pc[t], d - 1, chain[t])
  <2>1. IsTop(pc[t], d, chain[t]) /\ chain[t] \in 0 .. MaxDepth
    BY <1>0, <1>3 DEF LocalInv, ChainOf, TypeOK
  <2>2. pc[t][d] \notin LinkedPlaces
    BY <1>1 DEF LinkedPlaces, Armed, Landings
  <2> QED BY <2>1, <2>2, TopExtend
<1>5. chain[t] = ctx[t][d].prev
  <2>1. chain[t] \in 0 .. MaxDepth /\ ctx[t][d].prev \in 0 .. MaxDepth /\ d - 1 \in 0 .. MaxDepth
    <3>1. chain[t] \in 0 .. MaxDepth /\ ctx[t][d] \in Contexts
      BY <1>0 DEF TypeOK
    <3> QED BY <1>2, <3>1, UnwindAssumption DEF Contexts, Depths
  <2> QED BY <1>2, <1>4, <2>1, TopUnique
<1>6. chain' = chain
  <2>1. \A p : ~At(t, p) \/ p = "tryDone"
    BY <1>1, <1>3 DEF At
  <2>2. \A p, q : Pop(t, p, q) => p = "call"
    BY <1>2, <1>3 DEF Pop
  <2> QED
    BY <2>1, <2>2 DEF Step, Call, ReturnFromCall, Invoke, ReturnFromInvoke, DropInvoke,
       ReturnFromDrop, LandCleanup, LandAbort, Terminate, LandingPad, Resume, ThreadExit,
       RaiseException, RustTry, ReturnFromTryFn, LandTry, ReturnFromCatchFn
<1> QED BY <1>1, <1>5, <1>6

(* catch_unwind leaves the chain as it found it, whatever happened inside. *)
THEOREM TryTransparent == Spec => TryRestoresChain
<1>1. Init => TryInv
  BY DEF Init, TryInv, TryOf, TryPlaces
<1>2. IInv /\ TryInv /\ [Next]_vars => TryInv'
  <2> SUFFICES ASSUME IInv, TryInv, [Next]_vars PROVE TryInv'
    OBVIOUS
  <2>1. CASE UNCHANGED vars
    BY <2>1, TryOther DEF vars, TryInv, SameThread
  <2> QED BY <2>1, TryStep DEF Next
<1>3. IInv /\ TryInv /\ [Next]_vars =>
        [\A t \in Threads : \A d \in Depths :
           pc[t][d] = "tryDone" /\ pc'[t][d] = "dead" /\ sp'[t] = d - 1
             => chain'[t] = ctx[t][d].prev]_vars
  BY TryReturn DEF Next
<1> QED BY <1>1, <1>2, <1>3, InvariantHolds, PTL DEF Spec, TryRestoresChain

-----------------------------------------------------------------------------
(* The refinement of RustUnwind.                                           *)

(* The refinement mapping's functions, as module UnwindChain gives them.   *)
GuardBar == [t \in Threads |-> [d \in Depths |-> Guard(pc[t][d])]]
DoingBar == [t \in Threads |-> [d \in Depths |-> Doing(pc[t][d])]]
PayloadBar == [t \in Threads |-> [d \in Depths |-> Payload(t, d)]]

(* A step of thread t changes the rows of t only. *)
LEMMA OtherRows ==
  ASSUME NEW t \in Threads, \A u \in Threads : u # t => SameThread(u)
  PROVE  \A u \in Threads : u # t =>
           pc'[u] = pc[u] /\ \A d \in Depths : Payload(u, d)' = Payload(u, d)
<1>1. ASSUME NEW u \in Threads, u # t
      PROVE  pc'[u] = pc[u] /\ \A d \in Depths : Payload(u, d)' = Payload(u, d)
  <2>1. SameThread(u)
    BY <1>1
  <2> QED BY <2>1 DEF SameThread, Payload
<1> QED BY <1>1

LEMMA RowsMove ==
  ASSUME NEW t \in Threads, \A u \in Threads : u # t => SameThread(u)
  PROVE  /\ GuardBar' = [GuardBar EXCEPT ![t] = GuardBar'[t]]
         /\ DoingBar' = [DoingBar EXCEPT ![t] = DoingBar'[t]]
         /\ PayloadBar' = [PayloadBar EXCEPT ![t] = PayloadBar'[t]]
         /\ GuardBar'[t] = GuardBar[t] => GuardBar' = GuardBar
         /\ DoingBar'[t] = DoingBar[t] => DoingBar' = DoingBar
         /\ PayloadBar'[t] = PayloadBar[t] => PayloadBar' = PayloadBar
<1>1. \A u \in Threads : u # t =>
        /\ GuardBar'[u] = GuardBar[u]
        /\ DoingBar'[u] = DoingBar[u]
        /\ PayloadBar'[u] = PayloadBar[u]
  BY OtherRows DEF GuardBar, DoingBar, PayloadBar
<1>2. /\ GuardBar' = [GuardBar EXCEPT ![t] = GuardBar'[t]]
      /\ GuardBar'[t] = GuardBar[t] => GuardBar' = GuardBar
  BY <1>1 DEF GuardBar
<1>3. /\ DoingBar' = [DoingBar EXCEPT ![t] = DoingBar'[t]]
      /\ DoingBar'[t] = DoingBar[t] => DoingBar' = DoingBar
  BY <1>1 DEF DoingBar
<1>4. /\ PayloadBar' = [PayloadBar EXCEPT ![t] = PayloadBar'[t]]
      /\ PayloadBar'[t] = PayloadBar[t] => PayloadBar' = PayloadBar
  BY <1>1 DEF PayloadBar
<1> QED BY <1>2, <1>3, <1>4

(* A call, plain or guarded, from a frame that runs or cleans up. *)
LEMMA CallRefines ==
  ASSUME TypeOK, NEW t \in Threads, LocalInv(t), \A u \in Threads : u # t => SameThread(u),
         NEW q \in {"run", "cleanup"}, At(t, q),
         NEW p \in {"call", "invokeCleanup", "invokeAbort", "dropInvoke"},
         q = "cleanup" <=> p = "dropInvoke",
         Push(t, p, 1),
         UNCHANGED <<exnPtr, slot, aborted>>,
         \A d \in Depths : d # sp[t] => ctx'[t][d] = ctx[t][d]
  PROVE  Rust!Call(t)
<1> DEFINE c == sp[t]
<1>1. c \in Depths /\ pc[t][c] = q
  BY AtIsDepth
<1>2. /\ c + 1 \in Depths
      /\ sp'[t] = c + 1
      /\ \A d \in Depths : pc'[t][d] = IF d = c THEN p
                                       ELSE IF d = c + 1 THEN "run" ELSE pc[t][d]
  BY <1>1, PushEffect
<1>3. pc[t][c + 1] = "dead"
  BY <1>1, <1>2 DEF LocalInv, ShapeOf, Depths
<1>4. \A d \in Depths : Guard(pc[t][d])' = IF d = c THEN Guard(p) ELSE Guard(pc[t][d])
  BY <1>1, <1>2, <1>3 DEF Guard
<1>5. \A d \in Depths : Doing(pc[t][d])' = Doing(pc[t][d])
  BY <1>1, <1>2, <1>3 DEF Doing
<1>6. \A d \in Depths : Payload(t, d)' = Payload(t, d)
  BY <1>1, <1>2, <1>3 DEF Payload, Landings
<1>7. /\ GuardBar' = [GuardBar EXCEPT ![t][c] = Guard(p)]
      /\ DoingBar' = DoingBar
      /\ PayloadBar' = PayloadBar
  <2>1. GuardBar'[t] = [GuardBar[t] EXCEPT ![c] = Guard(p)]
    BY <1>4 DEF GuardBar
  <2>2. DoingBar'[t] = DoingBar[t] /\ PayloadBar'[t] = PayloadBar[t]
    BY <1>5, <1>6 DEF DoingBar, PayloadBar
  <2> QED BY <2>1, <2>2, RowsMove
<1>8. sp' = [sp EXCEPT ![t] = c + 1]
  BY DEF Push
<1>9. Guard(p) \in {"none", "cleanup", "abort"} /\ (q = "cleanup" => Guard(p) = "abort")
  BY DEF Guard
<1>10. DoingBar[t][c] \in {"none", "cleanup"} /\ (DoingBar[t][c] = "cleanup" => q = "cleanup")
  BY <1>1 DEF DoingBar, Doing
<1>11. c + 1 <= MaxDepth
  BY <1>2, UnwindAssumption DEF Depths
<1> QED
  BY <1>1, <1>7, <1>8, <1>9, <1>10, <1>11
  DEF Rust!Call, Rust!Enter, Rust!Depths, Depths, GuardBar, DoingBar, PayloadBar

(* The contract's return, in terms of the mapped rows. *)
LEMMA ReturnMapped ==
  ASSUME NEW t \in Threads, \A u \in Threads : u # t => SameThread(u),
         NEW c \in Depths, sp[t] = c, DoingBar[t][c] = "none",
         sp' = [sp EXCEPT ![t] = c - 1], UNCHANGED aborted,
         GuardBar'[t] = [d \in Depths |-> IF d = c - 1 THEN "none" ELSE GuardBar[t][d]],
         DoingBar'[t] = [d \in Depths |-> IF d = c - 1 /\ DoingBar[t][d] = "catch"
                                          THEN "none" ELSE DoingBar[t][d]],
         PayloadBar'[t] = [d \in Depths |-> IF d = c - 1 /\ DoingBar[t][d] = "catch"
                                            THEN NoExn ELSE PayloadBar[t][d]]
  PROVE  Rust!Return(t)
<1>1. GuardBar' = [GuardBar EXCEPT ![t] = [d \in Depths |-> IF d = c - 1 THEN "none" ELSE @[d]]]
  BY RowsMove
<1>2. DoingBar' = [DoingBar EXCEPT ![t] =
        [d \in Depths |-> IF d = c - 1 /\ DoingBar[t][d] = "catch" THEN "none" ELSE @[d]]]
  BY RowsMove
<1>3. PayloadBar' = [PayloadBar EXCEPT ![t] =
        [d \in Depths |-> IF d = c - 1 /\ DoingBar[t][d] = "catch" THEN NoExn ELSE @[d]]]
  BY RowsMove
<1> QED
  BY <1>1, <1>2, <1>3 DEF Rust!Return, Rust!Depths, Depths, GuardBar, DoingBar, PayloadBar

(* A return: the caller goes on, a catcher has handled its panic. *)
LEMMA ReturnRefines ==
  ASSUME TypeOK, NEW t \in Threads, LocalInv(t), \A u \in Threads : u # t => SameThread(u),
         NEW p, NEW q,
         \/ p = "call" /\ q = "run"
         \/ p = "invokeCleanup" /\ q = "run"
         \/ p = "invokeAbort" /\ q = "run"
         \/ p = "dropInvoke" /\ q = "cleanup"
         \/ p = "tryBody" /\ q = "tryDone"
         \/ p = "catchFn" /\ q = "tryDone",
         Pop(t, p, q),
         UNCHANGED <<ctx, exnPtr, slot, aborted>>
  PROVE  Rust!Return(t)
<1> DEFINE c == sp[t]
<1>1. /\ c \in Depths /\ c - 1 \in Depths
      /\ pc[t][c] \in {"run", "tryDone"} /\ pc[t][c - 1] = p
      /\ \A d \in Depths : pc'[t][d] = IF d = c - 1 THEN q
                                       ELSE IF d = c THEN "dead" ELSE pc[t][d]
  BY PopEffect
<1>2. \A d \in Depths : Guard(pc[t][d])' = IF d = c - 1 THEN "none" ELSE Guard(pc[t][d])
  BY <1>1 DEF Guard
<1> DEFINE caught(d) == d = c - 1 /\ Doing(pc[t][d]) = "catch"
<1>3. \A d \in Depths : Doing(pc[t][d])' = IF caught(d) THEN "none" ELSE Doing(pc[t][d])
  BY <1>1 DEF Doing
<1>4. \A d \in Depths : Payload(t, d)' = IF caught(d) THEN NoExn ELSE Payload(t, d)
  BY <1>1 DEF Payload, Doing, Landings
<1>5. GuardBar'[t] = [d \in Depths |-> IF d = c - 1 THEN "none" ELSE GuardBar[t][d]]
  BY <1>2 DEF GuardBar
<1>6. DoingBar'[t] = [d \in Depths |-> IF d = c - 1 /\ DoingBar[t][d] = "catch"
                                       THEN "none" ELSE DoingBar[t][d]]
  BY <1>3 DEF DoingBar
<1>7. PayloadBar'[t] = [d \in Depths |-> IF d = c - 1 /\ DoingBar[t][d] = "catch"
                                         THEN NoExn ELSE PayloadBar[t][d]]
  BY <1>4 DEF DoingBar, PayloadBar
<1>8. DoingBar[t][c] = "none"
  BY <1>1 DEF DoingBar, Doing
<1>9. sp' = [sp EXCEPT ![t] = c - 1]
  BY DEF Pop
<1> QED
  BY <1>1, <1>5, <1>6, <1>7, <1>8, <1>9, ReturnMapped

(* The thread's first frame returns. *)
LEMMA ExitRefines ==
  ASSUME TypeOK, NEW t \in Threads, LocalInv(t), \A u \in Threads : u # t => SameThread(u),
         ThreadExit(t)
  PROVE  Rust!Return(t)
<1>1. /\ sp[t] = 1 /\ 1 \in Depths /\ pc[t][1] = "run"
      /\ \A d \in Depths : pc'[t][d] = IF d = 1 THEN "dead" ELSE pc[t][d]
  BY AtIsDepth DEF ThreadExit, TypeOK
<1>2. \A d \in Depths : d # 1 - 1
  BY DEF Depths
<1>3. /\ \A d \in Depths : Guard(pc[t][d])' = Guard(pc[t][d])
      /\ \A d \in Depths : Doing(pc[t][d])' = Doing(pc[t][d])
  BY <1>1 DEF Guard, Doing
<1>4. \A d \in Depths : Payload(t, d)' = Payload(t, d)
  BY <1>1 DEF ThreadExit, Payload, Landings
<1>5. GuardBar'[t] = [d \in Depths |-> IF d = 1 - 1 THEN "none" ELSE GuardBar[t][d]]
  BY <1>2, <1>3 DEF GuardBar
<1>6. DoingBar'[t] = [d \in Depths |-> IF d = 1 - 1 /\ DoingBar[t][d] = "catch"
                                       THEN "none" ELSE DoingBar[t][d]]
  BY <1>2, <1>3 DEF DoingBar
<1>7. PayloadBar'[t] = [d \in Depths |-> IF d = 1 - 1 /\ DoingBar[t][d] = "catch"
                                         THEN NoExn ELSE PayloadBar[t][d]]
  BY <1>2, <1>4 DEF PayloadBar
<1>8. DoingBar[t][1] = "none"
  BY <1>1 DEF DoingBar, Doing
<1>9. sp' = [sp EXCEPT ![t] = 1 - 1] /\ UNCHANGED aborted
  BY DEF ThreadExit
<1> QED
  BY <1>1, <1>5, <1>6, <1>7, <1>8, <1>9, ReturnMapped

(* __rust_try and the closure it calls. *)
LEMMA CatchRefines ==
  ASSUME TypeOK, NEW t \in Threads, LocalInv(t), \A u \in Threads : u # t => SameThread(u),
         RustTry(t)
  PROVE  Rust!CatchUnwind(t)
<1> DEFINE c == sp[t]
<1>1. /\ c \in Depths /\ pc[t][c] = "run"
      /\ c + 1 \in Depths /\ c + 2 \in Depths /\ c + 2 <= MaxDepth
  BY AtIsDepth, UnwindAssumption DEF RustTry, Depths
<1>2. \A d \in Depths : pc'[t][d] = IF d = c THEN "call" ELSE IF d = c + 1 THEN "tryBody"
                                    ELSE IF d = c + 2 THEN "run" ELSE pc[t][d]
  BY RustTryEffect
<1>3. pc[t][c + 1] = "dead" /\ pc[t][c + 2] = "dead"
  BY <1>1 DEF LocalInv, ShapeOf, Depths
<1>4. \A d \in Depths : Guard(pc[t][d])' = IF d = c + 1 THEN "catch" ELSE Guard(pc[t][d])
  BY <1>1, <1>2, <1>3 DEF Guard, Depths
<1>5. \A d \in Depths : Doing(pc[t][d])' = Doing(pc[t][d])
  BY <1>1, <1>2, <1>3 DEF Doing, Depths
<1>6. \A d \in Depths : Payload(t, d)' = Payload(t, d)
  <2>1. \A d \in Depths : d # c + 1 => ctx'[t][d] = ctx[t][d]
    <3>1. PICK k \in Depths : k = c + 1
      BY <1>1
    <3>2. Link(t, k, "tryBody")
      BY <3>1 DEF RustTry
    <3>3. \A d \in Depths : d # k => ctx'[t][d] = ctx[t][d]
      BY <3>2, LinkEffect
    <3> QED BY <3>1, <3>3
  <2>2. exnPtr' = exnPtr /\ slot' = slot
    BY DEF RustTry
  <2> QED BY <1>1, <1>2, <1>3, <2>1, <2>2 DEF Payload, Landings, Depths
<1>7. GuardBar'[t] = [GuardBar[t] EXCEPT ![c + 1] = "catch"]
  BY <1>4 DEF GuardBar
<1>8. DoingBar'[t] = DoingBar[t] /\ PayloadBar'[t] = PayloadBar[t]
  BY <1>5, <1>6 DEF DoingBar, PayloadBar
<1>9. DoingBar[t][c] = "none"
  BY <1>1 DEF DoingBar, Doing
<1>10. sp' = [sp EXCEPT ![t] = c + 2] /\ UNCHANGED aborted
  BY DEF RustTry
<1>11. /\ GuardBar' = [GuardBar EXCEPT ![t][c + 1] = "catch"]
       /\ DoingBar' = DoingBar /\ PayloadBar' = PayloadBar
  BY <1>7, <1>8, RowsMove
<1> QED
  BY <1>1, <1>9, <1>10, <1>11
  DEF Rust!CatchUnwind, Rust!Depths, Depths, GuardBar, DoingBar, PayloadBar

(* catch_fn runs. *)
LEMMA HandlerRefines ==
  ASSUME TypeOK, NEW t \in Threads, LocalInv(t), \A u \in Threads : u # t => SameThread(u),
         LandTry(t)
  PROVE  Rust!RunCatchHandler(t)
<1> DEFINE c == sp[t]
<1>1. c \in Depths /\ pc[t][c] = "landTry" /\ c + 1 \in Depths /\ c + 1 <= MaxDepth
  BY AtIsDepth, UnwindAssumption DEF LandTry, Depths
<1>2. \A d \in Depths : pc'[t][d] = IF d = c THEN "catchFn" ELSE IF d = c + 1 THEN "run"
                                    ELSE pc[t][d]
  BY LandTryEffect
<1>3. pc[t][c + 1] = "dead"
  BY <1>1 DEF LocalInv, ShapeOf, Depths
<1>4. /\ \A d \in Depths : Guard(pc[t][d])' = Guard(pc[t][d])
      /\ \A d \in Depths : Doing(pc[t][d])' = Doing(pc[t][d])
  BY <1>1, <1>2, <1>3 DEF Guard, Doing, Depths
<1>5. \A d \in Depths : Payload(t, d)' = Payload(t, d)
  <2>1. /\ slot'[t][c] = ctx[t][c].exn
        /\ \A d \in Depths : d # c => slot'[t][d] = slot[t][d]
    BY <1>1 DEF LandTry, TypeOK
  <2>2. exnPtr' = exnPtr /\ ctx' = ctx
    BY DEF LandTry
  <2> QED BY <1>1, <1>2, <1>3, <2>1, <2>2 DEF Payload, Landings, Depths
<1>6. GuardBar[t][c] = "none" /\ DoingBar[t][c] = "catch"
  BY <1>1 DEF GuardBar, DoingBar, Guard, Doing
<1>7. GuardBar'[t] = GuardBar[t] /\ DoingBar'[t] = DoingBar[t] /\ PayloadBar'[t] = PayloadBar[t]
  BY <1>4, <1>5 DEF GuardBar, DoingBar, PayloadBar
<1>8. GuardBar' = GuardBar /\ DoingBar' = DoingBar /\ PayloadBar' = PayloadBar
  BY <1>7, RowsMove
<1>9. GuardBar' = [GuardBar EXCEPT ![t][c] = "none"]
  BY <1>1, <1>6, <1>8 DEF GuardBar
<1>10. sp' = [sp EXCEPT ![t] = c + 1] /\ UNCHANGED aborted
  BY DEF LandTry
<1> QED
  BY <1>1, <1>6, <1>8, <1>9, <1>10
  DEF Rust!RunCatchHandler, Rust!Enter, Rust!Depths, Depths, GuardBar, DoingBar, PayloadBar

(* The longjmp: the top of the chain is the innermost guarded frame, and   *)
(* its jump buffer leads to the handler of its guard.                      *)
LEMMA UnwindRefines ==
  ASSUME TypeOK, NEW t \in Threads, LocalInv(t), \A u \in Threads : u # t => SameThread(u),
         NEW e, sp[t] \in Depths, pc[t][sp[t]] \in {"run", "cleanup"},
         Unwind(t, e), UNCHANGED <<chain, exnPtr, slot>>
  PROVE  Rust!Propagate(t, sp[t], e)
<1>1. IsTop(pc[t], sp[t], chain[t]) /\ chain[t] \in 0 .. MaxDepth
  BY DEF LocalInv, ChainOf, TypeOK
<1>2. CASE chain[t] = 0
  <2>1. \A d \in Depths : d <= sp[t] => GuardBar[t][d] = "none"
    BY <1>1, <1>2 DEF IsTop, LinkedPlaces, Armed, GuardBar, Guard, Depths
  <2>2. Rust!Unguarded(t, sp[t])
    BY <2>1 DEF Rust!Unguarded, Rust!Depths, Depths, GuardBar
  <2>3. aborted' = TRUE /\ UNCHANGED <<sp, pc, ctx>>
    BY <1>2 DEF Unwind
  <2>4. GuardBar' = GuardBar /\ DoingBar' = DoingBar
    BY <2>3 DEF GuardBar, DoingBar
  <2>5. PayloadBar' = PayloadBar
    BY <2>3 DEF PayloadBar, Payload
  <2> QED
    BY <2>2, <2>3, <2>4, <2>5 DEF Rust!Propagate, Rust!Depths, Depths, GuardBar, DoingBar, PayloadBar
<1>3. CASE chain[t] # 0
  <2> DEFINE h == chain[t]
  <2>1. /\ h \in Depths
        /\ \A d \in Depths : pc'[t][d] = IF d < h THEN pc[t][d]
                                         ELSE IF d = h THEN ctx[t][d].buf ELSE "dead"
        /\ \A d \in Depths : ctx'[t][d].exn = IF d = h THEN e ELSE ctx[t][d].exn
        /\ aborted' = aborted
    BY <1>3, UnwindEffect
  <2>2. pc[t][h] \in LinkedPlaces /\ h <= sp[t] /\ h # sp[t]
    BY <1>1, <1>3 DEF IsTop, LinkedPlaces, Armed, Landings
  <2>3. h < sp[t] /\ pc[t][h] \in Armed
    BY <2>1, <2>2 DEF LocalInv, ShapeOf, LinkedPlaces, Armed, Landings, Depths
  <2>4. ctx[t][h].buf = LandingOf[pc[t][h]]
    BY <2>1, <2>3 DEF LocalInv, BuffersOf
  <2>5. /\ Guard(pc[t][h]) # "none"
        /\ Guard(ctx[t][h].buf) = "none"
        /\ Doing(ctx[t][h].buf) = Guard(pc[t][h])
        /\ ctx[t][h].buf \in Landings
    BY <2>3, <2>4, LandingFacts DEF Armed, Guard, Doing, Landings
  <2>6. \A d \in Depths : h < d /\ d <= sp[t] => Guard(pc[t][d]) = "none"
    BY <1>1 DEF IsTop, LinkedPlaces, Armed, Guard, Depths
  <2>7. \A d \in Depths : Guard(pc[t][d])' = IF d >= h THEN "none" ELSE Guard(pc[t][d])
    BY <2>1, <2>5 DEF Guard, Depths
  <2>8. \A d \in Depths : Doing(pc[t][d])' = IF d = h THEN Guard(pc[t][h])
                                             ELSE IF d > h THEN "none" ELSE Doing(pc[t][d])
    BY <2>1, <2>5 DEF Doing, Depths
  <2>9. \A d \in Depths : Payload(t, d)' = IF d = h THEN e
                                          ELSE IF d > h THEN NoExn ELSE Payload(t, d)
    BY <2>1, <2>5 DEF Payload, Landings, Depths
  <2>10. GuardBar'[t] = [d \in Depths |-> IF d >= h THEN "none" ELSE GuardBar[t][d]]
    BY <2>7 DEF GuardBar
  <2>11. DoingBar'[t] = [d \in Depths |-> IF d = h THEN GuardBar[t][h]
                                          ELSE IF d > h THEN "none" ELSE DoingBar[t][d]]
    BY <2>1, <2>8 DEF GuardBar, DoingBar
  <2>12. PayloadBar'[t] = [d \in Depths |-> IF d = h THEN e
                                            ELSE IF d > h THEN NoExn ELSE PayloadBar[t][d]]
    BY <2>9 DEF PayloadBar
  <2>13. /\ GuardBar[t][h] # "none"
         /\ \A d \in Depths : h < d /\ d <= sp[t] => GuardBar[t][d] = "none"
    BY <2>1, <2>5, <2>6 DEF GuardBar
  <2>14. Rust!Innermost(t, sp[t], h)
    BY <2>13 DEF Rust!Innermost, Rust!Depths, Depths, GuardBar
  <2>15. sp' = [sp EXCEPT ![t] = h]
    BY <1>3 DEF Unwind
  <2> HIDE DEF h
  <2>16. GuardBar' = [GuardBar EXCEPT ![t] = [d \in Depths |-> IF d >= h THEN "none" ELSE @[d]]]
    BY <2>10, RowsMove
  <2>17. DoingBar' = [DoingBar EXCEPT ![t] =
           [d \in Depths |-> IF d = h THEN GuardBar[t][h] ELSE IF d > h THEN "none" ELSE @[d]]]
    BY <2>11, RowsMove
  <2>18. PayloadBar' = [PayloadBar EXCEPT ![t] =
           [d \in Depths |-> IF d = h THEN e ELSE IF d > h THEN NoExn ELSE @[d]]]
    BY <2>12, RowsMove
  <2> QED
    BY <2>1, <2>3, <2>14, <2>15, <2>16, <2>17, <2>18
    DEF Rust!Propagate, Rust!Depths, Depths, GuardBar, DoingBar, PayloadBar
<1> QED
  BY <1>2, <1>3

(* The steps between a landing and its cleanup hand the payload on, and    *)
(* are no steps of the contract.                                           *)
LEMMA LandingIsSilent ==
  ASSUME TypeOK, NEW t \in Threads, LocalInv(t), \A u \in Threads : u # t => SameThread(u),
         LandCleanup(t) \/ LandAbort(t) \/ LandingPad(t)
  PROVE  UNCHANGED Rust!vars
<1> DEFINE c == sp[t]
<1>1. c \in Depths /\ ctx' = ctx /\ sp' = sp /\ aborted' = aborted
  BY AtIsDepth DEF LandCleanup, LandAbort, LandingPad
<1>2. \/ /\ pc[t][c] = "landCleanup" /\ pc' = [pc EXCEPT ![t][c] = "pad"]
         /\ exnPtr' = [exnPtr EXCEPT ![t][c] = ctx[t][c].exn] /\ slot' = slot
      \/ /\ pc[t][c] = "landAbort" /\ pc' = [pc EXCEPT ![t][c] = "terminate"]
         /\ exnPtr' = [exnPtr EXCEPT ![t][c] = ctx[t][c].exn] /\ slot' = slot
      \/ /\ pc[t][c] = "pad" /\ pc' = [pc EXCEPT ![t][c] = "cleanup"]
         /\ slot' = [slot EXCEPT ![t][c] = exnPtr[t][c]] /\ exnPtr' = exnPtr
  BY DEF LandCleanup, LandAbort, LandingPad, At
<1>3. /\ \A d \in Depths : d # c => /\ pc'[t][d] = pc[t][d]
                                    /\ exnPtr'[t][d] = exnPtr[t][d] /\ slot'[t][d] = slot[t][d]
      /\ \/ pc[t][c] = "landCleanup" /\ pc'[t][c] = "pad" /\ exnPtr'[t][c] = ctx[t][c].exn
         \/ pc[t][c] = "landAbort" /\ pc'[t][c] = "terminate" /\ exnPtr'[t][c] = ctx[t][c].exn
         \/ pc[t][c] = "pad" /\ pc'[t][c] = "cleanup" /\ slot'[t][c] = exnPtr[t][c]
  BY <1>1, <1>2 DEF TypeOK
<1>4. /\ \A d \in Depths : Guard(pc[t][d])' = Guard(pc[t][d])
      /\ \A d \in Depths : Doing(pc[t][d])' = Doing(pc[t][d])
  BY <1>1, <1>3 DEF Guard, Doing
<1>5. \A d \in Depths : Payload(t, d)' = Payload(t, d)
  BY <1>1, <1>3 DEF Payload, Landings
<1>6. GuardBar'[t] = GuardBar[t] /\ DoingBar'[t] = DoingBar[t] /\ PayloadBar'[t] = PayloadBar[t]
  BY <1>4, <1>5 DEF GuardBar, DoingBar, PayloadBar
<1>7. GuardBar' = GuardBar /\ DoingBar' = DoingBar /\ PayloadBar' = PayloadBar
  BY <1>6, RowsMove
<1> QED
  BY <1>1, <1>7 DEF Rust!vars, GuardBar, DoingBar, PayloadBar

(* Every step of the generated code is a step of the contract, or none. *)
LEMMA StepRefines ==
  ASSUME IInv, NEW t \in Threads, Step(t)
  PROVE  Rust!Next \/ UNCHANGED Rust!vars
<1>0. /\ TypeOK /\ LocalInv(t) /\ TypeOK' /\ ~aborted
      /\ \A u \in Threads : u # t => SameThread(u)
  BY StepLocal DEF Step
<1>1. CASE Call(t)
  <2>1. Rust!Call(t)
    BY <1>0, <1>1, CallRefines DEF Call
  <2> QED BY <1>0, <2>1 DEF Rust!Next
<1>2. ASSUME NEW p \in {"invokeCleanup", "invokeAbort"}, Invoke(t, p)
      PROVE  Rust!Next
  <2>1. sp[t] \in Depths /\ Link(t, sp[t], p) /\ At(t, "run") /\ Push(t, p, 1)
    BY <1>0, <1>2, AtIsDepth DEF Invoke
  <2>2. \A d \in Depths : d # sp[t] => ctx'[t][d] = ctx[t][d]
    BY <1>0, <2>1, LinkEffect
  <2>3. Rust!Call(t)
    BY <1>0, <1>2, <2>1, <2>2, CallRefines DEF Invoke
  <2> QED BY <1>0, <2>3 DEF Rust!Next
<1>3. CASE DropInvoke(t)
  <2>1. sp[t] \in Depths /\ Link(t, sp[t], "dropInvoke") /\ At(t, "cleanup")
        /\ Push(t, "dropInvoke", 1)
    BY <1>0, <1>3, AtIsDepth DEF DropInvoke
  <2>2. \A d \in Depths : d # sp[t] => ctx'[t][d] = ctx[t][d]
    BY <1>0, <2>1, LinkEffect
  <2>3. Rust!Call(t)
    BY <1>0, <1>3, <2>1, <2>2, CallRefines DEF DropInvoke
  <2> QED BY <1>0, <2>3 DEF Rust!Next
<1>4. CASE \/ ReturnFromCall(t) \/ ReturnFromDrop(t) \/ ReturnFromTryFn(t)
           \/ ReturnFromCatchFn(t)
           \/ \E p \in {"invokeCleanup", "invokeAbort"} : ReturnFromInvoke(t, p)
  <2>1. Rust!Return(t)
    <3>1. CASE ReturnFromCall(t)
      BY <1>0, <3>1, ReturnRefines DEF ReturnFromCall
    <3>2. CASE ReturnFromDrop(t)
      BY <1>0, <3>2, ReturnRefines DEF ReturnFromDrop
    <3>3. CASE ReturnFromTryFn(t)
      BY <1>0, <3>3, ReturnRefines DEF ReturnFromTryFn
    <3>4. CASE ReturnFromCatchFn(t)
      BY <1>0, <3>4, ReturnRefines DEF ReturnFromCatchFn
    <3>5. ASSUME NEW p \in {"invokeCleanup", "invokeAbort"}, ReturnFromInvoke(t, p)
          PROVE  Rust!Return(t)
      BY <1>0, <3>5, ReturnRefines DEF ReturnFromInvoke
    <3> QED BY <1>4, <3>1, <3>2, <3>3, <3>4, <3>5
  <2> QED BY <1>0, <2>1 DEF Rust!Next
<1>5. CASE LandCleanup(t) \/ LandAbort(t) \/ LandingPad(t)
  BY <1>0, <1>5, LandingIsSilent
<1>6. CASE Terminate(t)
  <2>1. sp[t] \in Depths /\ pc[t][sp[t]] = "terminate"
    BY <1>0, <1>6, AtIsDepth DEF Terminate
  <2>2. DoingBar[t][sp[t]] = "abort"
    BY <2>1 DEF DoingBar, Doing
  <2>3. aborted' = TRUE /\ sp' = sp /\ GuardBar' = GuardBar /\ DoingBar' = DoingBar
    BY <1>6 DEF Terminate, GuardBar, DoingBar
  <2>4. PayloadBar' = PayloadBar
    BY <1>6 DEF Terminate, PayloadBar, Payload
  <2>5. Rust!Abort(t)
    BY <2>1, <2>2, <2>3, <2>4
    DEF Rust!Abort, Rust!Depths, Depths, GuardBar, DoingBar, PayloadBar
  <2> QED BY <1>0, <2>5 DEF Rust!Next
<1>7. CASE Resume(t)
  <2>1. sp[t] \in Depths /\ pc[t][sp[t]] = "cleanup"
    BY <1>0, <1>7, AtIsDepth DEF Resume
  <2>2. /\ DoingBar[t][sp[t]] = "cleanup"
        /\ PayloadBar[t][sp[t]] = slot[t][sp[t]]
    BY <2>1 DEF DoingBar, PayloadBar, Doing, Payload, Landings
  <2>3. Rust!Propagate(t, sp[t], slot[t][sp[t]])
    BY <1>0, <1>7, <2>1, UnwindRefines DEF Resume
  <2>4. Rust!Resume(t)
    BY <2>1, <2>2, <2>3 DEF Rust!Resume, Rust!Depths, Depths, DoingBar, PayloadBar
  <2> QED BY <1>0, <2>4 DEF Rust!Next
<1>8. ASSUME NEW e \in Exn, RaiseException(t, e)
      PROVE  Rust!Next
  <2>1. sp[t] \in Depths /\ pc[t][sp[t]] = "run"
    BY <1>0, <1>8, AtIsDepth DEF RaiseException
  <2>2. DoingBar[t][sp[t]] = "none"
    BY <2>1 DEF DoingBar, Doing
  <2>3. Rust!Propagate(t, sp[t], e)
    BY <1>0, <1>8, <2>1, UnwindRefines DEF RaiseException
  <2>4. Rust!Raise(t)
    BY <2>1, <2>2, <2>3 DEF Rust!Raise, Rust!Depths, Depths, DoingBar
  <2> QED BY <1>0, <2>4 DEF Rust!Next
<1>9. CASE ThreadExit(t)
  BY <1>0, <1>9, ExitRefines DEF Rust!Next
<1>10. CASE RustTry(t)
  BY <1>0, <1>10, CatchRefines DEF Rust!Next
<1>11. CASE LandTry(t)
  BY <1>0, <1>11, HandlerRefines DEF Rust!Next
<1> QED
  BY <1>1, <1>2, <1>3, <1>4, <1>5, <1>6, <1>7, <1>8, <1>9, <1>10, <1>11 DEF Step

(* The setjmp/longjmp lowering gives Rust's panic semantics, for any       *)
(* number of threads and any stack depth: each step of the generated code  *)
(* and the C runtime is a step of the contract RustUnwind or invisible to  *)
(* it.                                                                     *)
THEOREM PanicSemantics == Spec => ImplementsRust
<1>1. Init => Rust!Init
  <2> SUFFICES ASSUME Init PROVE Rust!Init
    OBVIOUS
  <2>1. \A t \in Threads : \A d \in Depths : pc[t][d] \in {"run", "dead"}
    BY DEF Init
  <2>2. /\ GuardBar = [t \in Threads |-> [d \in Depths |-> "none"]]
        /\ DoingBar = [t \in Threads |-> [d \in Depths |-> "none"]]
    BY <2>1 DEF GuardBar, DoingBar, Guard, Doing
  <2>3. PayloadBar = [t \in Threads |-> [d \in Depths |-> NoExn]]
    BY <2>1 DEF PayloadBar, Payload, Landings
  <2> QED
    BY <2>2, <2>3 DEF Init, Rust!Init, Rust!Depths, Depths, GuardBar, DoingBar, PayloadBar
<1>2. IInv /\ [Next]_vars => [Rust!Next]_(Rust!vars)
  <2> SUFFICES ASSUME IInv, [Next]_vars PROVE Rust!Next \/ UNCHANGED Rust!vars
    OBVIOUS
  <2>1. CASE UNCHANGED vars
    BY <2>1 DEF vars, Rust!vars, Payload
  <2> QED
    BY <2>1, StepRefines DEF Next
<1> QED
  BY <1>1, <1>2, InvariantHolds, PTL DEF Spec, ImplementsRust, Rust!Spec
=============================================================================
