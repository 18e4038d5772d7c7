----------------------------- MODULE RustUnwind -----------------------------
(***************************************************************************)
(* What Rust promises about panics, for any back end: the contract that    *)
(* the setjmp/longjmp lowering of module UnwindChain has to implement.     *)
(*                                                                         *)
(* Each thread is a stack of frames.  A frame that is waiting for a callee *)
(* may guard that call: with a cleanup (drop glue that must run before the *)
(* panic goes on), with an abort (the call may not unwind, RFC "nounwind"  *)
(* and drops that run during a cleanup) or with a catch (catch_unwind).    *)
(* A panic discards frames up to the innermost guarded one and hands it    *)
(* the payload; nothing here knows of chains, contexts or jump buffers.    *)
(***************************************************************************)
EXTENDS Integers

CONSTANTS Threads,   \* the threads of the program
          MaxDepth,  \* bound on the frames of one thread's stack
          Exn,       \* exception objects (panic payloads)
          NoExn      \* "no exception", not a member of Exn

VARIABLES depth,     \* depth[t]: number of live frames of thread t
          guard,     \* guard[t][d]: how frame d guards the call it is in
          doing,     \* doing[t][d]: which handler frame d is executing
          payload,   \* payload[t][d]: the exception frame d is handling
          aborted    \* the process has been aborted

vars == <<depth, guard, doing, payload, aborted>>

Depths == 1 .. MaxDepth
Guards == {"none", "cleanup", "abort", "catch"}

(* Frame h guards the call it is in, and no frame between h and n does. *)
Innermost(t, n, h) ==
  /\ guard[t][h] # "none"
  /\ \A d \in Depths : h < d /\ d <= n => guard[t][d] = "none"

Unguarded(t, n) == \A d \in Depths : d <= n => guard[t][d] = "none"

Init ==
  /\ depth = [t \in Threads |-> 1]
  /\ guard = [t \in Threads |-> [d \in Depths |-> "none"]]
  /\ doing = [t \in Threads |-> [d \in Depths |-> "none"]]
  /\ payload = [t \in Threads |-> [d \in Depths |-> NoExn]]
  /\ aborted = FALSE

(* Frame c calls; k new frames appear above it. *)
Enter(t, c, g, k) ==
  /\ depth[t] = c
  /\ c + k <= MaxDepth
  /\ depth' = [depth EXCEPT ![t] = c + k]
  /\ guard' = [guard EXCEPT ![t][c] = g]

(* A frame that handles no exception calls with any guard a function body  *)
(* has; one that runs a cleanup only with "abort".                         *)
Call(t) ==
  /\ \E c \in Depths, g \in {"none", "cleanup", "abort"} :
       /\ doing[t][c] \in {"none", "cleanup"}
       /\ doing[t][c] = "cleanup" => g = "abort"
       /\ Enter(t, c, g, 1)
  /\ UNCHANGED <<doing, payload, aborted>>

(* catch_unwind: a frame for the catcher and one for the closure. *)
CatchUnwind(t) ==
  /\ \E c \in Depths :
       /\ doing[t][c] = "none"
       /\ depth[t] = c
       /\ c + 2 <= MaxDepth
       /\ depth' = [depth EXCEPT ![t] = c + 2]
       /\ guard' = [guard EXCEPT ![t][c + 1] = "catch"]
  /\ UNCHANGED <<doing, payload, aborted>>

(* The innermost frame, which handles nothing, returns; its caller's guard *)
(* is gone, and a catcher whose handler returned has handled the panic.    *)
Return(t) ==
  /\ \E c \in Depths :
       /\ depth[t] = c
       /\ doing[t][c] = "none"
       /\ depth' = [depth EXCEPT ![t] = c - 1]
       /\ guard' = [guard EXCEPT ![t] =
                      [d \in Depths |-> IF d = c - 1 THEN "none" ELSE @[d]]]
       /\ LET caught(d) == d = c - 1 /\ doing[t][d] = "catch"
          IN  /\ doing' = [doing EXCEPT ![t] =
                             [d \in Depths |-> IF caught(d) THEN "none" ELSE @[d]]]
              /\ payload' = [payload EXCEPT ![t] =
                             [d \in Depths |-> IF caught(d) THEN NoExn ELSE @[d]]]
  /\ UNCHANGED aborted

(* Exception e leaves frame c: the innermost guarded frame handles it. *)
Propagate(t, c, e) ==
  \/ /\ Unguarded(t, c)
     /\ aborted' = TRUE
     /\ UNCHANGED <<depth, guard, doing, payload>>
  \/ /\ \E h \in Depths :
          /\ h < c
          /\ Innermost(t, c, h)
          /\ depth' = [depth EXCEPT ![t] = h]
          /\ guard' = [guard EXCEPT ![t] =
                         [d \in Depths |-> IF d >= h THEN "none" ELSE @[d]]]
          /\ doing' = [doing EXCEPT ![t] =
                         [d \in Depths |-> IF d = h THEN guard[t][h]
                                           ELSE IF d > h THEN "none" ELSE @[d]]]
          /\ payload' = [payload EXCEPT ![t] =
                         [d \in Depths |-> IF d = h THEN e
                                           ELSE IF d > h THEN NoExn ELSE @[d]]]
     /\ UNCHANGED aborted

Raise(t) ==
  \E c \in Depths, e \in Exn :
    depth[t] = c /\ doing[t][c] = "none" /\ Propagate(t, c, e)

(* The cleanup is over: the same payload goes on to the next frame. *)
Resume(t) ==
  \E c \in Depths :
    depth[t] = c /\ doing[t][c] = "cleanup" /\ Propagate(t, c, payload[t][c])

RunCatchHandler(t) ==
  /\ \E c \in Depths : doing[t][c] = "catch" /\ Enter(t, c, "none", 1)
  /\ UNCHANGED <<doing, payload, aborted>>

(* A panic reached a call that must not unwind. *)
Abort(t) ==
  /\ \E c \in Depths : depth[t] = c /\ doing[t][c] = "abort"
  /\ aborted' = TRUE
  /\ UNCHANGED <<depth, guard, doing, payload>>

Next ==
  /\ ~aborted
  /\ \E t \in Threads :
       \/ Call(t) \/ CatchUnwind(t) \/ Return(t) \/ Raise(t)
       \/ Resume(t) \/ RunCatchHandler(t) \/ Abort(t)

Spec == Init /\ [][Next]_vars
=============================================================================
