----------------------------- MODULE AtomicCell -----------------------------
(***************************************************************************)
(* What Rust promises about one atomic object under sequential             *)
(* consistency: an operation that a thread has begun takes effect once, in *)
(* a single step, and returns the value the object had just before.        *)
(***************************************************************************)
CONSTANTS Threads,         \* threads that share the object
          Values,          \* values of the object
          Requests,        \* operations with their operands
          Idle,            \* "no operation in progress"
          Effect(_, _),    \* Effect(r, v): the value r leaves if it finds v
          InitialValue     \* a member of Values

VARIABLES cell,      \* the value of the object
          request,   \* request[t]: the operation t is in, or Idle
          answer     \* answer[t]: what t's last operation returned

vars == <<cell, request, answer>>

Init ==
  /\ cell = InitialValue
  /\ request = [t \in Threads |-> Idle]
  /\ answer = [t \in Threads |-> InitialValue]

Begin(t, r) ==
  /\ request[t] = Idle
  /\ request' = [request EXCEPT ![t] = r]
  /\ UNCHANGED <<cell, answer>>

Perform(t) ==
  /\ request[t] # Idle
  /\ answer' = [answer EXCEPT ![t] = cell]
  /\ cell' = Effect(request[t], cell)
  /\ request' = [request EXCEPT ![t] = Idle]

Next == \E t \in Threads : Perform(t) \/ \E r \in Requests : Begin(t, r)

Spec == Init /\ [][Next]_vars
=============================================================================
