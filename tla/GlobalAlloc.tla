----------------------------- MODULE GlobalAlloc ----------------------------
(***************************************************************************)
(* What Rust's global allocator promises a program: a thread has a block   *)
(* of its own, whose bytes change only when the thread writes them; an     *)
(* operation happens in one step; a failed one changes nothing.            *)
(***************************************************************************)
EXTENDS Naturals

CONSTANTS Threads, Bytes, Requests, None

VARIABLES block,     \* block[t]: the bytes of t's block, or None
          request,   \* request[t]: the call t is in, or None
          answer,    \* answer[t]: what t's last call returned, "ok" or "null"
          aborted    \* the process has aborted

vars == <<block, request, answer, aborted>>

Init ==
  /\ block = [t \in Threads |-> None]
  /\ request = [t \in Threads |-> None]
  /\ answer = [t \in Threads |-> "ok"]
  /\ aborted = FALSE

(* The program allocates when it has no block, and gives back, resizes or  *)
(* writes the one it has.                                                  *)
Call(t, r) ==
  /\ ~aborted /\ request[t] = None
  /\ r.op \in {"alloc", "alloc_zeroed"} <=> block[t] = None
  /\ request' = [request EXCEPT ![t] = r]
  /\ UNCHANGED <<block, answer, aborted>>

Write(t, b) ==
  /\ ~aborted /\ request[t] = None /\ block[t] # None
  /\ block' \in {[block EXCEPT ![t][i] = b] : i \in DOMAIN block[t]}
  /\ UNCHANGED <<request, answer, aborted>>

(* The blocks a call may leave its thread with when it succeeds. *)
Results(r, old) ==
  CASE r.op = "alloc" -> [0 .. r.size - 1 -> Bytes]
    [] r.op = "alloc_zeroed" -> {[i \in 0 .. r.size - 1 |-> 0]}
    [] r.op = "dealloc" -> {None}
    [] r.op = "realloc" -> {f \in [0 .. r.size - 1 -> Bytes] :
                              \A i \in DOMAIN old \cap DOMAIN f : f[i] = old[i]}

Return(t) ==
  /\ ~aborted /\ request[t] # None
  /\ request' = [request EXCEPT ![t] = None]
  /\ \/ /\ block' \in {[block EXCEPT ![t] = f] : f \in Results(request[t], block[t])}
        /\ answer' = [answer EXCEPT ![t] = "ok"]
     \/ /\ request[t].op # "dealloc"
        /\ answer' = [answer EXCEPT ![t] = "null"]
        /\ UNCHANGED block
  /\ UNCHANGED aborted

(* handle_alloc_error does not return. *)
AllocError(t) ==
  /\ ~aborted /\ request[t] = None /\ answer[t] = "null"
  /\ aborted' = TRUE
  /\ UNCHANGED <<block, request, answer>>

Next == \E t \in Threads :
  \/ \E r \in Requests : Call(t, r)
  \/ \E b \in Bytes : Write(t, b)
  \/ Return(t)
  \/ AllocError(t)

Spec == Init /\ [][Next]_vars
=============================================================================
