----------------------------- MODULE Allocator ------------------------------
(***************************************************************************)
(* The allocator shims of allocator.rs and the helpers of aligned_alloc.c, *)
(* called by the threads of a compiled program, over the heap of the C     *)
(* library (external): memory is a row of bytes, an allocation a range of  *)
(* it, and a new one has the bytes the last owner left.                    *)
(***************************************************************************)
EXTENDS Naturals

CONSTANTS Threads,     \* threads of the program
          HeapSize,    \* bytes of memory
          WordSize,    \* sizeof(void *)
          Bytes,       \* byte values, 0 among them
          Requests,    \* calls: records [op, size, align]
          None,        \* the null pointer, no block, no call
          MaxOps       \* bound: calls the program makes

(* Layouts have alignments that are powers of two, as the word size is. *)
ASSUME AllocatorAssumption ==
  /\ HeapSize \in Nat /\ WordSize \in Nat \ {0} /\ MaxOps \in Nat
  /\ 0 \in Bytes
  /\ Requests \subseteq [op : {"alloc", "alloc_zeroed", "dealloc", "realloc"},
                         size : Nat \ {0}, align : Nat \ {0}]
  /\ \A r \in Requests : WordSize % r.align = 0 \/ r.align % WordSize = 0
  /\ None \notin Requests /\ None \notin [ptr : Nat, size : Nat, align : Nat] /\ None \notin Nat
  /\ \A n \in 1 .. HeapSize : None \notin [0 .. n - 1 -> Bytes]

VARIABLES heap,      \* heap[a]: the byte at address a
          ranges,    \* the C heap's allocations, records [ptr, size, align]
          held,      \* held[t]: the range of t's block, or None
          request,   \* request[t]: the call t is in, or None
          pc,        \* pc[t]: where t is in it
          new_ptr,   \* new_ptr[t]: the C local `new_ptr` (`ptr` in alloc_zeroed)
          answer,    \* answer[t]: what t's last call returned, "ok" or "null"
          aborted,   \* abort() was called
          ops        \* calls begun

vars == <<heap, ranges, held, request, pc, new_ptr, answer, aborted, ops>>

Addresses == 0 .. HeapSize - 1
Cells(g) == g.ptr .. g.ptr + g.size - 1
Places == {"idle", "start", "clear", "copy", "free"}

Init ==
  /\ heap \in [Addresses -> Bytes]
  /\ ranges = {}
  /\ held = [t \in Threads |-> None]
  /\ request = [t \in Threads |-> None]
  /\ pc = [t \in Threads |-> "idle"]
  /\ new_ptr = [t \in Threads |-> None]
  /\ answer = [t \in Threads |-> "ok"]
  /\ aborted = FALSE
  /\ ops = 0

-----------------------------------------------------------------------------
(* The C library (external)                                                *)

Room(size, align) ==
  {p \in Addresses : /\ p % align = 0
                     /\ p + size <= HeapSize
                     /\ \A g \in ranges : Cells([ptr |-> p, size |-> size]) \cap Cells(g) = {}}

(* posix_memalign refuses an alignment that is not a multiple of the word  *)
(* size, and fails when there is no room.                                  *)
posix_memalign(align, size) ==
  IF align % WordSize = 0 /\ Room(size, align) # {} THEN Room(size, align) ELSE {None}

free(g) == ranges' = ranges \ {g}

-----------------------------------------------------------------------------
(* A pointer as Rust holds it, with the layout it asked for. *)
Block(p, size, align) ==
  IF p = None THEN None ELSE [ptr |-> p, size |-> size, align |-> align]

(* Mutant: the alignment is passed on as it is. *)
rustc_aligned_alloc_raw(size, align) ==
  {Block(p, size, align) : p \in posix_memalign(align, size)}

(* __rustc_aligned_alloc: small alignments are raised to the word size. *)
rustc_aligned_alloc(size, align) ==
  {Block(p, size, align) :
     p \in posix_memalign(IF align < WordSize THEN WordSize ELSE align, size)}

(* The calls a program may make: it allocates when it has no block, and    *)
(* gives back or resizes the one it has, with the layout it has.           *)
Begin(t, r) ==
  /\ ~aborted /\ pc[t] = "idle"
  /\ r.op \in {"alloc", "alloc_zeroed"} <=> held[t] = None
  /\ held[t] # None => r.align = held[t].align /\ (r.op = "dealloc" => r.size = held[t].size)
  /\ ops < MaxOps
  /\ ops' = ops + 1
  /\ request' = [request EXCEPT ![t] = r]
  /\ pc' = [pc EXCEPT ![t] = "start"]
  /\ UNCHANGED <<heap, ranges, held, new_ptr, answer, aborted>>

(* The program writes a byte of its block. *)
Write(t, a, b) ==
  /\ ~aborted /\ pc[t] = "idle" /\ held[t] # None
  /\ a \in Cells(held[t])
  /\ heap' = [heap EXCEPT ![a] = b]
  /\ UNCHANGED <<ranges, held, request, pc, new_ptr, answer, aborted, ops>>

(* The call returns: the thread's block is g, its C locals are gone. *)
Finish(t, g, result) ==
  /\ held' = [held EXCEPT ![t] = g]
  /\ answer' = [answer EXCEPT ![t] = result]
  /\ request' = [request EXCEPT ![t] = None]
  /\ pc' = [pc EXCEPT ![t] = "idle"]
  /\ new_ptr' = [new_ptr EXCEPT ![t] = None]

Own(g) == ranges' = ranges \cup {g}

(* __rust_alloc *)
Alloc(t) ==
  /\ ~aborted /\ pc[t] = "start" /\ request[t].op = "alloc"
  /\ \E g \in rustc_aligned_alloc(request[t].size, request[t].align) :
       \/ g # None /\ Own(g) /\ Finish(t, g, "ok")
       \/ g = None /\ UNCHANGED ranges /\ Finish(t, None, "null")
  /\ UNCHANGED <<heap, aborted, ops>>

(* __rust_alloc_zeroed and __rust_realloc begin with an allocation; null   *)
(* is returned and nothing else happens ...                                *)
AllocNew(t) ==
  /\ ~aborted /\ pc[t] = "start" /\ request[t].op \in {"alloc_zeroed", "realloc"}
  /\ \E g \in rustc_aligned_alloc(request[t].size, request[t].align) :
       \/ /\ g # None /\ Own(g)
          /\ new_ptr' = [new_ptr EXCEPT ![t] = g]
          /\ pc' = [pc EXCEPT ![t] = IF request[t].op = "realloc" THEN "copy" ELSE "clear"]
          /\ UNCHANGED <<held, request, answer>>
       \/ g = None /\ UNCHANGED ranges /\ Finish(t, held[t], "null")
  /\ UNCHANGED <<heap, aborted, ops>>

(* ... memset(ptr, 0, size) ... *)
Clear(t) ==
  /\ ~aborted /\ pc[t] = "clear"
  /\ heap' = [a \in Addresses |-> IF a \in Cells(new_ptr[t]) THEN 0 ELSE heap[a]]
  /\ Finish(t, new_ptr[t], "ok")
  /\ UNCHANGED <<ranges, aborted, ops>>

(* Mutant: memcpy of the old size. *)
CopyOldSize(t) ==
  /\ ~aborted /\ pc[t] = "copy"
  /\ heap' = [a \in Addresses |->
                IF a \in new_ptr[t].ptr .. new_ptr[t].ptr + held[t].size - 1
                THEN heap[held[t].ptr + (a - new_ptr[t].ptr)] ELSE heap[a]]
  /\ pc' = [pc EXCEPT ![t] = "free"]
  /\ UNCHANGED <<ranges, held, request, new_ptr, answer, aborted, ops>>

(* ... or memcpy of the smaller size ... *)
Copy(t) ==
  /\ ~aborted /\ pc[t] = "copy"
  /\ LET size == IF held[t].size < request[t].size THEN held[t].size ELSE request[t].size
     IN  heap' = [a \in Addresses |->
                    IF a \in new_ptr[t].ptr .. new_ptr[t].ptr + size - 1
                    THEN heap[held[t].ptr + (a - new_ptr[t].ptr)] ELSE heap[a]]
  /\ pc' = [pc EXCEPT ![t] = "free"]
  /\ UNCHANGED <<ranges, held, request, new_ptr, answer, aborted, ops>>

(* Mutant: the old block is not freed. *)
FreeOldLeaks(t) ==
  /\ ~aborted /\ pc[t] = "free"
  /\ Finish(t, new_ptr[t], "ok")
  /\ UNCHANGED <<heap, ranges, aborted, ops>>

(* ... and the old block is freed. *)
FreeOld(t) ==
  /\ ~aborted /\ pc[t] = "free"
  /\ free(held[t])
  /\ Finish(t, new_ptr[t], "ok")
  /\ UNCHANGED <<heap, aborted, ops>>

(* __rust_dealloc *)
Dealloc(t) ==
  /\ ~aborted /\ pc[t] = "start" /\ request[t].op = "dealloc"
  /\ free(held[t])
  /\ Finish(t, None, "ok")
  /\ UNCHANGED <<heap, aborted, ops>>

(* __rust_alloc_error_handler: abort(). *)
AllocError(t) ==
  /\ ~aborted /\ pc[t] = "idle" /\ answer[t] = "null"
  /\ aborted' = TRUE
  /\ UNCHANGED <<heap, ranges, held, request, pc, new_ptr, answer, ops>>

Work(t) == Alloc(t) \/ AllocNew(t) \/ Clear(t) \/ Copy(t) \/ FreeOld(t) \/ Dealloc(t)

Next == \E t \in Threads :
  \/ \E r \in Requests : Begin(t, r)
  \/ \E a \in Addresses, b \in Bytes : Write(t, a, b)
  \/ Work(t)
  \/ AllocError(t)

Spec == Init /\ [][Next]_vars

-----------------------------------------------------------------------------
Blocks == [ptr : Addresses, size : 1 .. HeapSize, align : Nat \ {0}]

TypeOK ==
  /\ heap \in [Addresses -> Bytes]
  /\ ranges \subseteq Blocks
  /\ held \in [Threads -> Blocks \cup {None}]
  /\ request \in [Threads -> Requests \cup {None}]
  /\ pc \in [Threads -> Places]
  /\ new_ptr \in [Threads -> Blocks \cup {None}]
  /\ answer \in [Threads -> {"ok", "null"}]
  /\ aborted \in BOOLEAN
  /\ ops \in 0 .. MaxOps

(* No memory is lost and none has two owners: the C heap's allocations are *)
(* the threads' blocks and the new blocks of calls under way, each with    *)
(* one owner and aligned as asked, also in the middle of realloc.          *)
EveryRangeOwned ==
  /\ ranges = ({held[t] : t \in Threads} \cup {new_ptr[t] : t \in Threads}) \ {None}
  /\ \A t, u \in Threads :
       /\ held[t] = held[u] /\ held[t] # None => t = u
       /\ new_ptr[t] = new_ptr[u] /\ new_ptr[t] # None => t = u
       /\ held[t] = new_ptr[u] => held[t] = None
  /\ \A g, h \in ranges : g # h => Cells(g) \cap Cells(h) = {}
  /\ \A g \in ranges : g.ptr % g.align = 0

(* A call returns null only if there is no room for what was asked for:    *)
(* no alignment Rust may ask for makes the C library refuse it.            *)
NullMeansNoRoom ==
  [][\A t \in Threads :
       pc[t] # "idle" /\ pc'[t] = "idle" /\ answer'[t] = "null" =>
         \A p \in Room(request[t].size, request[t].align) : p % WordSize # 0]_vars

Rust == INSTANCE GlobalAlloc WITH
  block <- [t \in Threads |->
              IF held[t] = None THEN None
              ELSE [i \in 0 .. held[t].size - 1 |-> heap[held[t].ptr + i]]]

(* The shims keep Rust's promise: blocks of different threads never touch, *)
(* alloc_zeroed returns zeros, realloc keeps the common prefix, and a      *)
(* failed realloc leaves the old block as it was, whatever other threads   *)
(* do between its steps.                                                   *)
ImplementsGlobalAlloc == Rust!Spec
=============================================================================
