-------------------------- MODULE Allocator_proofs --------------------------
(***************************************************************************)
(* Proofs about Allocator for every set of threads, every heap and every   *)
(* set of layouts.  Beside EveryRangeOwned the inductive invariant says    *)
(* where a thread is in its call (which of its two blocks it has there),   *)
(* that allocations lie inside the heap and, for realloc, that the common  *)
(* prefix is in the new block from the copy until the old block is freed.  *)
(***************************************************************************)
EXTENDS Allocator, TLAPS

PlaceOf(t) ==
  /\ pc[t] = "idle" <=> request[t] = None
  /\ pc[t] \in {"clear", "copy", "free"} <=> new_ptr[t] # None
  /\ pc[t] = "start" => (request[t].op \in {"alloc", "alloc_zeroed"} <=> held[t] = None)
  /\ pc[t] = "clear" => request[t].op = "alloc_zeroed" /\ held[t] = None
  /\ pc[t] \in {"copy", "free"} => request[t].op = "realloc" /\ held[t] # None
  /\ pc[t] \in {"clear", "copy", "free"} => new_ptr[t].size = request[t].size

InsideHeap == \A g \in ranges : g.ptr + g.size <= HeapSize

CopiedOf(t) ==
  pc[t] = "free" =>
    \A i \in Nat : i < held[t].size /\ i < new_ptr[t].size =>
      heap[new_ptr[t].ptr + i] = heap[held[t].ptr + i]

IInv ==
  /\ TypeOK
  /\ \A t \in Threads : PlaceOf(t)
  /\ EveryRangeOwned
  /\ InsideHeap
  /\ \A t \in Threads : CopiedOf(t)
-----------------------------------------------------------------------------
(* Arithmetic and the C library.                                           *)

LEMMA MultipleOf ==
  ASSUME NEW a \in Nat \ {0}, NEW k \in Nat
  PROVE  (a * k) % a = 0
  OBVIOUS

LEMMA FactorOf ==
  ASSUME NEW a \in Nat \ {0}, NEW p \in Nat, p % a = 0
  PROVE  \E k \in Nat : p = a * k
  OBVIOUS

LEMMA DividesTransitive ==
  ASSUME NEW a \in Nat \ {0}, NEW w \in Nat \ {0}, NEW p \in Nat, p % w = 0, w % a = 0
  PROVE  p % a = 0
<1>1. PICK k \in Nat : p = w * k
  BY FactorOf
<1>2. PICK m \in Nat : w = a * m
  BY FactorOf
<1>3. p = a * (m * k) /\ m * k \in Nat
  BY <1>1, <1>2
<1> QED BY <1>3, MultipleOf

LEMMA SelfMultiple ==
  ASSUME NEW a \in Nat \ {0}
  PROVE  a % a = 0
  OBVIOUS

LEMMA SmallRemainder ==
  ASSUME NEW a \in Nat \ {0}, NEW w \in Nat, a < w
  PROVE  a % w = a
  OBVIOUS

(* The alignment that is passed on is one posix_memalign accepts, and an   *)
(* address with it has the alignment that was asked for.                   *)
LEMMA RaisedAlignment ==
  ASSUME NEW r \in Requests
  PROVE  LET a == IF r.align < WordSize THEN WordSize ELSE r.align
         IN  /\ a \in Nat \ {0} /\ a % WordSize = 0
             /\ \A p \in Nat : p % a = 0 => p % r.align = 0
             /\ \A p \in Nat : p % WordSize = 0 /\ p % r.align = 0 => p % a = 0
<1>1. r.align \in Nat \ {0} /\ WordSize \in Nat \ {0}
  BY AllocatorAssumption
<1>2. CASE r.align < WordSize
  <2>1. r.align % WordSize # 0
    BY <1>1, <1>2, SmallRemainder
  <2>2. WordSize % r.align = 0
    BY <2>1, AllocatorAssumption
  <2>3. WordSize % WordSize = 0
    BY <1>1, SelfMultiple
  <2>4. \A p \in Nat : p % WordSize = 0 => p % r.align = 0
    BY <1>1, <2>2, DividesTransitive
  <2> QED BY <1>1, <1>2, <2>3, <2>4
<1>3. CASE ~(r.align < WordSize)
  <2>1. r.align % WordSize = 0
    <3>1. CASE r.align = WordSize
      BY <1>1, <3>1, SelfMultiple
    <3>2. CASE WordSize < r.align
      <4>1. WordSize % r.align # 0
        BY <1>1, <3>2, SmallRemainder
      <4> QED BY <4>1, AllocatorAssumption
    <3> QED BY <1>1, <1>3, <3>1, <3>2
  <2> QED BY <1>1, <1>3, <2>1
<1> QED BY <1>2, <1>3

(* What the allocation function returns: a new aligned range of the heap   *)
(* that touches no other, or null if there is no room.                     *)
LEMMA AllocResult ==
  ASSUME NEW r \in Requests, NEW g \in rustc_aligned_alloc(r.size, r.align)
  PROVE  /\ g = None => \A p \in Room(r.size, r.align) : p % WordSize # 0
         /\ g # None => /\ g \in Blocks /\ g.size = r.size /\ g.align = r.align
                        /\ g.ptr + g.size <= HeapSize
                        /\ g.ptr % g.align = 0
                        /\ \A h \in ranges : Cells(g) \cap Cells(h) = {}
<1> DEFINE a == IF r.align < WordSize THEN WordSize ELSE r.align
<1>1. /\ r.size \in Nat \ {0} /\ r.align \in Nat \ {0} /\ HeapSize \in Nat
      /\ None \notin Nat
  BY AllocatorAssumption
<1>2. /\ a % WordSize = 0
      /\ \A p \in Nat : p % a = 0 => p % r.align = 0
      /\ \A p \in Nat : p % WordSize = 0 /\ p % r.align = 0 => p % a = 0
  BY RaisedAlignment
<1>3. PICK p \in posix_memalign(a, r.size) : g = Block(p, r.size, r.align)
  BY DEF rustc_aligned_alloc
<1> HIDE DEF a
<1>4. CASE Room(r.size, a) # {}
  <2>1. p \in Room(r.size, a)
    BY <1>2, <1>3, <1>4 DEF posix_memalign
  <2>2. /\ p \in Addresses /\ p \in Nat /\ p % a = 0 /\ p + r.size <= HeapSize
        /\ \A h \in ranges : Cells([ptr |-> p, size |-> r.size]) \cap Cells(h) = {}
    BY <1>1, <2>1 DEF Room, Addresses
  <2>3. p # None /\ g = [ptr |-> p, size |-> r.size, align |-> r.align]
    BY <1>1, <1>3, <2>2 DEF Block
  <2>4. g \in Blocks /\ g.size = r.size /\ g.align = r.align /\ g.ptr = p
    BY <1>1, <2>2, <2>3 DEF Blocks
  <2>5. Cells(g) = Cells([ptr |-> p, size |-> r.size])
    BY <2>3 DEF Cells
  <2>6. g # None
    <3>1. g \in [ptr : Nat, size : Nat, align : Nat]
      BY <1>1, <2>2, <2>3
    <3> QED BY <3>1, AllocatorAssumption
  <2> QED BY <1>2, <2>2, <2>4, <2>5, <2>6
<1>5. CASE Room(r.size, a) = {}
  <2>1. p = None
    BY <1>3, <1>5 DEF posix_memalign
  <2>2. g = None
    BY <1>3, <2>1 DEF Block
  <2>3. ASSUME NEW q \in Room(r.size, r.align), q % WordSize = 0
        PROVE  FALSE
    <3>1. q \in Nat /\ q % r.align = 0
      BY <1>1 DEF Room, Addresses
    <3>2. q % a = 0
      BY <1>2, <2>3, <3>1
    <3>3. q \in Room(r.size, a)
      BY <3>2 DEF Room
    <3> QED BY <1>5, <3>3
  <2> QED BY <2>2, <2>3
<1> QED BY <1>4, <1>5

-----------------------------------------------------------------------------
(* Ownership.                                                              *)

LEMMA OwnedRanges ==
  ASSUME EveryRangeOwned, NEW g
  PROVE  g \in ranges <=> g # None /\ \E t \in Threads : g = held[t] \/ g = new_ptr[t]
  BY DEF EveryRangeOwned

(* A thread's two blocks become x and y, each one it had or a new range.   *)
LEMMA OwnershipMoves ==
  ASSUME TypeOK, EveryRangeOwned, NEW t \in Threads, NEW x, NEW y,
         held' = [held EXCEPT ![t] = x],
         new_ptr' = [new_ptr EXCEPT ![t] = y],
         ranges' = (ranges \ {held[t], new_ptr[t]}) \cup ({x, y} \ {None}),
         x = y => x = None,
         \A g \in {x, y} : \/ g \in {None, held[t], new_ptr[t]}
                           \/ /\ g \notin ranges
                              /\ \A h \in ranges : Cells(g) \cap Cells(h) = {}
                              /\ g.ptr % g.align = 0,
         {x, y} \cap {None, held[t], new_ptr[t]} # {}
  PROVE  EveryRangeOwned'
<1>1. \A u \in Threads : /\ held'[u] = IF u = t THEN x ELSE held[u]
                         /\ new_ptr'[u] = IF u = t THEN y ELSE new_ptr[u]
  BY DEF TypeOK
<1>2. \A u \in Threads : u # t =>
        /\ held[u] \notin {held[t], new_ptr[t]} \/ held[u] = None
        /\ new_ptr[u] \notin {held[t], new_ptr[t]} \/ new_ptr[u] = None
  BY DEF EveryRangeOwned
<1>3. ranges' = ({held'[u] : u \in Threads} \cup {new_ptr'[u] : u \in Threads}) \ {None}
  <2>1. ASSUME NEW g
        PROVE  g \in ranges' <=> g # None /\ \E u \in Threads : g = held'[u] \/ g = new_ptr'[u]
    <3>1. CASE g \in {x, y}
      BY <1>1, <3>1, OwnedRanges
    <3>2. CASE g \notin {x, y} /\ g \in {held[t], new_ptr[t]}
      BY <1>1, <1>2, <3>2
    <3>3. CASE g \notin {x, y} /\ g \notin {held[t], new_ptr[t]}
      BY <1>1, <3>3, OwnedRanges
    <3> QED BY <3>1, <3>2, <3>3
  <2> QED BY <2>1
<1>4. \A u \in Threads : u # t => \A g \in {x, y} :
        g # None => held[u] # g /\ new_ptr[u] # g
  BY <1>2, OwnedRanges
<1>5. \A u, v \in Threads :
        /\ held'[u] = held'[v] /\ held'[u] # None => u = v
        /\ new_ptr'[u] = new_ptr'[v] /\ new_ptr'[u] # None => u = v
        /\ held'[u] = new_ptr'[v] => held'[u] = None
  BY <1>1, <1>4 DEF EveryRangeOwned
<1>6. \A g, h \in ranges' : g # h => Cells(g) \cap Cells(h) = {}
  <2> SUFFICES ASSUME NEW g \in ranges', NEW h \in ranges', g # h
               PROVE  Cells(g) \cap Cells(h) = {}
    OBVIOUS
  <2>1. CASE g \in ranges /\ h \in ranges
    BY <2>1 DEF EveryRangeOwned
  <2>2. g \in ranges \/ h \in ranges
    BY OwnedRanges
  <2>3. \A k \in ranges' : k \notin ranges => \A m \in ranges : Cells(k) \cap Cells(m) = {}
    BY OwnedRanges
  <2> QED BY <2>1, <2>2, <2>3
<1>7. \A g \in ranges' : g.ptr % g.align = 0
  BY OwnedRanges DEF EveryRangeOwned
<1> QED BY <1>3, <1>5, <1>6, <1>7 DEF EveryRangeOwned
-----------------------------------------------------------------------------
(* What one thread's step leaves alone.                                    *)

BlocksOf(t) == {held[t], new_ptr[t]} \ {None}

LEMMA NoneIsNoBlock == None \notin Blocks
<1>1. Blocks \subseteq [ptr : Nat, size : Nat, align : Nat]
  BY AllocatorAssumption DEF Blocks, Addresses
<1> QED BY <1>1, AllocatorAssumption

LEMMA BlockFacts ==
  ASSUME TypeOK, EveryRangeOwned, InsideHeap, NEW t \in Threads, NEW g \in BlocksOf(t)
  PROVE  /\ g \in Blocks /\ g \in ranges
         /\ g.ptr \in Nat /\ g.size \in Nat \ {0} /\ g.ptr + g.size <= HeapSize
         /\ \A i \in Nat : i < g.size => g.ptr + i \in Cells(g) /\ g.ptr + i \in Addresses
         /\ \A a \in Cells(g) : a \in Addresses /\ a - g.ptr \in 0 .. g.size - 1
<1>1. g \in Blocks /\ g \in ranges
  BY OwnedRanges DEF BlocksOf, TypeOK
<1>2. g.ptr \in Nat /\ g.size \in Nat \ {0} /\ HeapSize \in Nat
  BY <1>1, AllocatorAssumption DEF Blocks, Addresses
<1>3. g.ptr + g.size <= HeapSize
  BY <1>1 DEF InsideHeap
<1>4. \A i \in Nat : i < g.size => g.ptr + i \in Cells(g) /\ g.ptr + i \in Addresses
  BY <1>2, <1>3 DEF Cells, Addresses
<1>5. \A a \in Cells(g) : a \in Addresses /\ a - g.ptr \in 0 .. g.size - 1
  BY <1>2, <1>3 DEF Cells, Addresses
<1> QED BY <1>1, <1>2, <1>3, <1>4, <1>5

LEMMA BlocksApart ==
  ASSUME TypeOK, EveryRangeOwned, NEW t \in Threads, NEW u \in Threads,
         NEW g \in BlocksOf(t), NEW h \in BlocksOf(u), t # u \/ g # h
  PROVE  g # h /\ Cells(g) \cap Cells(h) = {}
<1>1. g \in ranges /\ h \in ranges
  BY OwnedRanges DEF BlocksOf
<1>2. g # h
  BY DEF EveryRangeOwned, BlocksOf
<1> QED BY <1>1, <1>2 DEF EveryRangeOwned

(* t writes its own blocks only. *)
WritesOwn(t) ==
  \A a \in Addresses : heap'[a] # heap[a] => \E g \in BlocksOf(t) : a \in Cells(g)

SameThread(u) ==
  /\ held'[u] = held[u] /\ new_ptr'[u] = new_ptr[u] /\ pc'[u] = pc[u]
  /\ request'[u] = request[u] /\ answer'[u] = answer[u]

LEMMA OthersBytes ==
  ASSUME TypeOK, EveryRangeOwned, InsideHeap, NEW t \in Threads, WritesOwn(t),
         NEW u \in Threads, u # t, NEW g \in BlocksOf(u), NEW i \in Nat, i < g.size
  PROVE  heap'[g.ptr + i] = heap[g.ptr + i]
<1>1. g.ptr + i \in Addresses /\ g.ptr + i \in Cells(g)
  BY BlockFacts
<1>2. \A h \in BlocksOf(t) : g.ptr + i \notin Cells(h)
  BY <1>1, BlocksApart
<1> QED BY <1>1, <1>2 DEF WritesOwn

LEMMA OthersKept ==
  ASSUME TypeOK, EveryRangeOwned, InsideHeap, NEW t \in Threads, WritesOwn(t),
         NEW u \in Threads, u # t, SameThread(u), PlaceOf(u), CopiedOf(u)
  PROVE  PlaceOf(u)' /\ CopiedOf(u)'
<1>1. PlaceOf(u)'
  BY DEF SameThread, PlaceOf
<1>2. CopiedOf(u)'
  <2> SUFFICES ASSUME pc[u] = "free", NEW i \in Nat, i < held[u].size, i < new_ptr[u].size
               PROVE  heap'[new_ptr[u].ptr + i] = heap'[held[u].ptr + i]
    BY DEF CopiedOf, SameThread
  <2>1. held[u] \in BlocksOf(u) /\ new_ptr[u] \in BlocksOf(u)
    BY DEF PlaceOf, BlocksOf
  <2>2. /\ heap'[new_ptr[u].ptr + i] = heap[new_ptr[u].ptr + i]
        /\ heap'[held[u].ptr + i] = heap[held[u].ptr + i]
    BY <2>1, OthersBytes
  <2> QED BY <2>2 DEF CopiedOf
<1> QED BY <1>1, <1>2

(* The end of a call. *)
LEMMA FinishEffect ==
  ASSUME TypeOK, NEW t \in Threads, NEW g \in Blocks \cup {None},
         NEW res \in {"ok", "null"}, Finish(t, g, res)
  PROVE  /\ held' \in [Threads -> Blocks \cup {None}]
         /\ request' \in [Threads -> Requests \cup {None}]
         /\ pc' \in [Threads -> Places]
         /\ new_ptr' \in [Threads -> Blocks \cup {None}]
         /\ answer' \in [Threads -> {"ok", "null"}]
         /\ held'[t] = g /\ pc'[t] = "idle" /\ request'[t] = None /\ new_ptr'[t] = None
         /\ answer'[t] = res
         /\ PlaceOf(t)' /\ CopiedOf(t)'
         /\ \A u \in Threads : u # t => SameThread(u)
<1>1. /\ held' \in [Threads -> Blocks \cup {None}]
      /\ request' \in [Threads -> Requests \cup {None}]
      /\ new_ptr' \in [Threads -> Blocks \cup {None}]
      /\ answer' \in [Threads -> {"ok", "null"}]
  BY DEF Finish, TypeOK
<1>2. pc' \in [Threads -> Places]
  BY DEF Finish, TypeOK, Places
<1>3. held'[t] = g /\ pc'[t] = "idle" /\ request'[t] = None /\ new_ptr'[t] = None /\ answer'[t] = res
  BY DEF Finish, TypeOK
<1>4. PlaceOf(t)' /\ CopiedOf(t)'
  BY <1>3 DEF PlaceOf, CopiedOf
<1>5. \A u \in Threads : u # t => SameThread(u)
  BY DEF Finish, TypeOK, SameThread
<1> QED BY <1>1, <1>2, <1>3, <1>4, <1>5

-----------------------------------------------------------------------------
(* One lemma per action.                                                   *)

LEMMA BeginKeeps ==
  ASSUME IInv, NEW t \in Threads, NEW r \in Requests, Begin(t, r)
  PROVE  IInv'
<1>1. TypeOK'
  BY AllocatorAssumption DEF IInv, TypeOK, Begin, Places
<1>2. pc'[t] = "start" /\ request'[t] = r /\ held'[t] = held[t] /\ new_ptr'[t] = new_ptr[t]
      /\ pc[t] = "idle"
  BY DEF Begin, IInv, TypeOK
<1>3. \A u \in Threads : u # t => SameThread(u)
  BY DEF Begin, IInv, TypeOK, SameThread
<1>4. EveryRangeOwned' /\ InsideHeap'
  BY DEF IInv, Begin, EveryRangeOwned, InsideHeap
<1>5. PlaceOf(t)' /\ CopiedOf(t)'
  <2>1. r # None /\ PlaceOf(t)
    BY AllocatorAssumption DEF IInv
  <2> QED BY <1>2, <2>1 DEF PlaceOf, CopiedOf, Begin
<1>6. WritesOwn(t)
  BY DEF WritesOwn, Begin
<1>7. \A u \in Threads : PlaceOf(u)' /\ CopiedOf(u)'
  BY <1>3, <1>5, <1>6, OthersKept DEF IInv
<1> QED BY <1>1, <1>4, <1>7 DEF IInv

LEMMA WriteKeeps ==
  ASSUME IInv, NEW t \in Threads, NEW a \in Addresses, NEW b \in Bytes, Write(t, a, b)
  PROVE  IInv' /\ WritesOwn(t)
<1>1. TypeOK'
  BY DEF IInv, TypeOK, Write
<1>2. EveryRangeOwned' /\ InsideHeap'
  BY DEF IInv, Write, EveryRangeOwned, InsideHeap
<1>3. \A u \in Threads : SameThread(u)
  BY DEF Write, SameThread
<1>4. PlaceOf(t)' /\ CopiedOf(t)'
  BY DEF IInv, Write, PlaceOf, CopiedOf
<1>5. WritesOwn(t)
  <2>1. held[t] \in BlocksOf(t) /\ a \in Cells(held[t])
    BY DEF Write, BlocksOf
  <2>2. \A x \in Addresses : heap'[x] # heap[x] => x = a
    BY DEF Write, IInv, TypeOK
  <2> QED BY <2>1, <2>2 DEF WritesOwn
<1>6. \A u \in Threads : PlaceOf(u)' /\ CopiedOf(u)'
  BY <1>3, <1>4, <1>5, OthersKept DEF IInv
<1> QED BY <1>1, <1>2, <1>5, <1>6 DEF IInv
(* A call that ends, without writing, with block g in the thread's hands.  *)
LEMMA FinishKeeps ==
  ASSUME IInv, NEW t \in Threads, NEW g \in Blocks \cup {None}, NEW res \in {"ok", "null"},
         Finish(t, g, res), UNCHANGED <<aborted, ops>>,
         heap' \in [Addresses -> Bytes], WritesOwn(t),
         ranges' = (ranges \ {held[t], new_ptr[t]}) \cup ({g} \ {None}),
         \/ g \in {None, held[t], new_ptr[t]}
         \/ /\ g \notin ranges /\ g.ptr + g.size <= HeapSize /\ g.ptr % g.align = 0
            /\ \A h \in ranges : Cells(g) \cap Cells(h) = {}
  PROVE  IInv'
<1>1. /\ held' \in [Threads -> Blocks \cup {None}]
      /\ request' \in [Threads -> Requests \cup {None}]
      /\ pc' \in [Threads -> Places]
      /\ new_ptr' \in [Threads -> Blocks \cup {None}]
      /\ answer' \in [Threads -> {"ok", "null"}]
      /\ PlaceOf(t)' /\ CopiedOf(t)'
      /\ \A u \in Threads : u # t => SameThread(u)
  BY FinishEffect DEF IInv
<1>2. TypeOK'
  BY <1>1 DEF IInv, TypeOK
<1>3. EveryRangeOwned'
  <2>1. PICK n : n = None
    OBVIOUS
  <2>2. held' = [held EXCEPT ![t] = g] /\ new_ptr' = [new_ptr EXCEPT ![t] = n]
    BY <2>1 DEF Finish
  <2>3. ranges' = (ranges \ {held[t], new_ptr[t]}) \cup ({g, n} \ {None})
    BY <2>1
  <2>4. \A k \in {g, n} : \/ k \in {None, held[t], new_ptr[t]}
                          \/ /\ k \notin ranges
                             /\ \A h \in ranges : Cells(k) \cap Cells(h) = {}
                             /\ k.ptr % k.align = 0
    BY <2>1
  <2>5. (g = n => g = None) /\ {g, n} \cap {None, held[t], new_ptr[t]} # {}
    BY <2>1
  <2>6. TypeOK /\ EveryRangeOwned
    BY DEF IInv
  <2> QED BY <2>2, <2>3, <2>4, <2>5, <2>6, OwnershipMoves
<1>4. InsideHeap'
  <2> SUFFICES ASSUME NEW h \in ranges' PROVE h.ptr + h.size <= HeapSize
    BY DEF InsideHeap
  <2>1. CASE h \in ranges
    BY <2>1 DEF IInv, InsideHeap
  <2>2. CASE h \notin ranges
    BY <2>2, OwnedRanges DEF IInv
  <2> QED BY <2>1, <2>2
<1>5. \A u \in Threads : PlaceOf(u)' /\ CopiedOf(u)'
  BY <1>1, OthersKept DEF IInv
<1> QED BY <1>2, <1>3, <1>4, <1>5 DEF IInv

LEMMA NothingWritten ==
  ASSUME UNCHANGED heap, NEW t
  PROVE  WritesOwn(t)
  BY DEF WritesOwn

(* A new range is none of the old ones. *)
LEMMA FreshRange ==
  ASSUME NEW g \in Blocks, \A h \in ranges : Cells(g) \cap Cells(h) = {}
  PROVE  g \notin ranges
<1>1. g.ptr \in Cells(g)
  BY AllocatorAssumption DEF Blocks, Cells, Addresses
<1> QED BY <1>1

LEMMA AllocKeeps ==
  ASSUME IInv, NEW t \in Threads, Alloc(t)
  PROVE  IInv'
<1>1. /\ pc[t] = "start" /\ request[t].op = "alloc" /\ PlaceOf(t)
      /\ heap' = heap /\ UNCHANGED <<aborted, ops>>
  BY DEF Alloc, IInv
<1>2. request[t] \in Requests /\ held[t] = None /\ new_ptr[t] = None
  BY <1>1 DEF IInv, TypeOK, PlaceOf
<1>3. PICK g \in rustc_aligned_alloc(request[t].size, request[t].align) :
        \/ g # None /\ Own(g) /\ Finish(t, g, "ok")
        \/ g = None /\ UNCHANGED ranges /\ Finish(t, None, "null")
  BY DEF Alloc
<1>4. None \notin ranges
  BY OwnedRanges DEF IInv
<1>5. heap' \in [Addresses -> Bytes] /\ WritesOwn(t)
  BY <1>1, NothingWritten DEF IInv, TypeOK
<1>6. CASE g # None
  <2>1. /\ g \in Blocks /\ g.ptr + g.size <= HeapSize /\ g.ptr % g.align = 0
        /\ \A h \in ranges : Cells(g) \cap Cells(h) = {}
    BY <1>2, <1>6, AllocResult
  <2>2. g \notin ranges
    BY <2>1, FreshRange
  <2>3. ranges' = (ranges \ {held[t], new_ptr[t]}) \cup ({g} \ {None}) /\ Finish(t, g, "ok")
    BY <1>2, <1>3, <1>4, <1>6 DEF Own
  <2> QED BY <1>1, <1>5, <2>1, <2>2, <2>3, FinishKeeps
<1>7. CASE g = None
  <2>1. ranges' = (ranges \ {held[t], new_ptr[t]}) \cup ({None} \ {None})
        /\ Finish(t, None, "null")
    BY <1>2, <1>3, <1>4, <1>7
  <2> QED BY <1>1, <1>5, <2>1, FinishKeeps
<1> QED BY <1>6, <1>7

LEMMA AllocNewKeeps ==
  ASSUME IInv, NEW t \in Threads, AllocNew(t)
  PROVE  IInv'
<1>1. /\ pc[t] = "start" /\ request[t].op \in {"alloc_zeroed", "realloc"} /\ PlaceOf(t)
      /\ heap' = heap /\ UNCHANGED <<aborted, ops>>
  BY DEF AllocNew, IInv
<1>2. request[t] \in Requests /\ new_ptr[t] = None /\ held[t] \in Blocks \cup {None}
  BY <1>1 DEF IInv, TypeOK, PlaceOf
<1>3. PICK g \in rustc_aligned_alloc(request[t].size, request[t].align) :
        \/ /\ g # None /\ Own(g)
           /\ new_ptr' = [new_ptr EXCEPT ![t] = g]
           /\ pc' = [pc EXCEPT ![t] = IF request[t].op = "realloc" THEN "copy" ELSE "clear"]
           /\ UNCHANGED <<held, request, answer>>
        \/ g = None /\ UNCHANGED ranges /\ Finish(t, held[t], "null")
  BY DEF AllocNew
<1>4. None \notin ranges
  BY OwnedRanges DEF IInv
<1>5. heap' \in [Addresses -> Bytes] /\ WritesOwn(t)
  BY <1>1, NothingWritten DEF IInv, TypeOK
<1>6. CASE g # None
  <2>1. /\ g \in Blocks /\ g.size = request[t].size
        /\ g.ptr + g.size <= HeapSize /\ g.ptr % g.align = 0
        /\ \A h \in ranges : Cells(g) \cap Cells(h) = {}
    BY <1>2, <1>6, AllocResult
  <2>2. g \notin ranges
    BY <2>1, FreshRange
  <2>3. /\ ranges' = ranges \cup {g} /\ new_ptr' = [new_ptr EXCEPT ![t] = g]
        /\ pc' = [pc EXCEPT ![t] = IF request[t].op = "realloc" THEN "copy" ELSE "clear"]
        /\ held' = held /\ request' = request /\ answer' = answer
    BY <1>3, <1>6 DEF Own
  <2>4. TypeOK'
    BY <1>1, <2>1, <2>3 DEF IInv, TypeOK, Places
  <2>5. EveryRangeOwned'
    <3>1. held' = [held EXCEPT ![t] = held[t]]
      BY <2>3 DEF IInv, TypeOK
    <3>2. held[t] # g
      BY <1>6, <2>2, OwnedRanges DEF IInv
    <3>5. \A k \in {held[t], g} : \/ k \in {None, held[t], new_ptr[t]}
                                  \/ /\ k \notin ranges
                                     /\ \A h \in ranges : Cells(k) \cap Cells(h) = {}
                                     /\ k.ptr % k.align = 0
      BY <2>1, <2>2
    <3>6. {held[t], g} \cap {None, held[t], new_ptr[t]} # {} /\ (held[t] = g => held[t] = None)
      BY <3>2
    <3>3. CASE held[t] = None
      <4>1. ranges' = (ranges \ {held[t], new_ptr[t]}) \cup ({held[t], g} \ {None})
        BY <1>2, <1>4, <1>6, <2>3, <3>3
      <4> QED BY <2>3, <3>1, <3>5, <3>6, <4>1, OwnershipMoves DEF IInv
    <3>4. CASE held[t] # None
      <4>1. held[t] \in ranges
        BY <3>4, OwnedRanges DEF IInv
      <4>2. ranges' = (ranges \ {held[t], new_ptr[t]}) \cup ({held[t], g} \ {None})
        BY <1>2, <1>4, <1>6, <2>3, <3>4, <4>1
      <4> QED BY <2>3, <3>1, <3>5, <3>6, <4>2, OwnershipMoves DEF IInv
    <3> QED BY <3>3, <3>4
  <2>6. InsideHeap'
    BY <2>1, <2>3 DEF IInv, InsideHeap
  <2>7. /\ new_ptr'[t] = g /\ pc'[t] = IF request[t].op = "realloc" THEN "copy" ELSE "clear"
        /\ \A u \in Threads : u # t => SameThread(u)
    BY <2>3 DEF IInv, TypeOK, SameThread
  <2>8. PlaceOf(t)' /\ CopiedOf(t)'
    BY <1>1, <1>6, <2>1, <2>3, <2>7 DEF PlaceOf, CopiedOf
  <2>9. \A u \in Threads : PlaceOf(u)' /\ CopiedOf(u)'
    BY <1>5, <2>7, <2>8, OthersKept DEF IInv
  <2> QED BY <2>4, <2>5, <2>6, <2>9 DEF IInv
<1>7. CASE g = None
  <2>1. Finish(t, held[t], "null") /\ ranges' = ranges
    BY <1>3, <1>7
  <2>2. ranges' = (ranges \ {held[t], new_ptr[t]}) \cup ({held[t]} \ {None})
    BY <1>2, <1>4, <2>1, OwnedRanges DEF IInv
  <2> QED BY <1>1, <1>2, <1>5, <2>1, <2>2, FinishKeeps
<1> QED BY <1>6, <1>7

LEMMA ClearKeeps ==
  ASSUME IInv, NEW t \in Threads, Clear(t)
  PROVE  IInv' /\ WritesOwn(t)
<1>1. /\ pc[t] = "clear" /\ PlaceOf(t) /\ Finish(t, new_ptr[t], "ok")
      /\ ranges' = ranges /\ UNCHANGED <<aborted, ops>>
      /\ heap' = [a \in Addresses |-> IF a \in Cells(new_ptr[t]) THEN 0 ELSE heap[a]]
  BY DEF Clear, IInv
<1>2. held[t] = None /\ new_ptr[t] # None /\ new_ptr[t] \in Blocks /\ new_ptr[t] \in BlocksOf(t)
  BY <1>1 DEF PlaceOf, IInv, TypeOK, BlocksOf
<1>3. WritesOwn(t)
  BY <1>1, <1>2 DEF WritesOwn
<1>4. heap' \in [Addresses -> Bytes]
  BY <1>1, AllocatorAssumption DEF IInv, TypeOK
<1>5. None \notin ranges /\ new_ptr[t] \in ranges
  BY <1>2, OwnedRanges DEF IInv
<1>6. ranges' = (ranges \ {held[t], new_ptr[t]}) \cup ({new_ptr[t]} \ {None})
  BY <1>1, <1>2, <1>5
<1> QED BY <1>1, <1>2, <1>3, <1>4, <1>6, FinishKeeps

LEMMA FreeOldKeeps ==
  ASSUME IInv, NEW t \in Threads, FreeOld(t)
  PROVE  IInv'
<1>1. /\ pc[t] = "free" /\ PlaceOf(t) /\ Finish(t, new_ptr[t], "ok")
      /\ ranges' = ranges \ {held[t]} /\ heap' = heap /\ UNCHANGED <<aborted, ops>>
  BY DEF FreeOld, free, IInv
<1>2. held[t] # None /\ new_ptr[t] # None /\ new_ptr[t] \in Blocks
  BY <1>1 DEF PlaceOf, IInv, TypeOK
<1>3. heap' \in [Addresses -> Bytes] /\ WritesOwn(t)
  BY <1>1, NothingWritten DEF IInv, TypeOK
<1>4. new_ptr[t] \in ranges /\ held[t] # new_ptr[t]
  BY <1>2, OwnedRanges DEF IInv, EveryRangeOwned
<1>5. ranges' = (ranges \ {held[t], new_ptr[t]}) \cup ({new_ptr[t]} \ {None})
  BY <1>1, <1>2, <1>4
<1> QED BY <1>1, <1>2, <1>3, <1>5, FinishKeeps

LEMMA DeallocKeeps ==
  ASSUME IInv, NEW t \in Threads, Dealloc(t)
  PROVE  IInv'
<1>1. /\ pc[t] = "start" /\ PlaceOf(t) /\ Finish(t, None, "ok")
      /\ ranges' = ranges \ {held[t]} /\ heap' = heap /\ UNCHANGED <<aborted, ops>>
  BY DEF Dealloc, free, IInv
<1>2. new_ptr[t] = None
  BY <1>1 DEF PlaceOf
<1>3. heap' \in [Addresses -> Bytes] /\ WritesOwn(t)
  BY <1>1, NothingWritten DEF IInv, TypeOK
<1>4. None \notin ranges
  BY OwnedRanges DEF IInv
<1>5. ranges' = (ranges \ {held[t], new_ptr[t]}) \cup ({None} \ {None})
  BY <1>1, <1>2, <1>4
<1> QED BY <1>1, <1>3, <1>5, FinishKeeps

(* memcpy of the common prefix: it reads the old block, writes the new one *)
(* and touches nothing else.                                               *)
LEMMA CopyKeeps ==
  ASSUME IInv, NEW t \in Threads, Copy(t)
  PROVE  /\ IInv' /\ WritesOwn(t)
         /\ \A i \in Nat : i < held[t].size => heap'[held[t].ptr + i] = heap[held[t].ptr + i]
<1> DEFINE old == held[t]
           new == new_ptr[t]
           size == IF old.size < request[t].size THEN old.size ELSE request[t].size
<1>1. /\ pc[t] = "copy" /\ PlaceOf(t)
      /\ pc' = [pc EXCEPT ![t] = "free"]
      /\ UNCHANGED <<ranges, held, request, new_ptr, answer, aborted, ops>>
      /\ heap' = [a \in Addresses |-> IF a \in new.ptr .. new.ptr + size - 1
                                      THEN heap[old.ptr + (a - new.ptr)] ELSE heap[a]]
  BY DEF Copy, IInv
<1>2. /\ old # None /\ new # None /\ old \in BlocksOf(t) /\ new \in BlocksOf(t)
      /\ request[t].op = "realloc" /\ new.size = request[t].size /\ old # new
  BY <1>1 DEF PlaceOf, BlocksOf, IInv, EveryRangeOwned
<1>3. Cells(old) \cap Cells(new) = {}
  BY <1>2, BlocksApart DEF IInv
<1>4. /\ old.ptr \in Nat /\ old.size \in Nat \ {0}
      /\ new.ptr \in Nat /\ new.size \in Nat \ {0}
      /\ \A i \in Nat : i < old.size => old.ptr + i \in Cells(old) /\ old.ptr + i \in Addresses
      /\ \A i \in Nat : i < new.size => new.ptr + i \in Cells(new) /\ new.ptr + i \in Addresses
  BY <1>2, BlockFacts DEF IInv
<1> HIDE DEF old, new
<1>5. size \in Nat \ {0} /\ size <= old.size /\ size <= new.size
      /\ \A i \in Nat : i < old.size /\ i < new.size => i < size
  BY <1>2, <1>4
<1> HIDE DEF size
<1>6. \A a \in new.ptr .. new.ptr + size - 1 :
        /\ a - new.ptr \in Nat /\ a - new.ptr < size /\ a = new.ptr + (a - new.ptr)
  BY <1>4, <1>5
<1>7. \A a \in new.ptr .. new.ptr + size - 1 :
        a \in Cells(new) /\ old.ptr + (a - new.ptr) \in Addresses
  <2> SUFFICES ASSUME NEW a \in new.ptr .. new.ptr + size - 1
               PROVE  a \in Cells(new) /\ old.ptr + (a - new.ptr) \in Addresses
    OBVIOUS
  <2>1. PICK i \in Nat : i < size /\ a = new.ptr + i /\ i = a - new.ptr
    BY <1>6
  <2>2. i < old.size /\ i < new.size
    BY <1>4, <1>5, <2>1
  <2> QED BY <1>4, <2>1, <2>2
<1>8. heap' \in [Addresses -> Bytes]
  BY <1>1, <1>7 DEF IInv, TypeOK
<1>9. TypeOK'
  BY <1>1, <1>8 DEF IInv, TypeOK, Places
<1>10. WritesOwn(t)
  BY <1>1, <1>2, <1>7 DEF WritesOwn
<1>11. \A i \in Nat : i < old.size => heap'[old.ptr + i] = heap[old.ptr + i]
  BY <1>1, <1>3, <1>4, <1>7
<1>12. \A i \in Nat : i < size => heap'[new.ptr + i] = heap[old.ptr + i]
  <2> SUFFICES ASSUME NEW i \in Nat, i < size
               PROVE  heap'[new.ptr + i] = heap[old.ptr + i]
    OBVIOUS
  <2>1. /\ new.ptr + i \in new.ptr .. new.ptr + size - 1
        /\ (new.ptr + i) - new.ptr = i /\ i < new.size
    BY <1>4, <1>5
  <2> QED BY <1>1, <1>4, <2>1
<1>13. CopiedOf(t)'
  <2>1. \A i \in Nat : i < old.size /\ i < new.size => heap'[new.ptr + i] = heap'[old.ptr + i]
    BY <1>5, <1>11, <1>12
  <2> QED BY <1>1, <2>1 DEF CopiedOf, old, new
<1>14. pc'[t] = "free" /\ \A u \in Threads : u # t => SameThread(u)
  BY <1>1 DEF IInv, TypeOK, SameThread
<1>15. PlaceOf(t)'
  BY <1>1, <1>14 DEF PlaceOf
<1>16. EveryRangeOwned' /\ InsideHeap'
  BY <1>1 DEF IInv, EveryRangeOwned, InsideHeap
<1>17. \A u \in Threads : PlaceOf(u)' /\ CopiedOf(u)'
  BY <1>10, <1>13, <1>14, <1>15, OthersKept DEF IInv
<1> QED BY <1>9, <1>10, <1>11, <1>16, <1>17 DEF IInv, old

LEMMA AllocErrorKeeps ==
  ASSUME IInv, NEW t \in Threads, AllocError(t)
  PROVE  IInv'
<1>1. TypeOK'
  BY DEF IInv, TypeOK, AllocError
<1>2. EveryRangeOwned' /\ InsideHeap'
  BY DEF IInv, AllocError, EveryRangeOwned, InsideHeap
<1>3. \A u \in Threads : PlaceOf(u)' /\ CopiedOf(u)'
  BY DEF IInv, AllocError, PlaceOf, CopiedOf
<1> QED BY <1>1, <1>2, <1>3 DEF IInv

LEMMA StepKeeps == IInv /\ [Next]_vars => IInv'
<1> SUFFICES ASSUME IInv, [Next]_vars PROVE IInv'
  OBVIOUS
<1>1. CASE UNCHANGED vars
  <2>1. TypeOK'
    BY <1>1 DEF IInv, TypeOK, vars
  <2>2. EveryRangeOwned' /\ InsideHeap'
    BY <1>1 DEF IInv, EveryRangeOwned, InsideHeap, vars
  <2>3. \A u \in Threads : PlaceOf(u)' /\ CopiedOf(u)'
    BY <1>1 DEF IInv, PlaceOf, CopiedOf, vars
  <2> QED BY <2>1, <2>2, <2>3 DEF IInv
<1>2. CASE Next
  BY <1>2, BeginKeeps, WriteKeeps, AllocKeeps, AllocNewKeeps, ClearKeeps, CopyKeeps,
     FreeOldKeeps, DeallocKeeps, AllocErrorKeeps DEF Next, Work
<1> QED BY <1>1, <1>2

LEMMA StartHolds == Init => IInv
<1> SUFFICES ASSUME Init PROVE IInv
  OBVIOUS
<1>1. TypeOK
  <2>1. /\ heap \in [Addresses -> Bytes] /\ ranges \subseteq Blocks /\ aborted \in BOOLEAN
        /\ held \in [Threads -> Blocks \cup {None}]
        /\ new_ptr \in [Threads -> Blocks \cup {None}]
        /\ request \in [Threads -> Requests \cup {None}]
    BY DEF Init
  <2>2. pc \in [Threads -> Places] /\ answer \in [Threads -> {"ok", "null"}]
    BY DEF Init, Places
  <2>3. ops \in 0 .. MaxOps
    BY AllocatorAssumption DEF Init
  <2> QED BY <2>1, <2>2, <2>3 DEF TypeOK
<1>2. EveryRangeOwned /\ InsideHeap
  BY DEF Init, EveryRangeOwned, InsideHeap
<1>3. \A t \in Threads : PlaceOf(t) /\ CopiedOf(t)
  BY DEF Init, PlaceOf, CopiedOf
<1> QED BY <1>1, <1>2, <1>3 DEF IInv

(* The inductive invariant holds in every reachable state. *)
THEOREM InvariantHolds == Spec => []IInv
  BY StartHolds, StepKeeps, PTL DEF Spec

(* Type correctness: in particular every allocation the shims make is a    *)
(* range of the heap of at least one byte with a positive alignment.       *)
THEOREM TypeCorrect == Spec => []TypeOK
<1>1. IInv => TypeOK
  BY DEF IInv
<1> QED BY <1>1, InvariantHolds, PTL

(* Whatever threads interleave inside alloc_zeroed and realloc, the C      *)
(* heap's allocations are the threads' blocks and the new blocks of calls  *)
(* under way, one owner each, apart from each other and aligned as asked:  *)
(* nothing is leaked, freed twice or shared.                               *)
THEOREM NothingLost == Spec => []EveryRangeOwned
<1>1. IInv => EveryRangeOwned
  BY DEF IInv
<1> QED BY <1>1, InvariantHolds, PTL

-----------------------------------------------------------------------------
(* When a call returns null.                                               *)

LEMMA NullStep ==
  ASSUME IInv, [Next]_vars, NEW t \in Threads,
         pc[t] # "idle", pc'[t] = "idle", answer'[t] = "null"
  PROVE  \A p \in Room(request[t].size, request[t].align) : p % WordSize # 0
<1>1. PICK u \in Threads : \/ \E r \in Requests : Begin(u, r)
                           \/ \E a \in Addresses, b \in Bytes : Write(u, a, b)
                           \/ Work(u)
                           \/ AllocError(u)
  BY DEF Next, vars
<1>2. pc[t] \in Places /\ pc \in [Threads -> Places] /\ answer \in [Threads -> {"ok", "null"}]
  BY DEF IInv, TypeOK
<1>3. ~AllocError(u) /\ \A a \in Addresses, b \in Bytes : ~Write(u, a, b)
  BY DEF AllocError, Write
<1>4. \A r \in Requests : ~Begin(u, r)
  BY <1>2 DEF Begin
<1>5. ~Copy(u)
  BY <1>2 DEF Copy
<1>6. ~Clear(u) /\ ~FreeOld(u) /\ ~Dealloc(u)
  <2>1. ASSUME NEW g, Finish(u, g, "ok") PROVE FALSE
    BY <1>2, <2>1 DEF Finish
  <2> QED BY <2>1 DEF Clear, FreeOld, Dealloc
<1>7. /\ pc[u] = "start"
      /\ \E g \in rustc_aligned_alloc(request[u].size, request[u].align) :
           \/ g = None /\ \E h : Finish(u, h, "null")
           \/ \E h : Finish(u, h, "ok")
           \/ \E q \in {"copy", "clear"} : pc' = [pc EXCEPT ![u] = q]
  BY <1>1, <1>3, <1>4, <1>5, <1>6 DEF Work, Alloc, AllocNew
<1>8. u = t /\ \E g \in rustc_aligned_alloc(request[u].size, request[u].align) : g = None
  BY <1>2, <1>7 DEF Finish
<1>9. request[t] \in Requests
  BY <1>7, <1>8 DEF IInv, TypeOK, PlaceOf
<1> QED BY <1>8, <1>9, AllocResult

(* An allocating shim returns null only when there is no room for the      *)
(* layout: the alignment that __rustc_aligned_alloc passes on is one that  *)
(* posix_memalign accepts, for every power of two Rust may ask for.        *)
THEOREM NullIsHonest == Spec => NullMeansNoRoom
<1>1. IInv /\ [Next]_vars =>
        [\A t \in Threads :
           pc[t] # "idle" /\ pc'[t] = "idle" /\ answer'[t] = "null" =>
             \A p \in Room(request[t].size, request[t].align) : p % WordSize # 0]_vars
  BY NullStep
<1> QED BY <1>1, InvariantHolds, PTL DEF Spec, NullMeansNoRoom

-----------------------------------------------------------------------------
(* The shims implement GlobalAlloc, a block's bytes being those the heap   *)
(* has in its range.                                                       *)

Contents(g) == [i \in 0 .. g.size - 1 |-> heap[g.ptr + i]]

BlockBar == [t \in Threads |->
               IF held[t] = None THEN None
               ELSE [i \in 0 .. held[t].size - 1 |-> heap[held[t].ptr + i]]]

LEMMA BarRows == \A t \in Threads : BlockBar[t] = IF held[t] = None THEN None ELSE Contents(held[t])
  BY DEF BlockBar, Contents

LEMMA BytesAreNoNull ==
  ASSUME NEW n \in Nat \ {0}, n <= HeapSize, NEW f \in [0 .. n - 1 -> Bytes]
  PROVE  f # None
<1>1. n \in 1 .. HeapSize
  BY AllocatorAssumption
<1> QED BY <1>1, AllocatorAssumption

LEMMA BlockContents ==
  ASSUME IInv, NEW t \in Threads, NEW g \in BlocksOf(t)
  PROVE  Contents(g) \in [0 .. g.size - 1 -> Bytes] /\ Contents(g) # None
<1>1. /\ g.ptr \in Nat /\ g.size \in Nat \ {0} /\ g.ptr + g.size <= HeapSize
      /\ \A i \in Nat : i < g.size => g.ptr + i \in Addresses
  BY BlockFacts DEF IInv
<1>2. \A i \in 0 .. g.size - 1 : g.ptr + i \in Addresses
  BY <1>1
<1>3. Contents(g) \in [0 .. g.size - 1 -> Bytes]
  BY <1>2 DEF Contents, IInv, TypeOK
<1>4. g.size <= HeapSize
  BY <1>1, AllocatorAssumption
<1> QED BY <1>1, <1>3, <1>4, BytesAreNoNull

LEMMA BarIsNone ==
  ASSUME IInv, NEW t \in Threads
  PROVE  BlockBar[t] = None <=> held[t] = None
  BY BarRows, BlockContents DEF BlocksOf

(* A thread's step leaves the bytes of the others' blocks alone. *)
LEMMA OthersBar ==
  ASSUME IInv, NEW t \in Threads, WritesOwn(t),
         \A u \in Threads : u # t => held'[u] = held[u],
         NEW row, BlockBar'[t] = row
  PROVE  BlockBar' = [BlockBar EXCEPT ![t] = row]
<1>1. ASSUME NEW u \in Threads, u # t PROVE BlockBar'[u] = BlockBar[u]
  <2>1. CASE held[u] = None
    BY <1>1, <2>1 DEF BlockBar
  <2>2. CASE held[u] # None
    <3>1. held[u] \in BlocksOf(u)
      BY <2>2 DEF BlocksOf
    <3>2. held[u].size \in Nat
      BY <3>1, BlockFacts DEF IInv
    <3>3. \A i \in 0 .. held[u].size - 1 : heap'[held[u].ptr + i] = heap[held[u].ptr + i]
      BY <1>1, <3>1, <3>2, OthersBytes DEF IInv
    <3> QED BY <1>1, <2>2, <3>3 DEF BlockBar
  <2> QED BY <2>1, <2>2
<1>2. /\ DOMAIN BlockBar' = Threads /\ DOMAIN BlockBar = Threads
      /\ BlockBar' = [u \in Threads |-> BlockBar'[u]]
  BY DEF BlockBar
<1>3. BlockBar' = [u \in Threads |-> IF u = t THEN row ELSE BlockBar[u]]
  BY <1>1, <1>2
<1> QED BY <1>2, <1>3

LEMMA SameBar ==
  ASSUME IInv, NEW t \in Threads, WritesOwn(t), held' = held,
         BlockBar'[t] = BlockBar[t]
  PROVE  BlockBar' = BlockBar
<1>1. BlockBar' = [BlockBar EXCEPT ![t] = BlockBar[t]]
  BY OthersBar
<1> QED BY <1>1 DEF BlockBar

LEMMA BeginRefines ==
  ASSUME IInv, NEW t \in Threads, NEW r \in Requests, Begin(t, r)
  PROVE  Rust!Call(t, r)
<1>1. BlockBar' = BlockBar
  BY DEF Begin, BlockBar
<1>2. BlockBar[t] = None <=> held[t] = None
  BY BarIsNone
<1>3. request[t] = None
  BY DEF IInv, PlaceOf, Begin
<1> QED BY <1>1, <1>2, <1>3 DEF Begin, Rust!Call, BlockBar

LEMMA WriteRefines ==
  ASSUME IInv, NEW t \in Threads, NEW a \in Addresses, NEW b \in Bytes, Write(t, a, b)
  PROVE  Rust!Write(t, b)
<1> DEFINE i == a - held[t].ptr
<1>1. held[t] \in BlocksOf(t) /\ held[t] # None /\ a \in Cells(held[t]) /\ request[t] = None
  BY DEF Write, BlocksOf, IInv, PlaceOf
<1>2. i \in 0 .. held[t].size - 1 /\ held[t].ptr \in Nat /\ held[t].size \in Nat
      /\ \A j \in Nat : j < held[t].size => held[t].ptr + j \in Addresses
  BY <1>1, BlockFacts DEF IInv
<1>3. \A j \in 0 .. held[t].size - 1 :
        heap'[held[t].ptr + j] = IF j = i THEN b ELSE heap[held[t].ptr + j]
  <2> SUFFICES ASSUME NEW j \in 0 .. held[t].size - 1
               PROVE  heap'[held[t].ptr + j] = IF j = i THEN b ELSE heap[held[t].ptr + j]
    OBVIOUS
  <2>1. held[t].ptr + j \in Addresses /\ a \in Nat /\ (held[t].ptr + j = a <=> j = i)
    BY <1>2, AllocatorAssumption DEF Addresses
  <2> HIDE DEF i
  <2> QED BY <2>1 DEF Write, IInv, TypeOK
<1> HIDE DEF i
<1>4. BlockBar[t] = Contents(held[t]) /\ DOMAIN Contents(held[t]) = 0 .. held[t].size - 1
  BY <1>1, BarRows DEF Contents
<1>5. BlockBar'[t] = [Contents(held[t]) EXCEPT ![i] = b]
  <2>1. BlockBar'[t] = [j \in 0 .. held[t].size - 1 |-> heap'[held[t].ptr + j]]
    BY <1>1 DEF BlockBar, Write
  <2> QED BY <1>2, <1>3, <2>1 DEF Contents
<1>6. BlockBar' = [BlockBar EXCEPT ![t] = [Contents(held[t]) EXCEPT ![i] = b]]
  BY <1>5, WriteKeeps, OthersBar DEF Write
<1>7. BlockBar' = [BlockBar EXCEPT ![t][i] = b]
  BY <1>4, <1>6
<1>8. i \in DOMAIN BlockBar[t] /\ BlockBar[t] # None
  BY <1>1, <1>2, <1>4, BarIsNone
<1> QED BY <1>1, <1>7, <1>8 DEF Rust!Write, BlockBar, Write

(* A call that succeeds, and one that fails. *)
LEMMA OkRefines ==
  ASSUME IInv, NEW t \in Threads, NEW g, ~aborted, request[t] # None,
         Finish(t, g, "ok"), UNCHANGED aborted, WritesOwn(t),
         BlockBar'[t] \in Rust!Results(request[t], BlockBar[t])
  PROVE  Rust!Return(t)
<1>1. \A u \in Threads : u # t => held'[u] = held[u]
  BY DEF Finish, IInv, TypeOK
<1>2. PICK row : row = BlockBar'[t]
  OBVIOUS
<1>3. BlockBar' = [BlockBar EXCEPT ![t] = row] /\ row \in Rust!Results(request[t], BlockBar[t])
  BY <1>1, <1>2, OthersBar
<1>4. request' = [request EXCEPT ![t] = None] /\ answer' = [answer EXCEPT ![t] = "ok"]
  BY DEF Finish
<1> QED BY <1>3, <1>4 DEF Rust!Return, BlockBar

LEMMA NullRefines ==
  ASSUME IInv, NEW t \in Threads, ~aborted, request[t] # None, request[t].op # "dealloc",
         Finish(t, held[t], "null"), UNCHANGED <<heap, aborted>>
  PROVE  Rust!Return(t)
<1>1. held' = held
  BY DEF Finish, IInv, TypeOK
<1>2. BlockBar' = BlockBar
  BY <1>1 DEF BlockBar
<1> QED BY <1>2 DEF Rust!Return, BlockBar, Finish

LEMMA AllocRefines ==
  ASSUME IInv, NEW t \in Threads, Alloc(t)
  PROVE  Rust!Return(t)
<1>1. /\ ~aborted /\ pc[t] = "start" /\ request[t].op = "alloc" /\ PlaceOf(t)
      /\ heap' = heap /\ aborted' = aborted
  BY DEF Alloc, IInv
<1>2. request[t] \in Requests /\ request[t] # None /\ held[t] = None
  BY <1>1 DEF IInv, TypeOK, PlaceOf
<1>3. PICK g \in rustc_aligned_alloc(request[t].size, request[t].align) :
        \/ g # None /\ Own(g) /\ Finish(t, g, "ok")
        \/ g = None /\ UNCHANGED ranges /\ Finish(t, None, "null")
  BY DEF Alloc
<1>4. CASE g # None
  <2>1. g.size = request[t].size /\ held'[t] = g
    BY <1>2, <1>3, <1>4, AllocResult DEF Finish, IInv, TypeOK
  <2>2. BlockBar'[t] \in [0 .. g.size - 1 -> Bytes]
    <3>1. g \in Blocks /\ g.ptr + g.size <= HeapSize
      BY <1>2, <1>4, AllocResult
    <3>2. \A i \in 0 .. g.size - 1 : g.ptr + i \in Addresses
      BY <3>1, AllocatorAssumption DEF Blocks, Addresses
    <3>3. BlockBar'[t] = [i \in 0 .. g.size - 1 |-> heap[g.ptr + i]]
      BY <1>1, <1>4, <2>1 DEF BlockBar
    <3> QED BY <3>2, <3>3 DEF IInv, TypeOK
  <2>3. BlockBar'[t] \in Rust!Results(request[t], BlockBar[t])
    BY <1>1, <2>1, <2>2 DEF Rust!Results
  <2> QED BY <1>1, <1>2, <1>3, <1>4, <2>3, NothingWritten, OkRefines
<1>5. CASE g = None
  BY <1>1, <1>2, <1>3, <1>5, NullRefines
<1> QED BY <1>4, <1>5

(* The allocation inside alloc_zeroed and realloc shows only if it fails. *)
LEMMA AllocNewRefines ==
  ASSUME IInv, NEW t \in Threads, AllocNew(t)
  PROVE  Rust!Return(t) \/ UNCHANGED <<BlockBar, request, answer, aborted>>
<1>1. /\ ~aborted /\ pc[t] = "start" /\ request[t].op \in {"alloc_zeroed", "realloc"} /\ PlaceOf(t)
      /\ heap' = heap /\ aborted' = aborted
  BY DEF AllocNew, IInv
<1>2. request[t] # None
  BY <1>1 DEF PlaceOf
<1>3. \/ held' = held /\ request' = request /\ answer' = answer
      \/ Finish(t, held[t], "null")
  BY DEF AllocNew
<1>4. CASE held' = held /\ request' = request /\ answer' = answer
  BY <1>1, <1>4 DEF BlockBar
<1>5. CASE Finish(t, held[t], "null")
  BY <1>1, <1>2, <1>5, NullRefines
<1> QED BY <1>3, <1>4, <1>5

LEMMA ClearRefines ==
  ASSUME IInv, NEW t \in Threads, Clear(t)
  PROVE  Rust!Return(t)
<1>1. /\ ~aborted /\ pc[t] = "clear" /\ PlaceOf(t) /\ Finish(t, new_ptr[t], "ok")
      /\ aborted' = aborted
      /\ heap' = [a \in Addresses |-> IF a \in Cells(new_ptr[t]) THEN 0 ELSE heap[a]]
  BY DEF Clear, IInv
<1>2. /\ request[t] # None /\ request[t].op = "alloc_zeroed" /\ new_ptr[t] # None
      /\ new_ptr[t] \in BlocksOf(t) /\ new_ptr[t].size = request[t].size
  BY <1>1 DEF PlaceOf, BlocksOf
<1>3. \A i \in 0 .. new_ptr[t].size - 1 : heap'[new_ptr[t].ptr + i] = 0
  <2>1. /\ new_ptr[t].size \in Nat
        /\ \A i \in Nat : i < new_ptr[t].size =>
             new_ptr[t].ptr + i \in Cells(new_ptr[t]) /\ new_ptr[t].ptr + i \in Addresses
    BY <1>2, BlockFacts DEF IInv
  <2> QED BY <1>1, <2>1
<1>4. held'[t] = new_ptr[t]
  BY <1>1 DEF Finish, IInv, TypeOK
<1>5. BlockBar'[t] = [i \in 0 .. request[t].size - 1 |-> 0]
  BY <1>2, <1>3, <1>4 DEF BlockBar
<1>6. BlockBar'[t] \in Rust!Results(request[t], BlockBar[t])
  BY <1>2, <1>5 DEF Rust!Results
<1> QED BY <1>1, <1>2, <1>6, ClearKeeps, OkRefines

LEMMA CopyIsSilent ==
  ASSUME IInv, NEW t \in Threads, Copy(t)
  PROVE  UNCHANGED <<BlockBar, request, answer, aborted>>
<1>1. /\ held' = held /\ request' = request /\ answer' = answer /\ aborted' = aborted
      /\ pc[t] = "copy" /\ PlaceOf(t)
  BY DEF Copy, IInv
<1>2. held[t] # None /\ held[t] \in BlocksOf(t)
  BY <1>1 DEF PlaceOf, BlocksOf
<1>3. held[t].size \in Nat
  BY <1>2, BlockFacts DEF IInv
<1>4. \A i \in 0 .. held[t].size - 1 : heap'[held[t].ptr + i] = heap[held[t].ptr + i]
  BY <1>3, CopyKeeps
<1>5. BlockBar'[t] = BlockBar[t]
  BY <1>1, <1>2, <1>4 DEF BlockBar
<1> QED BY <1>1, <1>5, CopyKeeps, SameBar

LEMMA FreeOldRefines ==
  ASSUME IInv, NEW t \in Threads, FreeOld(t)
  PROVE  Rust!Return(t)
<1>1. /\ ~aborted /\ pc[t] = "free" /\ PlaceOf(t) /\ CopiedOf(t) /\ Finish(t, new_ptr[t], "ok")
      /\ aborted' = aborted /\ heap' = heap
  BY DEF FreeOld, IInv
<1>2. /\ request[t] # None /\ request[t].op = "realloc" /\ new_ptr[t] # None /\ held[t] # None
      /\ new_ptr[t] \in BlocksOf(t) /\ held[t] \in BlocksOf(t)
      /\ new_ptr[t].size = request[t].size
  BY <1>1 DEF PlaceOf, BlocksOf
<1>3. held'[t] = new_ptr[t]
  BY <1>1 DEF Finish, IInv, TypeOK
<1>4. BlockBar'[t] = Contents(new_ptr[t]) /\ BlockBar[t] = Contents(held[t])
  BY <1>1, <1>2, <1>3 DEF BlockBar, Contents
<1>5. held[t].size \in Nat /\ new_ptr[t].size \in Nat
  BY <1>2, BlockFacts DEF IInv
<1>6. \A i \in DOMAIN Contents(held[t]) \cap DOMAIN Contents(new_ptr[t]) :
        Contents(new_ptr[t])[i] = Contents(held[t])[i]
  BY <1>1, <1>5 DEF Contents, CopiedOf
<1>7. Contents(new_ptr[t]) \in [0 .. request[t].size - 1 -> Bytes]
  BY <1>2, BlockContents
<1>8. BlockBar'[t] \in Rust!Results(request[t], BlockBar[t])
  BY <1>2, <1>4, <1>6, <1>7 DEF Rust!Results
<1> QED BY <1>1, <1>2, <1>8, NothingWritten, OkRefines

LEMMA DeallocRefines ==
  ASSUME IInv, NEW t \in Threads, Dealloc(t)
  PROVE  Rust!Return(t)
<1>1. /\ ~aborted /\ pc[t] = "start" /\ request[t].op = "dealloc" /\ PlaceOf(t)
      /\ Finish(t, None, "ok") /\ aborted' = aborted /\ heap' = heap
  BY DEF Dealloc, IInv
<1>2. request[t] # None /\ held'[t] = None
  BY <1>1 DEF PlaceOf, Finish, IInv, TypeOK
<1>3. BlockBar'[t] = None
  BY <1>2 DEF BlockBar
<1>4. BlockBar'[t] \in Rust!Results(request[t], BlockBar[t])
  BY <1>1, <1>3 DEF Rust!Results
<1> QED BY <1>1, <1>2, <1>4, NothingWritten, OkRefines

LEMMA ErrorRefines ==
  ASSUME IInv, NEW t \in Threads, AllocError(t)
  PROVE  Rust!AllocError(t)
<1>1. BlockBar' = BlockBar
  BY DEF AllocError, BlockBar
<1>2. request[t] = None
  BY DEF AllocError, IInv, PlaceOf
<1> QED BY <1>1, <1>2 DEF AllocError, Rust!AllocError, BlockBar

LEMMA StepRefines == IInv /\ [Next]_vars => [Rust!Next]_(Rust!vars)
<1> SUFFICES ASSUME IInv, [Next]_vars PROVE [Rust!Next]_(Rust!vars)
  OBVIOUS
<1>1. CASE UNCHANGED vars
  BY <1>1 DEF vars, Rust!vars
<1>2. ASSUME UNCHANGED <<BlockBar, request, answer, aborted>> PROVE UNCHANGED Rust!vars
  BY <1>2 DEF Rust!vars, BlockBar
<1>3. ASSUME NEW t \in Threads, \E r \in Requests : Begin(t, r) PROVE Rust!Next
  BY <1>3, BeginRefines DEF Rust!Next
<1>4. ASSUME NEW t \in Threads, \E a \in Addresses, b \in Bytes : Write(t, a, b) PROVE Rust!Next
  BY <1>4, WriteRefines DEF Rust!Next
<1>5. ASSUME NEW t \in Threads, AllocError(t) PROVE Rust!Next
  BY <1>5, ErrorRefines DEF Rust!Next
<1>6. ASSUME NEW t \in Threads, Work(t) PROVE [Rust!Next]_(Rust!vars)
  <2>1. Rust!Return(t) \/ UNCHANGED <<BlockBar, request, answer, aborted>>
    BY <1>6, AllocRefines, AllocNewRefines, ClearRefines, CopyIsSilent, FreeOldRefines,
       DeallocRefines DEF Work
  <2> QED BY <1>2, <2>1 DEF Rust!Next
<1>7. CASE Next
  BY <1>3, <1>4, <1>5, <1>6, <1>7 DEF Next
<1> QED BY <1>1, <1>7

(* The shims refine Rust's global allocator: a thread's block changes only *)
(* by its own writes and calls, alloc_zeroed gives zeros, realloc keeps    *)
(* the common prefix, a failed call changes nothing, however the steps of  *)
(* the threads' calls interleave.                                          *)
THEOREM KeepsRustsPromise == Spec => ImplementsGlobalAlloc
<1>1. Init => Rust!Init
  BY DEF Init, Rust!Init
<1>2. IInv /\ [Next]_vars => [Rust!Next]_(Rust!vars)
  BY StepRefines
<1> QED BY <1>1, <1>2, InvariantHolds, PTL DEF Spec, ImplementsGlobalAlloc, Rust!Spec
=============================================================================
