------------------------ MODULE AtomicLowering_proofs -----------------------
(***************************************************************************)
(* The lowering of atomic operations is linearizable for every number of   *)
(* threads, every set of values and operations, narrow or wide.            *)
(***************************************************************************)
EXTENDS AtomicLowering, TLAPS

(* What an operation leaves is a value: the C expressions of the           *)
(* read-modify-writes stay in the object's type.                           *)
LEMMA EffectType ==
  ASSUME NEW r \in Requests, NEW v \in Values
  PROVE Effect(r, v) \in Values
<1>1. r \in [op : Ops, arg : Values, cmp : Values]
  BY AtomicAssumption
<1>2. r.op \in LoopOps \cup (DirectOps \ {"xchg"}) => Rmw(r.op, v, r.arg) \in Values
  BY AtomicAssumption
<1>3. r.op \in Ops /\ r.arg \in Values /\ r.cmp \in Values
  BY <1>1
<1>4. CASE r.op = "load"
  BY <1>4 DEF Effect
<1>5. CASE r.op \in {"store", "swp", "xchg"}
  BY <1>5, <1>3 DEF Effect
<1>6. CASE r.op = "cmpxchg"
  BY <1>6, <1>3 DEF Effect
<1>7. CASE r.op \in LoopOps \cup (DirectOps \ {"xchg"})
  <2>1. Effect(r, v) = Rmw(r.op, v, r.arg)
    BY <1>7 DEF Effect, LoopOps, DirectOps
  <2> QED BY <2>1, <1>2, <1>7
<1> QED BY <1>3, <1>4, <1>5, <1>6, <1>7 DEF Ops, LoopOps, DirectOps

(* A loop that computes `desired` computes the operation's effect. *)
LEMMA LoopEffect ==
  ASSUME NEW r, NEW v, r.op \in LoopOps
  PROVE Effect(r, v) = Rmw(r.op, v, r.arg)
BY DEF Effect, LoopOps

(* A store, or the outline swap, leaves its argument. *)
LEMMA PlainReadEffect ==
  ASSUME NEW r, NEW v, PlainRead(r)
  PROVE Effect(r, v) = r.arg
BY DEF Effect, PlainRead

(* Every step preserves the types. *)
LEMMA TypeStep ==
  ASSUME IInv, [Next]_vars
  PROVE TypeOK'
<1> USE DEF TypeOK
<1>0. /\ mem \in Values
      /\ request \in [Threads -> Requests \cup {Idle}]
      /\ pc \in [Threads -> Places]
      /\ old \in [Threads -> Values]
      /\ desired \in [Threads -> Values]
      /\ answer \in [Threads -> Values]
      /\ ops \in 0 .. MaxOps
      /\ wide \in BOOLEAN
      /\ MaxOps \in Nat /\ InitialValue \in Values
  BY AtomicAssumption DEF IInv
<1>1. CASE UNCHANGED vars
  BY <1>0, <1>1 DEF vars
<1>2. ASSUME NEW t \in Threads, NEW r \in Requests, Begin(t, r)
      PROVE TypeOK'
  <2>1. ops' \in 0 .. MaxOps
    BY <1>0, <1>2 DEF Begin
  <2>2. request' \in [Threads -> Requests \cup {Idle}] /\ pc' \in [Threads -> Places]
    BY <1>0, <1>2 DEF Begin, Places
  <2> QED BY <2>1, <2>2, <1>0, <1>2 DEF Begin
<1>3. ASSUME NEW t \in Threads, Work(t)
      PROVE TypeOK'
  <2>0. /\ pc[t] # "idle" => request[t] \in Requests
        /\ pc[t] = "body" => request[t].op \in LoopOps
        /\ \A r \in Requests : r.op \in Ops /\ r.arg \in Values
    BY <1>0, AtomicAssumption DEF IInv, PlaceMatchesRequest
  <2>1. CASE Primitive(t)
    <3>1. mem' \in Values
      BY <2>1, <2>0, <1>0, EffectType DEF Primitive
    <3> QED BY <3>1, <2>1, <1>0 DEF Primitive, Finish, Goto, Places
  <2>2. CASE LoopLoad(t)
    BY <2>2, <1>0 DEF LoopLoad, Goto, Places
  <2>3. CASE LoopBody(t)
    <3>1. request[t] \in Requests /\ request[t].op \in LoopOps
      BY <2>3, <2>0 DEF LoopBody, Goto
    <3>2. Rmw(request[t].op, old[t], request[t].arg) \in Values
      BY <3>1, <1>0, AtomicAssumption
    <3> QED BY <3>2, <2>3, <1>0 DEF LoopBody, Goto, Places
  <2>4. CASE WeakCasFails(t)
    BY <2>4, <1>0 DEF WeakCasFails, Goto, Places
  <2>5. CASE PlainReadWhole(t)
    <3>1. request[t].arg \in Values
      BY <2>5, <2>0 DEF PlainReadWhole, Goto
    <3> QED BY <3>1, <2>5, <1>0 DEF PlainReadWhole, Goto, Places
  <2>6. CASE PlainReadFirst(t)
    <3>1. <<mem[1], old[t][2]>> \in Values /\ <<old[t][1], mem[2]>> \in Values
      BY <1>0 DEF Values
    <3> QED BY <3>1, <2>6, <1>0 DEF PlainReadFirst, Goto, Places
  <2>7. CASE PlainReadSecond(t)
    <3>1. <<mem[1], old[t][2]>> \in Values /\ <<old[t][1], mem[2]>> \in Values
      BY <1>0 DEF Values
    <3>2. request[t].arg \in Values
      BY <2>7, <2>0 DEF PlainReadSecond, Goto
    <3> QED BY <3>1, <3>2, <2>7, <1>0 DEF PlainReadSecond, Goto, Places
  <2>8. CASE BoolCasFails(t)
    BY <2>8, <1>0 DEF BoolCasFails, Goto, Places
  <2>9. CASE CasSucceeds(t)
    BY <2>9, <1>0 DEF CasSucceeds, Finish, Goto, Places
  <2> QED BY <1>3, <2>1, <2>2, <2>3, <2>4, <2>5, <2>6, <2>7, <2>8, <2>9 DEF Work
<1> QED BY <1>1, <1>2, <1>3 DEF Next

(* What the invariant says of one thread, in terms of its row. *)
Row(p, r, o, d) ==
  /\ p = "idle" <=> r = Idle
  /\ p = "body" => r.op \in LoopOps
  /\ p \in {"low", "high"} => PlainRead(r)
  /\ p = "cas" => Looping(r) /\ d = Effect(r, o)

(* Every step keeps a thread's place in step with its operation, and       *)
(* `desired` with `old`.                                                   *)
LEMMA RowStep ==
  ASSUME IInv, [Next]_vars
  PROVE PlaceMatchesRequest' /\ DesiredMatchesOld'
<1>0. /\ request \in [Threads -> Requests \cup {Idle}]
      /\ pc \in [Threads -> Places]
      /\ old \in [Threads -> Values]
      /\ desired \in [Threads -> Values]
      /\ Idle \notin Requests
  BY AtomicAssumption DEF IInv, TypeOK
<1>1. \A t \in Threads : Row(pc[t], request[t], old[t], desired[t])
  BY DEF IInv, PlaceMatchesRequest, DesiredMatchesOld, Row
<1>w. wide' = wide
  <2>1. ASSUME NEW t \in Threads, NEW r \in Requests, Begin(t, r) PROVE wide' = wide
    BY <2>1 DEF Begin
  <2>2. ASSUME NEW t \in Threads, Work(t) PROVE wide' = wide
    BY <2>2 DEF Work, Primitive, LoopLoad, LoopBody, WeakCasFails, PlainReadWhole,
                PlainReadFirst, PlainReadSecond, BoolCasFails, CasSucceeds
  <2> QED BY <2>1, <2>2 DEF Next, vars
<1>2. SUFFICES \A t \in Threads : Row(pc'[t], request'[t], old'[t], desired'[t])
  BY <1>2, <1>w DEF PlaceMatchesRequest, DesiredMatchesOld, Row, Looping, PlainRead
<1>3. CASE UNCHANGED vars
  BY <1>1, <1>3 DEF vars
<1>4. ASSUME NEW t \in Threads, Work(t) \/ \E r \in Requests : Begin(t, r)
      PROVE \A u \in Threads : Row(pc'[u], request'[u], old'[u], desired'[u])
  <2>1. \A u \in Threads : u # t =>
          /\ pc'[u] = pc[u] /\ request'[u] = request[u]
          /\ old'[u] = old[u] /\ desired'[u] = desired[u]
    <3>1. ASSUME NEW r \in Requests, Begin(t, r)
          PROVE \A u \in Threads : u # t =>
                  /\ pc'[u] = pc[u] /\ request'[u] = request[u]
                  /\ old'[u] = old[u] /\ desired'[u] = desired[u]
      BY <3>1, <1>0 DEF Begin
    <3>2. CASE Work(t)
      <4>1. CASE Primitive(t) \/ LoopLoad(t) \/ LoopBody(t) \/ WeakCasFails(t)
        BY <4>1, <1>0 DEF Primitive, LoopLoad, LoopBody, WeakCasFails, Finish, Goto
      <4>2. CASE PlainReadWhole(t) \/ PlainReadFirst(t) \/ PlainReadSecond(t)
        BY <4>2, <1>0 DEF PlainReadWhole, PlainReadFirst, PlainReadSecond, Goto
      <4>3. CASE BoolCasFails(t) \/ CasSucceeds(t)
        BY <4>3, <1>0 DEF BoolCasFails, CasSucceeds, Finish, Goto
      <4> QED BY <3>2, <4>1, <4>2, <4>3 DEF Work
    <3> QED BY <1>4, <3>1, <3>2
  <2>2. Row(pc'[t], request'[t], old'[t], desired'[t])
    <3>0. Row(pc[t], request[t], old[t], desired[t])
      BY <1>1
    <3>1. ASSUME NEW r \in Requests, Begin(t, r)
          PROVE Row(pc'[t], request'[t], old'[t], desired'[t])
      BY <3>1, <1>0 DEF Begin, Row
    <3>2. CASE Primitive(t) \/ CasSucceeds(t)
      <4>1. pc'[t] = "idle" /\ request'[t] = Idle
        BY <3>2, <1>0 DEF Primitive, CasSucceeds, Finish, Goto
      <4> QED BY <4>1 DEF Row
    <3>3. CASE LoopLoad(t) \/ WeakCasFails(t)
      <4>1. /\ pc'[t] = "body" /\ request'[t] = request[t]
            /\ request[t].op \in LoopOps /\ pc[t] # "idle"
        BY <3>3, <1>0 DEF LoopLoad, WeakCasFails, Goto
      <4> QED BY <4>1, <3>0 DEF Row, Looping
    <3>4. CASE LoopBody(t)
      <4>1. /\ pc[t] = "body" /\ pc'[t] = "cas"
            /\ request'[t] = request[t] /\ old'[t] = old[t]
            /\ desired'[t] = Rmw(request[t].op, old[t], request[t].arg)
        BY <3>4, <1>0 DEF LoopBody, Goto
      <4>2. request[t].op \in LoopOps
        BY <4>1, <3>0 DEF Row
      <4>3. desired'[t] = Effect(request'[t], old'[t])
        BY <4>1, <4>2, LoopEffect
      <4> QED BY <4>1, <4>2, <4>3, <3>0 DEF Row, Looping
    <3>5. CASE PlainReadWhole(t)
      <4>1. /\ pc[t] = "start" /\ pc'[t] = "cas" /\ PlainRead(request[t])
            /\ request'[t] = request[t] /\ desired'[t] = request[t].arg
        BY <3>5, <1>0 DEF PlainReadWhole, Goto
      <4>2. desired'[t] = Effect(request'[t], old'[t])
        BY <4>1, PlainReadEffect
      <4> QED BY <4>1, <4>2, <3>0 DEF Row, Looping
    <3>6. CASE PlainReadFirst(t)
      <4>1. /\ pc[t] = "start" /\ pc'[t] \in {"low", "high"}
            /\ PlainRead(request[t]) /\ request'[t] = request[t]
        BY <3>6, <1>0 DEF PlainReadFirst, Goto
      <4> QED BY <4>1, <3>0 DEF Row, Looping
    <3>7. CASE PlainReadSecond(t)
      <4>1. /\ pc[t] \in {"low", "high"} /\ pc'[t] = "cas"
            /\ request'[t] = request[t] /\ desired'[t] = request[t].arg
        BY <3>7, <1>0 DEF PlainReadSecond, Goto
      <4> QED BY <4>1, <3>0, PlainReadEffect DEF Row, Looping
    <3>8. CASE BoolCasFails(t)
      <4>1. pc[t] = "cas" /\ pc'[t] = "start" /\ request'[t] = request[t]
        BY <3>8, <1>0 DEF BoolCasFails, Goto
      <4> QED BY <4>1, <3>0 DEF Row
    <3> QED BY <1>4, <3>1, <3>2, <3>3, <3>4, <3>5, <3>6, <3>7, <3>8 DEF Work
  <2> QED BY <1>1, <2>1, <2>2
<1> QED BY <1>3, <1>4 DEF Next

-----------------------------------------------------------------------------
(* The invariant that the compare-and-swap loops rely on holds always. *)
THEOREM InvariantHolds == Spec => []IInv
<1>1. Init => IInv
  <2>1. Init => TypeOK
    BY AtomicAssumption DEF Init, TypeOK, Places
  <2>2. Init => PlaceMatchesRequest /\ DesiredMatchesOld
    BY DEF Init, PlaceMatchesRequest, DesiredMatchesOld
  <2> QED BY <2>1, <2>2 DEF IInv
<1>2. IInv /\ [Next]_vars => IInv'
  BY TypeStep, RowStep DEF IInv
<1> QED BY <1>1, <1>2, PTL DEF Spec

(* Types: a value torn by a plain read is still a value of the object's    *)
(* type, and no read-modify-write leaves the type.                         *)
THEOREM TypeCorrect == Spec => []TypeOK
<1>1. IInv => TypeOK
  BY DEF IInv
<1> QED BY <1>1, InvariantHolds, PTL

(* No loop of atomic_rmw or atomic_store installs a value computed from    *)
(* another `old` than the one its compare-and-swap compares.               *)
THEOREM NoStaleDesired == Spec => []DesiredMatchesOld
<1>1. IInv => DesiredMatchesOld
  BY DEF IInv
<1> QED BY <1>1, InvariantHolds, PTL

(* A step of the lowering is the operation's single atomic step, the       *)
(* beginning of one, or invisible.                                         *)
LEMMA StepRefines ==
  ASSUME IInv, [Next]_vars
  PROVE [Cell!Next]_(Cell!vars)
<1>0. /\ request \in [Threads -> Requests \cup {Idle}]
      /\ Idle \notin Requests
      /\ \A t \in Threads : pc[t] = "idle" <=> request[t] = Idle
  BY AtomicAssumption DEF IInv, TypeOK, PlaceMatchesRequest
<1>1. CASE UNCHANGED vars
  BY <1>1 DEF vars, Cell!vars
<1>2. ASSUME NEW t \in Threads, NEW r \in Requests, Begin(t, r)
      PROVE Cell!Next
  <2>1. Cell!Begin(t, r)
    BY <1>0, <1>2 DEF Begin, Cell!Begin
  <2> QED BY <2>1 DEF Cell!Next
<1>3. ASSUME NEW t \in Threads, Work(t)
      PROVE [Cell!Next]_(Cell!vars)
  <2>1. CASE Primitive(t)
    <3>1. Cell!Perform(t)
      BY <2>1, <1>0 DEF Primitive, Finish, Goto, Cell!Perform
    <3> QED BY <3>1 DEF Cell!Next
  <2>2. CASE CasSucceeds(t)
    <3>1. desired[t] = Effect(request[t], mem)
      BY <2>2 DEF CasSucceeds, Finish, Goto, IInv, DesiredMatchesOld
    <3>2. Cell!Perform(t)
      BY <2>2, <3>1, <1>0 DEF CasSucceeds, Finish, Goto, Cell!Perform
    <3> QED BY <3>2 DEF Cell!Next
  <2>3. CASE \/ LoopLoad(t) \/ LoopBody(t) \/ WeakCasFails(t)
             \/ PlainReadWhole(t) \/ PlainReadFirst(t) \/ PlainReadSecond(t)
             \/ BoolCasFails(t)
    <3>1. UNCHANGED <<mem, request, answer>>
      BY <2>3 DEF LoopLoad, LoopBody, WeakCasFails, PlainReadWhole,
                  PlainReadFirst, PlainReadSecond, BoolCasFails
    <3> QED BY <3>1 DEF Cell!vars
  <2> QED BY <1>3, <2>1, <2>2, <2>3 DEF Work
<1> QED BY <1>1, <1>2, <1>3 DEF Next

(* Linearizability of the lowering, for any number of threads: the C code  *)
(* of every atomic operation, with its torn reads and its retries,         *)
(* implements the single step that Rust promises.                          *)
THEOREM Linearizable == Spec => ImplementsCell
<1>1. Init => Cell!Init
  BY DEF Init, Cell!Init
<1>2. IInv /\ [Next]_vars => [Cell!Next]_(Cell!vars)
  BY StepRefines
<1> QED BY <1>1, <1>2, InvariantHolds, PTL DEF Spec, ImplementsCell, Cell!Spec
=============================================================================
