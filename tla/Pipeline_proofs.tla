--------------------------- MODULE Pipeline_proofs --------------------------
(***************************************************************************)
(* Proofs about Pipeline for any workspace, any versions of its crates and *)
(* any number of cargo runs and faults.                                    *)
(***************************************************************************)
EXTENDS Pipeline, FiniteSetTheorems, FunctionTheorems, SequenceTheorems, WellFoundedInduction, TLAPS

UnitsOf(c) == UNION {DOMAIN Code[c][v] : v \in DOMAIN Code[c]}
Src(c) == UNION {Units(c)[u] : u \in DOMAIN Units(c)}
Values(f) == UNION {f[x] : x \in DOMAIN f}
Texts(f) == UNION {Contents(f[x]) : x \in DOMAIN f}
Built(c) == Active(c) \/ phase[c] = "ended"

Domains ==
  /\ profile \in [lto : Modes, incremental : BOOLEAN] /\ (profile.lto = "fat" => ~profile.incremental)
  /\ DOMAIN version = Crates /\ DOMAIN phase = Crates /\ DOMAIN modules = Crates /\ DOMAIN place = Crates
  /\ DOMAIN objects = Crates /\ DOMAIN cache = Crates /\ DOMAIN linked = Crates

Types(c) ==
  /\ version[c] \in DOMAIN Code[c] /\ phase[c] \in Phases
  /\ DOMAIN place[c] = DOMAIN modules[c] /\ DOMAIN modules[c] \subseteq UnitsOf(c)
  /\ DOMAIN objects[c] \subseteq UnitsOf(c) /\ DOMAIN cache[c] \subseteq UnitsOf(c)
  /\ ~profile.incremental => DOMAIN cache[c] = {}

(* The objects and the modules of a session together are the code of the   *)
(* crate; a module is compiled once its place says so.                     *)
Session(c) ==
  /\ Values(objects[c]) \cup Texts(modules[c]) = Src(c)
  /\ \A m \in DOMAIN place[c] : place[c][m] \in {"queued", "panicked"} => m \notin DOMAIN objects[c]
  /\ \A m \in DOMAIN place[c] : place[c][m] \notin {"queued", "panicked"} =>
       m \in DOMAIN objects[c] /\ objects[c][m] = Contents(modules[c][m])
  /\ phase[c] \in {"truncated", "stubs", "linking", "ended"} =>
       \A m \in DOMAIN place[c] : place[c][m] \in {"written", "ignored"}

(* The file of unit m has this content, unless it is suspect. *)
Holds(m, source) ==
  SafeName[m] \in suspect \/ (SafeName[m] \in DOMAIN csources /\ csources[SafeName[m]] = source)

(* An object that no module of the session stands for is an old one. *)
Reused(c) ==
  \A m \in DOMAIN objects[c] \ DOMAIN place[c] : m \in DOMAIN cache[c] /\ objects[c][m] = cache[c][m]
CacheHeld(c) == \A m \in DOMAIN cache[c] : Holds(m, cache[c][m])
ObjectsHeld(c) == \A m \in DOMAIN objects[c] : Holds(m, objects[c][m])

(* What a running session has done to the files of its modules. *)
Files(c) ==
  /\ \A m \in DOMAIN place[c] : place[c][m] \in {"opened", "written", "ignored"} => SafeName[m] \in suspect
  /\ \A m \in DOMAIN place[c] : place[c][m] = "written" =>
       SafeName[m] \in DOMAIN csources /\ csources[SafeName[m]] = Contents(modules[c][m])

Current(c) == linked[c].code = UNION {Src(d) : d \in Closure(c)}

Local(c) ==
  /\ Types(c)
  /\ Built(c) => Session(c)
  /\ Active(c) => Reused(c)
  /\ Active(c) => Files(c)
  /\ CacheHeld(c)
  /\ phase[c] = "ended" => Current(c)
  /\ phase[c] = "ended" => ObjectsHeld(c)

(* A crate is built only when the crates it links are. *)
DepsFirst == \A c \in Crates : Built(c) => \A d \in Deps[c] : phase[d] = "ended"

StubsHeld ==
  /\ StubsFile \in suspect \/ StubsFile \notin DOMAIN csources \/ csources[StubsFile] = Stubs
  /\ \A c \in Crates : phase[c] \in {"linking", "ended"} => StubsFile \in suspect \cup DOMAIN csources

(* The crate that links all others writes the Makefile last. *)
MakefileHeld == \A p \in Programs : Closure(p) = Crates =>
  /\ phase[p] = "truncated" => makefile = <<>>
  /\ phase[p] \in {"stubs", "linking", "ended"} => "Makefile" \in suspect \/ makefile = MakefileOf(p)

IInv ==
  /\ Domains
  /\ \A c \in Crates : Local(c)
  /\ DepsFirst
  /\ StubsHeld
  /\ MakefileHeld

-----------------------------------------------------------------------------
(* What LTO does with the units of a crate: nothing is lost.               *)

Todo(f, U) == {[name |-> u, source |-> f[u]] : u \in U}

(* Finitely many units give finitely many modules. *)
LEMMA TodoFinite ==
  ASSUME NEW f, NEW U, IsFiniteSet(U)
  PROVE  IsFiniteSet(Todo(f, U))
<1> DEFINE g == [u \in U |-> [name |-> u, source |-> f[u]]]
<1>1. g \in Surjection(U, Todo(f, U)) BY DEF Surjection, Todo
<1> QED BY <1>1, FS_Surjection

(* An order of a finite set has all of it. *)
LEMMA OrdersOnto ==
  ASSUME NEW S, IsFiniteSet(S), NEW s \in Orders(S)
  PROVE  \A x \in S : \E i \in 1 .. Cardinality(S) : s[i] = x
<1>1. PICK n \in Nat : n = Cardinality(S) BY FS_CardinalityType
<1>2. IsFiniteSet(1 .. n) /\ Cardinality(1 .. n) = n BY <1>1, FS_Interval
<1>3. s \in [1 .. n -> S] /\ \A i, j \in 1 .. n : s[i] = s[j] => i = j BY <1>1 DEF Orders
<1>4. s \in Injection(1 .. n, S) BY <1>3, Fun_IsInj
<1>5. s \in Surjection(1 .. n, S) BY <1>1, <1>2, <1>4, FS_Injection
<1> QED BY <1>1, <1>5 DEF Surjection

(* Without LTO the modules are the units. *)
LEMMA AsFunctionTodo ==
  ASSUME NEW f, NEW U
  PROVE  /\ DOMAIN AsFunction(Todo(f, U)) = U
         /\ \A u \in U : AsFunction(Todo(f, U))[u] = <<f[u]>>
<1>1. {m.name : m \in Todo(f, U)} = U
  <2>1. \A m \in Todo(f, U) : m.name \in U BY DEF Todo
  <2>2. \A u \in U : [name |-> u, source |-> f[u]] \in Todo(f, U) BY DEF Todo
  <2>3. \A u \in U : \E m \in Todo(f, U) : m.name = u BY <2>2
  <2> QED BY <2>1, <2>3
<1>2. \A u \in U : (CHOOSE m \in Todo(f, U) : m.name = u).source = f[u]
  <2> TAKE u \in U
  <2>1. PICK r : r = [name |-> u, source |-> f[u]] OBVIOUS
  <2>2. r \in Todo(f, U) /\ r.name = u /\ r.source = f[u] BY <2>1 DEF Todo
  <2>3. \A m \in Todo(f, U) : m.name = u => m = r BY <2>1 DEF Todo
  <2>4. (CHOOSE m \in Todo(f, U) : m.name = u) = r BY <2>2, <2>3
  <2> QED BY <2>2, <2>4
<1> QED BY <1>1, <1>2 DEF AsFunction

(* The modules of an order are the ones it orders. *)
LEMMA OrderedSet ==
  ASSUME NEW S, IsFiniteSet(S), NEW s \in Orders(S)
  PROVE  {s[i] : i \in DOMAIN s} = S
<1>1. s \in [1 .. Cardinality(S) -> S] BY DEF Orders
<1>2. \A x \in S : \E i \in 1 .. Cardinality(S) : s[i] = x BY OrdersOnto
<1>3. DOMAIN s = 1 .. Cardinality(S) /\ \A i \in DOMAIN s : s[i] \in S BY <1>1
<1> QED BY <1>2, <1>3

(* Thin LTO gives every module back under its name. *)
LEMMA ThinIsIdentity ==
  ASSUME NEW f, NEW U, IsFiniteSet(U), NEW s \in Orders(Todo(f, U))
  PROVE  ThinLto(s) = AsFunction(Todo(f, U))
<1>1. IsFiniteSet(Todo(f, U)) BY TodoFinite
<1>2. {s[i] : i \in DOMAIN s} = Todo(f, U) BY <1>1, OrderedSet
<1>3. \A i \in DOMAIN s : s[i] = [name |-> s[i].name, source |-> s[i].source] BY <1>2 DEF Todo
<1> DEFINE shared == RunThinLto([i \in DOMAIN s |-> PrepareThin(s[i])])
<1>4. \A i \in DOMAIN s : shared.module_names[i] = s[i].name /\ shared.thin_buffers[i] = s[i].source
  BY DEF RunThinLto, PrepareThin
<1>5. \A i \in DOMAIN s : OptimizeThin(shared, i) = s[i] BY <1>3, <1>4 DEF OptimizeThin
<1>6. {OptimizeThin(shared, i) : i \in DOMAIN s} = {s[i] : i \in DOMAIN s} BY <1>5
<1> QED BY <1>2, <1>6 DEF ThinLto

(* In every mode the modules hold the code of the units, all of it, under  *)
(* names of units.                                                         *)
LEMMA LtoKeeps ==
  ASSUME NEW f, NEW U, IsFiniteSet(U), U # {}, NEW s \in Orders(Todo(f, U)),
         NEW mode \in {"no", "thin", "fat"}
  PROVE  /\ DOMAIN Lto(mode, s) \subseteq U
         /\ Texts(Lto(mode, s)) = UNION {f[u] : u \in U}
<1> DEFINE T == Todo(f, U)
<1>1. IsFiniteSet(T) BY TodoFinite
<1>2. {s[i] : i \in DOMAIN s} = T BY <1>1, OrderedSet
<1>3. Texts(AsFunction(T)) = UNION {f[u] : u \in U}
  <2>1. \A x : Contents(<<x>>) = x BY DEF Contents
  <2>2. \A u \in U : Contents(AsFunction(T)[u]) = f[u] BY <2>1, AsFunctionTodo
  <2> QED BY <2>2, AsFunctionTodo DEF Texts
<1>4. CASE mode = "no"
  <2>1. Lto(mode, s) = AsFunction(T) BY <1>2, <1>4 DEF Lto
  <2> QED BY <1>3, <2>1, AsFunctionTodo
<1>5. CASE mode = "thin"
  <2>1. Lto(mode, s) = AsFunction(T) BY <1>5, ThinIsIdentity DEF Lto
  <2> QED BY <1>3, <2>1, AsFunctionTodo
<1>6. CASE mode = "fat"
  <2>1. PICK n \in Nat : n = Cardinality(T) /\ n # 0
    <3>1. T # {} BY DEF Todo
    <3> QED BY <1>1, <3>1, FS_CardinalityType, FS_EmptySet
  <2>2. s \in [1 .. n -> T] BY <2>1 DEF Orders
  <2>3. s[1] \in T BY <2>1, <2>2
  <2>4. s[1].name \in U BY <2>3 DEF Todo
  <2>5. UNION {s[i].source : i \in DOMAIN s} = UNION {f[u] : u \in U}
    <3>1. {s[i].source : i \in DOMAIN s} = {m.source : m \in T} BY <1>2
    <3>2. {m.source : m \in T} = {f[u] : u \in U}
      <4>1. \A m \in T : \E u \in U : m.source = f[u] BY DEF Todo
      <4>2. \A u \in U : [name |-> u, source |-> f[u]] \in T BY DEF Todo
      <4>3. \A u \in U : \E m \in T : m.source = f[u] BY <4>2
      <4> HIDE DEF T
      <4> QED BY <4>1, <4>3
    <3> QED BY <3>1, <3>2
  <2>6. Lto(mode, s) = FatLto(s) BY <1>6 DEF Lto
  <2>7. Contents([i \in DOMAIN s |-> s[i].source]) = UNION {s[i].source : i \in DOMAIN s}
    BY DEF Contents
  <2> QED BY <2>4, <2>5, <2>6, <2>7 DEF FatLto, Texts
<1> QED BY <1>4, <1>5, <1>6

-----------------------------------------------------------------------------
(* A step of one crate's process, seen from the other crates.              *)

FileKept(u) ==
  /\ SafeName[u] \in suspect' <=> SafeName[u] \in suspect
  /\ SafeName[u] \in DOMAIN csources =>
       SafeName[u] \in DOMAIN csources' /\ csources'[SafeName[u]] = csources[SafeName[u]]

Apart(d) ==
  /\ phase'[d] = phase[d] /\ modules'[d] = modules[d] /\ place'[d] = place[d]
  /\ objects'[d] = objects[d] /\ cache'[d] = cache[d] /\ linked'[d] = linked[d]
  /\ \A u \in UnitsOf(d) : FileKept(u)

Alone(c) ==
  /\ phase[c] # "ended"
  /\ profile' = profile /\ version' = version
  /\ \A d \in Crates \ {c} : Apart(d)

(* Every unit has a file of its own. *)
LEMMA OwnFiles ==
  ASSUME NEW c \in Crates
  PROVE  /\ UnitsOf(c) \subseteq DOMAIN SafeName
         /\ \A u, w \in UnitsOf(c) : SafeName[u] = SafeName[w] => u = w
         /\ \A u \in UnitsOf(c) : SafeName[u] # StubsFile /\ SafeName[u] # "Makefile"
         /\ \A d \in Crates \ {c} : \A u \in UnitsOf(c), w \in UnitsOf(d) : SafeName[u] # SafeName[w]
<1>1. \A d \in Crates : UnitsOf(d) \subseteq DOMAIN SafeName BY PipelineAssumption DEF UnitsOf
<1>2. \A u, w \in DOMAIN SafeName : SafeName[u] = SafeName[w] => u = w BY PipelineAssumption
<1>3. \A u \in DOMAIN SafeName : SafeName[u] # StubsFile /\ SafeName[u] # "Makefile" BY PipelineAssumption
<1>4. \A d \in Crates \ {c} : \A u \in UnitsOf(c), w \in UnitsOf(d) : u # w
  <2> SUFFICES ASSUME NEW d \in Crates \ {c}, NEW u \in UnitsOf(c), u \in UnitsOf(d) PROVE FALSE
    OBVIOUS
  <2>1. PICK v \in DOMAIN Code[c] : u \in DOMAIN Code[c][v] BY DEF UnitsOf
  <2>2. PICK w \in DOMAIN Code[d] : u \in DOMAIN Code[d][w] BY DEF UnitsOf
  <2>3. DOMAIN Code[c][v] \cap DOMAIN Code[d][w] = {} BY PipelineAssumption
  <2> QED BY <2>1, <2>2, <2>3
<1> QED BY <1>1, <1>2, <1>3, <1>4

(* A crate keeps its part of the invariant in the steps of the others. *)
LEMMA LocalKept ==
  ASSUME NEW c \in Crates, NEW d \in Crates \ {c}, Alone(c), Local(d)
  PROVE  Local(d)'
<1>1. /\ phase'[d] = phase[d] /\ modules'[d] = modules[d] /\ place'[d] = place[d]
      /\ objects'[d] = objects[d] /\ cache'[d] = cache[d] /\ linked'[d] = linked[d]
      /\ profile' = profile /\ version' = version
  BY DEF Alone, Apart
<1>2. \A u \in UnitsOf(d) : FileKept(u) BY DEF Alone, Apart
<1>3. \A u \in UnitsOf(d) : \A x : Holds(u, x) => Holds(u, x)' BY <1>2 DEF FileKept, Holds
<1>4. Types(d)' BY <1>1 DEF Types, Local
<1>5. DOMAIN place[d] \subseteq UnitsOf(d) /\ DOMAIN objects[d] \subseteq UnitsOf(d) /\ DOMAIN cache[d] \subseteq UnitsOf(d)
  BY DEF Local, Types
<1>6. \A e : Src(e)' = Src(e) BY <1>1 DEF Src, Units
<1>7. (Built(d) => Session(d))'
  <2>1. Session(d) => Session(d)' BY <1>1, <1>6 DEF Session
  <2>2. Built(d)' <=> Built(d) BY <1>1 DEF Built, Active
  <2> QED BY <2>1, <2>2 DEF Local
<1>8. (Active(d) => Reused(d))'
  <2>1. Reused(d) => Reused(d)' BY <1>1 DEF Reused
  <2>2. Active(d)' <=> Active(d) BY <1>1 DEF Active
  <2> QED BY <2>1, <2>2 DEF Local
<1>9. (Active(d) => Files(d))'
  <2>1. Files(d) => Files(d)' BY <1>1, <1>2, <1>5 DEF Files, FileKept
  <2>2. Active(d)' <=> Active(d) BY <1>1 DEF Active
  <2> QED BY <2>1, <2>2 DEF Local
<1>10. CacheHeld(d)'
  <2>1. CacheHeld(d) BY DEF Local
  <2>2. SUFFICES ASSUME NEW m \in DOMAIN cache[d] PROVE Holds(m, cache[d][m])' BY <1>1 DEF CacheHeld
  <2>3. Holds(m, cache[d][m]) BY <2>1 DEF CacheHeld
  <2> QED BY <1>1, <1>2, <1>5, <2>3 DEF FileKept, Holds
<1>11. (phase[d] = "ended" => Current(d))'
  <2>1. Current(d) => Current(d)' BY <1>1, <1>6 DEF Current
  <2> QED BY <1>1, <2>1 DEF Local
<1>12. (phase[d] = "ended" => ObjectsHeld(d))'
  <2> SUFFICES ASSUME phase[d] = "ended", NEW m \in DOMAIN objects[d] PROVE Holds(m, objects[d][m])'
    BY <1>1 DEF ObjectsHeld
  <2>3. Holds(m, objects[d][m]) BY DEF ObjectsHeld, Local
  <2> QED BY <1>1, <1>2, <1>5, <2>3 DEF FileKept, Holds
<1> QED BY <1>4, <1>7, <1>8, <1>9, <1>10, <1>11, <1>12 DEF Local

(* No step of a crate's process disturbs the order of the crates. *)
LEMMA DepsFirstKept ==
  ASSUME NEW c \in Crates, Alone(c), DepsFirst, Built(c)' => Built(c) \/ ~Blocked(c)
  PROVE  DepsFirst'
<1> SUFFICES ASSUME NEW d \in Crates, Built(d)', NEW e \in Deps[d] PROVE phase'[e] = "ended"
  BY DEF DepsFirst
<1>1. e \in Crates BY PipelineAssumption
<1>2. \A x \in Crates \ {c} : phase'[x] = phase[x] BY DEF Alone, Apart
<1>3. phase[e] = "ended"
  <2>1. CASE d = c
    <3>1. CASE Built(c) BY <2>1, <3>1 DEF DepsFirst
    <3>2. CASE ~Blocked(c) BY <2>1, <3>2 DEF Blocked
    <3> QED BY <2>1, <3>1, <3>2
  <2>2. CASE d # c
    <3>1. Built(d) BY <1>2, <2>2 DEF Built, Active
    <3> QED BY <3>1 DEF DepsFirst
  <2> QED BY <2>1, <2>2
<1>4. e # c BY <1>3 DEF Alone
<1> QED BY <1>1, <1>2, <1>3, <1>4

(* Only the crate that links all others can be the last to write the       *)
(* Makefile, and it is alone then.                                         *)
LEMMA MakefileKept ==
  ASSUME NEW c \in Crates, Alone(c), DepsFirst, Local(c),
         c \in Programs /\ Closure(c) = Crates =>
           /\ phase'[c] = "truncated" => makefile' = <<>>
           /\ phase'[c] \in {"stubs", "linking", "ended"} => "Makefile" \in suspect' \/ makefile' = MakefileOf(c)
  PROVE  MakefileHeld'
<1> SUFFICES ASSUME NEW p \in Programs, Closure(p) = Crates, p # c
             PROVE  phase'[p] \notin {"truncated", "stubs", "linking", "ended"}
  BY DEF MakefileHeld, MakefileOf
<1>1. p \in Crates /\ c \in Deps[p] BY PipelineAssumption DEF Closure
<1>2. phase'[p] = phase[p] BY <1>1 DEF Alone, Apart
<1>3. phase[c] # "ended" BY DEF Alone
<1>4. ~Built(p) BY <1>1, <1>3 DEF DepsFirst
<1> QED BY <1>2, <1>4 DEF Built, Active

(* A step of c's process that does right by c keeps the invariant. *)
LEMMA StepCombines ==
  ASSUME NEW c \in Crates, IInv, Alone(c), Domains', Local(c)',
         Built(c)' => Built(c) \/ ~Blocked(c), StubsHeld',
         c \in Programs /\ Closure(c) = Crates =>
           /\ phase'[c] = "truncated" => makefile' = <<>>
           /\ phase'[c] \in {"stubs", "linking", "ended"} => "Makefile" \in suspect' \/ makefile' = MakefileOf(c)
  PROVE  IInv'
<1>1. \A d \in Crates \ {c} : Local(d)' BY LocalKept DEF IInv
<1>2. DepsFirst' BY DepsFirstKept DEF IInv
<1>3. MakefileHeld' BY MakefileKept DEF IInv
<1>4. (\A d \in Crates : Local(d))' BY <1>1
<1> QED BY <1>2, <1>3, <1>4 DEF IInv

(* Code that does not touch the files of units. *)
LEMMA FilesSame ==
  ASSUME csources' = csources, suspect' = suspect
  PROVE  /\ \A u : FileKept(u)
         /\ \A u, x : Holds(u, x)' <=> Holds(u, x)
BY DEF FileKept, Holds

-----------------------------------------------------------------------------
(* The actions.                                                            *)

LEMMA StartStep ==
  ASSUME NEW c \in Crates, IInv, Start(c)
  PROVE  IInv'
<1>1. Domains /\ Local(c) /\ StubsHeld BY DEF IInv
<1>2. /\ profile' = profile /\ version' = version /\ cache' = cache /\ linked' = linked
      /\ csources' = csources /\ makefile' = makefile /\ suspect' = suspect
      /\ phase[c] = "waiting" /\ ~Blocked(c) /\ phase' = [phase EXCEPT ![c] = "building"]
  BY DEF Start, artifacts
<1>3. PICK f : f = Units(c) OBVIOUS
<1>4. PICK reused : reused = {u \in DOMAIN f : /\ profile.incremental
                                               /\ u \in DOMAIN cache[c] /\ cache[c][u] = f[u]}
  OBVIOUS
<1>5. PICK U : U = DOMAIN f \ reused OBVIOUS
<1>6. PICK mode : mode = Mode(c) OBVIOUS
<1>7. PICK s, work :
        /\ s \in Orders(Todo(f, U))
        /\ work = IF Todo(f, U) = {} THEN Empty ELSE Lto(mode, s)
        /\ modules' = [modules EXCEPT ![c] = work]
        /\ place' = [place EXCEPT ![c] = [n \in DOMAIN work |-> "queued"]]
        /\ objects' = [objects EXCEPT ![c] = [u \in reused |-> cache[c][u]]]
  <2>1. reused = {u \in DOMAIN Units(c) : /\ profile.incremental
                                          /\ u \in DOMAIN cache[c] /\ cache[c][u] = Units(c)[u]}
    BY <1>3, <1>4
  <2>2. Todo(f, U) = {[name |-> u, source |-> Units(c)[u]] : u \in DOMAIN Units(c) \ reused}
    BY <1>3, <1>5 DEF Todo
  <2>3. \E s \in Orders(Todo(f, U)) :
          LET work == IF Todo(f, U) = {} THEN Empty ELSE Lto(mode, s) IN
          /\ modules' = [modules EXCEPT ![c] = work]
          /\ place' = [place EXCEPT ![c] = [n \in DOMAIN work |-> "queued"]]
          /\ objects' = [objects EXCEPT ![c] = [u \in reused |-> cache[c][u]]]
    BY <1>6, <2>1, <2>2, Zenon DEF Start
  <2> QED BY <2>3
<1>8. DOMAIN f \subseteq UnitsOf(c) /\ IsFiniteSet(DOMAIN f)
  BY <1>1, <1>3, PipelineAssumption DEF Units, UnitsOf, Local, Types
<1>9. mode \in {"no", "thin", "fat"} BY <1>1, <1>6, PipelineAssumption DEF Mode, Domains
<1>10. DOMAIN work \subseteq U /\ Texts(work) = UNION {f[u] : u \in U}
  <2>1. CASE U = {}
    <3>1. Todo(f, U) = {} BY <2>1 DEF Todo
    <3>2. work = Empty BY <1>7, <3>1
    <3> QED BY <2>1, <3>2 DEF Empty, Texts
  <2>2. CASE U # {}
    <3>1. Todo(f, U) # {} BY <2>2 DEF Todo
    <3>2. work = Lto(mode, s) BY <1>7, <3>1
    <3>3. IsFiniteSet(U) BY <1>5, <1>8, FS_Difference
    <3> QED BY <1>7, <1>9, <2>2, <3>2, <3>3, LtoKeeps
  <2> QED BY <2>1, <2>2
<1>11. /\ phase'[c] = "building" /\ modules'[c] = work /\ place'[c] = [n \in DOMAIN work |-> "queued"]
       /\ objects'[c] = [u \in reused |-> cache[c][u]]
       /\ \A d \in Crates \ {c} : /\ phase'[d] = phase[d] /\ modules'[d] = modules[d]
                                  /\ place'[d] = place[d] /\ objects'[d] = objects[d]
  BY <1>1, <1>2, <1>7 DEF Domains
<1>12. Domains' BY <1>1, <1>2, <1>7 DEF Domains
<1>13. Alone(c) BY <1>2, <1>11, FilesSame DEF Alone, Apart
<1>14. Types(c)' BY <1>1, <1>2, <1>4, <1>5, <1>8, <1>10, <1>11 DEF Types, Local, Phases
<1>15. Session(c)'
  <2>1. Src(c)' = UNION {f[u] : u \in DOMAIN f} BY <1>2, <1>3 DEF Src, Units
  <2>2. Values(objects'[c]) = UNION {f[u] : u \in reused} BY <1>4, <1>11 DEF Values
  <2>3. Values(objects'[c]) \cup Texts(modules'[c]) = Src(c)' BY <1>4, <1>5, <1>10, <1>11, <2>1, <2>2
  <2> QED BY <1>5, <1>10, <1>11, <2>3 DEF Session, Texts
<1>16. Reused(c)' BY <1>2, <1>4, <1>11 DEF Reused
<1>17. Files(c)' BY <1>11 DEF Files
<1>18. CacheHeld(c)' BY <1>1, <1>2, FilesSame DEF CacheHeld, Local, Holds
<1>19. Local(c)' BY <1>11, <1>14, <1>15, <1>16, <1>17, <1>18 DEF Local
<1>20. StubsHeld' BY <1>1, <1>2, <1>11 DEF StubsHeld
<1> QED BY <1>2, <1>11, <1>12, <1>13, <1>19, <1>20, StepCombines

(* The part of the invariant that is about one program's Makefile. *)
MakefileGood(c) == c \in Programs /\ Closure(c) = Crates =>
  /\ phase[c] = "truncated" => makefile = <<>>
  /\ phase[c] \in {"stubs", "linking", "ended"} => "Makefile" \in suspect \/ makefile = MakefileOf(c)

(* The steps between the last module and the link, and the end of a        *)
(* session that gives up.                                                  *)
LEMMA LateStep ==
  ASSUME NEW c \in Crates, IInv, Active(c), NEW q \in {"truncated", "stubs", "linking", "failed"},
         phase' = [phase EXCEPT ![c] = q],
         q # "failed" => \A m \in DOMAIN place[c] : place[c][m] \in {"written", "ignored"},
         UNCHANGED <<profile, version, session, place>>,
         \A u \in DOMAIN SafeName : FileKept(u), StubsHeld', MakefileGood(c)'
  PROVE  IInv'
<1>1. Domains /\ Local(c) BY DEF IInv
<1>2. /\ profile' = profile /\ version' = version /\ modules' = modules /\ place' = place
      /\ objects' = objects /\ cache' = cache /\ linked' = linked
  BY DEF session
<1>3. phase'[c] = q /\ \A d \in Crates \ {c} : phase'[d] = phase[d] BY <1>1 DEF Domains
<1>4. Domains' BY <1>1, <1>2 DEF Domains
<1>5. \A d \in Crates : \A u \in UnitsOf(d) : FileKept(u) BY OwnFiles
<1>6. Alone(c)
  <2>1. phase[c] # "ended" BY DEF Active
  <2> QED BY <1>2, <1>3, <1>5, <2>1 DEF Alone, Apart
<1>7. Types(c)' BY <1>1, <1>2, <1>3 DEF Types, Local, Phases
<1>8. DOMAIN place[c] \subseteq UnitsOf(c) /\ DOMAIN cache[c] \subseteq UnitsOf(c) BY <1>1 DEF Local, Types
<1>9. Session(c) /\ Reused(c) /\ Files(c) /\ CacheHeld(c) BY <1>1 DEF Local, Built
<1>10. q # "failed" => Session(c)'
  <2>1. Src(c)' = Src(c) BY <1>2 DEF Src, Units
  <2> QED BY <1>2, <1>9, <2>1 DEF Session
<1>11. Reused(c)' BY <1>2, <1>9 DEF Reused
<1>12. Files(c)' BY <1>2, <1>5, <1>8, <1>9 DEF Files, FileKept
<1>13. CacheHeld(c)' BY <1>2, <1>5, <1>8, <1>9 DEF CacheHeld, Holds, FileKept
<1>14. Built(c)' => q # "failed" BY <1>3 DEF Built, Active
<1>15. Local(c)' BY <1>3, <1>7, <1>10, <1>11, <1>12, <1>13, <1>14 DEF Local
<1>16. Built(c) BY DEF Built
<1> QED BY <1>4, <1>6, <1>15, <1>16, StepCombines DEF MakefileGood

LEMMA AbortStep ==
  ASSUME NEW c \in Crates, IInv, Abort(c)
  PROVE  IInv'
<1>1. phase[c] = "aborting" /\ phase' = [phase EXCEPT ![c] = "failed"]
      /\ UNCHANGED <<profile, version, session, place>>
      /\ csources' = csources /\ makefile' = makefile /\ suspect' = suspect
  BY DEF Abort, artifacts
<1>2. Active(c) BY <1>1 DEF Active
<1>3. Domains /\ StubsHeld BY DEF IInv
<1>4. phase'[c] = "failed" /\ \A d \in Crates \ {c} : phase'[d] = phase[d] BY <1>1, <1>3 DEF Domains
<1>5. StubsHeld' BY <1>1, <1>3, <1>4 DEF StubsHeld
<1>6. MakefileGood(c)' BY <1>4 DEF MakefileGood
<1> QED BY <1>1, <1>2, <1>5, <1>6, FilesSame, LateStep

(* Steps that touch no file of csources/. *)
LEMMA MakefileFiles ==
  ASSUME csources' = csources, suspect' \in {suspect \cup {"Makefile"}, suspect \ {"Makefile"}}
  PROVE  /\ \A u \in DOMAIN SafeName : FileKept(u)
         /\ StubsFile \in suspect' <=> StubsFile \in suspect
<1>1. \A u \in DOMAIN SafeName : SafeName[u] # "Makefile" BY PipelineAssumption
<1>2. StubsFile # "Makefile" BY PipelineAssumption
<1> QED BY <1>1, <1>2 DEF FileKept

LEMMA OpenMakefileStep ==
  ASSUME NEW c \in Crates, IInv, OpenMakefile(c)
  PROVE  IInv'
<1>1. phase[c] = "building" /\ phase' = [phase EXCEPT ![c] = "truncated"]
      /\ (\A m \in DOMAIN place[c] : place[c][m] \in {"written", "ignored"})
      /\ UNCHANGED <<profile, version, session, place>>
      /\ csources' = csources /\ makefile' = <<>> /\ suspect' = suspect \cup {"Makefile"}
  BY DEF OpenMakefile, Joined
<1>2. Active(c) BY <1>1 DEF Active
<1>3. Domains /\ StubsHeld BY DEF IInv
<1>4. phase'[c] = "truncated" /\ \A d \in Crates \ {c} : phase'[d] = phase[d] BY <1>1, <1>3 DEF Domains
<1>5. StubsHeld' BY <1>1, <1>3, <1>4 DEF StubsHeld
<1>6. MakefileGood(c)' BY <1>1, <1>4 DEF MakefileGood
<1>7. \A u \in DOMAIN SafeName : FileKept(u) BY <1>1, MakefileFiles
<1> QED BY <1>1, <1>2, <1>5, <1>6, <1>7, LateStep

(* A write to a truncated Makefile leaves just what is written. *)
LEMMA OverlayEmpty ==
  ASSUME NEW c \in Crates
  PROVE  Overlay(MakefileOf(c), <<>>) = MakefileOf(c)
<1>1. PICK n \in Nat : n = MakefileBlocks[c] BY PipelineAssumption
<1>2. PICK new : new = MakefileOf(c) OBVIOUS
<1>3. new = [i \in 1 .. n |-> c] BY <1>1, <1>2 DEF MakefileOf
<1>4. new \in Seq(Crates) /\ Len(new) = n BY <1>3
<1>5. (IF Len(new) > Len(<<>>) THEN Len(new) ELSE Len(<<>>)) = n BY <1>4
<1>6. Overlay(new, <<>>) = [i \in 1 .. n |-> IF i <= n THEN new[i] ELSE <<>>[i]] BY <1>4, <1>5 DEF Overlay
<1>7. Overlay(new, <<>>) = [i \in 1 .. n |-> c] BY <1>3, <1>6
<1> QED BY <1>2, <1>3, <1>7

LEMMA WriteMakefileStep ==
  ASSUME NEW c \in Crates, IInv, WriteMakefile(c)
  PROVE  IInv'
<1>1. phase[c] = "truncated" /\ phase' = [phase EXCEPT ![c] = "stubs"]
      /\ UNCHANGED <<profile, version, session, place>>
      /\ csources' = csources /\ makefile' = Overlay(MakefileOf(c), makefile) /\ suspect' = suspect \ {"Makefile"}
  BY DEF WriteMakefile
<1>2. Active(c) BY <1>1 DEF Active
<1>3. Domains /\ StubsHeld /\ MakefileHeld /\ Local(c) BY DEF IInv
<1>4. phase'[c] = "stubs" /\ \A d \in Crates \ {c} : phase'[d] = phase[d] BY <1>1, <1>3 DEF Domains
<1>5. \A m \in DOMAIN place[c] : place[c][m] \in {"written", "ignored"}
  BY <1>1, <1>2, <1>3 DEF Local, Session, Built
<1>6. \A u \in DOMAIN SafeName : FileKept(u) BY <1>1, MakefileFiles
<1>7. StubsHeld' BY <1>1, <1>3, <1>4, MakefileFiles DEF StubsHeld
<1>8. MakefileGood(c)'
  <2>1. c \in Programs /\ Closure(c) = Crates => makefile = <<>> BY <1>1, <1>3 DEF MakefileHeld
  <2>2. c \in Programs /\ Closure(c) = Crates => makefile' = MakefileOf(c) BY <1>1, <2>1, OverlayEmpty
  <2> QED BY <1>4, <2>2 DEF MakefileGood, MakefileOf
<1> QED BY <1>1, <1>2, <1>5, <1>6, <1>7, <1>8, LateStep

LEMMA MakefileIgnoredStep ==
  ASSUME NEW c \in Crates, IInv, MakefileIgnored(c)
  PROVE  IInv'
<1>1. phase[c] \in {"building", "truncated"} /\ phase' = [phase EXCEPT ![c] = "stubs"]
      /\ UNCHANGED <<profile, version, session, place>>
      /\ csources' = csources /\ makefile' = makefile /\ suspect' = suspect \cup {"Makefile"}
  BY DEF MakefileIgnored, Joined
<1>2. Active(c) BY <1>1 DEF Active
<1>3. Domains /\ StubsHeld /\ Local(c) BY DEF IInv
<1>4. phase'[c] = "stubs" /\ \A d \in Crates \ {c} : phase'[d] = phase[d] BY <1>1, <1>3 DEF Domains
<1>5. \A m \in DOMAIN place[c] : place[c][m] \in {"written", "ignored"}
  BY <1>2, <1>3 DEF MakefileIgnored, Joined, Local, Session, Built
<1>6. \A u \in DOMAIN SafeName : FileKept(u) BY <1>1, MakefileFiles
<1>7. StubsHeld' BY <1>1, <1>3, <1>4, MakefileFiles DEF StubsHeld
<1>8. MakefileGood(c)' BY <1>1, <1>4 DEF MakefileGood
<1> QED BY <1>1, <1>2, <1>5, <1>6, <1>7, <1>8, LateStep

(* Steps that touch native_stubs.c only. *)
LEMMA StubsFiles ==
  ASSUME NEW x, csources' \in {csources, Put(csources, StubsFile, x)},
         suspect' \in {suspect \cup {StubsFile}, suspect \ {StubsFile}}
  PROVE  /\ \A u \in DOMAIN SafeName : FileKept(u)
         /\ "Makefile" \in suspect' <=> "Makefile" \in suspect
<1>1. \A u \in DOMAIN SafeName : SafeName[u] # StubsFile BY PipelineAssumption
<1>2. StubsFile # "Makefile" BY PipelineAssumption
<1> QED BY <1>1, <1>2 DEF FileKept, Put

LEMMA WriteStubsStep ==
  ASSUME NEW c \in Crates, IInv, WriteStubs(c) \/ StubsIgnored(c)
  PROVE  IInv'
<1>1. phase[c] = "stubs" /\ phase' = [phase EXCEPT ![c] = "linking"]
      /\ UNCHANGED <<profile, version, session, place>> /\ makefile' = makefile
  BY DEF WriteStubs, StubsIgnored
<1>2. \/ csources' = Put(csources, StubsFile, Stubs) /\ suspect' = suspect \ {StubsFile}
      \/ csources' \in {csources, Put(csources, StubsFile, {})} /\ suspect' = suspect \cup {StubsFile}
  BY DEF WriteStubs, StubsIgnored
<1>3. Active(c) BY <1>1 DEF Active
<1>4. Domains /\ StubsHeld /\ MakefileHeld /\ Local(c) BY DEF IInv
<1>5. phase'[c] = "linking" /\ \A d \in Crates \ {c} : phase'[d] = phase[d] BY <1>1, <1>4 DEF Domains
<1>6. \A m \in DOMAIN place[c] : place[c][m] \in {"written", "ignored"}
  BY <1>1, <1>3, <1>4 DEF Local, Session, Built
<1>7. /\ \A u \in DOMAIN SafeName : FileKept(u)
      /\ "Makefile" \in suspect' <=> "Makefile" \in suspect
  <2>1. CASE csources' = Put(csources, StubsFile, Stubs) /\ suspect' = suspect \ {StubsFile}
    BY <2>1, StubsFiles
  <2>2. CASE csources' \in {csources, Put(csources, StubsFile, {})} /\ suspect' = suspect \cup {StubsFile}
    <3>1. PICK none : none = {} OBVIOUS
    <3>2. csources' \in {csources, Put(csources, StubsFile, none)} BY <2>2, <3>1
    <3> QED BY <2>2, <3>2, StubsFiles
  <2> QED BY <1>2, <2>1, <2>2
<1>8. StubsHeld' BY <1>2 DEF StubsHeld, Put
<1>9. MakefileGood(c)' BY <1>1, <1>4, <1>5, <1>7 DEF MakefileGood, MakefileHeld, MakefileOf
<1> QED BY <1>1, <1>3, <1>6, <1>7, <1>8, <1>9, LateStep

(* Where the modules are after one of them has moved. *)
LEMMA MoveFacts ==
  ASSUME NEW c \in Crates, Domains, NEW m, NEW p, NEW q, Move(c, m, p, q)
  PROVE  /\ m \in DOMAIN place[c] /\ place[c][m] = p
         /\ DOMAIN place' = Crates /\ DOMAIN place'[c] = DOMAIN place[c]
         /\ place'[c][m] = q /\ \A n \in DOMAIN place[c] \ {m} : place'[c][n] = place[c][n]
         /\ \A d \in Crates \ {c} : place'[d] = place[d]
BY DEF Move, Domains

LEMMA CompileStep ==
  ASSUME NEW c \in Crates, NEW m, IInv, Compile(c, m)
  PROVE  IInv'
<1>1. Domains /\ Local(c) /\ StubsHeld /\ MakefileHeld BY DEF IInv
<1>2. /\ phase[c] = "building" /\ Move(c, m, "queued", "compiled")
      /\ objects' = [objects EXCEPT ![c] = Put(@, m, Contents(modules[c][m]))]
      /\ profile' = profile /\ version' = version /\ phase' = phase /\ modules' = modules /\ cache' = cache
      /\ linked' = linked /\ csources' = csources /\ makefile' = makefile /\ suspect' = suspect
  BY DEF Compile, artifacts
<1>3. /\ m \in DOMAIN place[c] /\ place[c][m] = "queued"
      /\ DOMAIN place' = Crates /\ DOMAIN place'[c] = DOMAIN place[c]
      /\ place'[c][m] = "compiled" /\ \A n \in DOMAIN place[c] \ {m} : place'[c][n] = place[c][n]
      /\ \A d \in Crates \ {c} : place'[d] = place[d]
  BY <1>1, <1>2, MoveFacts
<1>4. /\ objects'[c] = Put(objects[c], m, Contents(modules[c][m])) /\ DOMAIN objects' = Crates
      /\ \A d \in Crates \ {c} : objects'[d] = objects[d]
  BY <1>1, <1>2 DEF Domains
<1>5. /\ DOMAIN objects'[c] = DOMAIN objects[c] \cup {m} /\ objects'[c][m] = Contents(modules[c][m])
      /\ \A n \in DOMAIN objects[c] \ {m} : objects'[c][n] = objects[c][n]
  BY <1>4 DEF Put
<1>6. Domains' BY <1>1, <1>2, <1>3, <1>4 DEF Domains
<1>7. Active(c) /\ Built(c) BY <1>2 DEF Active, Built
<1>8. Alone(c) BY <1>2, <1>3, <1>4, FilesSame DEF Alone, Apart
<1>9. Types(c) /\ Session(c) /\ Reused(c) /\ Files(c) /\ CacheHeld(c) BY <1>1, <1>7 DEF Local
<1>10. m \in DOMAIN modules[c] /\ m \notin DOMAIN objects[c] BY <1>3, <1>9 DEF Types, Session
<1>11. Types(c)' BY <1>2, <1>3, <1>5, <1>9, <1>10 DEF Types
<1>12. Session(c)'
  <2>1. Src(c)' = Src(c) BY <1>2 DEF Src, Units
  <2>2. Values(objects'[c]) = Values(objects[c]) \cup Contents(modules[c][m]) BY <1>5, <1>10 DEF Values
  <2>3. Contents(modules[c][m]) \subseteq Texts(modules[c]) BY <1>10 DEF Texts
  <2>4. Values(objects'[c]) \cup Texts(modules[c]) = Src(c)' BY <1>9, <2>1, <2>2, <2>3 DEF Session
  <2> QED BY <1>2, <1>3, <1>5, <1>9, <1>10, <2>4 DEF Session
<1>13. Reused(c)' BY <1>2, <1>3, <1>5, <1>9 DEF Reused
<1>14. Files(c)' BY <1>2, <1>3, <1>9 DEF Files
<1>15. CacheHeld(c)' BY <1>2, <1>9 DEF CacheHeld, Holds
<1>16. Local(c)' BY <1>2, <1>11, <1>12, <1>13, <1>14, <1>15 DEF Local
<1>17. StubsHeld' BY <1>1, <1>2 DEF StubsHeld
<1> QED BY <1>2, <1>6, <1>7, <1>8, <1>16, <1>17, StepCombines

LEMMA CompileFailsStep ==
  ASSUME NEW c \in Crates, NEW m, IInv, CompileFails(c, m)
  PROVE  IInv'
<1>1. Domains /\ Local(c) /\ StubsHeld BY DEF IInv
<1>2. /\ phase[c] = "building" /\ Move(c, m, "queued", "panicked")
      /\ phase' = [phase EXCEPT ![c] = "aborting"]
      /\ profile' = profile /\ version' = version /\ objects' = objects /\ modules' = modules /\ cache' = cache
      /\ linked' = linked /\ csources' = csources /\ makefile' = makefile /\ suspect' = suspect
  BY DEF CompileFails, session, artifacts
<1>3. /\ m \in DOMAIN place[c] /\ place[c][m] = "queued"
      /\ DOMAIN place' = Crates /\ DOMAIN place'[c] = DOMAIN place[c]
      /\ place'[c][m] = "panicked" /\ \A n \in DOMAIN place[c] \ {m} : place'[c][n] = place[c][n]
      /\ \A d \in Crates \ {c} : place'[d] = place[d]
  BY <1>1, <1>2, MoveFacts
<1>4. phase'[c] = "aborting" /\ DOMAIN phase' = Crates /\ \A d \in Crates \ {c} : phase'[d] = phase[d]
  BY <1>1, <1>2 DEF Domains
<1>5. Domains' BY <1>1, <1>2, <1>3, <1>4 DEF Domains
<1>6. Active(c) /\ Built(c) BY <1>2 DEF Active, Built
<1>7. Alone(c) BY <1>2, <1>3, <1>4, FilesSame DEF Alone, Apart
<1>8. Types(c) /\ Session(c) /\ Reused(c) /\ Files(c) /\ CacheHeld(c) BY <1>1, <1>6 DEF Local
<1>9. Types(c)' BY <1>2, <1>3, <1>4, <1>8 DEF Types, Phases
<1>10. Session(c)'
  <2>1. Src(c)' = Src(c) BY <1>2 DEF Src, Units
  <2> QED BY <1>2, <1>3, <1>4, <1>8, <2>1 DEF Session
<1>11. Reused(c)' BY <1>2, <1>3, <1>8 DEF Reused
<1>12. Files(c)' BY <1>2, <1>3, <1>8 DEF Files
<1>13. CacheHeld(c)' BY <1>2, <1>8 DEF CacheHeld, Holds
<1>14. Local(c)' BY <1>4, <1>9, <1>10, <1>11, <1>12, <1>13 DEF Local
<1>15. StubsHeld' BY <1>1, <1>2, <1>4 DEF StubsHeld
<1> QED BY <1>4, <1>5, <1>6, <1>7, <1>14, <1>15, StepCombines

(* The three things that can happen to the file of a module: its last      *)
(* writer is not through, so it is suspect.                                *)
LEMMA CsourceStep ==
  ASSUME NEW c \in Crates, NEW m, IInv,
         OpenCsource(c, m) \/ WriteCsource(c, m) \/ CsourceIgnored(c, m)
  PROVE  IInv'
<1>1. Domains /\ Local(c) /\ StubsHeld /\ MakefileHeld BY DEF IInv
<1>2. /\ phase[c] \in {"building", "aborting"}
      /\ profile' = profile /\ version' = version /\ phase' = phase /\ modules' = modules /\ cache' = cache
      /\ objects' = objects /\ linked' = linked /\ makefile' = makefile
  BY DEF OpenCsource, WriteCsource, CsourceIgnored, session
<1>3. PICK p \in {"compiled", "opened"}, q \in {"opened", "written", "ignored"} :
        /\ Move(c, m, p, q)
        /\ p = "compiled" => suspect' = suspect \cup {SafeName[m]}
        /\ p = "opened" => suspect' \in {suspect, suspect \cup {SafeName[m]}}
        /\ csources' = csources \/ \E x : csources' = Put(csources, SafeName[m], x)
        /\ q = "written" => csources' = Put(csources, SafeName[m], Contents(modules[c][m]))
  BY DEF OpenCsource, WriteCsource, CsourceIgnored
<1>4. /\ m \in DOMAIN place[c] /\ place[c][m] = p
      /\ DOMAIN place' = Crates /\ DOMAIN place'[c] = DOMAIN place[c]
      /\ place'[c][m] = q /\ \A n \in DOMAIN place[c] \ {m} : place'[c][n] = place[c][n]
      /\ \A d \in Crates \ {c} : place'[d] = place[d]
  BY <1>1, <1>3, MoveFacts
<1>5. Active(c) /\ Built(c) BY <1>2 DEF Active, Built
<1>6. Types(c) /\ Session(c) /\ Reused(c) /\ Files(c) /\ CacheHeld(c) BY <1>1, <1>5 DEF Local
<1>7. suspect' = suspect \cup {SafeName[m]}
  <2>1. p = "opened" => SafeName[m] \in suspect BY <1>4, <1>6 DEF Files
  <2> QED BY <1>3, <2>1
<1>8. m \in UnitsOf(c) BY <1>4, <1>6 DEF Types
<1>9. \A f : f # SafeName[m] => (f \in DOMAIN csources' <=> f \in DOMAIN csources)
                                /\ (f \in DOMAIN csources => csources'[f] = csources[f])
                                /\ (f \in suspect' <=> f \in suspect)
  BY <1>3, <1>7 DEF Put
<1>10. Domains' BY <1>1, <1>2, <1>4 DEF Domains
<1>11. Alone(c)
  <2>1. \A d \in Crates \ {c} : \A u \in UnitsOf(d) : SafeName[u] # SafeName[m] BY <1>8, OwnFiles
  <2>2. \A d \in Crates \ {c} : \A u \in UnitsOf(d) : FileKept(u) BY <1>9, <2>1 DEF FileKept
  <2> QED BY <1>2, <1>4, <2>2 DEF Alone, Apart
<1>12. Types(c)' BY <1>2, <1>4, <1>6 DEF Types
<1>13. Session(c)'
  <2>1. Src(c)' = Src(c) BY <1>2 DEF Src, Units
  <2>2. p \notin {"queued", "panicked"} /\ q \notin {"queued", "panicked"} BY <1>3
  <2> QED BY <1>2, <1>4, <1>6, <2>1, <2>2 DEF Session
<1>14. Reused(c)' BY <1>2, <1>4, <1>6 DEF Reused
<1>15. Files(c)'
  <2>1. SafeName[m] \in suspect' BY <1>7
  <2>2. q = "written" => SafeName[m] \in DOMAIN csources' /\ csources'[SafeName[m]] = Contents(modules[c][m])
    BY <1>3 DEF Put
  <2>3. \A n \in DOMAIN place[c] \ {m} : SafeName[n] # SafeName[m]
    BY <1>6, <1>8, OwnFiles DEF Types
  <2> QED BY <1>2, <1>4, <1>6, <1>9, <2>1, <2>2, <2>3 DEF Files
<1>16. CacheHeld(c)'
  <2> SUFFICES ASSUME NEW n \in DOMAIN cache[c] PROVE Holds(n, cache[c][n])' BY <1>2 DEF CacheHeld
  <2>1. CASE SafeName[n] = SafeName[m] BY <1>7, <2>1 DEF Holds
  <2>2. CASE SafeName[n] # SafeName[m]
    <3>1. Holds(n, cache[c][n]) BY <1>6 DEF CacheHeld
    <3> QED BY <1>2, <1>9, <2>2, <3>1 DEF Holds
  <2> QED BY <2>1, <2>2
<1>17. Local(c)' BY <1>2, <1>12, <1>13, <1>14, <1>15, <1>16 DEF Local
<1>18. StubsHeld'
  <2>1. SafeName[m] # StubsFile BY <1>8, OwnFiles
  <2> QED BY <1>1, <1>2, <1>9, <2>1 DEF StubsHeld
<1> QED BY <1>2, <1>5, <1>10, <1>11, <1>17, <1>18, StepCombines

(* The code that is linked is that of the crate and of all it links. *)
LEMMA LinkIsCurrent ==
  ASSUME NEW c \in Crates, IInv, phase[c] = "linking"
  PROVE  Values(objects[c]) \cup UNION {linked[d].code : d \in Deps[c]} = UNION {Src(d) : d \in Closure(c)}
<1>1. Local(c) /\ DepsFirst /\ \A d \in Crates : Local(d) BY DEF IInv
<1>2. Active(c) /\ Built(c) BY DEF Active, Built
<1>3. Session(c) /\ Types(c) BY <1>1, <1>2 DEF Local
<1>4. Values(objects[c]) = Src(c)
  <2>1. \A m \in DOMAIN modules[c] : m \in DOMAIN objects[c] /\ objects[c][m] = Contents(modules[c][m])
    <3>1. \A m \in DOMAIN place[c] : place[c][m] \in {"written", "ignored"} BY <1>3 DEF Session
    <3> QED BY <1>3, <3>1 DEF Session, Types
  <2>2. Texts(modules[c]) \subseteq Values(objects[c]) BY <2>1 DEF Values, Texts
  <2> QED BY <1>3, <2>2 DEF Session
<1>5. \A d \in Deps[c] : /\ d \in Crates /\ Deps[d] \subseteq Deps[c]
                         /\ linked[d].code = UNION {Src(e) : e \in Closure(d)}
  <2> TAKE d \in Deps[c]
  <2>1. d \in Crates /\ Deps[d] \subseteq Deps[c] BY PipelineAssumption
  <2>2. phase[d] = "ended" BY <1>1, <1>2 DEF DepsFirst
  <2>3. Current(d) BY <1>1, <2>1, <2>2 DEF Local
  <2> QED BY <2>1, <2>3 DEF Current
<1>6. UNION {linked[d].code : d \in Deps[c]} = UNION {Src(d) : d \in Deps[c]}
  <2>1. ASSUME NEW x \in UNION {linked[d].code : d \in Deps[c]}
        PROVE  x \in UNION {Src(d) : d \in Deps[c]}
    <3>1. PICK d \in Deps[c] : x \in linked[d].code OBVIOUS
    <3>2. PICK e \in Closure(d) : x \in Src(e) BY <1>5, <3>1
    <3>3. e \in Deps[c] BY <1>5, <3>2 DEF Closure
    <3> QED BY <3>2, <3>3
  <2>2. ASSUME NEW x \in UNION {Src(d) : d \in Deps[c]}
        PROVE  x \in UNION {linked[d].code : d \in Deps[c]}
    <3>1. PICK d \in Deps[c] : x \in Src(d) OBVIOUS
    <3>2. d \in Closure(d) BY DEF Closure
    <3>3. x \in linked[d].code BY <1>5, <3>1, <3>2
    <3> QED BY <3>3
  <2> QED BY <2>1, <2>2
<1> QED BY <1>4, <1>6 DEF Closure

(* What a session that links leaves in csources/: a file is no longer      *)
(* suspect only if the session wrote it, and then it is what was compiled. *)
LEMMA LinkStep ==
  ASSUME NEW c \in Crates, IInv, Link(c)
  PROVE  IInv'
<1>1. Domains /\ Local(c) /\ StubsHeld /\ MakefileHeld BY DEF IInv
<1>2. /\ phase[c] = "linking" /\ phase' = [phase EXCEPT ![c] = "ended"]
      /\ profile' = profile /\ version' = version /\ modules' = modules /\ place' = place
      /\ objects' = objects /\ csources' = csources /\ makefile' = makefile
      /\ cache' = IF profile.incremental THEN [cache EXCEPT ![c] = objects[c]] ELSE cache
  BY DEF Link
<1>3. linked' = [linked EXCEPT ![c] =
        [code |-> Values(objects[c]) \cup UNION {linked[d].code : d \in Deps[c]}, exports |-> UnwindSymbols]]
  <2> DEFINE X == UNION {objects[c][m] : m \in DOMAIN objects[c]}
             Y == UNION {linked[d].code : d \in Deps[c]}
  <2>1. X = Values(objects[c]) BY DEF Values
  <2>2. linked' = [linked EXCEPT ![c] = [code |-> X \cup Y, exports |-> UnwindSymbols]] BY DEF Link
  <2> HIDE DEF X
  <2> QED BY <2>1, <2>2
<1>4. PICK W : /\ W = {n \in DOMAIN place[c] : place[c][n] = "written"}
               /\ suspect' = suspect \ {SafeName[n] : n \in W}
  BY DEF Link
<1>5. /\ phase'[c] = "ended" /\ DOMAIN phase' = Crates /\ DOMAIN linked' = Crates /\ DOMAIN cache' = Crates
      /\ linked'[c].code = Values(objects[c]) \cup UNION {linked[d].code : d \in Deps[c]}
      /\ \A d \in Crates \ {c} : phase'[d] = phase[d] /\ linked'[d] = linked[d] /\ cache'[d] = cache[d]
  BY <1>1, <1>2, <1>3 DEF Domains
<1>6. Active(c) /\ Built(c) BY <1>2 DEF Active, Built
<1>7. Types(c) /\ Session(c) /\ Reused(c) /\ Files(c) /\ CacheHeld(c) BY <1>1, <1>6 DEF Local
<1>8. W \subseteq UnitsOf(c) BY <1>4, <1>7 DEF Types
<1>9. Domains' BY <1>1, <1>2, <1>5 DEF Domains
<1>10. Alone(c)
  <2>1. \A d \in Crates \ {c} : \A u \in UnitsOf(d) : FileKept(u)
    <3>1. \A d \in Crates \ {c} : \A u \in UnitsOf(d) : \A n \in W : SafeName[u] # SafeName[n] BY <1>8, OwnFiles
    <3>2. \A d \in Crates \ {c} : \A u \in UnitsOf(d) : SafeName[u] \in suspect' <=> SafeName[u] \in suspect
      BY <1>4, <3>1
    <3> QED BY <1>2, <3>2 DEF FileKept
  <2> QED BY <1>2, <1>5, <2>1 DEF Alone, Apart
<1>11. \A m \in DOMAIN objects[c] : Holds(m, objects[c][m])'
  <2> TAKE m \in DOMAIN objects[c]
  <2>1. m \in UnitsOf(c) BY <1>7 DEF Types
  <2>2. m \notin W => (SafeName[m] \in suspect => SafeName[m] \in suspect') BY <1>4, <1>8, <2>1, OwnFiles
  <2>3. CASE m \in W
    <3>1. SafeName[m] \in DOMAIN csources /\ csources[SafeName[m]] = Contents(modules[c][m]) BY <1>4, <1>7, <2>3 DEF Files
    <3>2. objects[c][m] = Contents(modules[c][m]) BY <1>4, <1>7, <2>3 DEF Session
    <3> QED BY <1>2, <3>1, <3>2 DEF Holds
  <2>4. CASE m \in DOMAIN place[c] \ W
    <3>1. place[c][m] = "ignored" BY <1>2, <1>4, <1>7, <2>4 DEF Session
    <3>2. SafeName[m] \in suspect BY <1>7, <2>4, <3>1 DEF Files
    <3> QED BY <2>2, <2>4, <3>2 DEF Holds
  <2>5. CASE m \notin DOMAIN place[c]
    <3>1. m \in DOMAIN cache[c] /\ objects[c][m] = cache[c][m] BY <1>7, <2>5 DEF Reused
    <3>2. Holds(m, objects[c][m]) BY <1>7, <3>1 DEF CacheHeld
    <3>3. m \notin W BY <1>4, <2>5
    <3> QED BY <1>2, <2>2, <3>2, <3>3 DEF Holds
  <2> QED BY <2>3, <2>4, <2>5
<1>12. Types(c)' BY <1>1, <1>2, <1>5, <1>7 DEF Types, Phases, Domains
<1>13. Session(c)'
  <2>1. Src(c)' = Src(c) BY <1>2 DEF Src, Units
  <2>2. \A m \in DOMAIN place[c] : place[c][m] \in {"written", "ignored"} BY <1>2, <1>7 DEF Session
  <2> QED BY <1>2, <1>7, <2>1, <2>2 DEF Session
<1>14. CacheHeld(c)'
  <2>1. CASE profile.incremental
    <3>1. cache'[c] = objects[c] BY <1>1, <1>2, <2>1 DEF Domains
    <3> QED BY <1>2, <1>11, <3>1 DEF CacheHeld, Holds
  <2>2. CASE ~profile.incremental
    <3>1. DOMAIN cache'[c] = {} BY <1>2, <1>7, <2>2 DEF Types
    <3> QED BY <3>1 DEF CacheHeld
  <2> QED BY <2>1, <2>2
<1>15. ObjectsHeld(c)' BY <1>2, <1>11 DEF ObjectsHeld, Holds
<1>16. Current(c)'
  <2>1. \A d : Src(d)' = Src(d) BY <1>2 DEF Src, Units
  <2> QED BY <1>2, <1>5, <2>1, LinkIsCurrent DEF Current
<1>17. Local(c)'
  <2>1. ~Active(c)' BY <1>5 DEF Active
  <2> QED BY <1>12, <1>13, <1>14, <1>15, <1>16, <2>1 DEF Local
<1>18. StubsFile \in suspect' <=> StubsFile \in suspect BY <1>4, <1>8, OwnFiles
<1>19. "Makefile" \in suspect' <=> "Makefile" \in suspect BY <1>4, <1>8, OwnFiles
<1>20. StubsHeld' BY <1>1, <1>2, <1>5, <1>18 DEF StubsHeld
<1>21. c \in Programs /\ Closure(c) = Crates => "Makefile" \in suspect' \/ makefile' = MakefileOf(c)
  BY <1>1, <1>2, <1>19 DEF MakefileHeld
<1> QED BY <1>5, <1>6, <1>9, <1>10, <1>17, <1>20, <1>21, StepCombines

LEMMA InterruptStep ==
  ASSUME IInv, Interrupt
  PROVE  IInv'
<1>1. Domains /\ DepsFirst /\ StubsHeld /\ MakefileHeld /\ \A c \in Crates : Local(c) BY DEF IInv
<1>2. /\ phase' = [c \in Crates |-> IF phase[c] = "ended" THEN "ended" ELSE "failed"]
      /\ profile' = profile /\ version' = version /\ modules' = modules /\ place' = place
      /\ objects' = objects /\ cache' = cache /\ linked' = linked
      /\ csources' = csources /\ makefile' = makefile /\ suspect' = suspect
  BY DEF Interrupt, session, artifacts
<1>3. \A c \in Crates : phase'[c] \in {"ended", "failed"} /\ (phase'[c] = "ended" <=> phase[c] = "ended") BY <1>2
<1>4. Domains' BY <1>1, <1>2 DEF Domains
<1>5. ASSUME NEW c \in Crates PROVE Local(c)'
  <2>1. Local(c) BY <1>1
  <2>2. Types(c)' BY <1>2, <1>3, <2>1 DEF Local, Types, Phases
  <2>3. \A d : Src(d)' = Src(d) BY <1>2 DEF Src, Units
  <2>4. ~Active(c)' BY <1>3 DEF Active
  <2>5. (Built(c) => Session(c))'
    <3>1. Built(c)' => phase[c] = "ended" /\ Session(c) BY <1>3, <2>1, <2>4 DEF Built, Local
    <3>2. phase[c] = "ended" /\ Session(c) => Session(c)' BY <1>2, <1>3, <2>3 DEF Session
    <3> QED BY <3>1, <3>2
  <2>6. CacheHeld(c)' BY <1>2, <2>1 DEF Local, CacheHeld, Holds
  <2>7. (phase[c] = "ended" => Current(c))' BY <1>2, <1>3, <2>1, <2>3 DEF Local, Current
  <2>8. (phase[c] = "ended" => ObjectsHeld(c))' BY <1>2, <1>3, <2>1 DEF Local, ObjectsHeld, Holds
  <2> QED BY <2>2, <2>4, <2>5, <2>6, <2>7, <2>8 DEF Local
<1>6. DepsFirst'
  <2>1. \A c \in Crates : Built(c)' => phase[c] = "ended" BY <1>3 DEF Built, Active
  <2>2. \A c \in Crates : Deps[c] \subseteq Crates BY PipelineAssumption
  <2> QED BY <1>1, <1>3, <2>1, <2>2 DEF DepsFirst, Built
<1>7. StubsHeld' BY <1>1, <1>2, <1>3 DEF StubsHeld
<1>8. MakefileHeld'
  <2>1. Programs \subseteq Crates BY PipelineAssumption
  <2> QED BY <1>1, <1>2, <1>3, <2>1 DEF MakefileHeld, MakefileOf
<1> QED BY <1>4, <1>5, <1>6, <1>7, <1>8 DEF IInv

(* A crate that cargo does not build again has its code unchanged, and so  *)
(* have all crates it links.                                               *)
LEMMA CargoBuildStep ==
  ASSUME IInv, CargoBuild
  PROVE  IInv'
<1>1. Domains /\ DepsFirst /\ StubsHeld /\ MakefileHeld /\ \A c \in Crates : Local(c) BY DEF IInv
<1>2. /\ profile' = profile /\ modules' = modules /\ place' = place
      /\ objects' = objects /\ cache' = cache /\ linked' = linked
      /\ csources' = csources /\ makefile' = makefile /\ suspect' = suspect
      /\ DOMAIN version' = Crates /\ \A c \in Crates : version'[c] \in DOMAIN Code[c]
  BY DEF CargoBuild, session, artifacts
<1>3. PICK changed : /\ changed = {c \in Crates : version'[c] # version[c] \/ phase[c] # "ended"}
                     /\ phase' = [c \in Crates |-> IF Closure(c) \cap changed # {} THEN "waiting" ELSE phase[c]]
  BY DEF CargoBuild
<1>4. \A c \in Crates : \A d \in Deps[c] : d \in Crates /\ Closure(d) \subseteq Closure(c)
  BY PipelineAssumption DEF Closure
<1>5. \A c \in Crates : c \in Closure(c) BY DEF Closure
<1>6. \A c \in Crates : \/ phase'[c] = "waiting"
                        \/ /\ phase'[c] = "ended" /\ phase[c] = "ended" /\ Closure(c) \cap changed = {}
  BY <1>3, <1>5
<1>7. \A c \in Crates : phase'[c] = "ended" => \A d \in Closure(c) : version'[d] = version[d]
  <2>1. \A c \in Crates : Closure(c) \subseteq Crates BY <1>4 DEF Closure
  <2> QED BY <1>3, <1>6, <2>1
<1>8. Domains' BY <1>1, <1>2, <1>3 DEF Domains
<1>9. ASSUME NEW c \in Crates PROVE Local(c)'
  <2>1. Local(c) BY <1>1
  <2>2. Types(c)' BY <1>2, <1>6, <2>1 DEF Local, Types, Phases
  <2>3. phase'[c] = "ended" => \A d \in Closure(c) : Src(d)' = Src(d) BY <1>7 DEF Src, Units
  <2>4. ~Active(c)' BY <1>6 DEF Active
  <2>5. (Built(c) => Session(c))'
    <3>1. Built(c)' => phase[c] = "ended" /\ phase'[c] = "ended" /\ Session(c) BY <1>6, <2>1, <2>4 DEF Built, Local
    <3>2. phase'[c] = "ended" => Src(c)' = Src(c) BY <1>5, <2>3
    <3>3. phase[c] = "ended" /\ phase'[c] = "ended" /\ Session(c) => Session(c)' BY <1>2, <3>2 DEF Session
    <3> QED BY <3>1, <3>3
  <2>6. CacheHeld(c)' BY <1>2, <2>1 DEF Local, CacheHeld, Holds
  <2>7. (phase[c] = "ended" => Current(c))'
    <3> SUFFICES ASSUME phase'[c] = "ended" PROVE Current(c)' OBVIOUS
    <3>1. Current(c) BY <1>6, <2>1 DEF Local
    <3>2. UNION {Src(d)' : d \in Closure(c)} = UNION {Src(d) : d \in Closure(c)} BY <2>3
    <3> QED BY <1>2, <3>1, <3>2 DEF Current, Closure
  <2>8. (phase[c] = "ended" => ObjectsHeld(c))' BY <1>2, <1>6, <2>1 DEF Local, ObjectsHeld, Holds
  <2> QED BY <2>2, <2>4, <2>5, <2>6, <2>7, <2>8 DEF Local
<1>10. DepsFirst'
  <2> SUFFICES ASSUME NEW c \in Crates, Built(c)', NEW d \in Deps[c] PROVE phase'[d] = "ended" BY DEF DepsFirst
  <2>1. phase'[c] = "ended" /\ Closure(c) \cap changed = {} BY <1>6 DEF Built, Active
  <2>2. d \in Crates /\ Closure(d) \cap changed = {} /\ d \in Closure(d) BY <1>4, <1>5, <2>1
  <2>3. phase[d] = "ended" BY <1>3, <2>2
  <2> QED BY <1>3, <2>2, <2>3
<1>11. StubsHeld' BY <1>1, <1>2, <1>6 DEF StubsHeld
<1>12. MakefileHeld'
  <2>1. Programs \subseteq Crates BY PipelineAssumption
  <2> QED BY <1>1, <1>2, <1>6, <2>1 DEF MakefileHeld, MakefileOf, Closure
<1> QED BY <1>8, <1>9, <1>10, <1>11, <1>12 DEF IInv

-----------------------------------------------------------------------------
(* The inductive invariant and what follows from it.                       *)

LEMMA InitHolds == Init => IInv
<1> SUFFICES ASSUME Init PROVE IInv OBVIOUS
<1>1. /\ profile \in [lto : Modes, incremental : BOOLEAN] /\ (profile.lto = "fat" => ~profile.incremental)
      /\ version = [c \in Crates |-> 1] /\ phase = [c \in Crates |-> "waiting"]
      /\ modules = [c \in Crates |-> Empty] /\ place = [c \in Crates |-> Empty]
      /\ objects = [c \in Crates |-> Empty] /\ cache = [c \in Crates |-> Empty]
      /\ linked = [c \in Crates |-> [code |-> {}, exports |-> {}]]
      /\ csources = Empty /\ suspect = {}
  BY DEF Init
<1>2. Domains BY <1>1 DEF Domains
<1>3. DOMAIN Empty = {} BY DEF Empty
<1>4. ASSUME NEW c \in Crates PROVE Local(c)
  <2>1. phase[c] = "waiting" /\ ~Active(c) /\ ~Built(c) BY <1>1 DEF Active, Built
  <2>2. Types(c) BY <1>1, <1>3, <2>1, PipelineAssumption DEF Types, Phases
  <2>3. CacheHeld(c) BY <1>1, <1>3 DEF CacheHeld
  <2> QED BY <2>1, <2>2, <2>3 DEF Local
<1>5. DepsFirst BY <1>1 DEF DepsFirst, Built, Active
<1>6. StubsHeld BY <1>1, <1>3 DEF StubsHeld
<1>7. MakefileHeld BY <1>1, PipelineAssumption DEF MakefileHeld
<1> QED BY <1>2, <1>4, <1>5, <1>6, <1>7 DEF IInv

LEMMA NextHolds == IInv /\ [Next]_vars => IInv'
<1> SUFFICES ASSUME IInv, [Next]_vars PROVE IInv' OBVIOUS
<1>1. CASE UNCHANGED vars
  <2>1. /\ profile' = profile /\ version' = version /\ phase' = phase /\ modules' = modules /\ place' = place
        /\ objects' = objects /\ cache' = cache /\ linked' = linked
        /\ csources' = csources /\ makefile' = makefile /\ suspect' = suspect
    BY <1>1 DEF vars
  <2>2. Domains' BY <2>1 DEF IInv, Domains
  <2>3. ASSUME NEW c \in Crates PROVE Local(c)'
    <3>1. Local(c) BY DEF IInv
    <3>2. \A d : Src(d)' = Src(d) BY <2>1 DEF Src, Units
    <3>3. Types(c)' BY <2>1, <3>1 DEF Local, Types
    <3>4. (Active(c)' <=> Active(c)) /\ (Built(c)' <=> Built(c)) BY <2>1 DEF Active, Built
    <3>5. Session(c) => Session(c)' BY <2>1, <3>2 DEF Session
    <3>6. Reused(c) => Reused(c)' BY <2>1 DEF Reused
    <3>7. Files(c) => Files(c)' BY <2>1 DEF Files
    <3>8. CacheHeld(c)' BY <2>1, <3>1 DEF Local, CacheHeld, Holds
    <3>9. Current(c) => Current(c)' BY <2>1, <3>2 DEF Current
    <3>10. ObjectsHeld(c) => ObjectsHeld(c)' BY <2>1 DEF ObjectsHeld, Holds
    <3> QED BY <2>1, <3>1, <3>3, <3>4, <3>5, <3>6, <3>7, <3>8, <3>9, <3>10 DEF Local
  <2>4. DepsFirst' BY <2>1 DEF IInv, DepsFirst, Built, Active
  <2>5. StubsHeld' BY <2>1 DEF IInv, StubsHeld
  <2>6. MakefileHeld' BY <2>1 DEF IInv, MakefileHeld, MakefileOf
  <2> QED BY <2>2, <2>3, <2>4, <2>5, <2>6 DEF IInv
<1>2. CASE CargoBuild BY <1>2, CargoBuildStep
<1>3. CASE Interrupt BY <1>3, InterruptStep
<1>4. ASSUME NEW c \in Crates, Step(c) PROVE IInv'
  <2>1. CASE Start(c) BY <2>1, StartStep
  <2>2. CASE Abort(c) BY <2>2, AbortStep
  <2>3. CASE OpenMakefile(c) BY <2>3, OpenMakefileStep
  <2>4. CASE WriteMakefile(c) BY <2>4, WriteMakefileStep
  <2>5. CASE MakefileIgnored(c) BY <2>5, MakefileIgnoredStep
  <2>6. CASE WriteStubs(c) \/ StubsIgnored(c) BY <2>6, WriteStubsStep
  <2>7. CASE Link(c) BY <2>7, LinkStep
  <2>8. ASSUME NEW m \in DOMAIN place[c], Compile(c, m) PROVE IInv' BY <2>8, CompileStep
  <2>9. ASSUME NEW m \in DOMAIN place[c], CompileFails(c, m) PROVE IInv' BY <2>9, CompileFailsStep
  <2>10. ASSUME NEW m \in DOMAIN place[c], OpenCsource(c, m) \/ WriteCsource(c, m) \/ CsourceIgnored(c, m)
         PROVE  IInv'
    BY <2>10, CsourceStep
  <2> QED BY <1>4, <2>1, <2>2, <2>3, <2>4, <2>5, <2>6, <2>7, <2>8, <2>9, <2>10 DEF Step
<1> QED BY <1>1, <1>2, <1>3, <1>4 DEF Next

(* The invariant above holds in every state of every workspace: sessions   *)
(* are complete, crates are built in the order of their dependencies, and  *)
(* a file of csources/ that is not suspect is what was compiled.           *)
THEOREM InvariantHolds == Spec => []IInv
BY InitHolds, NextHolds, PTL DEF Spec

(* What rustc links is the current code of the crate and of all it uses,   *)
(* whatever LTO and the reuse of objects of earlier sessions do.           *)
THEOREM LinkIsFresh == Spec => []LinkedIsCurrent
<1>1. IInv => LinkedIsCurrent
  <2> SUFFICES ASSUME IInv, NEW c \in Crates, phase[c] = "ended"
               PROVE  linked[c].code = UNION {Src(d) : d \in Closure(c)}
    BY DEF LinkedIsCurrent, Src
  <2> QED BY DEF IInv, Local, Current
<1> QED BY <1>1, InvariantHolds, PTL

(* When a crate is built, csources/ holds the source of each of its        *)
(* objects, reused ones too, unless the file's last write failed or        *)
(* belongs to a session that did not succeed.                              *)
THEOREM SourcesAreFresh == Spec => []SourcesMatchObjects
<1>1. IInv => SourcesMatchObjects
  BY DEF IInv, Local, ObjectsHeld, Holds, SourcesMatchObjects
<1> QED BY <1>1, InvariantHolds, PTL

(* A set of numbers has a least one. *)
LEMMA LeastNumber ==
  ASSUME NEW I \in SUBSET Nat, I # {}
  PROVE  \E i \in I : \A j \in I : i <= j
<1> DEFINE Less == {p \in Nat \X Nat : p[1] < p[2]}
<1>1. IsWellFoundedOn(Less, Nat) BY NatLessThanWellFounded DEF OpToRel
<1>2. PICK i \in I : \A j \in I : ~(<<j, i>> \in Less) BY <1>1, WFMin
<1>3. ASSUME NEW j \in I, j < i PROVE <<j, i>> \in Less BY <1>3
<1>4. \A j \in I : ~(j < i) BY <1>2, <1>3
<1> QED BY <1>4

(* What csources/ holds after a run that left nothing suspect and nothing  *)
(* over: the code of the crates and the stubs, and nothing else.           *)
Complete == AllEnded /\ suspect = {} /\ Leftover = {}

LEMMA FilesHoldCode ==
  ASSUME IInv, Complete, NEW f \in DOMAIN csources, Crates # {}
  PROVE  \E c \in Crates : csources[f] \subseteq Src(c) \cup Stubs
<1>1. AllEnded /\ suspect = {} /\ Leftover = {} BY DEF Complete
<1>2. CASE f = StubsFile
  <2>1. csources[f] = Stubs BY <1>1, <1>2 DEF IInv, StubsHeld
  <2> QED BY <2>1
<1>3. CASE f # StubsFile
  <2>1. f \in UNION {{SafeName[m] : m \in DOMAIN objects[c]} : c \in Crates} BY <1>1, <1>3 DEF Leftover
  <2>2. PICK c \in Crates : \E m \in DOMAIN objects[c] : f = SafeName[m] BY <2>1
  <2>3. PICK m \in DOMAIN objects[c] : f = SafeName[m] BY <2>2
  <2>4. phase[c] = "ended" /\ Local(c) BY <1>1 DEF AllEnded, IInv
  <2>5. Session(c) /\ ObjectsHeld(c) BY <2>4 DEF Local, Built
  <2>6. csources[f] = objects[c][m] BY <1>1, <2>3, <2>5 DEF ObjectsHeld, Holds
  <2>7. objects[c][m] \subseteq Values(objects[c]) BY <2>3 DEF Values
  <2>8. objects[c][m] \subseteq Src(c) BY <2>5, <2>7 DEF Session
  <2> QED BY <2>6, <2>8
<1> QED BY <1>2, <1>3

LEMMA CodeIsInFiles ==
  ASSUME IInv, Complete, NEW c \in Crates, NEW d \in Src(c) \cup Stubs
  PROVE  \E f \in DOMAIN csources : /\ f \in {SafeName[u] : u \in DOMAIN SafeName} \cup {StubsFile}
                                    /\ d \in csources[f]
<1>1. AllEnded /\ suspect = {} BY DEF Complete
<1>2. phase[c] = "ended" /\ Local(c) BY <1>1 DEF AllEnded, IInv
<1>3. CASE d \in Stubs
  <2>1. StubsFile \in DOMAIN csources /\ csources[StubsFile] = Stubs BY <1>1, <1>2 DEF IInv, StubsHeld
  <2> QED BY <1>3, <2>1
<1>4. CASE d \in Src(c)
  <2>1. Session(c) /\ ObjectsHeld(c) /\ Types(c) BY <1>2 DEF Local, Built
  <2>2. \A m \in DOMAIN modules[c] : m \in DOMAIN objects[c] /\ objects[c][m] = Contents(modules[c][m])
    <3>1. \A m \in DOMAIN place[c] : place[c][m] \in {"written", "ignored"} BY <1>2, <2>1 DEF Session
    <3> QED BY <2>1, <3>1 DEF Session, Types
  <2>3. Texts(modules[c]) \subseteq Values(objects[c]) BY <2>2 DEF Values, Texts
  <2>4. d \in Values(objects[c]) BY <1>4, <2>1, <2>3 DEF Session
  <2>5. PICK m \in DOMAIN objects[c] : d \in objects[c][m] BY <2>4 DEF Values
  <2>6. SafeName[m] \in DOMAIN csources /\ csources[SafeName[m]] = objects[c][m]
    BY <1>1, <2>1, <2>5 DEF ObjectsHeld, Holds
  <2>7. m \in DOMAIN SafeName BY <2>1, <2>5, OwnFiles DEF Types
  <2> QED BY <2>5, <2>6, <2>7
<1> QED BY <1>3, <1>4

(* Definitions of one name that the linker sees are the same one. *)
LEMMA NoClash ==
  ASSUME IInv, Linkable, NEW c \in Crates, NEW d \in Crates,
         NEW x \in Src(c) \cup Stubs, NEW y \in Src(d) \cup Stubs, x.name = y.name, x.name \notin FileLocal
  PROVE  x = y
<1>1. version[c] \in DOMAIN Code[c] /\ version[d] \in DOMAIN Code[d] BY DEF IInv, Local, Types
<1>2. Src(c) = SourceOf(c, version[c]) /\ Src(d) = SourceOf(d, version[d]) BY DEF Src, SourceOf, Units
<1>3. x \in SourceOf(c, version[c]) \cup Stubs /\ y \in SourceOf(d, version[d]) \cup Stubs BY <1>2
<1> HIDE DEF SourceOf
<1> QED BY <1>1, <1>3 DEF Linkable

(* In a workspace where make can build the program at all, it builds the   *)
(* one that rustc linked, if no write failed and no file is left over from *)
(* an earlier run.                                                         *)
THEOREM MakeBuilds ==
  ASSUME OneProgram, AllListed, Linkable
  PROVE  Spec => []MakeMatchesLink
<1>1. IInv => MakeMatchesLink
  <2> SUFFICES ASSUME IInv, Complete PROVE \E p \in Programs : Makes(p)
    BY DEF MakeMatchesLink, Complete
  <2>1. PICK p \in Programs : Closure(p) = Crates BY DEF OneProgram
  <2>2. p \in Crates BY PipelineAssumption
  <2>3. AllEnded /\ suspect = {} BY DEF Complete
  <2>4. phase[p] = "ended" /\ Local(p) BY <2>2, <2>3 DEF AllEnded, IInv
  <2>5. makefile = MakefileOf(p) BY <2>1, <2>3, <2>4 DEF IInv, MakefileHeld
  <2>6. linked[p].code = UNION {Src(c) : c \in Crates} BY <2>1, <2>4 DEF Local, Current
  <2>7. ASSUME NEW d \in linked[p].code \cup Stubs, d.name \notin FileLocal
        PROVE  \E i \in DOMAIN Listing :
                 /\ Listing[i] \in DOMAIN csources /\ d \in csources[Listing[i]]
                 /\ \A j \in 1 .. i - 1 : Listing[j] \in DOMAIN csources =>
                      \A e \in csources[Listing[j]] : e.name # d.name
    <3>1. PICK c \in Crates : d \in Src(c) \cup Stubs BY <2>2, <2>6, <2>7
    <3>2. PICK f \in DOMAIN csources : /\ f \in {SafeName[u] : u \in DOMAIN SafeName} \cup {StubsFile}
                                       /\ d \in csources[f]
      BY <3>1, CodeIsInFiles
    <3>3. PICK n \in Nat : DOMAIN Listing = 1 .. n /\ \E i \in 1 .. n : Listing[i] = f
      <4>1. Len(Listing) \in Nat /\ DOMAIN Listing = 1 .. Len(Listing) BY DEF AllListed
      <4> QED BY <3>2, <4>1 DEF AllListed
    <3>4. PICK I : I = {i \in 1 .. n : Listing[i] \in DOMAIN csources /\ d \in csources[Listing[i]]} OBVIOUS
    <3>5. I \subseteq Nat /\ I # {} BY <3>2, <3>3, <3>4
    <3>6. PICK i \in I : \A j \in I : i <= j BY <3>5, LeastNumber
    <3>7. i \in 1 .. n /\ Listing[i] \in DOMAIN csources /\ d \in csources[Listing[i]] BY <3>4
    <3>8. ASSUME NEW j \in 1 .. i - 1, Listing[j] \in DOMAIN csources,
                 NEW e \in csources[Listing[j]], e.name = d.name
          PROVE  FALSE
      <4>1. j \in 1 .. n /\ ~(i <= j) BY <3>7
      <4>2. d \notin csources[Listing[j]] BY <3>4, <3>6, <3>8, <4>1
      <4>3. PICK c1 \in Crates : e \in Src(c1) \cup Stubs BY <2>2, <3>8, FilesHoldCode
      <4>4. e = d BY <2>7, <3>1, <3>8, <4>3, NoClash
      <4> QED BY <3>8, <4>2, <4>4
    <3> QED BY <3>3, <3>7, <3>8
  <2> QED BY <2>5, <2>7 DEF Makes
<1> QED BY <1>1, InvariantHolds, PTL
=============================================================================
