------------------------- MODULE CodegenUnit_proofs -------------------------
(***************************************************************************)
(* Proofs about CodegenUnit for every unit: any functions, statics and     *)
(* constants that refer to each other in any way, in any order of the      *)
(* items and of the references.  The invariant: the types, what is on the  *)
(* stack of nodes being written, what the declaration maps say of each     *)
(* other, which statics and functions of this unit they know and with what *)
(* type and linkage, that what is used is written, and how far each item   *)
(* is.                                                                     *)
(***************************************************************************)
EXTENDS CodegenUnit, SequenceTheorems, TLAPS

Own == (Items \cap Fns) \cup Entry
OwnStatics == Items \cap Statics
Decls == [of : Fns, static : BOOLEAN]
Frames == [node : Nodes, id : Nat, left : SUBSET Nodes, uses : SUBSET Uses]

Types ==
  /\ phase \in {"predefine", "define", "wrapper", "finalize", "done"}
  /\ todo \subseteq Items
  /\ instances \subseteq Fns /\ functionDecls \subseteq Decls /\ declaredFns \subseteq Names
  /\ staticsCache \subseteq Statics /\ declaredGlobals \subseteq Names
  /\ externDecls \subseteq [of : Statics, type : {"struct", "bytes", "weakfn"}]
  /\ structDefs \in [Names -> Nat]
  /\ data \in Seq([id : Nat, uses : SUBSET Uses])
  /\ globalDefs \subseteq [of : OwnStatics, uses : SUBSET Uses]
  /\ byteStrings \in Nat
  /\ open \subseteq Names /\ functionDefs \subseteq Names
  /\ sig \in [Names -> Own \cup {NoFn}]
  /\ bodies \in [Names -> SUBSET Fns]
  /\ bodyUses \in [Names -> SUBSET Uses]
  /\ work \in Seq(Frames)

(* The stack: an item or the entry wrapper, then anonymous allocations. *)
Stack ==
  /\ work # <<>> => phase \in {"define", "wrapper"}
  /\ \A k \in 1 .. Len(work) : work[k].node \in
       (IF k > 1 THEN Allocs ELSE IF phase = "wrapper" THEN Entry ELSE Items \ todo)

(* The declaration maps. *)
Maps ==
  /\ declaredFns = Known \cup {CName[d.of] : d \in functionDecls}
  /\ \A f \in instances : CName[f] \in declaredFns
  /\ \A d, e \in externDecls : CName[d.of] = CName[e.of] => d = e
  /\ \A n \in Names : structDefs[n] =
       IF \E d \in externDecls : CName[d.of] = n /\ d.type = "struct" THEN 1 ELSE 0
  /\ \A s \in staticsCache : CName[s] \in declaredGlobals \cup ExternNames

(* What is known of the statics of this unit once the first loop is over. *)
Statuses ==
  /\ \A s \in OwnStatics : (phase = "predefine" /\ s \in todo) \/ CName[s] \in declaredGlobals
  /\ phase = "predefine" => externDecls = {}
  /\ \A d \in externDecls : d.of \in Items =>
       d.type = IF Refs[d.of] = {} THEN "bytes" ELSE "struct"

(* What is known of this unit's functions: get_fn finds them in its cache, *)
(* so predefine_fn has written their declarations.                         *)
Linkages ==
  /\ \A f \in Items \cap Fns : (phase = "predefine" /\ f \in todo) \/ f \in instances
  /\ \A d \in functionDecls : d.static <=> d.of \in Internal
  /\ \A d \in functionDecls, f \in Items \cap Fns : CName[d.of] = CName[f] => d.of = f

(* A use that needs no declaration further down. *)
Written(u, i) ==
  CASE u.kind = "fn" -> u.name \in declaredFns
    [] u.kind = "static" -> u.name \in ExternNames
    [] u.kind = "bytes" -> u.name \in DataBefore(i)
WrittenInBody(u, i) == Written(u, i) \/ (u.kind = "static" /\ u.name \in declaredGlobals)

UsesInv ==
  /\ \A i \in 1 .. Len(data) : \A u \in data[i].uses : Written(u, i)
  /\ \A g \in globalDefs : \A u \in g.uses : Written(u, Len(data) + 1)
  /\ \A n \in Names : \A u \in bodyUses[n] : WrittenInBody(u, Len(data) + 1)
  /\ \A k \in 1 .. Len(work) : \A u \in work[k].uses :
       IF work[k].node \in Fns THEN WrittenInBody(u, Len(data) + 1) ELSE Written(u, Len(data) + 1)

(* How far an item is. *)
Opened(f) == IF f \in Entry THEN phase \in {"wrapper", "finalize", "done"}
                            ELSE ~(phase = "predefine" /\ f \in todo)
Begun(x) == IF x \in Entry THEN phase \in {"wrapper", "finalize", "done"}
                           ELSE phase # "predefine" /\ x \notin todo
Translated(x) == Begun(x) /\ (work # <<>> => work[1].node # x)

Progress ==
  /\ \A n \in Names : sig[n] # NoFn => CName[sig[n]] = n
  /\ \A n \in open \cup functionDefs : sig[n] # NoFn
  /\ \A f \in Own : Opened(f) =>
       /\ sig[CName[f]] = f
       /\ bodies[CName[f]] = IF Translated(f) THEN {f} ELSE {}
       /\ CName[f] \in IF phase \in {"finalize", "done"} THEN open \cup functionDefs ELSE open
  /\ \A s \in OwnStatics : Translated(s) => \E g \in globalDefs : g.of = s
  /\ phase \in {"wrapper", "finalize", "done"} => todo = {}
  /\ phase = "done" => open = {}

IInv == Types /\ Stack /\ Maps /\ Statuses /\ Linkages /\ UsesInv /\ Progress

-----------------------------------------------------------------------------
(* The stack of nodes being written.                                       *)

LEMMA FrameType ==
  ASSUME NEW x \in Nodes, NEW i \in Nat
  PROVE  Frame(x, i) \in Frames /\ Frame(x, i).node = x /\ Frame(x, i).uses = {}
  BY UnitAssumption DEF Frame, Frames

LEMMA StackTop ==
  ASSUME work \in Seq(Frames), work # <<>>
  PROVE  /\ Len(work) \in Nat \ {0} /\ Top \in Frames /\ Top = work[Len(work)]
         /\ Pop \in Seq(Frames) /\ Len(Pop) = Len(work) - 1
         /\ \A k \in 1 .. Len(work) - 1 : Pop[k] = work[k]
<1>1. Len(work) \in Nat \ {0}
  BY EmptySeq, LenProperties
<1>2. Top \in Frames /\ Top = work[Len(work)]
  BY <1>1, ElementOfSeq DEF Top
<1>3. /\ Pop \in Seq(Frames) /\ Len(Pop) = Len(work) - 1
      /\ \A k \in 1 .. Len(work) - 1 : Pop[k] = work[k]
  <2>1. \A i \in 1 .. Len(work) - 1 : work[i] \in Frames
    BY <1>1, ElementOfSeq
  <2> DEFINE n == Len(work) - 1
  <2>2. n \in Nat /\ 1 \in Int /\ n \in Int
    BY <1>1
  <2> HIDE DEF n
  <2>3. /\ SubSeq(work, 1, n) \in Seq(Frames)
        /\ Len(SubSeq(work, 1, n)) = IF 1 <= n THEN n - 1 + 1 ELSE 0
        /\ \A i \in 1 .. n - 1 + 1 : SubSeq(work, 1, n)[i] = work[1 + i - 1]
    BY <2>1, <2>2, SubSeqProperties DEF n
  <2>4. Len(SubSeq(work, 1, n)) = n /\ \A i \in 1 .. n : SubSeq(work, 1, n)[i] = work[i]
    BY <2>2, <2>3
  <2> QED BY <2>3, <2>4 DEF Pop, n
<1> QED BY <1>1, <1>2, <1>3

(* Its top is replaced ... *)
LEMMA TopReplaced ==
  ASSUME work \in Seq(Frames), work # <<>>, NEW fr \in Frames
  PROVE  LET w == Append(Pop, fr)
         IN  /\ w \in Seq(Frames) /\ Len(w) = Len(work) /\ w # <<>>
             /\ \A k \in 1 .. Len(work) : w[k] = IF k = Len(work) THEN fr ELSE work[k]
<1> DEFINE w == Append(Pop, fr)
<1>1. /\ Len(work) \in Nat \ {0} /\ Pop \in Seq(Frames) /\ Len(Pop) = Len(work) - 1
      /\ \A k \in 1 .. Len(work) - 1 : Pop[k] = work[k]
  BY StackTop
<1>2. /\ w \in Seq(Frames) /\ Len(w) = Len(Pop) + 1 /\ w # <<>>
      /\ \A k \in 1 .. Len(Pop) : w[k] = Pop[k]
      /\ w[Len(Pop) + 1] = fr
  BY <1>1, AppendProperties
<1> QED BY <1>1, <1>2

(* ... one is put on it ... *)
LEMMA Pushed ==
  ASSUME work \in Seq(Frames), work # <<>>, NEW fr \in Frames, NEW more \in Frames
  PROVE  LET w == Append(Append(Pop, fr), more)
         IN  /\ w \in Seq(Frames) /\ Len(w) = Len(work) + 1 /\ w # <<>>
             /\ \A k \in 1 .. Len(work) + 1 :
                  w[k] = IF k = Len(work) + 1 THEN more
                         ELSE IF k = Len(work) THEN fr ELSE work[k]
<1> DEFINE v == Append(Pop, fr)
           w == Append(v, more)
<1>1. /\ Len(work) \in Nat \ {0} /\ v \in Seq(Frames) /\ Len(v) = Len(work)
      /\ \A k \in 1 .. Len(work) : v[k] = IF k = Len(work) THEN fr ELSE work[k]
  BY StackTop, TopReplaced
<1> HIDE DEF v
<1>2. /\ w \in Seq(Frames) /\ Len(w) = Len(v) + 1 /\ w # <<>>
      /\ \A k \in 1 .. Len(v) : w[k] = v[k]
      /\ w[Len(v) + 1] = more
  BY <1>1, AppendProperties
<1> QED BY <1>1, <1>2 DEF v

(* ... or it is taken away, and the one below gets a use. *)
LEMMA Returned ==
  ASSUME work \in Seq(Frames), work # <<>>, NEW u \in Uses
  PROVE  /\ Return(u) \in Seq(Frames) /\ Len(Return(u)) = Len(work) - 1
         /\ \A k \in 1 .. Len(work) - 1 :
              /\ Return(u)[k].node = work[k].node /\ Return(u)[k].left = work[k].left
              /\ \A v \in Return(u)[k].uses : v \in work[k].uses \/ v = u
<1>1. Len(work) \in Nat \ {0}
  BY StackTop
<1>2. \A k \in 1 .. Len(work) : work[k] \in Frames
  BY ElementOfSeq
<1>3. \A k \in 1 .. Len(work) - 1 : [work[k] EXCEPT !.uses = @ \cup {u}] \in Frames
  BY <1>1, <1>2 DEF Frames
<1>4. Return(u) \in [1 .. Len(work) - 1 -> Frames]
  BY <1>1, <1>2, <1>3 DEF Return
<1>5. Return(u) \in Seq(Frames) /\ Len(Return(u)) = Len(work) - 1
  <2>1. Return(u) \in Seq(Frames) /\ DOMAIN Return(u) = 1 .. Len(work) - 1
    BY <1>1, <1>4, SeqDef
  <2>2. 1 .. Len(work) - 1 = 1 .. Len(Return(u)) /\ Len(Return(u)) \in Nat
    BY <2>1, LenProperties
  <2> QED BY <1>1, <2>1, <2>2
<1>6. \A k \in 1 .. Len(work) - 1 :
        /\ Return(u)[k].node = work[k].node /\ Return(u)[k].left = work[k].left
        /\ \A v \in Return(u)[k].uses : v \in work[k].uses \/ v = u
  BY <1>1, <1>2 DEF Return, Frames
<1> QED BY <1>5, <1>6

-----------------------------------------------------------------------------
(* Declarations.                                                           *)

MapsGrow ==
  /\ declaredFns \subseteq declaredFns' /\ declaredGlobals \subseteq declaredGlobals'
  /\ externDecls \subseteq externDecls'

LEMMA NameTypes ==
  /\ \A f \in Fns : CName[f] \in Names
  /\ \A s \in Statics : CName[s] \in Names
  /\ \A f \in Own : f \in Fns /\ f \notin Statics /\ f \notin Allocs
  /\ \A s \in OwnStatics : s \in Statics /\ s \notin Fns
  BY UnitAssumption DEF Own, OwnStatics

(* The functions that open_functions gets have names of their own. *)
LEMMA OwnNames ==
  ASSUME DistinctNames
  PROVE  /\ \A f, g \in Own : CName[f] = CName[g] => f = g
         /\ \A f \in Fns, g \in Entry : CName[f] = CName[g] => f = g
<1>1. Entry \subseteq Fns /\ Own = (Items \cap Fns) \cup Entry
  BY UnitAssumption DEF Own
<1> QED BY <1>1 DEF DistinctNames

LEMMA DeclareFnEffect ==
  ASSUME Types, Maps, NEW f \in Fns, NEW static \in BOOLEAN, instances' = instances \cup {f},
         DeclareFn(f, static) \/ (f \in instances /\ UNCHANGED <<declaredFns, functionDecls>>),
         UNCHANGED <<staticsCache, declaredGlobals, externDecls, structDefs>>
  PROVE  /\ Maps' /\ MapsGrow /\ CName[f] \in declaredFns'
         /\ instances' \subseteq Fns /\ functionDecls' \subseteq Decls /\ declaredFns' \subseteq Names
         /\ \A d \in functionDecls' : \/ d \in functionDecls
                                      \/ /\ d.of = f /\ d.static = static
                                         /\ CName[f] \notin declaredFns
<1> DEFINE new == [of |-> f, static |-> static]
<1>1. CName[f] \in declaredFns' /\ declaredFns \subseteq declaredFns'
  BY DEF DeclareFn, Maps
<1>2. new \in Decls /\ new.of = f /\ new.static = static
  BY DEF Decls
<1>3. \/ functionDecls' = functionDecls /\ declaredFns' = declaredFns
      \/ /\ CName[f] \notin declaredFns
         /\ functionDecls' = functionDecls \cup {new} /\ declaredFns' = declaredFns \cup {CName[f]}
  BY DEF DeclareFn
<1> HIDE DEF new
<1>4. instances' \subseteq Fns /\ functionDecls' \subseteq Decls /\ declaredFns' \subseteq Names
  BY <1>2, <1>3, NameTypes DEF Types
<1>5. declaredFns' = Known \cup {CName[d.of] : d \in functionDecls'}
  BY <1>2, <1>3 DEF Maps
<1>6. \A g \in instances' : CName[g] \in declaredFns'
  BY <1>1 DEF Maps
<1>7. /\ \A d, e \in externDecls' : CName[d.of] = CName[e.of] => d = e
      /\ \A n \in Names : structDefs'[n] =
           IF \E d \in externDecls' : CName[d.of] = n /\ d.type = "struct" THEN 1 ELSE 0
      /\ \A s \in staticsCache' : CName[s] \in declaredGlobals' \cup ExternNames'
  BY DEF Maps, ExternNames
<1>8. MapsGrow
  BY <1>1 DEF MapsGrow
<1> QED BY <1>1, <1>2, <1>3, <1>4, <1>5, <1>6, <1>7, <1>8 DEF Maps

(* A static is declared, with type ty, unless its name is. *)
AddDecl(s, ty) ==
  IF \E d \in externDecls : CName[d.of] = CName[s]
  THEN UNCHANGED <<externDecls, structDefs>>
  ELSE /\ externDecls' = externDecls \cup {[of |-> s, type |-> ty]}
       /\ structDefs' = IF ty = "struct" THEN [structDefs EXCEPT ![CName[s]] = @ + 1] ELSE structDefs

TypeOf(s) == IF s \in Weak THEN "weakfn"
             ELSE IF CName[s] \in declaredGlobals /\ Refs[s] # {} THEN "struct" ELSE "bytes"

LEMMA ExternDeclIsAdd ==
  ASSUME NEW s, ExternStaticDecl(s)
  PROVE  AddDecl(s, TypeOf(s))
  BY DEF ExternStaticDecl, StructFwdDecl, AddGlobalDecl, AddDecl, TypeOf

LEMMA StructDeclIsAdd ==
  ASSUME NEW s, StructFwdDecl(s)
  PROVE  AddDecl(s, "struct")
  BY DEF StructFwdDecl, AddDecl

LEMMA AddDeclEffect ==
  ASSUME Types, Maps, NEW s \in Statics, NEW ty \in {"struct", "bytes", "weakfn"}, AddDecl(s, ty)
  PROVE  /\ externDecls' \subseteq [of : Statics, type : {"struct", "bytes", "weakfn"}]
         /\ structDefs' \in [Names -> Nat]
         /\ externDecls \subseteq externDecls' /\ ExternNames \subseteq ExternNames'
         /\ CName[s] \in ExternNames'
         /\ \A d \in externDecls' : d \in externDecls \/ d = [of |-> s, type |-> ty]
         /\ \A d, e \in externDecls' : CName[d.of] = CName[e.of] => d = e
         /\ \A n \in Names : structDefs'[n] =
              IF \E d \in externDecls' : CName[d.of] = n /\ d.type = "struct" THEN 1 ELSE 0
<1>1. CASE \E d \in externDecls : CName[d.of] = CName[s]
  <2>1. externDecls' = externDecls /\ structDefs' = structDefs
    BY <1>1 DEF AddDecl
  <2> QED BY <1>1, <2>1 DEF Types, Maps, ExternNames
<1>2. CASE ~ \E d \in externDecls : CName[d.of] = CName[s]
  <2> DEFINE new == [of |-> s, type |-> ty]
  <2>1. /\ externDecls' = externDecls \cup {new}
        /\ structDefs' = IF ty = "struct" THEN [structDefs EXCEPT ![CName[s]] = @ + 1] ELSE structDefs
    BY <1>2 DEF AddDecl
  <2>2. /\ new \in [of : Statics, type : {"struct", "bytes", "weakfn"}]
        /\ new.of = s /\ new.type = ty
    OBVIOUS
  <2> HIDE DEF new
  <2>3. externDecls' \subseteq [of : Statics, type : {"struct", "bytes", "weakfn"}]
    BY <2>1, <2>2 DEF Types
  <2>4. CName[s] \in Names /\ structDefs \in [Names -> Nat]
    BY NameTypes DEF Types
  <2>5. structDefs' \in [Names -> Nat]
    BY <2>1, <2>4
  <2>6. ExternNames \subseteq ExternNames' /\ CName[s] \in ExternNames'
    BY <2>1, <2>2 DEF ExternNames
  <2>7. \A d, e \in externDecls' : CName[d.of] = CName[e.of] => d = e
    BY <1>2, <2>1, <2>2 DEF Maps
  <2>8. \A n \in Names : structDefs'[n] =
          IF \E d \in externDecls' : CName[d.of] = n /\ d.type = "struct" THEN 1 ELSE 0
    <3> SUFFICES ASSUME NEW n \in Names
                 PROVE  structDefs'[n] =
                   IF \E d \in externDecls' : CName[d.of] = n /\ d.type = "struct" THEN 1 ELSE 0
      OBVIOUS
    <3>1. structDefs[n] = IF \E d \in externDecls : CName[d.of] = n /\ d.type = "struct"
                          THEN 1 ELSE 0
      BY DEF Maps
    <3>2. CASE n # CName[s]
      BY <2>1, <2>2, <2>4, <3>1, <3>2
    <3>3. CASE n = CName[s]
      <4>1. structDefs[n] = 0
        BY <1>2, <3>1, <3>3
      <4>2. structDefs'[n] = IF ty = "struct" THEN 1 ELSE 0
        BY <2>1, <2>4, <3>3, <4>1
      <4>3. (\E d \in externDecls' : CName[d.of] = n /\ d.type = "struct") <=> ty = "struct"
        BY <1>2, <2>1, <2>2, <3>3
      <4> QED BY <4>2, <4>3
    <3> QED BY <3>2, <3>3
  <2>9. \A d \in externDecls' : d \in externDecls \/ d = [of |-> s, type |-> ty]
    BY <2>1 DEF new
  <2> QED BY <2>1, <2>3, <2>5, <2>6, <2>7, <2>8, <2>9
<1> QED BY <1>1, <1>2

(* What is declared stays declared. *)
LEMMA WrittenStays ==
  ASSUME data \in Seq([id : Nat, uses : SUBSET Uses]), MapsGrow,
         data' = data \/ \E e : data' = Append(data, e),
         NEW u \in Uses, NEW i \in 1 .. Len(data) + 1, NEW j \in i .. Len(data') + 1
  PROVE  /\ Written(u, i) => Written(u, j)'
         /\ WrittenInBody(u, i) => WrittenInBody(u, j)'
<1>1. ExternNames \subseteq ExternNames'
  BY DEF MapsGrow, ExternNames
<1>2. DataBefore(i) \subseteq DataBefore(j)'
  <2>1. \A k \in 1 .. Len(data) : data'[k] = data[k]
    <3>1. CASE data' = data
      BY <3>1
    <3>2. ASSUME NEW e, data' = Append(data, e) PROVE \A k \in 1 .. Len(data) : data'[k] = data[k]
      BY <3>2
    <3> QED BY <3>1, <3>2
  <2>2. PICK n \in Nat : n = Len(data)
    OBVIOUS
  <2>3. Len(data') = n \/ Len(data') = n + 1
    BY <2>2
  <2>4. PICK m \in Nat : m = Len(data')
    BY <2>3
  <2>5. i \in 1 .. n + 1 /\ j \in i .. m + 1
    BY <2>2, <2>4
  <2>6. \A k \in 1 .. i - 1 : k \in 1 .. n /\ k \in 1 .. j - 1
    BY <2>5
  <2>7. \A k \in 1 .. i - 1 : k \in 1 .. j - 1 /\ data'[k].id = data[k].id
    BY <2>1, <2>2, <2>6
  <2>8. SUFFICES ASSUME NEW x \in DataBefore(i) PROVE x \in DataBefore(j)'
    OBVIOUS
  <2>9. PICK k \in 1 .. i - 1 : x = data[k].id
    BY <2>8 DEF DataBefore
  <2> QED BY <2>7, <2>9 DEF DataBefore
<1>3. u.kind \in {"fn", "static", "bytes"}
  BY DEF Uses
<1>4. Written(u, i) => Written(u, j)'
  <2>1. CASE u.kind = "fn"
    BY <2>1 DEF Written, MapsGrow
  <2>2. CASE u.kind = "static"
    BY <1>1, <2>2 DEF Written
  <2>3. CASE u.kind = "bytes"
    BY <1>2, <2>3 DEF Written
  <2> QED BY <1>3, <2>1, <2>2, <2>3
<1> QED BY <1>4 DEF WrittenInBody, MapsGrow

LEMMA WrittenStill ==
  ASSUME Types, MapsGrow, data' = data \/ \E e : data' = Append(data, e), NEW u \in Uses
  PROVE  /\ Written(u, Len(data) + 1) => Written(u, Len(data) + 1)'
         /\ WrittenInBody(u, Len(data) + 1) => WrittenInBody(u, Len(data) + 1)'
<1>1. PICK n, m : n = Len(data) + 1 /\ m = (Len(data) + 1)'
  OBVIOUS
<1>2. n \in 1 .. Len(data) + 1 /\ m \in n .. Len(data') + 1
  BY <1>1 DEF Types
<1>3. /\ Written(u, n) => Written(u, m)'
      /\ WrittenInBody(u, n) => WrittenInBody(u, m)'
  BY <1>2, WrittenStays DEF Types
<1> QED BY <1>1, <1>3

(* Definitions whose uses are declared keep UsesInv. *)
LEMMA UsesMoved ==
  ASSUME Types, UsesInv, MapsGrow, UNCHANGED data,
         \A g \in globalDefs' : \A u \in g.uses : u \in Uses /\ Written(u, Len(data) + 1),
         \A n \in Names : \A u \in bodyUses'[n] : u \in Uses /\ WrittenInBody(u, Len(data) + 1),
         \A k \in 1 .. Len(work') : \A u \in work'[k].uses :
           IF work'[k].node \in Fns THEN WrittenInBody(u, Len(data) + 1)'
                                    ELSE Written(u, Len(data) + 1)'
  PROVE  UsesInv'
<1>1. data \in Seq([id : Nat, uses : SUBSET Uses]) /\ Len(data) \in Nat
  BY DEF Types
<1>2. \A i \in 1 .. Len(data) : data[i] \in [id : Nat, uses : SUBSET Uses]
  BY <1>1, ElementOfSeq
<1>3. \A i \in 1 .. Len(data) : \A u \in data[i].uses : u \in Uses
  BY <1>2
<1>4. \A i \in 1 .. Len(data') : \A u \in data'[i].uses : Written(u, i)'
  BY <1>1, <1>3, WrittenStays DEF UsesInv
<1>5. \A g \in globalDefs' : \A u \in g.uses : Written(u, Len(data) + 1)'
  BY WrittenStill
<1>6. \A n \in Names : \A u \in bodyUses'[n] : WrittenInBody(u, Len(data) + 1)'
  BY WrittenStill
<1> QED BY <1>4, <1>5, <1>6 DEF UsesInv

LEMMA UsesKept ==
  ASSUME Types, UsesInv, MapsGrow, UNCHANGED <<data, globalDefs, bodyUses>>,
         \A k \in 1 .. Len(work') : \A u \in work'[k].uses :
           IF work'[k].node \in Fns THEN WrittenInBody(u, Len(data) + 1)'
                                    ELSE Written(u, Len(data) + 1)'
  PROVE  UsesInv'
<1>1. \A g \in globalDefs' : \A u \in g.uses : u \in Uses /\ Written(u, Len(data) + 1)
  BY DEF Types, UsesInv
<1>2. \A n \in Names : \A u \in bodyUses'[n] : u \in Uses /\ WrittenInBody(u, Len(data) + 1)
  BY DEF Types, UsesInv
<1> QED BY <1>1, <1>2, UsesMoved

LEMMA ProgressKept ==
  ASSUME Progress, UNCHANGED <<phase, todo, open, sig, bodies, functionDefs, globalDefs>>,
         (work # <<>>) <=> (work' # <<>>),
         work # <<>> => work'[1].node = work[1].node
  PROVE  Progress'
<1>1. \A x : Translated(x)' <=> Translated(x)
  BY DEF Translated, Begun
<1>2. \A f : Opened(f)' <=> Opened(f)
  BY DEF Opened
<1> QED BY <1>1, <1>2 DEF Progress

(* The node being written refers to x, with use u. *)
LEMMA UseInEffect ==
  ASSUME Types, Stack, UsesInv, Progress, MapsGrow, NEW x, NEW u \in Uses, Refers(x), UseIn(x, u),
         UNCHANGED <<phase, todo, fnVars, dataVars>>,
         IF Top.node \in Fns THEN WrittenInBody(u, Len(data) + 1)' ELSE Written(u, Len(data) + 1)'
  PROVE  /\ work' \in Seq(Frames) /\ x \in Nodes
         /\ Stack' /\ UsesInv' /\ Progress'
<1> DEFINE fr == [Top EXCEPT !.left = @ \ {x}, !.uses = @ \cup {u}]
<1>1. work \in Seq(Frames) /\ work # <<>> /\ work' = Append(Pop, fr) /\ x \in Top.left
  BY DEF Types, Refers, UseIn
<1>2. Len(work) \in Nat \ {0} /\ Top \in Frames /\ Top = work[Len(work)]
  BY <1>1, StackTop
<1>3. fr \in Frames /\ fr.node = Top.node /\ fr.uses = Top.uses \cup {u} /\ x \in Nodes
  BY <1>1, <1>2 DEF Frames
<1> HIDE DEF fr
<1>4. /\ work' \in Seq(Frames) /\ Len(work') = Len(work) /\ work' # <<>>
      /\ \A k \in 1 .. Len(work) : work'[k] = IF k = Len(work) THEN fr ELSE work[k]
  BY <1>1, <1>3, TopReplaced
<1>5. \A k \in 1 .. Len(work) : work'[k].node = work[k].node
  BY <1>2, <1>3, <1>4
<1>6. Stack'
  BY <1>1, <1>4, <1>5 DEF Stack
<1>7. Progress'
  BY <1>1, <1>2, <1>4, <1>5, ProgressKept DEF fnVars, dataVars
<1>8. \A k \in 1 .. Len(work) : \A v \in work[k].uses : v \in Uses
  <2>1. \A k \in 1 .. Len(work) : work[k] \in Frames
    BY <1>1, ElementOfSeq
  <2> QED BY <2>1 DEF Frames
<1>9. \A k \in 1 .. Len(work) : \A v \in work[k].uses :
        IF work[k].node \in Fns THEN WrittenInBody(v, Len(data) + 1)' ELSE Written(v, Len(data) + 1)'
  <2>1. Len(data) \in Nat /\ data' = data
    BY DEF Types, dataVars
  <2> SUFFICES ASSUME NEW k \in 1 .. Len(work), NEW v \in work[k].uses
               PROVE  IF work[k].node \in Fns THEN WrittenInBody(v, Len(data) + 1)'
                                              ELSE Written(v, Len(data) + 1)'
    OBVIOUS
  <2>2. IF work[k].node \in Fns THEN WrittenInBody(v, Len(data) + 1) ELSE Written(v, Len(data) + 1)
    BY DEF UsesInv
  <2> QED BY <1>8, <2>2, WrittenStill DEF dataVars
<1>10. \A k \in 1 .. Len(work') : \A v \in work'[k].uses :
         IF work'[k].node \in Fns THEN WrittenInBody(v, Len(data) + 1)' ELSE Written(v, Len(data) + 1)'
  <2> SUFFICES ASSUME NEW k \in 1 .. Len(work), NEW v \in work'[k].uses
               PROVE  IF work[k].node \in Fns THEN WrittenInBody(v, Len(data) + 1)'
                                              ELSE Written(v, Len(data) + 1)'
    BY <1>4, <1>5
  <2>1. CASE v \in work[k].uses
    BY <1>9, <2>1
  <2>2. CASE v \notin work[k].uses
    <3>1. k = Len(work) /\ v = u
      BY <1>2, <1>3, <1>4, <2>2
    <3> QED BY <1>2, <3>1
  <2> QED BY <2>1, <2>2
<1>11. UsesInv'
  BY <1>10, UsesKept DEF dataVars, fnVars
<1> QED BY <1>3, <1>4, <1>6, <1>7, <1>11

LEMMA UseTypes ==
  /\ \A f \in Fns : FnUse(f) \in Uses /\ FnUse(f).kind = "fn" /\ FnUse(f).name = CName[f]
  /\ \A s \in Statics : StaticUse(s) \in Uses /\ StaticUse(s).kind = "static"
                        /\ StaticUse(s).name = CName[s]
  /\ \A i \in Nat : BytesUse(i) \in Uses /\ BytesUse(i).kind = "bytes" /\ BytesUse(i).name = i
  BY NameTypes DEF FnUse, StaticUse, BytesUse, Uses

(* get_fn *)
LEMMA UseFnKeeps ==
  ASSUME IInv, NEW f \in Fns, UseFn(f)
  PROVE  IInv'
<1>1. /\ Refers(f) /\ work # <<>> /\ instances' = instances \cup {f}
      /\ DeclareFn(f, FALSE) \/ (f \in instances /\ UNCHANGED <<declaredFns, functionDecls>>)
      /\ f \in instances => UNCHANGED <<declaredFns, functionDecls>>
      /\ UNCHANGED <<phase, todo>>
  BY DEF UseFn, Refers
<1>2. /\ Maps' /\ MapsGrow /\ CName[f] \in declaredFns'
      /\ instances' \subseteq Fns /\ functionDecls' \subseteq Decls /\ declaredFns' \subseteq Names
      /\ \A d \in functionDecls' : \/ d \in functionDecls
                                   \/ d.of = f /\ d.static = FALSE /\ CName[f] \notin declaredFns
  BY <1>1, DeclareFnEffect DEF IInv, UseFn
<1>3. Written(FnUse(f), Len(data) + 1)' /\ WrittenInBody(FnUse(f), Len(data) + 1)'
  BY <1>2, UseTypes DEF Written, WrittenInBody
<1>4. work' \in Seq(Frames) /\ Stack' /\ UsesInv' /\ Progress'
  BY <1>2, <1>3, UseTypes, UseInEffect DEF IInv, UseFn
<1>5. Types'
  BY <1>2, <1>4 DEF IInv, Types, UseFn, fnVars, dataVars
<1>6. Statuses'
  BY DEF IInv, Statuses, UseFn
<1>7. Linkages'
  <2>1. \A g \in Items \cap Fns : g \in instances /\ CName[g] \in declaredFns
    BY <1>1 DEF IInv, Stack, Linkages, Maps
  <2>2. ASSUME NEW d \in functionDecls', d \notin functionDecls
        PROVE  /\ d.static <=> d.of \in Internal
               /\ \A g \in Items \cap Fns : CName[d.of] # CName[g]
    <3>1. d.of = f /\ d.static = FALSE /\ CName[f] \notin declaredFns
      BY <1>2, <2>2
    <3> QED BY <2>1, <3>1, UnitAssumption
  <2> QED BY <1>1, <2>1, <2>2 DEF IInv, Linkages
<1> QED BY <1>2, <1>4, <1>5, <1>6, <1>7 DEF IInv

(* A static is declared while a node is written: with the type of its      *)
(* definition, if this unit defines it.                                    *)
LEMMA StaticDeclared ==
  ASSUME Types, Stack, Maps, Statuses, Linkages, NEW s \in Statics, work # <<>>,
         AddDecl(s, TypeOf(s)),
         staticsCache' \subseteq staticsCache \cup {s},
         UNCHANGED <<phase, todo, instances, declaredFns, functionDecls, declaredGlobals>>
  PROVE  /\ Maps' /\ MapsGrow /\ Statuses' /\ Linkages' /\ CName[s] \in ExternNames'
         /\ externDecls' \subseteq [of : Statics, type : {"struct", "bytes", "weakfn"}]
         /\ structDefs' \in [Names -> Nat]
<1>1. TypeOf(s) \in {"struct", "bytes", "weakfn"}
  BY DEF TypeOf
<1>2. /\ externDecls' \subseteq [of : Statics, type : {"struct", "bytes", "weakfn"}]
      /\ structDefs' \in [Names -> Nat]
      /\ externDecls \subseteq externDecls' /\ ExternNames \subseteq ExternNames'
      /\ CName[s] \in ExternNames'
      /\ \A d \in externDecls' : d \in externDecls \/ d = [of |-> s, type |-> TypeOf(s)]
      /\ \A d, e \in externDecls' : CName[d.of] = CName[e.of] => d = e
      /\ \A n \in Names : structDefs'[n] =
           IF \E d \in externDecls' : CName[d.of] = n /\ d.type = "struct" THEN 1 ELSE 0
  BY <1>1, AddDeclEffect
<1>3. Maps'
  BY <1>2 DEF Maps
<1>4. MapsGrow
  BY <1>2 DEF MapsGrow
<1>5. phase \in {"define", "wrapper"}
  BY DEF Stack
<1>6. s \in Items => TypeOf(s) = IF Refs[s] = {} THEN "bytes" ELSE "struct"
  BY <1>5, UnitAssumption DEF TypeOf, Statuses, OwnStatics
<1>7. Statuses'
  BY <1>2, <1>5, <1>6 DEF Statuses
<1>8. Linkages'
  BY DEF Linkages
<1> QED BY <1>2, <1>3, <1>4, <1>7, <1>8

LEMMA UseStaticKeeps ==
  ASSUME IInv, NEW s \in Statics, UseStatic(s)
  PROVE  IInv'
<1>1. /\ Maps' /\ MapsGrow /\ Statuses' /\ Linkages' /\ CName[s] \in ExternNames'
      /\ externDecls' \subseteq [of : Statics, type : {"struct", "bytes", "weakfn"}]
      /\ structDefs' \in [Names -> Nat]
  <2>1. work # <<>> /\ AddDecl(s, TypeOf(s)) /\ staticsCache' \subseteq staticsCache \cup {s}
    BY ExternDeclIsAdd DEF UseStatic, Refers
  <2> QED BY <2>1, StaticDeclared DEF IInv, UseStatic
<1>2. Written(StaticUse(s), Len(data) + 1)' /\ WrittenInBody(StaticUse(s), Len(data) + 1)'
  BY <1>1, UseTypes DEF Written, WrittenInBody
<1>3. work' \in Seq(Frames) /\ Stack' /\ UsesInv' /\ Progress'
  BY <1>1, <1>2, UseTypes, UseInEffect DEF IInv, UseStatic
<1>4. Types'
  BY <1>1, <1>3 DEF IInv, Types, UseStatic, fnVars, dataVars
<1> QED BY <1>1, <1>3, <1>4 DEF IInv

LEMMA GetStaticKeeps ==
  ASSUME IInv, NEW s \in Statics, GetStatic(s)
  PROVE  IInv'
<1>1. /\ Refers(s) /\ Top.node \in Fns /\ UseIn(s, StaticUse(s)) /\ work # <<>>
      /\ staticsCache' = staticsCache \cup {s}
      /\ UNCHANGED <<phase, todo, instances, declaredFns, functionDecls, declaredGlobals,
                     fnVars, dataVars>>
  BY DEF GetStatic, Refers
<1>2. /\ Maps' /\ MapsGrow /\ Statuses' /\ Linkages'
      /\ CName[s] \in ExternNames' \/ CName[s] \in declaredGlobals'
      /\ externDecls' \subseteq [of : Statics, type : {"struct", "bytes", "weakfn"}]
      /\ structDefs' \in [Names -> Nat]
  <2>1. CASE s \in staticsCache
    <3>1. externDecls' = externDecls /\ structDefs' = structDefs /\ staticsCache' = staticsCache
      BY <1>1, <2>1 DEF GetStatic
    <3>2. Maps' /\ Statuses' /\ Linkages'
      BY <1>1, <3>1 DEF IInv, Maps, Statuses, Linkages, ExternNames
    <3>3. MapsGrow
      BY <1>1, <3>1 DEF MapsGrow
    <3>4. CName[s] \in ExternNames' \/ CName[s] \in declaredGlobals'
      BY <1>1, <2>1, <3>1 DEF IInv, Maps, ExternNames
    <3> QED BY <3>1, <3>2, <3>3, <3>4 DEF IInv, Types
  <2>2. CASE s \notin staticsCache
    <3>1. AddDecl(s, TypeOf(s))
      BY <2>2, ExternDeclIsAdd DEF GetStatic
    <3> QED BY <1>1, <3>1, StaticDeclared DEF IInv
  <2> QED BY <2>1, <2>2
<1>3. WrittenInBody(StaticUse(s), Len(data) + 1)'
  BY <1>2, UseTypes DEF Written, WrittenInBody
<1>4. work' \in Seq(Frames) /\ Stack' /\ UsesInv' /\ Progress'
  BY <1>1, <1>2, <1>3, UseTypes, UseInEffect DEF IInv
<1>5. Types'
  <2>1. staticsCache' \subseteq Statics
    BY <1>1 DEF IInv, Types
  <2> QED BY <1>1, <1>2, <1>4, <2>1 DEF IInv, Types, fnVars, dataVars
<1> QED BY <1>2, <1>4, <1>5 DEF IInv

(* const_data_from_alloc begins and ends. *)
LEMMA UseAllocKeeps ==
  ASSUME IInv, NEW a \in Allocs, UseAlloc(a)
  PROVE  IInv'
<1> DEFINE fr == [Top EXCEPT !.left = @ \ {a}]
           more == Frame(a, byteStrings)
<1>1. /\ work \in Seq(Frames) /\ work # <<>> /\ work' = Append(Append(Pop, fr), more)
      /\ byteStrings' = byteStrings + 1
      /\ UNCHANGED <<phase, todo, data, globalDefs, declVars, fnVars>>
  BY DEF IInv, Types, UseAlloc, Refers
<1>2. Len(work) \in Nat \ {0} /\ Top \in Frames /\ Top = work[Len(work)]
  BY <1>1, StackTop
<1>3. fr \in Frames /\ fr.node = Top.node /\ fr.uses = Top.uses
  BY <1>2 DEF Frames
<1>4. more \in Frames /\ more.node = a /\ more.uses = {}
  BY FrameType DEF IInv, Types, Nodes
<1> HIDE DEF fr, more
<1>5. /\ work' \in Seq(Frames) /\ Len(work') = Len(work) + 1 /\ work' # <<>>
      /\ \A k \in 1 .. Len(work) + 1 :
           work'[k] = IF k = Len(work) + 1 THEN more ELSE IF k = Len(work) THEN fr ELSE work[k]
  BY <1>1, <1>3, <1>4, Pushed
<1>6. /\ \A k \in 1 .. Len(work) : work'[k].node = work[k].node /\ work'[k].uses = work[k].uses
      /\ work'[Len(work) + 1].node = a /\ work'[Len(work) + 1].uses = {}
  BY <1>2, <1>3, <1>4, <1>5
<1>7. Stack'
  <2>1. phase' = phase /\ todo' = todo /\ phase \in {"define", "wrapper"}
    BY <1>1 DEF IInv, Stack
  <2>2. ASSUME NEW k \in 1 .. Len(work')
        PROVE  work'[k].node \in
                 (IF k > 1 THEN Allocs ELSE IF phase = "wrapper" THEN Entry ELSE Items \ todo)
    <3>1. CASE k \in 1 .. Len(work)
      BY <1>6, <3>1 DEF IInv, Stack
    <3>2. CASE k = Len(work) + 1
      BY <1>2, <1>6, <3>2
    <3> QED BY <1>2, <1>5, <3>1, <3>2
  <2> QED BY <2>1, <2>2 DEF Stack
<1>8. Maps' /\ Statuses' /\ Linkages' /\ MapsGrow
  BY <1>1 DEF IInv, Maps, Statuses, Linkages, MapsGrow, declVars, ExternNames
<1>9. Progress'
  BY <1>1, <1>2, <1>5, <1>6, ProgressKept DEF IInv, fnVars
<1>10. UsesInv'
  <2>1. \A k \in 1 .. Len(work) : \A u \in work[k].uses : u \in Uses
    <3>1. \A k \in 1 .. Len(work) : work[k] \in Frames
      BY <1>1, ElementOfSeq
    <3> QED BY <3>1 DEF Frames
  <2>2. ASSUME NEW k \in 1 .. Len(work'), NEW u \in work'[k].uses
        PROVE  IF work'[k].node \in Fns THEN WrittenInBody(u, Len(data) + 1)'
                                        ELSE Written(u, Len(data) + 1)'
    <3>1. k \in 1 .. Len(work)
      BY <1>2, <1>5, <1>6
    <3>2. u \in work[k].uses /\ work'[k].node = work[k].node /\ u \in Uses
      BY <1>6, <2>1, <3>1
    <3>3. IF work[k].node \in Fns THEN WrittenInBody(u, Len(data) + 1) ELSE Written(u, Len(data) + 1)
      BY <3>1, <3>2 DEF IInv, UsesInv
    <3> QED BY <1>1, <1>8, <3>2, <3>3, WrittenStill DEF IInv
  <2> QED BY <1>1, <1>8, <2>2, UsesKept DEF IInv, fnVars
<1>11. Types'
  BY <1>1, <1>5 DEF IInv, Types, fnVars, declVars
<1> QED BY <1>7, <1>8, <1>9, <1>10, <1>11 DEF IInv

LEMMA FinishAllocKeeps ==
  ASSUME IInv, FinishAlloc
  PROVE  IInv'
<1> DEFINE sec == [id |-> Top.id, uses |-> Top.uses]
           use == BytesUse(Top.id)
<1>1. /\ work \in Seq(Frames) /\ work # <<>> /\ work' = Return(use)
      /\ Top.node \in Allocs /\ data' = Append(data, sec)
      /\ UNCHANGED <<phase, todo, globalDefs, byteStrings, declVars, fnVars>>
  BY DEF IInv, Types, FinishAlloc
<1>2. Len(work) \in Nat \ {0} /\ Top \in Frames /\ Top = work[Len(work)]
  BY <1>1, StackTop
<1>3. /\ sec \in [id : Nat, uses : SUBSET Uses] /\ sec.uses = Top.uses /\ sec.id = Top.id
      /\ use \in Uses /\ use.kind = "bytes" /\ use.name = Top.id
  BY <1>2, UseTypes DEF Frames
<1> HIDE DEF sec, use
<1>4. /\ data \in Seq([id : Nat, uses : SUBSET Uses]) /\ Len(data) \in Nat
      /\ data' \in Seq([id : Nat, uses : SUBSET Uses]) /\ Len(data') = Len(data) + 1
      /\ \A i \in 1 .. Len(data) : data'[i] = data[i]
      /\ data'[Len(data) + 1] = sec
  BY <1>1, <1>3, AppendProperties, LenProperties DEF IInv, Types
<1>5. Len(work) > 1
  <2>1. Len(work) = 1 => Top.node \in Items \cup Entry
    BY <1>2 DEF IInv, Stack
  <2>2. Top.node \notin Items \cup Entry
    BY <1>1, UnitAssumption
  <2>3. Len(work) # 1
    BY <2>1, <2>2
  <2>4. Len(work) \in Nat /\ Len(work) # 0
    BY <1>2
  <2> QED BY <2>3, <2>4
<1>6. /\ work' \in Seq(Frames) /\ Len(work') = Len(work) - 1
      /\ \A k \in 1 .. Len(work) - 1 :
           /\ work'[k].node = work[k].node
           /\ \A v \in work'[k].uses : v \in work[k].uses \/ v = use
  BY <1>1, <1>3, Returned
<1>7. work' # <<>>
  BY <1>2, <1>5, <1>6, EmptySeq
<1>8. Stack'
  <2>1. phase' = phase /\ todo' = todo /\ phase \in {"define", "wrapper"}
    BY <1>1 DEF IInv, Stack
  <2>2. \A k \in 1 .. Len(work') : k \in 1 .. Len(work) /\ work'[k].node = work[k].node
    BY <1>2, <1>6
  <2> QED BY <2>1, <2>2 DEF IInv, Stack
<1>9. Maps' /\ Statuses' /\ Linkages' /\ MapsGrow
  BY <1>1 DEF IInv, Maps, Statuses, Linkages, MapsGrow, declVars, ExternNames
<1>10. Progress'
  BY <1>1, <1>2, <1>5, <1>6, <1>7, ProgressKept DEF IInv, fnVars
<1>11. \A v \in Uses : /\ Written(v, Len(data) + 1) => Written(v, Len(data) + 1)'
                       /\ WrittenInBody(v, Len(data) + 1) => WrittenInBody(v, Len(data) + 1)'
  BY <1>1, <1>9, WrittenStill DEF IInv
<1>12. \A k \in 1 .. Len(work) : \A v \in work[k].uses : v \in Uses
  <2>1. \A k \in 1 .. Len(work) : work[k] \in Frames
    BY <1>1, ElementOfSeq
  <2> QED BY <2>1 DEF Frames
<1>13. UsesInv'
  <2>1. ASSUME NEW i \in 1 .. Len(data'), NEW v \in data'[i].uses
        PROVE  Written(v, i)'
    <3>1. CASE i \in 1 .. Len(data)
      <4>1. data[i] \in [id : Nat, uses : SUBSET Uses] /\ data'[i] = data[i]
        BY <1>4, <3>1, ElementOfSeq
      <4>2. v \in Uses /\ Written(v, i)
        BY <2>1, <3>1, <4>1 DEF IInv, UsesInv
      <4>3. i \in 1 .. Len(data) + 1 /\ i \in i .. Len(data') + 1
        BY <1>4, <3>1
      <4> QED BY <1>1, <1>4, <1>9, <4>2, <4>3, WrittenStays
    <3>2. CASE i = Len(data) + 1
      <4>1. v \in Top.uses /\ v \in Uses
        BY <1>2, <1>3, <1>4, <1>12, <2>1, <3>2
      <4>2. Top.node \notin Fns
        BY <1>1, UnitAssumption
      <4>3. Written(v, i)
        BY <1>2, <3>2, <4>1, <4>2 DEF IInv, UsesInv
      <4>4. i \in 1 .. Len(data) + 1 /\ i \in i .. Len(data') + 1
        BY <1>4, <3>2
      <4> QED BY <1>1, <1>4, <1>9, <4>1, <4>3, <4>4, WrittenStays
    <3> QED BY <1>4, <3>1, <3>2
  <2>2. \A g \in globalDefs' : \A v \in g.uses : Written(v, Len(data) + 1)'
    <3>1. \A g \in globalDefs : \A v \in g.uses : v \in Uses /\ Written(v, Len(data) + 1)
      BY DEF IInv, Types, UsesInv
    <3> QED BY <1>1, <1>11, <3>1
  <2>3. \A n \in Names : \A v \in bodyUses'[n] : WrittenInBody(v, Len(data) + 1)'
    <3>1. \A n \in Names : \A v \in bodyUses[n] : v \in Uses /\ WrittenInBody(v, Len(data) + 1)
      BY DEF IInv, Types, UsesInv
    <3> QED BY <1>1, <1>11, <3>1 DEF fnVars
  <2>4. ASSUME NEW k \in 1 .. Len(work'), NEW v \in work'[k].uses
        PROVE  IF work'[k].node \in Fns THEN WrittenInBody(v, Len(data) + 1)'
                                        ELSE Written(v, Len(data) + 1)'
    <3>1. k \in 1 .. Len(work) - 1 /\ k \in 1 .. Len(work)
      BY <1>2, <1>6
    <3>2. CASE v \in work[k].uses
      <4>1. IF work[k].node \in Fns THEN WrittenInBody(v, Len(data) + 1)
                                    ELSE Written(v, Len(data) + 1)
        BY <3>1, <3>2 DEF IInv, UsesInv
      <4>2. v \in Uses /\ work'[k].node = work[k].node
        BY <1>6, <1>12, <3>1, <3>2
      <4> QED BY <1>11, <4>1, <4>2
    <3>3. CASE v = use
      <4>1. Top.id \in DataBefore(Len(data) + 1)'
        BY <1>3, <1>4 DEF DataBefore
      <4> QED BY <1>3, <3>3, <4>1 DEF Written, WrittenInBody
    <3> QED BY <1>6, <2>4, <3>1, <3>2, <3>3
  <2> QED BY <2>1, <2>2, <2>3, <2>4 DEF UsesInv
<1>14. Types'
  BY <1>1, <1>4, <1>6 DEF IInv, Types, fnVars, declVars
<1> QED BY <1>8, <1>9, <1>10, <1>13, <1>14 DEF IInv

-----------------------------------------------------------------------------
(* The ends of items.                                                      *)

LEMMA BottomNode ==
  ASSUME Types, Stack, work # <<>>, Top.node \notin Allocs
  PROVE  /\ Len(work) = 1 /\ Top = work[1] /\ Top \in Frames /\ Pop = <<>>
         /\ Top.node \in IF phase = "wrapper" THEN Entry ELSE Items \ todo
         /\ phase \in {"define", "wrapper"}
<1>1. /\ Len(work) \in Nat \ {0} /\ Top \in Frames /\ Top = work[Len(work)]
      /\ Pop \in Seq(Frames) /\ Len(Pop) = Len(work) - 1
  BY StackTop DEF Types
<1>2. Len(work) > 1 => Top.node \in Allocs
  BY <1>1 DEF Stack
<1>3. Len(work) = 1
  BY <1>1, <1>2
<1>4. Pop = <<>>
  BY <1>1, <1>3, EmptySeq
<1> QED BY <1>1, <1>3, <1>4 DEF Stack

LEMMA FinishStaticKeeps ==
  ASSUME IInv, FinishStatic
  PROVE  IInv'
<1> DEFINE s == Top.node
           def == [of |-> s, uses |-> Top.uses]
<1>1. /\ work # <<>> /\ s \in Statics /\ s \notin Allocs /\ s \notin Fns
      /\ globalDefs' = globalDefs \cup {def}
      /\ declaredGlobals' = declaredGlobals \cup {CName[s]}
      /\ staticsCache' = staticsCache \cup {s} /\ work' = Pop
      /\ UNCHANGED <<phase, todo, instances, declaredFns, functionDecls, data, byteStrings, fnVars>>
      /\ IF Refs[s] = {} THEN UNCHANGED <<externDecls, structDefs>> ELSE StructFwdDecl(s)
  BY UnitAssumption DEF FinishStatic
<1>2. /\ Len(work) = 1 /\ Top = work[1] /\ Top \in Frames /\ Pop = <<>>
      /\ s \in IF phase = "wrapper" THEN Entry ELSE Items \ todo
      /\ phase \in {"define", "wrapper"}
  BY <1>1, BottomNode DEF IInv
<1>3. phase = "define" /\ s \in Items \ todo /\ s \in OwnStatics /\ s \notin Weak
  BY <1>1, <1>2, UnitAssumption DEF OwnStatics
<1>4. CName[s] \in declaredGlobals /\ declaredGlobals' = declaredGlobals
  BY <1>1, <1>3 DEF IInv, Statuses
<1>5. /\ Maps' /\ MapsGrow /\ Statuses' /\ Linkages'
      /\ externDecls' \subseteq [of : Statics, type : {"struct", "bytes", "weakfn"}]
      /\ structDefs' \in [Names -> Nat]
  <2>1. CASE Refs[s] = {}
    <3>1. externDecls' = externDecls /\ structDefs' = structDefs
      BY <1>1, <2>1
    <3>2. Maps'
      BY <1>1, <1>4, <3>1 DEF IInv, Maps, ExternNames
    <3>3. MapsGrow /\ Statuses' /\ Linkages'
      BY <1>1, <1>4, <3>1 DEF IInv, MapsGrow, Statuses, Linkages
    <3> QED BY <3>1, <3>2, <3>3 DEF IInv, Types
  <2>2. CASE Refs[s] # {}
    <3>1. TypeOf(s) = "struct"
      BY <1>3, <1>4, <2>2 DEF TypeOf
    <3>2. AddDecl(s, TypeOf(s))
      BY <1>1, <2>2, <3>1, StructDeclIsAdd
    <3>3. staticsCache' \subseteq staticsCache \cup {s}
      BY <1>1
    <3> HIDE DEF s
    <3> QED BY <1>1, <1>4, <3>2, <3>3, StaticDeclared DEF IInv
  <2> QED BY <2>1, <2>2
<1>6. def \in [of : OwnStatics, uses : SUBSET Uses] /\ def.of = s /\ def.uses = Top.uses
  BY <1>2, <1>3 DEF Frames
<1>7. work' = <<>> /\ Len(work') = 0
  BY <1>1, <1>2
<1>8. \A u \in Top.uses : u \in Uses /\ Written(u, Len(data) + 1)
  BY <1>1, <1>2, <1>6 DEF IInv, UsesInv
<1> HIDE DEF s, def
<1>9. UsesInv'
  <2>1. \A g \in globalDefs' : \A u \in g.uses : u \in Uses /\ Written(u, Len(data) + 1)
    BY <1>1, <1>6, <1>8 DEF IInv, Types, UsesInv
  <2>2. \A n \in Names : \A u \in bodyUses'[n] : u \in Uses /\ WrittenInBody(u, Len(data) + 1)
    BY <1>1 DEF IInv, Types, UsesInv, fnVars
  <2> QED BY <1>1, <1>5, <1>7, <2>1, <2>2, UsesMoved DEF IInv
<1>10. Stack'
  BY <1>7 DEF Stack
<1>11. Progress'
  <2>1. \A x : x # s => (Translated(x)' <=> Translated(x))
    BY <1>1, <1>2, <1>7 DEF Translated, Begun, s
  <2>2. \A f \in Own : f # s
    BY <1>1, NameTypes
  <2>3. \A f : Opened(f)' <=> Opened(f)
    BY <1>1 DEF Opened
  <2>4. UNCHANGED <<phase, todo, open, sig, bodies, functionDefs>>
    BY <1>1 DEF fnVars
  <2>5. \A x \in OwnStatics : Translated(x)' => \E g \in globalDefs' : g.of = x
    BY <1>1, <1>6, <2>1 DEF IInv, Progress
  <2>6. \A f \in Own : Translated(f)' <=> Translated(f)
    BY <2>1, <2>2
  <2> QED BY <2>3, <2>4, <2>5, <2>6 DEF IInv, Progress
<1>12. Types'
  <2>1. globalDefs' \subseteq [of : OwnStatics, uses : SUBSET Uses]
    BY <1>1, <1>6 DEF IInv, Types
  <2>2. staticsCache' \subseteq Statics /\ work' \in Seq(Frames)
    BY <1>1, <1>7 DEF IInv, Types
  <2> QED BY <1>1, <1>4, <1>5, <2>1, <2>2 DEF IInv, Types, fnVars
<1> QED BY <1>5, <1>9, <1>10, <1>11, <1>12 DEF IInv

(* Steps that leave the declarations and the data alone. *)
LEMMA SameMaps ==
  ASSUME IInv, UNCHANGED declVars
  PROVE  /\ Maps' /\ MapsGrow /\ ExternNames' = ExternNames
         /\ externDecls' = externDecls /\ declaredGlobals' = declaredGlobals
         /\ \/ phase # "predefine" /\ phase' # "predefine"
            \/ todo = {}
            \/ UNCHANGED <<phase, todo>>
            => Linkages'
<1>1. Maps' /\ MapsGrow
  BY DEF IInv, Maps, MapsGrow, declVars, ExternNames
<1>2. \/ phase # "predefine" /\ phase' # "predefine"
      \/ todo = {}
      \/ UNCHANGED <<phase, todo>>
      => Linkages'
  BY DEF IInv, Linkages, declVars
<1> QED BY <1>1, <1>2 DEF declVars, ExternNames

LEMMA FinishBodyKeeps ==
  ASSUME DistinctNames, IInv, FinishBody
  PROVE  IInv'
<1>1. PICK f : f = Top.node
  OBVIOUS
<1> DEFINE n == CName[f]
<1>2. /\ work # <<>> /\ f \in Fns /\ f \notin Allocs /\ f \notin Statics
      /\ bodies' = [bodies EXCEPT ![n] = IF n \in open THEN @ \cup {f} ELSE @]
      /\ bodyUses' = [bodyUses EXCEPT ![n] = IF n \in open THEN @ \cup Top.uses ELSE @]
      /\ work' = Pop
      /\ UNCHANGED <<phase, todo, open, sig, functionDefs, declVars, dataVars>>
  BY <1>1, UnitAssumption DEF FinishBody
<1>3. /\ Len(work) = 1 /\ Top = work[1] /\ Top \in Frames /\ Pop = <<>>
      /\ f \in IF phase = "wrapper" THEN Entry ELSE Items \ todo
      /\ phase \in {"define", "wrapper"}
  BY <1>2, <1>1, BottomNode DEF IInv
<1>4. f \in Own /\ n \in Names /\ Opened(f) /\ ~Translated(f) /\ Begun(f)
  <2>1. f \in Own /\ n \in Names
    BY <1>2, <1>3, NameTypes DEF Own
  <2>2. f \in Entry => phase = "wrapper"
    BY <1>3, UnitAssumption
  <2>3. f \notin Entry => phase = "define" /\ f \notin todo
    BY <1>3
  <2>4. ~Translated(f)
    BY <1>2, <1>3, <1>1 DEF Translated
  <2> QED BY <2>1, <2>2, <2>3, <2>4 DEF Opened, Begun, n
<1>5. n \in open /\ sig[n] = f /\ bodies[n] = {}
  BY <1>3, <1>4 DEF IInv, Progress
<1>6. work' = <<>> /\ Len(work') = 0 /\ work' \in Seq(Frames)
  BY <1>2, <1>3
<1>7. \A u \in Top.uses : u \in Uses /\ WrittenInBody(u, Len(data) + 1)
  BY <1>2, <1>3, <1>1 DEF IInv, UsesInv, Frames
<1>8. \A g \in Own : g # f => CName[g] # n
  BY <1>4, OwnNames
<1>9. bodies' \in [Names -> SUBSET Fns] /\ bodies'[n] = {f}
  BY <1>2, <1>4, <1>5 DEF IInv, Types
<1>10. bodyUses' \in [Names -> SUBSET Uses]
  BY <1>2, <1>4, <1>7 DEF IInv, Types
<1>11. \A m \in Names : \A u \in bodyUses'[m] : u \in Uses /\ WrittenInBody(u, Len(data) + 1)
  <2> SUFFICES ASSUME NEW m \in Names, NEW u \in bodyUses'[m]
               PROVE  u \in Uses /\ WrittenInBody(u, Len(data) + 1)
    OBVIOUS
  <2>1. CASE u \in Top.uses
    BY <1>7, <2>1
  <2>2. CASE u \notin Top.uses
    <3>1. u \in bodyUses[m]
      BY <1>2, <1>4, <2>2 DEF IInv, Types
    <3> QED BY <3>1 DEF IInv, UsesInv, Types
  <2> QED BY <2>1, <2>2
<1>12. Maps' /\ MapsGrow /\ ExternNames' = ExternNames
       /\ externDecls' = externDecls /\ declaredGlobals' = declaredGlobals
  BY <1>2, SameMaps
<1>13. UsesInv'
  <2>1. \A g \in globalDefs' : \A u \in g.uses : u \in Uses /\ Written(u, Len(data) + 1)
    BY <1>2 DEF IInv, Types, UsesInv, dataVars
  <2>2. data' = data
    BY <1>2 DEF dataVars
  <2> QED BY <1>6, <1>11, <1>12, <2>1, <2>2, UsesMoved DEF IInv
<1>14. UNCHANGED <<phase, todo, open, sig, functionDefs>>
  BY <1>2
<1>15. Stack' /\ Statuses' /\ Linkages'
  <2>1. Stack'
    BY <1>6 DEF Stack
  <2>2. Statuses'
    BY <1>12, <1>14 DEF IInv, Statuses
  <2>3. Linkages'
    BY <1>2, <1>14, SameMaps
  <2> QED BY <2>1, <2>2, <2>3
<1>16. Progress'
  <2>1. \A x : x # f => (Translated(x)' <=> Translated(x))
    BY <1>2, <1>3, <1>6, <1>1 DEF Translated, Begun
  <2>2. Translated(f)'
    BY <1>4, <1>6, <1>14 DEF Translated, Begun
  <2>3. \A g : Opened(g)' <=> Opened(g)
    BY <1>2 DEF Opened
  <2>4. \A g \in Own : g # f => bodies'[CName[g]] = bodies[CName[g]]
    BY <1>2, <1>4, <1>8, NameTypes DEF IInv, Types
  <2>5. \A g \in Own : Opened(g)' =>
          /\ sig'[CName[g]] = g
          /\ bodies'[CName[g]] = IF Translated(g)' THEN {g} ELSE {}
          /\ CName[g] \in IF phase' \in {"finalize", "done"} THEN open' \cup functionDefs' ELSE open'
    <3> SUFFICES ASSUME NEW g \in Own, Opened(g)
                 PROVE  /\ sig'[CName[g]] = g
                        /\ bodies'[CName[g]] = IF Translated(g)' THEN {g} ELSE {}
                        /\ CName[g] \in IF phase' \in {"finalize", "done"}
                                        THEN open' \cup functionDefs' ELSE open'
      BY <2>3
    <3>1. CASE g = f
      <4>1. phase' \notin {"finalize", "done"}
        BY <1>3, <1>14
      <4> QED BY <1>5, <1>9, <1>14, <2>2, <3>1, <4>1
    <3>2. CASE g # f
      BY <1>2, <2>1, <2>4, <3>2 DEF IInv, Progress
    <3> QED BY <3>1, <3>2
  <2>6. \A s \in OwnStatics : Translated(s)' => \E g \in globalDefs' : g.of = s
    <3>1. \A s \in OwnStatics : s # f
      BY <1>2, NameTypes
    <3> QED BY <1>2, <2>1, <3>1 DEF IInv, Progress, dataVars
  <2> QED BY <1>2, <2>5, <2>6 DEF IInv, Progress
<1>17. Types'
  BY <1>2, <1>6, <1>9, <1>10 DEF IInv, Types, declVars, dataVars
<1> QED BY <1>12, <1>13, <1>15, <1>16, <1>17 DEF IInv

-----------------------------------------------------------------------------
(* The driver.                                                             *)

(* open_functions.insert of one of this unit's functions. *)
LEMMA OpenFnEffect ==
  ASSUME DistinctNames, Types, NEW f \in Own, OpenFn(f)
  PROVE  /\ CName[f] \in Names /\ open' = open \cup {CName[f]} /\ open' \subseteq Names
         /\ sig' \in [Names -> Own \cup {NoFn}]
         /\ bodies' \in [Names -> SUBSET Fns] /\ bodyUses' \in [Names -> SUBSET Uses]
         /\ sig'[CName[f]] = f /\ bodies'[CName[f]] = {} /\ bodyUses'[CName[f]] = {}
         /\ \A n \in Names : n # CName[f] =>
              sig'[n] = sig[n] /\ bodies'[n] = bodies[n] /\ bodyUses'[n] = bodyUses[n]
         /\ \A g \in Own : g # f => CName[g] \in Names /\ CName[g] # CName[f]
         /\ f # NoFn
<1>1. f \in Fns /\ CName[f] \in Names
  BY NameTypes
<1>2. \A g \in Own : g # f => CName[g] \in Names /\ CName[g] # CName[f]
  BY NameTypes, OwnNames
<1>3. f # NoFn
  BY <1>1, UnitAssumption
<1> QED BY <1>1, <1>2, <1>3 DEF OpenFn, Types

LEMMA PredefineFnKeeps ==
  ASSUME DistinctNames, IInv, NEW f \in Fns, PredefineFn(f)
  PROVE  IInv'
<1>1. /\ phase = "predefine" /\ f \in todo /\ todo' = todo \ {f} /\ instances' = instances \cup {f}
      /\ DeclareFn(f, f \in Internal) /\ OpenFn(f)
      /\ UNCHANGED <<phase, staticsCache, declaredGlobals, externDecls, structDefs,
                     functionDefs, work, dataVars>>
  BY DEF PredefineFn
<1>2. f \in Items /\ f \in Own /\ f \notin Entry
  BY <1>1, UnitAssumption DEF IInv, Types, Own
<1>3. /\ Maps' /\ MapsGrow
      /\ instances' \subseteq Fns /\ functionDecls' \subseteq Decls /\ declaredFns' \subseteq Names
      /\ \A d \in functionDecls' : \/ d \in functionDecls
                                   \/ /\ d.of = f /\ (d.static <=> f \in Internal)
                                      /\ CName[f] \notin declaredFns
  <2> DEFINE Effect(static) ==
        /\ Maps' /\ MapsGrow
        /\ instances' \subseteq Fns /\ functionDecls' \subseteq Decls /\ declaredFns' \subseteq Names
        /\ \A d \in functionDecls' : \/ d \in functionDecls
                                     \/ d.of = f /\ d.static = static /\ CName[f] \notin declaredFns
  <2>1. UNCHANGED <<staticsCache, declaredGlobals, externDecls, structDefs>>
    BY <1>1
  <2>2. CASE f \in Internal
    <3>1. DeclareFn(f, TRUE)
      BY <1>1, <2>2 DEF DeclareFn
    <3>2. Effect(TRUE)
      BY <1>1, <2>1, <3>1, DeclareFnEffect DEF IInv
    <3> QED BY <2>2, <3>2
  <2>3. CASE f \notin Internal
    <3> DEFINE static == f \in Internal
    <3>1. static = FALSE /\ DeclareFn(f, static)
      BY <1>1, <2>3
    <3> HIDE DEF static
    <3>2. DeclareFn(f, FALSE)
      BY <3>1
    <3>3. Effect(FALSE)
      BY <1>1, <2>1, <3>2, DeclareFnEffect DEF IInv
    <3> QED BY <2>3, <3>3
  <2> QED BY <2>2, <2>3
<1>4. /\ CName[f] \in Names /\ open' = open \cup {CName[f]} /\ open' \subseteq Names
      /\ sig' \in [Names -> Own \cup {NoFn}]
      /\ bodies' \in [Names -> SUBSET Fns] /\ bodyUses' \in [Names -> SUBSET Uses]
      /\ sig'[CName[f]] = f /\ bodies'[CName[f]] = {} /\ bodyUses'[CName[f]] = {}
      /\ \A n \in Names : n # CName[f] =>
           sig'[n] = sig[n] /\ bodies'[n] = bodies[n] /\ bodyUses'[n] = bodyUses[n]
      /\ \A g \in Own : g # f => CName[g] \in Names /\ CName[g] # CName[f]
      /\ f # NoFn
  BY <1>1, <1>2, OpenFnEffect DEF IInv
<1>5. Types'
  BY <1>1, <1>3, <1>4 DEF IInv, Types, dataVars
<1>6. work = <<>> /\ Len(work) = 0
  BY <1>1 DEF IInv, Stack
<1>7. Stack' /\ Statuses'
  <2>1. \A s \in OwnStatics : s # f
    BY NameTypes
  <2> QED BY <1>1, <1>6, <2>1 DEF IInv, Stack, Statuses
<1>8. UsesInv'
  <2>1. \A g \in globalDefs' : \A u \in g.uses : u \in Uses /\ Written(u, Len(data) + 1)
    BY <1>1 DEF IInv, Types, UsesInv, dataVars
  <2>2. \A n \in Names : \A u \in bodyUses'[n] : u \in Uses /\ WrittenInBody(u, Len(data) + 1)
    BY <1>4 DEF IInv, Types, UsesInv
  <2>3. data' = data /\ work' = <<>> /\ Len(work') = 0
    BY <1>1, <1>6 DEF dataVars
  <2> QED BY <1>3, <2>1, <2>2, <2>3, UsesMoved DEF IInv
<1>9. Progress'
  <2>1. \A x \in Own \cup OwnStatics : ~Translated(x) /\ ~Translated(x)'
    BY <1>1 DEF Translated, Begun
  <2>2. \A g \in Own : g # f => (Opened(g)' <=> Opened(g))
    BY <1>1 DEF Opened
  <2>3. \A g \in Own : Opened(g)' =>
          /\ sig'[CName[g]] = g
          /\ bodies'[CName[g]] = IF Translated(g)' THEN {g} ELSE {}
          /\ CName[g] \in IF phase' \in {"finalize", "done"} THEN open' \cup functionDefs' ELSE open'
    <3> SUFFICES ASSUME NEW g \in Own, Opened(g)'
                 PROVE  /\ sig'[CName[g]] = g
                        /\ bodies'[CName[g]] = {}
                        /\ CName[g] \in open'
      BY <1>1, <2>1
    <3>1. CASE g = f
      BY <1>4, <3>1
    <3>2. CASE g # f
      BY <1>1, <1>4, <2>1, <2>2, <3>2 DEF IInv, Progress
    <3> QED BY <3>1, <3>2
  <2>4. \A n \in Names : sig'[n] # NoFn => CName[sig'[n]] = n
    BY <1>4 DEF IInv, Progress
  <2>5. \A n \in open' \cup functionDefs' : sig'[n] # NoFn
    BY <1>1, <1>4 DEF IInv, Progress, Types
  <2> QED BY <1>1, <2>1, <2>3, <2>4, <2>5 DEF Progress
<1>10. Linkages'
  <2>1. \A g \in Items \cap Fns : (phase' = "predefine" /\ g \in todo') \/ g \in instances'
    BY <1>1 DEF IInv, Linkages
  <2>2. ASSUME NEW d \in functionDecls', d \notin functionDecls
        PROVE  /\ d.static <=> d.of \in Internal
               /\ \A g \in Items \cap Fns : CName[d.of] = CName[g] => d.of = g
    <3>1. d.of = f /\ (d.static <=> f \in Internal)
      BY <1>3, <2>2
    <3> QED BY <1>2, <3>1 DEF DistinctNames
  <2> QED BY <2>1, <2>2 DEF IInv, Linkages
<1> QED BY <1>3, <1>5, <1>7, <1>8, <1>9, <1>10 DEF IInv

LEMMA PredefineStaticKeeps ==
  ASSUME IInv, NEW s \in Statics, PredefineStatic(s)
  PROVE  IInv'
<1>1. /\ phase = "predefine" /\ s \in todo /\ todo' = todo \ {s}
      /\ staticsCache' = staticsCache \cup {s}
      /\ declaredGlobals' = declaredGlobals \cup {CName[s]}
      /\ UNCHANGED <<phase, instances, declaredFns, functionDecls, externDecls,
                     structDefs, work, fnVars, dataVars>>
  BY DEF PredefineStatic
<1>2. CName[s] \in Names /\ s \notin Fns
  BY NameTypes, UnitAssumption
<1>3. Maps' /\ MapsGrow
  BY <1>1 DEF IInv, Maps, MapsGrow, ExternNames
<1>4. Types'
  BY <1>1, <1>2 DEF IInv, Types, fnVars, dataVars
<1>5. work = <<>> /\ Len(work) = 0
  BY <1>1 DEF IInv, Stack
<1>6. Stack' /\ Statuses' /\ Linkages'
  BY <1>1, <1>2, <1>5 DEF IInv, Stack, Statuses, Linkages
<1>7. UsesInv'
  BY <1>1, <1>3, <1>5, UsesKept DEF IInv, fnVars, dataVars
<1>8. Progress'
  <2>1. \A x \in Own \cup OwnStatics : ~Translated(x) /\ ~Translated(x)'
    BY <1>1 DEF Translated, Begun
  <2>2. \A g \in Own : Opened(g)' <=> Opened(g)
    BY <1>1, <1>2, NameTypes DEF Opened
  <2> QED BY <1>1, <2>1, <2>2 DEF IInv, Progress, fnVars
<1> QED BY <1>3, <1>4, <1>6, <1>7, <1>8 DEF IInv

LEMMA StartDefiningKeeps ==
  ASSUME IInv, StartDefining
  PROVE  IInv'
<1>1. /\ phase = "predefine" /\ todo = {} /\ phase' = "define" /\ todo' = Items
      /\ UNCHANGED <<work, declVars, fnVars, dataVars>>
  BY DEF StartDefining
<1>2. /\ Maps' /\ MapsGrow /\ externDecls' = externDecls /\ declaredGlobals' = declaredGlobals
      /\ Linkages'
  BY <1>1, SameMaps
<1>3. work = <<>> /\ Len(work) = 0 /\ work' = <<>>
  BY <1>1 DEF IInv, Stack
<1>4. Types'
  BY <1>1 DEF IInv, Types, declVars, fnVars, dataVars
<1>5. Stack'
  BY <1>3 DEF Stack
<1>6. Statuses'
  BY <1>1, <1>2 DEF IInv, Statuses
<1>7. UsesInv'
  BY <1>1, <1>2, <1>3, UsesKept DEF IInv, fnVars, dataVars
<1>8. Progress'
  <2>1. \A x \in Own \cup OwnStatics : ~Translated(x)
    BY <1>1 DEF Translated, Begun
  <2>2. \A x \in Own \cup OwnStatics : ~Translated(x)'
    BY <1>1 DEF Translated, Begun, Own, OwnStatics
  <2>3. \A f \in Own : Opened(f)' => Opened(f)
    BY <1>1 DEF Opened
  <2> QED BY <1>1, <2>1, <2>2, <2>3 DEF IInv, Progress, fnVars
<1> QED BY <1>2, <1>4, <1>5, <1>6, <1>7, <1>8 DEF IInv

(* The stack gets its first frame. *)
LEMMA FirstFrame ==
  ASSUME NEW x \in Nodes, work' = <<Frame(x, 0)>>
  PROVE  /\ work' \in Seq(Frames) /\ Len(work') = 1 /\ work' # <<>>
         /\ work'[1].node = x /\ work'[1].uses = {}
<1>1. PICK fr : fr = Frame(x, 0)
  OBVIOUS
<1>2. fr \in Frames /\ fr.node = x /\ fr.uses = {} /\ work' = <<fr>>
  BY <1>1, FrameType
<1> QED BY <1>2

LEMMA DefineItemKeeps ==
  ASSUME IInv, NEW x \in Items, DefineItem(x)
  PROVE  IInv'
<1>1. /\ phase = "define" /\ work = <<>> /\ x \in todo /\ todo' = todo \ {x}
      /\ work' = <<Frame(x, 0)>> /\ UNCHANGED <<phase, declVars, fnVars, dataVars>>
  BY DEF DefineItem
<1>2. x \in Nodes
  BY UnitAssumption DEF Nodes
<1>3. /\ work' \in Seq(Frames) /\ Len(work') = 1 /\ work' # <<>>
      /\ work'[1].node = x /\ work'[1].uses = {}
  BY <1>1, <1>2, FirstFrame
<1>4. /\ Maps' /\ MapsGrow /\ externDecls' = externDecls /\ declaredGlobals' = declaredGlobals
      /\ Linkages'
  BY <1>1, SameMaps
<1>5. Types'
  BY <1>1, <1>3 DEF IInv, Types, declVars, fnVars, dataVars
<1>6. Stack'
  BY <1>1, <1>3 DEF IInv, Stack
<1>7. Statuses'
  BY <1>1, <1>4 DEF IInv, Statuses
<1>8. UsesInv'
  BY <1>1, <1>3, <1>4, UsesKept DEF IInv, fnVars, dataVars
<1>9. Progress'
  <2>1. \A y \in Own \cup OwnStatics : Translated(y)' <=> Translated(y)
    BY <1>1, <1>3 DEF Translated, Begun
  <2>2. \A f : Opened(f)' <=> Opened(f)
    BY <1>1 DEF Opened
  <2>3. UNCHANGED <<phase, open, sig, bodies, functionDefs, globalDefs>>
    BY <1>1 DEF fnVars, dataVars
  <2> QED BY <1>1, <2>1, <2>2, <2>3 DEF IInv, Progress
<1> QED BY <1>4, <1>5, <1>6, <1>7, <1>8, <1>9 DEF IInv

LEMMA EntryWrapperKeeps ==
  ASSUME DistinctNames, IInv, NEW m \in Entry, EntryWrapper(m)
  PROVE  IInv'
<1>1. /\ phase = "define" /\ todo = {} /\ work = <<>> /\ phase' = "wrapper" /\ OpenFn(m)
      /\ work' = <<Frame(m, 0)>> /\ UNCHANGED <<todo, functionDefs, declVars, dataVars>>
  BY DEF EntryWrapper
<1>2. m \in Nodes /\ m \in Own /\ m \notin Items /\ \A k \in Entry : k = m
  BY UnitAssumption DEF Nodes, Own
<1>3. /\ work' \in Seq(Frames) /\ Len(work') = 1 /\ work' # <<>>
      /\ work'[1].node = m /\ work'[1].uses = {}
  BY <1>1, <1>2, FirstFrame
<1>4. /\ Maps' /\ MapsGrow /\ externDecls' = externDecls /\ declaredGlobals' = declaredGlobals
      /\ Linkages'
  BY <1>1, SameMaps
<1>5. /\ CName[m] \in Names /\ open' = open \cup {CName[m]} /\ open' \subseteq Names
      /\ sig' \in [Names -> Own \cup {NoFn}]
      /\ bodies' \in [Names -> SUBSET Fns] /\ bodyUses' \in [Names -> SUBSET Uses]
      /\ sig'[CName[m]] = m /\ bodies'[CName[m]] = {} /\ bodyUses'[CName[m]] = {}
      /\ \A n \in Names : n # CName[m] =>
           sig'[n] = sig[n] /\ bodies'[n] = bodies[n] /\ bodyUses'[n] = bodyUses[n]
      /\ \A g \in Own : g # m => CName[g] \in Names /\ CName[g] # CName[m]
      /\ m # NoFn
  BY <1>1, <1>2, OpenFnEffect DEF IInv
<1>6. Types'
  BY <1>1, <1>3, <1>5 DEF IInv, Types, declVars, dataVars
<1>7. Stack'
  BY <1>1, <1>3 DEF Stack
<1>8. Statuses'
  BY <1>1, <1>4 DEF IInv, Statuses
<1>9. UsesInv'
  <2>1. \A g \in globalDefs' : \A u \in g.uses : u \in Uses /\ Written(u, Len(data) + 1)
    BY <1>1 DEF IInv, Types, UsesInv, dataVars
  <2>2. \A n \in Names : \A u \in bodyUses'[n] : u \in Uses /\ WrittenInBody(u, Len(data) + 1)
    BY <1>5 DEF IInv, Types, UsesInv
  <2>3. data' = data
    BY <1>1 DEF dataVars
  <2> QED BY <1>3, <1>4, <2>1, <2>2, <2>3, UsesMoved DEF IInv
<1>10. Progress'
  <2>1. \A x \in Own \cup OwnStatics : x # m => x \notin Entry /\ (Translated(x)' <=> Translated(x))
    BY <1>1, <1>2, <1>3 DEF Translated, Begun, Own, OwnStatics
  <2>2. \A g \in Own : g # m => Opened(g)
    BY <1>1, <2>1 DEF Opened
  <2>3. ~Translated(m)'
    BY <1>3 DEF Translated
  <2>4. \A g \in Own : Opened(g)' =>
          /\ sig'[CName[g]] = g
          /\ bodies'[CName[g]] = IF Translated(g)' THEN {g} ELSE {}
          /\ CName[g] \in IF phase' \in {"finalize", "done"} THEN open' \cup functionDefs' ELSE open'
    <3> SUFFICES ASSUME NEW g \in Own
                 PROVE  /\ sig'[CName[g]] = g
                        /\ bodies'[CName[g]] = IF Translated(g)' THEN {g} ELSE {}
                        /\ CName[g] \in open'
      BY <1>1
    <3>1. CASE g = m
      BY <1>5, <2>3, <3>1
    <3>2. CASE g # m
      <4>1. sig[CName[g]] = g /\ bodies[CName[g]] = (IF Translated(g) THEN {g} ELSE {})
            /\ CName[g] \in open
        BY <1>1, <2>2, <3>2 DEF IInv, Progress
      <4> QED BY <1>5, <2>1, <3>2, <4>1
    <3> QED BY <3>1, <3>2
  <2>5. \A n \in Names : sig'[n] # NoFn => CName[sig'[n]] = n
    BY <1>5 DEF IInv, Progress
  <2>6. \A n \in open' \cup functionDefs' : sig'[n] # NoFn
    BY <1>1, <1>5 DEF IInv, Progress, Types
  <2>7. \A s \in OwnStatics : Translated(s)' => \E g \in globalDefs' : g.of = s
    <3>1. \A s \in OwnStatics : s # m
      BY <1>2 DEF OwnStatics
    <3> QED BY <1>1, <2>1, <3>1 DEF IInv, Progress, dataVars
  <2> QED BY <1>1, <2>4, <2>5, <2>6, <2>7 DEF Progress
<1> QED BY <1>4, <1>6, <1>7, <1>8, <1>9, <1>10 DEF IInv

LEMMA StartFinalizingKeeps ==
  ASSUME IInv, StartFinalizing
  PROVE  IInv'
<1>1. /\ phase \in {"define", "wrapper"} /\ (phase = "define" => Entry = {})
      /\ todo = {} /\ work = <<>> /\ phase' = "finalize"
      /\ UNCHANGED <<todo, work, declVars, fnVars, dataVars>>
  BY DEF StartFinalizing, IInv, Progress
<1>2. /\ Maps' /\ MapsGrow /\ externDecls' = externDecls /\ declaredGlobals' = declaredGlobals
      /\ Linkages'
  BY <1>1, SameMaps
<1>3. Types'
  BY <1>1 DEF IInv, Types, declVars, fnVars, dataVars
<1>4. Stack'
  BY <1>1 DEF Stack
<1>5. Statuses'
  BY <1>1, <1>2 DEF IInv, Statuses
<1>6. UsesInv'
  BY <1>1, <1>2, UsesKept DEF IInv, fnVars, dataVars
<1>7. Progress'
  <2>1. \A x \in Own \cup OwnStatics : Translated(x)' <=> Translated(x)
    BY <1>1 DEF Translated, Begun
  <2>2. \A f \in Own : Opened(f)
    BY <1>1 DEF Opened
  <2>3. \A f \in Own : /\ sig[CName[f]] = f
                       /\ bodies[CName[f]] = IF Translated(f) THEN {f} ELSE {}
                       /\ CName[f] \in open
    BY <1>1, <2>2 DEF IInv, Progress
  <2>4. UNCHANGED <<todo, open, sig, bodies, functionDefs, globalDefs>>
    BY <1>1 DEF fnVars, dataVars
  <2> QED BY <1>1, <2>1, <2>3, <2>4 DEF IInv, Progress
<1> QED BY <1>2, <1>3, <1>4, <1>5, <1>6, <1>7 DEF IInv

(* The end: definitions are taken from the open functions. *)
LEMMA FinalizingKeeps ==
  ASSUME IInv, (\E n \in Names : FinalizeFunction(n)) \/ Finish
  PROVE  IInv'
<1>1. /\ phase = "finalize" /\ phase' \in {"finalize", "done"}
      /\ open' \cup functionDefs' = open \cup functionDefs
      /\ open' \subseteq open /\ (phase' = "done" => open' = {})
      /\ UNCHANGED <<todo, sig, bodies, bodyUses, work, declVars, dataVars>>
  BY DEF FinalizeFunction, Finish, fnVars
<1>2. /\ Maps' /\ MapsGrow /\ externDecls' = externDecls /\ declaredGlobals' = declaredGlobals
      /\ Linkages'
  BY <1>1, SameMaps
<1>3. work = <<>> /\ Len(work) = 0 /\ work' = <<>>
  BY <1>1 DEF IInv, Stack
<1>4. Types'
  BY <1>1 DEF IInv, Types, declVars, dataVars
<1>5. Stack'
  BY <1>3 DEF Stack
<1>6. Statuses'
  BY <1>1, <1>2 DEF IInv, Statuses
<1>7. UsesInv'
  BY <1>1, <1>2, <1>3, UsesKept DEF IInv, dataVars
<1>8. Progress'
  <2>1. \A x \in Own \cup OwnStatics : Translated(x)' <=> Translated(x)
    BY <1>1 DEF Translated, Begun
  <2>2. \A f \in Own : Opened(f)
    BY <1>1 DEF IInv, Progress, Opened
  <2> QED BY <1>1, <2>1, <2>2 DEF IInv, Progress, dataVars
<1> QED BY <1>2, <1>4, <1>5, <1>6, <1>7, <1>8 DEF IInv

LEMMA StartHolds == Init => IInv
<1> SUFFICES ASSUME Init PROVE IInv
  OBVIOUS
<1>1. Types
  <2>1. data \in Seq([id : Nat, uses : SUBSET Uses]) /\ work \in Seq(Frames)
    BY DEF Init
  <2>2. /\ structDefs \in [Names -> Nat] /\ sig \in [Names -> Own \cup {NoFn}]
        /\ bodies \in [Names -> SUBSET Fns] /\ bodyUses \in [Names -> SUBSET Uses]
    BY DEF Init
  <2>3. declaredFns \subseteq Names
    BY UnitAssumption DEF Init
  <2> QED BY <2>1, <2>2, <2>3 DEF Init, Types
<1>2. Stack /\ Statuses /\ Linkages
  BY UnitAssumption DEF Init, Stack, Statuses, Linkages, OwnStatics
<1>3. Maps
  BY DEF Init, Maps
<1>4. UsesInv
  BY DEF Init, UsesInv
<1>5. Progress
  BY UnitAssumption DEF Init, Progress, Opened, Translated, Begun, Own
<1> QED BY <1>1, <1>2, <1>3, <1>4, <1>5 DEF IInv

LEMMA StepKeeps ==
  ASSUME DistinctNames, IInv, [Next]_vars
  PROVE  IInv'
<1>1. CASE UNCHANGED vars
  <2>1. Types' /\ Stack'
    BY <1>1 DEF IInv, Types, Stack, vars
  <2>2. Maps' /\ Statuses' /\ Linkages' /\ MapsGrow
    BY <1>1 DEF IInv, Maps, Statuses, Linkages, MapsGrow, ExternNames, vars
  <2>3. Progress'
    BY <1>1, ProgressKept DEF IInv, vars
  <2>4. UsesInv'
    <3>1. data' = data /\ work' = work /\ globalDefs' = globalDefs /\ bodyUses' = bodyUses
      BY <1>1 DEF vars
    <3>2. \A k \in 1 .. Len(work) : \A u \in work[k].uses : u \in Uses
      <4>1. \A k \in 1 .. Len(work) : work[k] \in Frames
        BY ElementOfSeq DEF IInv, Types
      <4> QED BY <4>1 DEF Frames
    <3>3. ASSUME NEW k \in 1 .. Len(work), NEW u \in work[k].uses
          PROVE  IF work[k].node \in Fns THEN WrittenInBody(u, Len(data) + 1)'
                                         ELSE Written(u, Len(data) + 1)'
      <4>1. IF work[k].node \in Fns THEN WrittenInBody(u, Len(data) + 1)
                                    ELSE Written(u, Len(data) + 1)
        BY DEF IInv, UsesInv
      <4> QED BY <2>2, <3>1, <3>2, <4>1, WrittenStill DEF IInv
    <3> QED BY <2>2, <3>1, <3>3, UsesKept DEF IInv
  <2> QED BY <2>1, <2>2, <2>3, <2>4 DEF IInv
<1>2. CASE Next
  BY <1>2, UseFnKeeps, UseStaticKeeps, GetStaticKeeps, UseAllocKeeps, FinishAllocKeeps,
     FinishStaticKeeps, FinishBodyKeeps, PredefineFnKeeps, PredefineStaticKeeps,
     StartDefiningKeeps, DefineItemKeeps, EntryWrapperKeeps, StartFinalizingKeeps,
     FinalizingKeeps DEF Next, Reference
<1> QED BY <1>1, <1>2

(* The inductive invariant holds in every reachable state of a unit with   *)
(* distinct names.                                                         *)
THEOREM InvariantHolds ==
  ASSUME DistinctNames
  PROVE  Spec => []IInv
<1>1. IInv /\ [Next]_vars => IInv'
  BY StepKeeps
<1> QED BY <1>1, StartHolds, PTL DEF Spec

-----------------------------------------------------------------------------
(* What it says.                                                           *)

(* The declaration of a name that this unit defines was written for the    *)
(* function it defines.                                                    *)
LEMMA DeclaredForDefinition ==
  ASSUME DistinctNames, IInv, NEW d \in functionDecls, sig[CName[d.of]] # NoFn
  PROVE  d.of \in Fns /\ sig[CName[d.of]] = d.of
<1>1. d.of \in Fns /\ CName[d.of] \in Names
  BY NameTypes DEF IInv, Types, Decls
<1>2. sig[CName[d.of]] \in Own /\ CName[sig[CName[d.of]]] = CName[d.of]
  BY <1>1 DEF IInv, Types, Progress
<1>3. PICK g \in Own : g = sig[CName[d.of]] /\ CName[g] = CName[d.of]
  BY <1>2
<1>4. CASE g \in Entry
  BY <1>1, <1>3, <1>4, OwnNames
<1>5. CASE g \in Items \cap Fns
  BY <1>1, <1>3, <1>5 DEF IInv, Linkages
<1> QED BY <1>3, <1>4, <1>5 DEF Own

(* No declaration is left out of the source for its number of parameters. *)
LEMMA NoneSkipped ==
  ASSUME DistinctNames, IInv
  PROVE  DeclaredFnNames = Preamble \cup declaredFns
<1>1. ASSUME NEW d \in functionDecls PROVE ~Skipped(d.of)
  <2>1. CName[d.of] \in functionDefs => sig[CName[d.of]] # NoFn
    BY DEF IInv, Progress
  <2> QED BY <2>1, DeclaredForDefinition DEF Skipped
<1>2. {e \in functionDecls : ~Skipped(e.of)} = functionDecls
  BY <1>1
<1>3. declaredFns = Known \cup {CName[d.of] : d \in functionDecls} /\ Known \subseteq Preamble
  BY UnitAssumption DEF IInv, Maps
<1> QED BY <1>2, <1>3 DEF DeclaredFnNames

(* In a unit with distinct names nothing in the C source is used above its *)
(* declaration: to_c_source's order of sections, the nesting of            *)
(* const_data_from_alloc, the forward declarations of statics that point   *)
(* to each other and the caches of get_fn and get_static never leave one   *)
(* out.                                                                    *)
THEOREM NamesAreDeclared ==
  ASSUME DistinctNames
  PROVE  Spec => []UsesAreDeclared
<1>1. ASSUME IInv PROVE UsesAreDeclared
  <2>1. ASSUME NEW u \in Uses, NEW i, Written(u, i) PROVE Declared(u, i)
    <3>1. u.kind \in {"fn", "static", "bytes"}
      BY DEF Uses
    <3>2. CASE u.kind = "fn"
      BY <1>1, <2>1, <3>2, NoneSkipped DEF Written, Declared
    <3>3. CASE u.kind = "static"
      BY <2>1, <3>3 DEF Written, Declared
    <3>4. CASE u.kind = "bytes"
      BY <2>1, <3>4 DEF Written, Declared
    <3> QED BY <3>1, <3>2, <3>3, <3>4
  <2>2. \A i \in 1 .. Len(data) : \A u \in data[i].uses : Declared(u, i)
    <3>1. \A i \in 1 .. Len(data) : data[i] \in [id : Nat, uses : SUBSET Uses]
      BY <1>1, ElementOfSeq DEF IInv, Types
    <3> QED BY <1>1, <2>1, <3>1 DEF IInv, UsesInv
  <2>3. \A g \in globalDefs : \A u \in g.uses : Declared(u, Len(data) + 1)
    <3>1. \A g \in globalDefs : \A u \in g.uses : u \in Uses /\ Written(u, Len(data) + 1)
      BY <1>1 DEF IInv, UsesInv, Types
    <3> QED BY <2>1, <3>1
  <2>4. \A n \in Names : \A u \in bodyUses[n] :
          Declared(u, Len(data) + 1) \/ (u.kind = "static" /\ u.name \in declaredGlobals)
    <3>1. \A n \in Names : \A u \in bodyUses[n] :
            u \in Uses /\ WrittenInBody(u, Len(data) + 1)
      BY <1>1 DEF IInv, UsesInv, Types
    <3> QED BY <2>1, <3>1 DEF WrittenInBody
  <2> QED BY <2>2, <2>3, <2>4 DEF UsesAreDeclared
<1> QED BY <1>1, InvariantHolds, PTL

(* In a unit with distinct names a static's forward declarations have the  *)
(* type of its definition, whoever refers to it first, and every struct    *)
(* type is defined once.                                                   *)
THEOREM DeclarationsFit ==
  ASSUME DistinctNames
  PROVE  Spec => []DeclarationsAgree
<1>1. ASSUME IInv PROVE DeclarationsAgree
  <2>1. ASSUME NEW g \in globalDefs, NEW d \in externDecls, CName[g.of] = CName[d.of]
        PROVE  d.type = IF Refs[g.of] = {} THEN "bytes" ELSE "struct"
    <3>1. g.of \in OwnStatics /\ d.of \in Statics
      BY <1>1 DEF IInv, Types
    <3>2. d.of = g.of /\ d.of \in Items
      BY <2>1, <3>1 DEF DistinctNames, OwnStatics
    <3> QED BY <1>1, <3>2 DEF IInv, Statuses
  <2>2. \A n \in Names : structDefs[n] <= 1
    BY <1>1 DEF IInv, Maps
  <2>3. \A d \in externDecls : d.type = "struct" => structDefs[CName[d.of]] = 1
    BY <1>1, NameTypes DEF IInv, Maps, Types
  <2> QED BY <2>1, <2>2, <2>3 DEF DeclarationsAgree
<1> QED BY <1>1, InvariantHolds, PTL

(* In a unit with distinct names a function is declared `static` exactly   *)
(* if this unit defines it so: predefine_fn declares every item before     *)
(* get_fn, which would leave `static` out, is asked for one, or for a      *)
(* function of another unit with the same C name.                          *)
THEOREM LinkageFits ==
  ASSUME DistinctNames
  PROVE  Spec => []LinkageAgrees
<1>1. ASSUME IInv PROVE LinkageAgrees
  <2> SUFFICES ASSUME NEW d \in functionDecls, sig[CName[d.of]] # NoFn
               PROVE  d.static <=> sig[CName[d.of]] \in Internal
    BY DEF LinkageAgrees
  <2>1. sig[CName[d.of]] = d.of
    BY <1>1, DeclaredForDefinition
  <2>2. d.static <=> d.of \in Internal
    BY <1>1 DEF IInv, Linkages
  <2> QED BY <2>1, <2>2
<1> QED BY <1>1, InvariantHolds, PTL

(* In a unit with distinct names every function item and the entry wrapper *)
(* is, under its own symbol, the one body of its definition, although      *)
(* open_functions is keyed by C names, and every static item is defined.   *)
THEOREM SymbolsAreExact ==
  ASSUME DistinctNames
  PROVE  Spec => []ExactSymbols
<1>1. ASSUME IInv PROVE ExactSymbols
  <2> SUFFICES ASSUME phase = "done"
               PROVE  /\ \A f \in Own : /\ CName[f] \in functionDefs
                                        /\ sig[CName[f]] = f /\ bodies[CName[f]] = {f}
                      /\ \A s \in OwnStatics : \E g \in globalDefs : g.of = s
    BY DEF ExactSymbols, Own, OwnStatics
  <2>1. todo = {} /\ work = <<>> /\ open = {}
    BY <1>1 DEF IInv, Progress, Stack
  <2>2. \A x \in Own \cup OwnStatics : Translated(x)
    BY <2>1 DEF Translated, Begun
  <2>3. \A f \in Own : Opened(f)
    BY DEF Opened
  <2> QED BY <1>1, <2>1, <2>2, <2>3 DEF IInv, Progress
<1> QED BY <1>1, InvariantHolds, PTL
=============================================================================
