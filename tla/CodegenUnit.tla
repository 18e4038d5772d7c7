----------------------------- MODULE CodegenUnit ----------------------------
(***************************************************************************)
(* One codegen unit, from its mono items to the C translation unit: the    *)
(* driver module_codegen of lib.rs, CodegenCx of context.rs and consts.rs, *)
(* and CModule of module.rs.                                               *)
(*                                                                         *)
(* A node is a function, a static or an anonymous allocation (a constant's *)
(* bytes, a vtable); Refs[x] are the nodes the body or the initialiser of  *)
(* x points to.  What is written for a node is kept as the set of names it *)
(* uses; types, bytes, offsets and instructions are left out.  Every order *)
(* of the items and of a node's references is considered.                  *)
(***************************************************************************)
EXTENDS Naturals, Sequences, FiniteSets

CONSTANTS
  Fns,        \* function instances
  Statics,    \* statics
  Allocs,     \* anonymous allocations
  Items,      \* the mono items of this unit: functions and statics
  Entry,      \* {} or {the C main that maybe_create_entry_wrapper builds}
  Refs,       \* Refs[x]: the nodes x refers to
  Weak,       \* statics imported with extern_weak linkage
  Internal,   \* functions predefined with Internal or AvailableExternally
              \* linkage, which are C `static`
  Arity,      \* Arity[f]: number of C parameters of f
  Names,      \* C identifiers
  CName,      \* CName[x]: sanitize_name of the symbol of function/static x
  Preamble,   \* functions that preamble.c declares
  Known,      \* the functions CModule::new puts into declared_fns
  NoFn,       \* "no function"
  MaxBytes    \* bound: anonymous allocations written

Nodes == Fns \cup Statics \cup Allocs

ASSUME UnitAssumption ==
  /\ Fns \cap Statics = {} /\ Fns \cap Allocs = {} /\ Statics \cap Allocs = {}
  /\ Items \subseteq Fns \cup Statics
  /\ Entry \subseteq Fns \ Items /\ \A m, n \in Entry : m = n
  /\ Refs \in [Nodes -> SUBSET Nodes]
  /\ Weak \subseteq Statics \ Items
  /\ Internal \subseteq Items \cap Fns
  /\ Arity \in [Fns -> Nat]
  /\ CName \in [Fns \cup Statics -> Names]
  /\ Known \subseteq Preamble /\ Preamble \subseteq Names
  /\ NoFn \notin Fns
  /\ MaxBytes \in Nat

VARIABLES
  phase,            \* where module_codegen is
  todo,             \* items its current loop has not reached
  instances,        \* functions in the cache of get_fn
  staticsCache,     \* statics in the cache of get_static
  declaredFns,      \* declared_fns
  functionDecls,    \* function_decls: [of, static], the function one was
                    \* written for and whether it begins with `static`
  declaredGlobals,  \* declared_globals
  externDecls,      \* global_extern_decls (and declared_extern_globals)
  structDefs,       \* structDefs[n]: definitions of struct _gs_n in struct_defs
  data,             \* data_sections: [id, uses] in the order written
  globalDefs,       \* global_decls: [of, uses]
  byteStrings,      \* byte_string_counter
  open,             \* keys of open_functions
  sig,              \* sig[n]: the function FunctionDef n was created for
  bodies,           \* bodies[n]: the functions whose blocks are in it
  bodyUses,         \* bodyUses[n]: the names those blocks use
  functionDefs,     \* names in function_defs
  work              \* nodes being written: the current item, then the
                    \* allocations const_data_from_alloc has recursed into

vars == <<phase, todo, instances, staticsCache, declaredFns, functionDecls,
          declaredGlobals, externDecls, structDefs, data, globalDefs, byteStrings,
          open, sig, bodies, bodyUses, functionDefs, work>>

declVars == <<instances, staticsCache, declaredFns, functionDecls,
              declaredGlobals, externDecls, structDefs>>
fnVars == <<open, sig, bodies, bodyUses, functionDefs>>
dataVars == <<data, globalDefs, byteStrings>>

(* A use of a name in the C text. *)
FnUse(f) == [kind |-> "fn", name |-> CName[f]]
StaticUse(s) == [kind |-> "static", name |-> CName[s]]
BytesUse(i) == [kind |-> "bytes", name |-> i]

Uses == [kind : {"fn", "static"}, name : Names] \cup [kind : {"bytes"}, name : Nat]

Init ==
  /\ phase = "predefine"
  /\ todo = Items
  /\ instances = {}
  /\ staticsCache = {}
  /\ declaredFns = Known
  /\ functionDecls = {}
  /\ declaredGlobals = {}
  /\ externDecls = {}
  /\ structDefs = [n \in Names |-> 0]
  /\ data = <<>>
  /\ globalDefs = {}
  /\ byteStrings = 0
  /\ open = {}
  /\ sig = [n \in Names |-> NoFn]
  /\ bodies = [n \in Names |-> {}]
  /\ bodyUses = [n \in Names |-> {}]
  /\ functionDefs = {}
  /\ work = <<>>

(* A forward declaration, unless the name has one. *)
DeclareFn(f, static) ==
  /\ declaredFns' = declaredFns \cup {CName[f]}
  /\ functionDecls' = IF CName[f] \in declaredFns THEN functionDecls
                      ELSE functionDecls \cup {[of |-> f, static |-> static]}

(* open_functions.insert: whatever had this name is replaced. *)
OpenFn(f) ==
  /\ open' = open \cup {CName[f]}
  /\ sig' = [sig EXCEPT ![CName[f]] = f]
  /\ bodies' = [bodies EXCEPT ![CName[f]] = {}]
  /\ bodyUses' = [bodyUses EXCEPT ![CName[f]] = {}]

-----------------------------------------------------------------------------
(* The first loop: predefine every item.                                   *)

(* Mutant of PredefineFn: a declared name is taken to be open already. *)
PredefineFnOnce(f) ==
  /\ phase = "predefine"
  /\ f \in todo
  /\ todo' = todo \ {f}
  /\ instances' = instances \cup {f}
  /\ DeclareFn(f, f \in Internal)
  /\ IF CName[f] \in declaredFns THEN UNCHANGED <<open, sig, bodies, bodyUses>> ELSE OpenFn(f)
  /\ UNCHANGED <<phase, staticsCache, declaredGlobals, externDecls, structDefs,
                 functionDefs, work, dataVars>>

(* Mutant of PredefineFn: the declaration is left to get_fn. *)
PredefineFnUndeclared(f) ==
  /\ phase = "predefine"
  /\ f \in todo
  /\ todo' = todo \ {f}
  /\ OpenFn(f)
  /\ UNCHANGED <<phase, declVars, functionDefs, work, dataVars>>

PredefineFn(f) ==
  /\ phase = "predefine"
  /\ f \in todo
  /\ todo' = todo \ {f}
  /\ instances' = instances \cup {f}
  /\ DeclareFn(f, f \in Internal)
  /\ OpenFn(f)
  /\ UNCHANGED <<phase, staticsCache, declaredGlobals, externDecls, structDefs,
                 functionDefs, work, dataVars>>

(* Mutant of PredefineStatic: does not register the name. *)
PredefineStaticUnregistered(s) ==
  /\ phase = "predefine"
  /\ s \in todo
  /\ todo' = todo \ {s}
  /\ staticsCache' = staticsCache \cup {s}
  /\ UNCHANGED <<phase, instances, declaredFns, functionDecls, declaredGlobals, externDecls,
                 structDefs, work, fnVars, dataVars>>

PredefineStatic(s) ==
  /\ phase = "predefine"
  /\ s \in todo
  /\ todo' = todo \ {s}
  /\ staticsCache' = staticsCache \cup {s}
  /\ declaredGlobals' = declaredGlobals \cup {CName[s]}
  /\ UNCHANGED <<phase, instances, declaredFns, functionDecls, externDecls,
                 structDefs, work, fnVars, dataVars>>

(* The second loop: define every item. *)
StartDefining ==
  /\ phase = "predefine"
  /\ todo = {}
  /\ phase' = "define"
  /\ todo' = Items
  /\ UNCHANGED <<work, declVars, fnVars, dataVars>>

Frame(x, i) == [node |-> x, id |-> i, left |-> Refs[x], uses |-> {}]
Top == work[Len(work)]
Pop == SubSeq(work, 1, Len(work) - 1)

DefineItem(x) ==
  /\ phase = "define"
  /\ work = <<>>
  /\ x \in todo
  /\ todo' = todo \ {x}
  /\ work' = <<Frame(x, 0)>>
  /\ UNCHANGED <<phase, declVars, fnVars, dataVars>>

-----------------------------------------------------------------------------
(* References, from the body or the initialiser being written.             *)

Refers(x) == work # <<>> /\ x \in Top.left
UseIn(x, u) == work' = Append(Pop, [Top EXCEPT !.left = @ \ {x}, !.uses = @ \cup {u}])

(* get_fn: declares the function the first time, never as `static`. *)
UseFn(f) ==
  /\ Refers(f)
  /\ UseIn(f, FnUse(f))
  /\ instances' = instances \cup {f}
  /\ IF f \in instances THEN UNCHANGED <<declaredFns, functionDecls>> ELSE DeclareFn(f, FALSE)
  /\ UNCHANGED <<phase, todo, staticsCache, declaredGlobals, externDecls, structDefs,
                 fnVars, dataVars>>

(* emit_static_struct_fwd_decl: the struct type and a declaration with it. *)
StructFwdDecl(s) ==
  IF \E d \in externDecls : CName[d.of] = CName[s]
  THEN UNCHANGED <<externDecls, structDefs>>
  ELSE /\ structDefs' = [structDefs EXCEPT ![CName[s]] = @ + 1]
       /\ externDecls' = externDecls \cup {[of |-> s, type |-> "struct"]}

(* add_global_decl, which keeps the first declaration of a name. *)
AddGlobalDecl(s, type) ==
  externDecls' = IF \E d \in externDecls : CName[d.of] = CName[s] THEN externDecls
                 ELSE externDecls \cup {[of |-> s, type |-> type]}

(* emit_extern_static_decl: bytes of unknown length, unless the definition *)
(* in this unit will be a struct.                                          *)
ExternStaticDecl(s) ==
  IF s \in Weak
  THEN AddGlobalDecl(s, "weakfn") /\ UNCHANGED structDefs
  ELSE IF CName[s] \in declaredGlobals /\ Refs[s] # {}
  THEN StructFwdDecl(s)
  ELSE AddGlobalDecl(s, "bytes") /\ UNCHANGED structDefs

(* Mutant of UseStatic: recurses into the static as if it were anonymous. *)
UseStaticInline(s) ==
  /\ Refers(s)
  /\ byteStrings < MaxBytes
  /\ byteStrings' = byteStrings + 1
  /\ work' = Append(Append(Pop, [Top EXCEPT !.left = @ \ {s}]), Frame(s, byteStrings))
  /\ UNCHANGED <<phase, todo, data, globalDefs, declVars, fnVars>>

(* A pointer to a static in an initialiser or in a constant. *)
UseStatic(s) ==
  /\ Refers(s)
  /\ UseIn(s, StaticUse(s))
  /\ ExternStaticDecl(s)
  /\ UNCHANGED <<phase, todo, instances, staticsCache, declaredFns, functionDecls,
                 declaredGlobals, fnVars, dataVars>>

(* A body's own access to a static: declared unless it is in the cache,    *)
(* where the statics of this unit are from the start.                      *)
GetStatic(s) ==
  /\ Refers(s)
  /\ Top.node \in Fns
  /\ UseIn(s, StaticUse(s))
  /\ staticsCache' = staticsCache \cup {s}
  /\ IF s \in staticsCache THEN UNCHANGED <<externDecls, structDefs>>
                           ELSE ExternStaticDecl(s)
  /\ UNCHANGED <<phase, todo, instances, declaredFns, functionDecls,
                 declaredGlobals, fnVars, dataVars>>

(* const_data_from_alloc: takes the next _bytes name and recurses. *)
UseAlloc(a) ==
  /\ Refers(a)
  /\ byteStrings < MaxBytes
  /\ byteStrings' = byteStrings + 1
  /\ work' = Append(Append(Pop, [Top EXCEPT !.left = @ \ {a}]), Frame(a, byteStrings))
  /\ UNCHANGED <<phase, todo, data, globalDefs, declVars, fnVars>>

Return(u) == [i \in 1 .. Len(work) - 1 |->
                IF i = Len(work) - 1 THEN [work[i] EXCEPT !.uses = @ \cup {u}] ELSE work[i]]

(* Mutant of FinishAlloc: the outer constant is written first. *)
FinishAllocFirst ==
  /\ work # <<>> /\ Top.node \in Allocs /\ Top.left = {}
  /\ data' = <<[id |-> Top.id, uses |-> Top.uses]>> \o data
  /\ work' = Return(BytesUse(Top.id))
  /\ UNCHANGED <<phase, todo, globalDefs, byteStrings, declVars, fnVars>>

FinishAlloc ==
  /\ work # <<>> /\ Top.node \in Allocs /\ Top.left = {}
  /\ data' = Append(data, [id |-> Top.id, uses |-> Top.uses])
  /\ work' = Return(BytesUse(Top.id))
  /\ UNCHANGED <<phase, todo, globalDefs, byteStrings, declVars, fnVars>>

-----------------------------------------------------------------------------
(* The end of codegen_static: the definition, with a forward declaration   *)
(* of its struct type if no reference has written one.                     *)
FinishStatic ==
  /\ work # <<>> /\ Top.node \in Statics /\ Top.left = {}
  /\ IF Refs[Top.node] = {} THEN UNCHANGED <<externDecls, structDefs>>
                            ELSE StructFwdDecl(Top.node)
  /\ globalDefs' = globalDefs \cup {[of |-> Top.node, uses |-> Top.uses]}
  /\ declaredGlobals' = declaredGlobals \cup {CName[Top.node]}
  /\ staticsCache' = staticsCache \cup {Top.node}
  /\ work' = Pop
  /\ UNCHANGED <<phase, todo, instances, declaredFns, functionDecls, data, byteStrings, fnVars>>

(* The end of a function's body, which went to open_functions[name], if    *)
(* that is open.                                                           *)
FinishBody ==
  LET n == CName[Top.node] IN
  /\ work # <<>> /\ Top.node \in Fns /\ Top.left = {}
  /\ bodies' = [bodies EXCEPT ![n] = IF n \in open THEN @ \cup {Top.node} ELSE @]
  /\ bodyUses' = [bodyUses EXCEPT ![n] = IF n \in open THEN @ \cup Top.uses ELSE @]
  /\ work' = Pop
  /\ UNCHANGED <<phase, todo, open, sig, functionDefs, declVars, dataVars>>

(* declare_c_main and the body of the wrapper. *)
EntryWrapper(m) ==
  /\ phase = "define"
  /\ todo = {} /\ work = <<>>
  /\ phase' = "wrapper"
  /\ OpenFn(m)
  /\ work' = <<Frame(m, 0)>>
  /\ UNCHANGED <<todo, functionDefs, declVars, dataVars>>

StartFinalizing ==
  /\ \/ phase = "define" /\ todo = {} /\ Entry = {}
     \/ phase = "wrapper"
  /\ work = <<>>
  /\ phase' = "finalize"
  /\ UNCHANGED <<todo, work, declVars, fnVars, dataVars>>

FinalizeFunction(n) ==
  /\ phase = "finalize"
  /\ n \in open
  /\ open' = open \ {n}
  /\ functionDefs' = functionDefs \cup {n}
  /\ UNCHANGED <<phase, todo, sig, bodies, bodyUses, work, declVars, dataVars>>

Finish ==
  /\ phase = "finalize"
  /\ open = {}
  /\ phase' = "done"
  /\ UNCHANGED <<todo, work, declVars, fnVars, dataVars>>

Reference ==
  \/ \E f \in Fns : UseFn(f)
  \/ \E s \in Statics : UseStatic(s) \/ GetStatic(s)
  \/ \E a \in Allocs : UseAlloc(a)

Next ==
  \/ \E f \in Fns : PredefineFn(f)
  \/ \E s \in Statics : PredefineStatic(s)
  \/ StartDefining
  \/ \E x \in Items : DefineItem(x)
  \/ Reference
  \/ FinishAlloc \/ FinishStatic \/ FinishBody
  \/ \E m \in Entry : EntryWrapper(m)
  \/ StartFinalizing
  \/ \E n \in Names : FinalizeFunction(n)
  \/ Finish

Spec == Init /\ [][Next]_vars

(* The driver is one thread, which runs. *)
FairSpec == Spec /\ WF_vars(Next)

-----------------------------------------------------------------------------
(* The C source: to_c_source writes struct types, extern declarations,     *)
(* function declarations, data, globals and function definitions, in this  *)
(* order.  A function's declaration is skipped if a definition in this     *)
(* source has another number of parameters.                                *)
Skipped(f) == CName[f] \in functionDefs /\ Arity[sig[CName[f]]] # Arity[f]

DeclaredFnNames == Preamble \cup {CName[d.of] : d \in {e \in functionDecls : ~Skipped(e.of)}}
ExternNames == {CName[d.of] : d \in externDecls}
DataBefore(i) == {data[j].id : j \in 1 .. i - 1}

(* u is declared above the i-th data section. *)
Declared(u, i) ==
  CASE u.kind = "fn" -> u.name \in DeclaredFnNames
    [] u.kind = "static" -> u.name \in ExternNames
    [] u.kind = "bytes" -> u.name \in DataBefore(i)

(* The functions this unit defines have C names of their own, and so have  *)
(* its statics.  A function of another unit may share the name of one of   *)
(* its items: an intrinsic that of its fallback, a declaration in an       *)
(* `extern` block that of the definition.                                  *)
DistinctNames ==
  /\ \A f, g \in Items \cap Fns : CName[f] = CName[g] => f = g
  /\ \A f \in Fns, m \in Entry : CName[f] = CName[m] => f = m
  /\ \A s \in Statics, i \in Items \cap Statics : CName[s] = CName[i] => s = i

(* The C source uses no name above its declaration: not in a constant that *)
(* points to other constants, in a static that points to itself or to a    *)
(* static defined later, or in a body.                                     *)
UsesAreDeclared ==
  /\ \A i \in 1 .. Len(data) : \A u \in data[i].uses : Declared(u, i)
  /\ \A g \in globalDefs : \A u \in g.uses : Declared(u, Len(data) + 1)
  /\ \A n \in Names : \A u \in bodyUses[n] :
       \/ Declared(u, Len(data) + 1)
       \/ u.kind = "static" /\ u.name \in declaredGlobals

(* A static is declared with the type it is defined with, and its struct   *)
(* type is defined once.                                                   *)
DeclarationsAgree ==
  /\ \A g \in globalDefs, d \in externDecls :
       CName[g.of] = CName[d.of] =>
         d.type = IF Refs[g.of] = {} THEN "bytes" ELSE "struct"
  /\ \A n \in Names : structDefs[n] <= 1
  /\ \A d \in externDecls : d.type = "struct" => structDefs[CName[d.of]] = 1

(* A function this unit defines is declared `static` exactly if it is      *)
(* defined so, whether predefine_fn or get_fn came first and under         *)
(* whatever instance get_fn knew it: C refuses a `static` definition after *)
(* a declaration without it.                                               *)
LinkageAgrees ==
  \A d \in functionDecls : LET definition == sig[CName[d.of]] IN
    definition # NoFn => (d.static <=> definition \in Internal)

(* The object file gets the exact symbol of every item, with its own code: *)
(* each function is the only body of the definition under its name, each   *)
(* static is defined.                                                      *)
ExactSymbols ==
  phase = "done" =>
    /\ \A f \in (Items \cap Fns) \cup Entry :
         CName[f] \in functionDefs /\ sig[CName[f]] = f /\ bodies[CName[f]] = {f}
    /\ \A s \in Items \cap Statics : \E g \in globalDefs : g.of = s

(* Translation ends, however the constants and the statics of the unit     *)
(* point to each other.                                                    *)
TranslationEnds == <>(phase = "done")
=============================================================================
