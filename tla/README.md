# rustc_codegen_c: a TLA+ verification project

`rustc_codegen_c` is a code generation backend for rustc that writes C: every
codegen unit becomes one C file, the system's C compiler turns it into an object
file, and rustc links as usual. This directory models the parts of the backend
(and of the C it emits) that carry state, order or concurrency, checks them with
TLC on small instances and proves the central ones with TLAPS.

Paths below are relative to the repository, e.g. `src/builder.rs`.

## 1. The system and its parts

| Part | Source | State | Operations | Hard behaviour |
|---|---|---|---|---|
| Panic unwinding | `builder.rs` (invoke, landing pads, resume), `intrinsic.rs` (catch_unwind), `c/preamble.c`, `allocator.rs` | at run time: a thread-local chain of contexts (`jmp_buf`, `exception_ptr`, `prev`) that live in stack frames | push, pop, `longjmp` to the head, `__rust_try` | panics in drops, in `catch_fn`, nested catches; stale buffers; dangling contexts; threads |
| Atomic operations | `builder.rs` (atomic_*), `builtins.rs` | a shared object, the C temporaries `old` and `desired` | C11 atomics, `__sync` builtins, compare-and-swap loops | interleaving, torn plain reads, spurious failure, retries |
| Codegen unit | `lib.rs` (module_codegen), `context.rs`, `consts.rs`, `module.rs` | caches of functions and statics, sets of declared names, open functions, the sections of the C file | predefine, define, reference (function, static, constant), finalise, print | order of declarations, cyclic statics, names that coincide |
| Function bodies | `builder.rs`, `module.rs` (FunctionDef) | block map, block counter, current block, return buffer | append_block, emit, terminators | block ids that are unique only within a function |
| Types and calls | `types.rs`, `type_of.rs`, `builder.rs` (load, store, call, parameters) | interned types; at run time the bytes of locals, parameters and results | layouts and pass modes to C types and signatures; pass, store, return, repeat | types rounded up to C's widths, offsets computed in several places, indices that count or do not count a parameter |
| Integer and float lowering | `builder.rs`, `intrinsic.rs`, `c/preamble.c` | none | checked, saturating, shifting, converting, comparing operations; SIMD lanes | boundaries, widths, C's undefined operations |
| 128-bit division | `c/int128_division.c` | loop variables | `__udivti3`, `__umodti3`, `__divti3`, `__modti3` | top bits, signs |
| Pipeline | `write.rs`, `lib.rs` | object files, `csources/`, Makefile | codegen of a unit, LTO, link | parallel workers and processes, files of earlier builds, reused objects, failing writes, killed runs |
| Allocator shims | `allocator.rs`, `c/aligned_alloc.c` | the C heap | alloc, dealloc, realloc, alloc_zeroed | failure in the middle of realloc, alignments the C library refuses, threads |
| C printer, debug info, native stubs | `c_ast.rs`, `debuginfo.rs`, `native_stubs.rs` | none | formatting, no-ops | none |

The unit's driver calls the context, which fills the module; a builder writes
one function's blocks into the module's open functions; the module is printed,
handed to the pipeline, compiled and linked. The unwinding, atomic and allocator
parts are about the *emitted* program: their actors are the threads of the
compiled program, and a state is a state of its memory and stacks.

## 2. Modules

| Module | What it is |
|---|---|
| `RustUnwind` | abstract specification: what a panic does to a thread's calls, without contexts or jumps |
| `UnwindChain` | the emitted setjmp/longjmp machinery |
| `UnwindChain_proofs` | its invariants and the refinement, proved |
| `MCUnwindChain` + `MCUnwindDeep.cfg`, `MCUnwindThreads.cfg` | instances |
| `AtomicCell` | abstract specification: operations on a shared cell that take effect in one step |
| `AtomicLowering` | the emitted loops, reads and primitives |
| `AtomicLowering_proofs` | invariants and refinement, proved |
| `MCAtomics` + `MCAtomics.cfg` | instance for narrow and wide objects, with the C expressions of the read-modify-write operations |
| `CodegenUnit` | the translation of one unit, up to the C source |
| `CodegenUnit_proofs` | its properties, proved |
| `MCCodegenUnit` + `MCUnit.cfg` | instance |
| `FunctionBody` | the builder and the basic blocks of the open functions |
| `FunctionBody_proofs` | its properties, proved |
| `MCFunctionBody` + `MCFunctionBody.cfg` | instance |
| `CArith` | external: integer arithmetic of C (promotion, common type, conversion, undefined results) |
| `IntOps`, `BitOps`, `IntHelpers`, `FloatConv`, `VectorOps` | the numeric operations as C expressions over `CArith`, each with Rust's result as reference |
| `CallAbi` | C types and signatures, and the bytes that travel through them |
| `Numbers` | composes the numeric modules, with their widths as parameters, and `CallAbi` at real sizes |
| `Numbers_proofs` | operators, lanes, overflow and rotations for all widths, and all calls, proved |
| `MCNumbers` + `MCNumbers.cfg`, `MCFloatLong.cfg`, `MCCastScratch.cfg` | instances of `Numbers` at scaled widths |
| `Int128Division` | the portable 128-bit division |
| `Int128Division_proofs` | its correctness, proved |
| `MCInt128Division` + `MCInt128Division.cfg` | a six-bit instance |
| `Pipeline` | LTO hooks, `write::codegen`, `csources/`, Makefile and link over the processes of several cargo runs |
| `Pipeline_proofs` | its safety properties, proved |
| `MCPipeline` + `MCPipeline.cfg`, `MCStaleSource.cfg` | a workspace of three crates, and one program that shrinks |
| `GlobalAlloc` | abstract specification: what Rust's global allocator promises |
| `Allocator` | the shims, step by step, over the heap of the C library |
| `Allocator_proofs` | ownership and refinement, proved |
| `MCAllocator` + `MCAllocator.cfg` | a heap that two threads can exhaust |

`PROJECT.json` maps every definition to the source lines it models and lists the
runs, a mutant for each property, the hazards, the findings and the theorems. A
definition commented "Mutant ..." is a plausible bug, used only to see that a
property notices it.

### Unwinding (`RustUnwind`, `UnwindChain`)

A thread's stack is `1 .. MaxDepth`; `sp` is the executing frame and `pc[t][d]`
the place of frame `d`. The emitted state is kept as it is in C: `chain` is
`__rustc_unwind_chain` (`0` is NULL), `ctx[t][d]` the frame's one
`__unwind_ctx` with its `prev`, `exception_ptr` and jump buffer, `exnPtr` the
local `__exn_ptr`, `slot` the saved exception. The address of a context is its
frame's depth, so a frame that is pushed inherits what the last frame at that
depth left behind (`Junk` at the start), and a dangling context is a context
like any other.

`Invoke`, `DropInvoke` and `RustTry` link a context, call `setjmp` and enter the
callee; `ReturnFromInvoke`, `ReturnFromDrop` and `ReturnFromTryFn` pop it;
`RaiseException` and `Resume` follow the chain's head, discard every frame above
it and continue where its buffer says; `LandCleanup`, `LandAbort` and `LandTry`
are the second return of `setjmp`. With an empty chain both abort.
`RustUnwind` knows nothing of these: a panic goes to the innermost call that
guards against it.

Correct means: the chain is exactly the guarded calls that are on the stack
(`ChainIsGuardedFrames`), the head's buffer is that of the guarded call in
progress (`JumpBufferIsCurrent`), whoever handles a panic has its payload
(`HandlersHoldThePayload`), no `longjmp` skips a guard (`NoGuardSkipped`),
`__rust_try` gives the chain back as it got it (`TryRestoresChain`), all of it is
what Rust promises (`ImplementsRust`), and unwinding ends (`UnwindingEnds`).

### Atomic operations (`AtomicCell`, `AtomicLowering`)

The object `mem` is a pair of halves. C11 operations and `__sync` builtins are
one step; a plain C read of a 16-byte object is two steps, in either order.
`Primitive` is every operation with a primitive of its own; `LoopLoad`,
`LoopBody`, `WeakCasFails`, `CasSucceeds` the loop around
`atomic_compare_exchange_weak` (which may fail spuriously and reloads `old`);
`PlainReadWhole`, `PlainReadFirst`/`PlainReadSecond` and `BoolCasFails` the loop
of the 16-byte store and of the outline `swp`. `Rmw` is a parameter, because
the refinement does not depend on what the operations compute; `MCAtomics` gives
it the emitted expressions.

Correct means: the value a loop installs was computed from the value it compares
with (`DesiredMatchesOld`), every operation takes effect in one step and answers
with the value it replaced (`ImplementsCell`), and ends (`OperationsEnd`).

### Codegen unit (`CodegenUnit`)

The variables are the caches and collections of `CodegenCx` and `Module`:
function instances, statics, declared names, open functions, data, globals. Two
loops go over the items: `PredefineFn` and `PredefineStatic`, then `DefineItem`.
A definition refers to functions, statics and constants in any order: `work`
is the stack of the recursion through `const_data_from_alloc`, one frame per
constant being translated, and `UseFn`, `UseStatic`, `GetStatic` and `UseAlloc` are
the references. `FinishAlloc`, `FinishStatic` and `FinishBody` complete a frame,
`EntryWrapper` adds C's `main`, `FinalizeFunction` and `Finish` write the source.
`functionDecls` keeps of each declaration for whom it was written and whether it
begins with `static`: `predefine_fn` writes that, `get_fn` never does, and
whichever comes first for a C name is the only one.

Correct means: nothing is used above its declaration (`UsesAreDeclared`), a
static is declared with the type it is defined with, and its struct once
(`DeclarationsAgree`), a function is declared `static` exactly if it is defined so
(`LinkageAgrees`), every item is defined under its symbol with its own code
(`ExactSymbols`), and translation ends (`TranslationEnds`). Types of functions are not
compared: a declaration that repeats one of the preamble's with other types is not
noticed (section 6).

### Function bodies (`FunctionBody`)

`open` holds each function's blocks, declarations and return buffer;
`block_to_function` maps a block id to a function although ids are counted per
function. rustc_codegen_ssa is external and modelled by the order in which it
calls the backend: bodies one after another, a block for a MIR block when it is
first referred to, landing pads in a builder of their own. A statement carries
the function it was emitted for, so one that lands elsewhere shows.

Correct means: statements are in their own function (`OwnStatements`), every
label named exists in the function (`GotosResolve`), a finished block has exactly
one terminator, its last statement (`BlocksEndOnce`), a function returns what its
kind says (`ReturnsMatch`), the fixed local names are declared once
(`LocalsDeclaredOnce`), and caller and callee agree about arguments when
the return pointer is dropped (`ArgumentsMatch`). Invokes may come any number of
times; the return pointer, and with it the declaration of `_retbuf`, is something
rustc_codegen_ssa asks for once, at the start of a body.

### Numbers (`CArith`, `IntOps`, `BitOps`, `IntHelpers`, `FloatConv`, `VectorOps`, `Numbers`)

Each operation is the C expression the backend emits, evaluated by C's rules: a
state is a call and its result. What C leaves undefined is a result of its own
that equals no number, so that reaching it breaks the property. The reference
is Rust's definition on bit patterns or, for floats, on exact numbers. C's `&`, `|`
and `^` are defined in `CArith` bit by bit. `Numbers` has one family of calls for
each module; its variable `family` says which one a behaviour is about. `IntOps`
takes each operand as a variable and as a literal, because a literal has
another C type. `FloatConv` also has `fcmp`, with the predicates of Rust's
operators, on numbers, infinities and NaN. In `VectorOps` a vector is an array of
lanes and each intrinsic one C expression per lane.

Correct means: each result is the one Rust specifies (`OperatorsExact`,
`BitsExact`, `OverflowExact`, `FloatsExact`, `VectorsExact`), whatever C type and
promotion it went through.

### Types and calls (`CallAbi`)

A byte is a pair: the argument it belongs to (0 for the result) and its place in
it. `layout_to_c_type`, `cast_target_to_c_type`, `fn_abi_ret_type`,
`fn_abi_arg_type` and `fn_abi_to_c_type` compute C types from a layout (scalar,
pair, vector, aggregate or zero-sized) and a pass mode (ignored, direct, pair,
cast, indirect, by value, unsized); `CallParams` is `Builder::call`,
`store_fn_arg` with `get_param` the entry of the callee, `Returned` and
`StoreResult` the way back, `write_operand_repeatedly` a repeat expression.
Memory has 16 bytes behind each object that nobody may write. What
rustc_codegen_ssa and rustc_target contribute (the values of the arguments,
the size of a cast) is external, and so is what rustc guarantees of its layouts
and modes (`SignatureOK`, `RepeatOK`), which only the proofs use.

Correct means: every byte that is not padding arrives where the other side reads
it (`BytesArrive`), and no store leaves its local or buffer
(`StoresStayInside`).

### 128-bit division (`Int128Division`)

One action per piece of `c/int128_division.c`: the 64-bit fast path, each
iteration of the loop, the correction of signs.

### Pipeline (`Pipeline`)

A definition is a name with a body, a source a set of definitions, a truncated
file the empty set. What one call of the C compiler gets is a sequence of sources,
of more than one only under fat LTO: a name defined in two of them is an error.
cargo starts the rustc process of a crate when those it links have ended (`Start`, external); incremental sessions keep the objects of units
whose source is unchanged. The LTO hooks give the modules: `PrepareThin`,
`RunThinLto` and `OptimizeThin` take each module apart and put it together again,
`FatLto` puts all sources into one text under the first module's name. Each module
is then taken through `write::codegen` by a worker: `Compile` (or `CompileFails`, a
panic), `OpenCsource` and `WriteCsource`, the two effects of `fs::write`, or
`CsourceIgnored`. When all have returned, `link` writes the Makefile
(`OpenMakefile`, `WriteMakefile`, `MakefileIgnored`), `native_stubs.c`
(`WriteStubs`, `StubsIgnored`), and links (`Link`). `Interrupt` kills a run at any
point; `CargoBuild` is the next one, with other versions of the code.
`suspect` is a history variable: the files whose last writer failed, or whose
session has not ended well.

Correct means: what is linked is the current code, in every mode and with every
reuse (`LinkedIsCurrent`); `csources/` holds the sources of the objects
(`SourcesMatchObjects`) and make builds the linked program (`MakeMatchesLink`),
where no failed write or session has touched the files and no unit has
disappeared; and every run ends (`RunsEnd`).

### Allocator (`GlobalAlloc`, `Allocator`)

`heap` is a row of bytes and `ranges` the allocations of the C library, which
gives any free place of the right alignment, or null when there is none.
A thread has at most one block. `realloc` is three steps (`AllocNew`, `Copy`,
`FreeOld`), `alloc_zeroed` two (`AllocNew`, `Clear`), with other threads' calls
and stores between them. `GlobalAlloc` knows only the bytes of each thread's
block; the refinement mapping reads them out of `heap`.

Correct means: the shims implement it (`ImplementsGlobalAlloc`), every allocation
has exactly one owner, also in the middle of `realloc` (`EveryRangeOwned`), and
null means that there is no room (`NullMeansNoRoom`).

## 3. What is checked

| Run | Shows | Bounds |
|---|---|---|
| `unwind_deep` | chain, buffers, payloads, guards, refinement for one thread | 6 frames, 5 calls, 2 exceptions |
| `unwind_threads` | refinement and termination with two threads | 3 frames, 2 calls each |
| `atomics` | linearizability and termination of every operation, up to 8 bytes and 16 bytes with torn reads | 3 threads, 3 operations in all, two-bit values |
| `unit` | the C source of a unit is well formed, complete and written | 6 functions, 5 statics, 3 constants, at most 6 byte strings |
| `function_body` | blocks, labels, returns, declarations and arguments | 3 functions of up to 5, 2 and 1 blocks, one plain call |
| `numbers` | all operations on values; bytes of arguments, results and repeated elements | all operands of the scaled widths; 2 lanes; signatures of 2 arguments out of 20 and 17 results; 0 to 18 repetitions |
| `division` | the four division functions | all operands of 6 bits |
| `pipeline` | sources, objects, link and Makefile agree; runs end | 3 crates, 2 to 3 versions, 3 cargo runs, 1 fault, all LTO modes |
| `allocator` | refinement of the global allocator, ownership, null | 2 threads, 6 bytes, words of 2 bytes, 4 calls |
| `float_to_long`, `stale_source`, `cast_scratch` | findings, see section 6 | |

Why these bounds:

- *Unwinding.* Six frames hold the deepest interplay of the mechanisms: a
  function that invokes, panics and cleans up, a drop in that cleanup which uses
  `catch_unwind`, the closure, and a panic in it. Five calls let a frame's place
  be used twice, which stale contexts need. Threads share only the abort, so
  two shallow ones are enough to see a shared chain. `UnwindChain` is proved for
  every depth and any number of threads.
- *Atomics.* Three operations, of one, two or three threads, let a value change
  and change back between a load and its compare-and-swap. A torn read needs a
  reader and two writers, hence three threads; a tear shows with one bit per half.
- *Unit.* One of each: statics in a cycle and pointing to themselves, a constant
  three deep that points back, a static without pointers, an external and a weak
  one, an entry point, an internal function, a function that the preamble also
  declares, an `extern` one of the preamble, and an intrinsic with the C name of its
  fallback. The names of the preamble and of `declared_fns` are those of the code.
  `MaxBytes` is the number of copies of constants that this unit produces.
- *Function bodies.* Five blocks hold two invokes that share the cleanup block, or
  an invoke and a block of the backend's own. Three functions of different
  kinds, in all orders, let a block id be used by a function with more, as many
  and fewer blocks.
- *Numbers.* The widths are scaled and keep what the code tells apart: in
  `IntHelpers` each width is twice the one before (the helpers widen), in `BitOps`
  a byte is two bits (fields still move), in `IntOps` `int` is wider than the
  narrowest type (promotion) and narrower than the widest, in `FloatConv` the
  precisions lie between the integer widths as 24 and 53 lie between 16, 32 and
  64. `ScaleOK` states these relations and TLC evaluates them. `FullBits` is the
  width up to which a helper gets every operand and not only the edges,
  `EdgeLanes` the lanes that get edges only, `MaxExponent` bounds the exponents for
  which the powers of two are tabulated. The proofs leave all of these open.
- *Lanes.* Lanes are narrower than `int`, as wide, and wider; one lane takes every
  value, the other the edges, which shows a lane that depends on another.
- *Calls.* Arguments of every pass mode, with sizes that a C integer has and does
  not have; two arguments let the first one's parameters shift the second one's
  index. Repetitions lie on both sides of the limit of 16.
- *Pipeline.* Two libraries are built at the same time and write the Makefile
  concurrently, then the program of two units. Its versions change one unit, move
  a function from one unit to the other and drop a unit; a third run can go back to
  the first version, when reused objects and old sources meet. One fault is enough:
  faults do not repair each other.
- *Allocator.* Six bytes hold two blocks of which one can grow or not, depending
  on where they lie. Alignments are below and above the word. A
  `realloc` during which the other thread allocates and frees needs four calls, the
  one that allocated the block included. The proof covers any number.
- *Division.* Six bits take every path, and the proof covers all widths.

`CHECK_DEADLOCK FALSE` appears everywhere because the programs and the
translation really end; that they end as they should is what the liveness
properties and the "done" conditions say.

**Fairness.** `UnwindChain`: weak fairness of each thread's steps, the operating
system runs every thread. `AtomicLowering`: weak fairness of each thread's work
and strong fairness of its successful compare-and-swap, since hardware does not
let a compare-and-swap fail for ever when it could succeed again and again; the
loops are lock-free, not wait-free, and with bounded operations of the others a
thread meets a quiet moment. `CodegenUnit`: weak fairness of the one thread that
translates the unit. `Pipeline`: weak fairness of each rustc process, which is
scheduled and whose C compiler ends; cargo runs and faults are not fair.

## 4. What is proved

The theorems hold for every value of the constants under the named assumptions.

**`UnwindChain_proofs`** (any threads, any depth; `UnwindAssumption`). The
inductive invariant is
`TypeOK /\ StackShape /\ ChainIsGuardedFrames /\ JumpBufferIsCurrent /\ HandlersHoldThePayload`.
`StackShape` says that frames up to `sp` are alive and all but the top one are in
a call. The chain must be described at every depth and not just at its head,
because each pop trusts `ctx.prev` of a context linked long before; the buffers,
because `longjmp` goes where the head's buffer points. Each action falls into
one of ten shapes (enter plainly or guarded, return plainly or guarded, land,
unwind, ...) and has a lemma that it keeps the invariant of its thread; threads
touch only their own rows (`OtherThread`). From it: `TypeCorrect`, `ChainCorrect`,
`BuffersCorrect`, `PayloadsCorrect`, and the action properties `GuardsRespected`
and `TryTransparent`: `__rust_try` leaves by either door with the chain it found.
`PanicSemantics` is the refinement: under the mapping each emitted step is the
step of `RustUnwind` of the same name or changes nothing there. The interesting
case is a panic: that the chain's head is the innermost guarded call of the
abstract stack is `ChainIsGuardedFrames`.

**`AtomicLowering_proofs`** (any threads, values, requests and `Rmw`, narrow or
wide; `AtomicAssumption`, that `Rmw` stays within the values). The invariant adds
to `DesiredMatchesOld` the relation between a thread's place and its request
(`PlaceMatchesRequest`): a thread at a compare-and-swap has an operation that
loops. `Linearizable` shows that every step is a step of `AtomicCell` or
changes nothing there: the linearization point is the primitive or the
successful compare-and-swap. A torn read is harmless because the
compare-and-swap compares with it.

**`Int128Division_proofs`** (any width; `BitsAssumption`, `PowAssumption`, which
say that `Pow` is the table of powers of two). The invariant says that after the bits
above `i` have been read, `q` and `r` are quotient and remainder of what was read
(`PartialQuotient`), that the arguments are the magnitudes, and what holds before
and after the loop. From it: the shift loses no bit (`ShiftsLoseNothing`), the loop
divides (`LoopCorrect`), all four functions are right (`DivisionCorrect`).

**`Allocator_proofs`** (any heap, word, threads and layouts; `AllocatorAssumption`,
of which one part is about the code: an alignment divides the word's size or is
divided by it, as powers of two are). `EveryRangeOwned` says that the
allocations are apart and that each is the block or the new block of just one
thread. The invariant adds where a thread is in its call and which of its two
blocks it has there (`PlaceOf`), that allocations lie in the heap, and that from
the copy of a `realloc` until the old block is freed the common prefix is in both
(`CopiedOf`): other threads run in between, and only because ranges are apart do
their stores not reach it. From it: `NothingLost`, the action property
`NullIsHonest` (`NullMeansNoRoom`; here the alignment matters, a place good for the
request and for the word is one that `posix_memalign` may give), and the
refinement `KeepsRustsPromise`, with a block's bytes read out of the heap.

**`CodegenUnit_proofs`** (any unit: functions, statics and constants that refer to
each other in any way, in any order of items and references; `UnitAssumption`).
The invariant has parts for the stack of nodes being written (`Stack`), for what
the declaration maps say of each other (`Maps`), for the statics of the unit once
the first loop is over (`Statuses`), for every use in what is written and in what
is on the stack (`UsesInv`: its declaration comes before it), and for how far each
item is (`Progress`). The uses of unfinished frames must be in it, as a constant
is written only after all constants it refers to, with what its frame recorded
before. A last part is about linkage (`Linkages`): once the first loop is over,
`get_fn` finds every item in its cache and its C name declared, so a declaration
without `static` is never written for the name of an item. The theorems
`NamesAreDeclared`, `DeclarationsFit`, `LinkageFits` and `SymbolsAreExact` hold for
units whose own functions, and whose own statics, have C names of their own
(`DistinctNames`; `a.b` and `a_b` of section 6 are the other case). A function of
another unit may have the C name of an item, as an intrinsic has that of its fallback. TLC
evaluates the hypothesis on the instance (`MCNamesAssumption`).

**`FunctionBody_proofs`** (any functions, kinds, numbers of blocks and parameters;
`BoundAssumption`). `block_to_function` is never cleared, so at any moment most of
it is wrong. The invariant says what makes it right where it is read: every block
id that the current function has appended is registered for it, since ids count
from zero in each function and appending registers. Besides: blocks are complete
except for those a builder holds or that codegen_ssa still has on its list; the
label of a block is its number and every jump goes to a number given out; what
statements, declarations and headers a function of each kind has. From it:
`StatementsStayHome`, `LabelsResolve`, `BlocksEnd`, `LocalsAreDeclared`,
`ArgumentsFit`, and `ReturnsFit` where tail calls name their callee (otherwise
see section 6).

**`Pipeline_proofs`** (any workspace, versions, LTO modes, runs, faults and
interleavings; `PipelineAssumption`: `Deps` is transitive, as rustc links indirect
dependencies too, a unit has its crate's name in its own, and different units have
different files). The invariant is a part for each crate (`Local`) and three
that relate crates. For a crate: its objects and modules together are its
code, a module's place says whether it is compiled, an object that no module
stands for is that of the last incremental session, and both that session's
cache and a built crate's objects have their source in `csources/` unless the
file is suspect. Between crates: a crate is being built or built only if all it
links are built (`DepsFirst`), and the program that links all others is the last
to write the Makefile (`MakefileHeld`). The cache must be in the invariant
because a reused object's file was written two or more runs ago; `DepsFirst`
because it is what keeps two processes off the Makefile when it matters. A step
of one process leaves the parts of the others alone (`LocalKept`), since units,
and so files, of different crates differ. What LTO does is a set of lemmas: in
every mode, and in every order in which the units finish, the modules have all
of the code (`LtoKeeps`). From it: `LinkIsFresh` (`LinkedIsCurrent`),
`SourcesAreFresh` (`SourcesMatchObjects`), and `MakeBuilds` (`MakeMatchesLink`), the
last for workspaces where one program links all crates, make lists all files
and no two definitions share a name unless it is local to its file (`OneProgram`,
`AllListed`, `Linkable`; without them make cannot build the program whatever the
backend does). TLC evaluates these hypotheses on the instance.

**`Numbers_proofs`** (all widths, any number of lanes, all operands;
`ScalesAreFaithful`, `HelperCallsAreKnown`, and `PowersOfTwo`, that `2^(n + 1)` is twice
`2^n`, which the provers do not know of `^`). A behaviour is a call that is
evaluated, so the inductive invariants are short: a call of the family, and `out`
is not yet there or is what the emitted expression gives (`OpsInv`, `VectorsInv`,
`HelpersInv`). That such a value is the right one is the work, and is in the
lemmas, in four layers:

- *Powers and remainders.* An exponent at a time: `UpTo` says that what 0 has and
  every number passes on to the next all have, since there is no least exception
  (`WellFoundedInduction`). From it come the laws of `2^n`, and that reducing
  modulo a power of two goes through sums, differences and products.
- *Bits.* A number is the sum of its bits, and what `FromBits` builds has the bits
  it was built from, again an exponent at a time. So C's bit operations are right on
  patterns and, by sign extension, on negative numbers.
- *C.* A conversion keeps the pattern, promotion and the common type keep the
  number, an unsigned operation wraps, a signed one that stays in its type is
  exact, a shift is a multiplication or a division.
- *The code.* Each emitted expression by these laws. For `IntOps` this is where the
  builder's casts are needed: without the cast to unsigned of `lshr` or of `icmp` the
  lemma fails as the mutants do.

`OperatorsAlwaysExact` and `VectorsAlwaysExact` need no more.
`OverflowAlwaysExact` has one argument for each way in which the preamble finds an
overflow: in the double width, where the exact result fits; by comparing the
wrapped sum or difference with an operand (unsigned, widest); by the sign bits of
operands and result (signed, widest); by dividing the wrapped product back. The
saturating operations choose the bound by these tests, and the chosen bound is the
nearest number. The multiplication with carry is exact in the double width or, for
the widest type, by four products of halves whose carries are accounted for one
by one. It holds where no call is in `Deviating`, the four signed 128-bit helpers
of section 6 that the code gets wrong; TLC's instance satisfies the hypothesis.

`MovesAlwaysExact` is about single bits. The two shifts of a rotation or funnel shift
are of one type, the promoted one, and the cast keeps the lower bits of their `|`
(`OrOfShifts`): bit `j` of the result is bit `j - s` of one word or bit `j + k` of the
other (`MergedBits`). A rotation has `s + k` a multiple of the width, so exactly one
of the two exists, or both are the same bit. For a funnel shift the same bits are
those of the upper word (`UpperWord`, `UpperBits`), and numbers with equal bits are
equal (`BitsOnce`). Each round of `codegen_bitreverse` moves the bits up by one and
puts the next bit behind them (`RoundBit`), so after `i` rounds the lowest `i` bits
are there, mirrored. The hypotheses exclude a funnel shift by 0 and the ones to the
right, which section 6 lists; TLC's instance satisfies them.

`BytesAlwaysArrive` and `StoresAlwaysInside` are about the family of calls: TLC takes
two arguments of every mode, the theorems any number of them, and any layouts.
Their hypotheses are `SignatureOK` of every signature and `RepeatOK` of every repeat
expression, which say what rustc and its targets guarantee (a scalar has one of C's
sizes, a pair has its second scalar where LLVM puts it, the mode goes with the
layout) and leave out what section 6 lists: casts whose C type does not have the
cast's size, and memset with an aggregate of one byte. TLC evaluates both on the
calls of its instance (`MCCallsArePassable`). The invariant `CallsInv` says that `out`
is the result of a call of the constants; the argument is in the lemmas:

- *Sizes.* C's struct of a pair has its fields where the Rust layout has them and is
  no larger; every other C type has the size of the layout.
- *Memory.* A store of `w` bytes at `off` changes these bytes only, so a place stays
  guarded if `off + w` is inside; a value that `Carries` the bytes of an object keeps
  them through the conversions on its way (`from_immediate`, `insert_value`,
  `extract_value`, the coercions of a call).
- *Numbering.* Caller and callee count parameters on their own: the caller
  concatenates, the callee adds up what each argument uses. Both agree with the
  sums of the lengths before an argument (`Numbered`, by induction over the arguments
  with `UpTo`), and since arguments do not share a parameter, `on_stack_params` has
  the number of exactly the by-value ones. So what `get_param` gives is what was
  passed for this argument (`ParameterTaken`).
- *Repetition.* After `n` stores the first `n` elements are in place; a copy of the
  first element reads `i % size`, which is the byte's place in its element.

## 5. What is only model-checked

- Liveness (`UnwindingEnds`, `OperationsEnd`, `TranslationEnds`, `RunsEnd`): fairness is
  beyond the proof system.
- The part of `BitsExact` about `BitOps`: counting zeros and ones and swapping bytes
  work by halving, on fields whose number depends on the width. What each width does
  is a fixed computation, which TLC runs for every operand. (Its other part,
  `MovesExact`, is proved.)
- `FloatsExact`: rounding is the choice of a nearest number, and the widths of floats
  and integers in `Numbers` are fixed next to each other.

## 6. Findings

1. `float_to_long`: the bound of a float-to-64-bit conversion rounds up out of the
   type (`src/builder.rs:1253`).
2. `stale_source`: `csources/` keeps the files of units that no longer exist, the
   Makefile compiles them, and with `--allow-multiple-definition` the first
   definition wins (`src/write.rs:252`). The README's two commands, `cargo build` and
   `make build`, then build another program after a change of the code.
3. `cast_scratch`: an argument or result of 12 bytes in three registers (three
   `f32` on AArch64) is a 128-bit integer in C and is stored into a buffer of 12
   bytes (`src/builder.rs:2405`).

Further deviations without a run of their own. The passing runs leave all but the
last two out by their constants; changing the constant shows them:

| Deviation | Source | Constant |
|---|---|---|
| two functions exported as `a.b` and `a_b` become one C function: the second replaces the first and gets both bodies | `src/context.rs:93` | `CName` equal for two functions of `Items`: `ExactSymbols` |
| a tail call through a function pointer returns nothing | `src/builder.rs:2312` | `NamedTailCalls = {FALSE}`: `ReturnsMatch` |
| saturating arithmetic of `i128` ends at 0 | `src/intrinsic.rs:737` | `HelperCalls` with `saturating_add` of `i128`: `OverflowExact` |
| a cast without prefix of more than 16 bytes is cut to 16 | `src/type_of.rs:184` | `Signatures` with such a cast: `BytesArrive` |
| `[[x; 1]; n]` of more than 16 one-byte arrays asks an aggregate for its immediate | `src/builder.rs:1044` | `Repeats` with an aggregate of one byte: `BytesArrive` |
| `__rustc_mul_overflow_i128(-1, MIN)` divides `MIN` by `-1` | `src/c/preamble.c:197` | `HelperCalls` with `checked_mul` of `i128` |
| `carrying_mul_add` treats `i128` as unsigned | `src/intrinsic.rs:1204` | `HelperCalls` with it |
| a funnel shift by 0 shifts by the full width | `src/intrinsic.rs:822` | `MinFunnelShift = 0` |
| `funnel_shr` takes its operands the other way round | `src/intrinsic.rs:824` | `HelperCalls` with `funnel_shr` |
| float to 128-bit integers is a plain cast | `src/builder.rs:1264` | `DestWidths` with the greatest width |
| two units with a struct of one name, even the same struct, do not compile under fat LTO: C11 has no benign redefinition of a struct, and every unit numbers its structs from `_S0`; a comment says that compilers accept it | `src/lib.rs:385`, `src/types.rs:159` | in the instance: the session fails (`Compiles`), and `RunsEnd` and `LinkedIsCurrent` hold of it |
| `memcmp` is declared by the preamble but not entered in `declared_fns`, so a unit that refers to it declares it again, with Rust's types, which C rejects; a comment says that the list prevents this | `src/module.rs:242`, `src/c/preamble.c:13` | in the instance: `compare` gets a declaration of its own; types of functions are not modelled |

## 7. What is not modelled

- **C printer, debug info, coverage, inline assembly, native stubs**: formatting,
  no-ops and verbatim copies, without state.
- **SIMD**: intrinsics that the backend does not translate become zeros
  (`src/intrinsic.rs:307`), float lanes are cast without saturation, and indices of
  a shuffle that are no constant vector count as the identity; `VectorOps` has the
  translated ones on integers.
- **Casts with an offset between their registers** (RISC-V, LoongArch), by-value
  parameters that are no aggregates, variadic calls.
- **Pipeline**: the serialized inputs of fat LTO (they come with incremental
  sessions, which exclude it), rlibs given to LTO (ignored by the code), two
  programs in one target directory (they share `csources/` and the Makefile, of which
  the last one stays), a change of profile between runs. Fat LTO skips the second
  preamble by its `#ifndef`.
- **Fences, weak memory**: all orderings are lowered to sequential consistency; a
  fence orders several objects, the model has one. Read-only pages (the 16-byte
  load writes) and libatomic's lock fallback are outside the model.
- **Locals between `setjmp` and `longjmp`**: what is kept in registers is the C
  compiler's decision.
- **Interning of types, address computations, float arithmetic**: statements and
  ids without control; `FunctionBody` does not tell them apart.
- **The Windows branch** of `c/aligned_alloc.c`: the same calls under other names.

## 8. Plan

1. `TypeStore`, if the order of struct definitions ever stops following from the
   order of interning: a struct is defined after the structs it contains, once.
2. Fences over two objects, with an abstract store-buffer memory.
