------------------------------ MODULE Pipeline ------------------------------
(***************************************************************************)
(* From codegen units to programs: the rustc processes of a cargo run, the *)
(* LTO hooks of lib.rs, the workers that call write::codegen, the link,    *)
(* and the two artifacts users build from afterwards, csources/ and the    *)
(* Makefile, which all processes and all later cargo runs share.           *)
(*                                                                         *)
(* A definition is a record [name, body]; a C source is a set of them, so  *)
(* a truncated file is {}.  A text is what one C file is compiled from: a  *)
(* sequence of sources, of more than one only under fat LTO.  Temporary .c *)
(* and .o files have names of their own in every process and are seen by   *)
(* nobody else, so writing and compiling them is one step.                 *)
(***************************************************************************)
EXTENDS Naturals, Sequences, FiniteSets

CONSTANTS Crates,         \* crates of the workspace
          Programs,       \* those with a main, which link the others
          Deps,           \* Deps[c]: the crates c links
          Code,           \* Code[c][v]: version v of c, a function from units to sources
          Modes,          \* LTO settings in use, a subset of {"no", "thin", "fat"}
          SafeName,       \* SafeName[u]: the file of unit u in csources/
          Listing,        \* the files of csources/ in the order of make's wildcard
          FileLocal,      \* names that are local to a C file (struct tags, byte strings)
          Stubs,          \* the source native_stubs::generate() returns
          StubsFile,      \* native_stubs.c
          MakefileBlocks, \* MakefileBlocks[c]: length of the Makefile c's link writes
          MaxRuns,        \* bound: cargo runs
          MaxFaults       \* bound: failed writes, failed compilations, killed runs

(* rustc links a crate with all that it needs, also indirectly, and names  *)
(* a unit after its crate.                                                 *)
ASSUME PipelineAssumption ==
  /\ Programs \subseteq Crates
  /\ Deps \in [Crates -> SUBSET Crates]
  /\ \A c \in Crates : \A d \in Deps[c] : Deps[d] \subseteq Deps[c]
  /\ Modes \subseteq {"no", "thin", "fat"}
  /\ \A u, w \in DOMAIN SafeName : SafeName[u] = SafeName[w] => u = w
  /\ \A u \in DOMAIN SafeName : SafeName[u] \notin {StubsFile, "Makefile"}
  /\ StubsFile # "Makefile"
  /\ \A c \in Crates : 1 \in DOMAIN Code[c]
  /\ \A c \in Crates : \A v \in DOMAIN Code[c] :
       DOMAIN Code[c][v] \subseteq DOMAIN SafeName /\ IsFiniteSet(DOMAIN Code[c][v])
  /\ \A c, d \in Crates : \A v \in DOMAIN Code[c], w \in DOMAIN Code[d] :
       c # d => DOMAIN Code[c][v] \cap DOMAIN Code[d][w] = {}
  /\ \A c \in Crates : MakefileBlocks[c] \in Nat
  /\ MaxRuns \in Nat \ {0} /\ MaxFaults \in Nat

(* What the linker of a crate must export so that the images of a process  *)
(* share one unwind chain.                                                 *)
UnwindSymbols == {"__rustc_unwind_chain", "_Unwind_RaiseException", "__rust_try"}

VARIABLES profile,    \* [lto, incremental]: settings of the workspace
          run,        \* cargo runs begun
          version,    \* version[c]: the code of c in this run
          phase,      \* phase[c]: where c's rustc process is
          modules,    \* modules[c]: name -> text, what write::codegen is called for
          place,      \* place[c]: name -> how far write::codegen is with it
          objects,    \* objects[c]: name -> source its object file was compiled from
          cache,      \* cache[c]: the objects of the last incremental session
          linked,     \* linked[c]: the code and the exports of c's last link
          csources,   \* file -> content
          makefile,   \* the Makefile: a sequence of blocks, each by its writer
          suspect,    \* history: files whose last writer failed, or has not succeeded yet
          faults      \* faults so far

vars == <<profile, run, version, phase, modules, place, objects, cache, linked,
          csources, makefile, suspect, faults>>

artifacts == <<csources, makefile, suspect>>
session == <<modules, objects, cache, linked>>

(*   waiting   cargo has not started rustc yet                             *)
(*   building  workers run write::codegen                                  *)
(*   aborting  a worker has panicked, the others finish their module       *)
(*   truncated emit_final_makefile has opened the Makefile                 *)
(*   stubs     the Makefile is written (or not), native_stubs.c follows    *)
(*   linking   link_binary follows                                         *)
(*   ended, failed                                                         *)
Phases == {"waiting", "building", "aborting", "truncated", "stubs", "linking", "ended", "failed"}
Places == {"queued", "compiled", "opened", "written", "ignored", "panicked"}

Empty == [x \in {} |-> {}]
Put(f, k, v) == [x \in DOMAIN f \cup {k} |-> IF x = k THEN v ELSE f[x]]
Orders(S) == {s \in [1 .. Cardinality(S) -> S] : \A i, j \in DOMAIN s : s[i] = s[j] => i = j}
Units(c) == Code[c][version[c]]
Closure(c) == {c} \cup Deps[c]

(* prepare_thin serializes a module, with its name. *)
PrepareThin(m) == <<m.name, m.source>>

(* run_thin_lto keeps names and buffers in two lists of one order. *)
RunThinLto(s) == [module_names |-> [i \in DOMAIN s |-> s[i][1]],
                  thin_buffers |-> [i \in DOMAIN s |-> s[i][2]]]

(* Mutant: the first buffer, whatever the index. *)
OptimizeThinFirst(shared, idx) ==
  [name |-> shared.module_names[idx], source |-> shared.thin_buffers[1]]

(* optimize_thin rebuilds module number idx. *)
OptimizeThin(shared, idx) ==
  [name |-> shared.module_names[idx], source |-> shared.thin_buffers[idx]]

AsFunction(S) == [n \in {m.name : m \in S} |-> << (CHOOSE m \in S : m.name = n).source >>]

ThinLto(s) ==
  LET shared == RunThinLto([i \in DOMAIN s |-> PrepareThin(s[i])])
  IN  AsFunction({OptimizeThin(shared, i) : i \in DOMAIN s})

(* run_and_optimize_fat_lto: the sources are joined under the name of the  *)
(* first module.  Serialized inputs come from incremental sessions, which  *)
(* rustc refuses together with fat LTO.                                    *)
FatLto(s) ==
  [n \in {s[1].name} |-> [i \in DOMAIN s |-> s[i].source]]

(* The modules write::codegen is called for, the units having finished     *)
(* their translation in the order of s.                                    *)
Lto(mode, s) ==
  CASE mode = "fat" -> FatLto(s)
    [] mode = "thin" -> ThinLto(s)
    [] mode = "no" -> AsFunction({s[i] : i \in DOMAIN s})

Contents(text) == UNION {text[i] : i \in DOMAIN text}

(* The C compiler, with -std=c11, rejects a file that defines a name       *)
(* twice, be it in the same way.                                           *)
Compiles(text) ==
  \A i, j \in DOMAIN text : \A d \in text[i], e \in text[j] :
    d.name = e.name => i = j /\ d = e

(* Incremental compilation and fat LTO exclude each other. *)
Init ==
  /\ profile \in [lto : Modes, incremental : BOOLEAN]
  /\ profile.lto = "fat" => ~profile.incremental
  /\ run = 1
  /\ version = [c \in Crates |-> 1]
  /\ phase = [c \in Crates |-> "waiting"]
  /\ modules = [c \in Crates |-> Empty]
  /\ place = [c \in Crates |-> Empty]
  /\ objects = [c \in Crates |-> Empty]
  /\ cache = [c \in Crates |-> Empty]
  /\ linked = [c \in Crates |-> [code |-> {}, exports |-> {}]]
  /\ csources = Empty
  /\ makefile = <<>>
  /\ suspect = {}
  /\ faults = 0

-----------------------------------------------------------------------------
(* cargo and the coordinator of rustc_codegen_ssa (external)               *)

Active(c) == phase[c] \notin {"waiting", "ended", "failed"}
Blocked(c) == \E d \in Deps[c] : phase[d] # "ended"

Over == \A c \in Crates : ~Active(c) /\ (phase[c] = "waiting" => Blocked(c))

(* Fat LTO is for programs only. *)
Mode(c) == IF profile.lto = "fat" /\ c \notin Programs THEN "no" ELSE profile.lto

(* A crate is built after the ones it links.  Units whose source is that   *)
(* of the last incremental session keep their object and are not           *)
(* translated again; the others are, in any order.                         *)
Start(c) ==
  /\ phase[c] = "waiting" /\ ~Blocked(c)
  /\ LET reused == {u \in DOMAIN Units(c) :
                      /\ profile.incremental
                      /\ u \in DOMAIN cache[c] /\ cache[c][u] = Units(c)[u]}
         todo == {[name |-> u, source |-> Units(c)[u]] : u \in DOMAIN Units(c) \ reused}
     IN  \E s \in Orders(todo) :
           LET work == IF todo = {} THEN Empty ELSE Lto(Mode(c), s) IN
           /\ modules' = [modules EXCEPT ![c] = work]
           /\ place' = [place EXCEPT ![c] = [n \in DOMAIN work |-> "queued"]]
           /\ objects' = [objects EXCEPT ![c] = [u \in reused |-> cache[c][u]]]
  /\ phase' = [phase EXCEPT ![c] = "building"]
  /\ UNCHANGED <<profile, run, version, cache, linked, artifacts, faults>>

(* The user edits the code, or restores an earlier version, and runs cargo *)
(* again: it rebuilds what changed, what failed and what links those.      *)
CargoBuild ==
  /\ Over
  /\ run < MaxRuns
  /\ run' = run + 1
  /\ version' \in {f \in [Crates -> UNION {DOMAIN Code[c] : c \in Crates}] :
                    \A c \in Crates : f[c] \in DOMAIN Code[c]}
  /\ LET changed == {c \in Crates : version'[c] # version[c] \/ phase[c] # "ended"}
     IN  phase' = [c \in Crates |-> IF Closure(c) \cap changed # {} THEN "waiting" ELSE phase[c]]
  /\ UNCHANGED <<profile, session, place, artifacts, faults>>

(* The run is killed: no process gets to finish its session. *)
Interrupt ==
  /\ \E c \in Crates : Active(c)
  /\ faults < MaxFaults
  /\ faults' = faults + 1
  /\ phase' = [c \in Crates |-> IF phase[c] = "ended" THEN "ended" ELSE "failed"]
  /\ UNCHANGED <<profile, run, version, session, place, artifacts>>

-----------------------------------------------------------------------------
(* write::codegen, once for each module, by parallel workers               *)

Move(c, m, p, q) ==
  /\ m \in DOMAIN place[c] /\ place[c][m] = p
  /\ place' = [place EXCEPT ![c][m] = q]

(* The C compiler turns the temporary file into an object file. *)
Compile(c, m) ==
  /\ phase[c] = "building"
  /\ Move(c, m, "queued", "compiled")
  /\ Compiles(modules[c][m])
  /\ objects' = [objects EXCEPT ![c] = Put(@, m, Contents(modules[c][m]))]
  /\ UNCHANGED <<profile, run, version, phase, modules, cache, linked, artifacts, faults>>

(* Mutant: the coordinator does not hear of the panic. *)
CompileFailsUnnoticed(c, m) ==
  /\ phase[c] = "building"
  /\ Move(c, m, "queued", "panicked")
  /\ \/ ~Compiles(modules[c][m]) /\ UNCHANGED faults
     \/ faults < MaxFaults /\ faults' = faults + 1
  /\ UNCHANGED <<profile, run, version, phase, session, artifacts>>

(* The source does not compile, or writing it or running the compiler      *)
(* fails: the worker panics.                                               *)
CompileFails(c, m) ==
  /\ phase[c] = "building"
  /\ Move(c, m, "queued", "panicked")
  /\ \/ ~Compiles(modules[c][m]) /\ UNCHANGED faults
     \/ faults < MaxFaults /\ faults' = faults + 1
  /\ phase' = [phase EXCEPT ![c] = "aborting"]
  /\ UNCHANGED <<profile, run, version, session, artifacts>>

(* Mutant: a file that is already there is not written again. *)
OpenCsourceOnce(c, m) ==
  /\ phase[c] \in {"building", "aborting"}
  /\ \/ /\ SafeName[m] \in DOMAIN csources
        /\ Move(c, m, "compiled", "written")
        /\ UNCHANGED csources
     \/ /\ SafeName[m] \notin DOMAIN csources
        /\ Move(c, m, "compiled", "opened")
        /\ csources' = Put(csources, SafeName[m], {})
  /\ suspect' = suspect \cup {SafeName[m]}
  /\ UNCHANGED <<profile, run, version, phase, session, makefile, faults>>

(* emit_csource_artifact: create_dir_all, then fs::write opens the file    *)
(* and truncates it ...                                                    *)
OpenCsource(c, m) ==
  /\ phase[c] \in {"building", "aborting"}
  /\ Move(c, m, "compiled", "opened")
  /\ csources' = Put(csources, SafeName[m], {})
  /\ suspect' = suspect \cup {SafeName[m]}
  /\ UNCHANGED <<profile, run, version, phase, session, makefile, faults>>

(* ... and writes it.  The worker returns its CompiledModule. *)
WriteCsource(c, m) ==
  /\ phase[c] \in {"building", "aborting"}
  /\ Move(c, m, "opened", "written")
  /\ csources' = Put(csources, SafeName[m], Contents(modules[c][m]))
  /\ UNCHANGED <<profile, run, version, phase, session, makefile, suspect, faults>>

(* The directory cannot be made, the file not opened or not written: the   *)
(* result is dropped (`let _ =`) and the worker goes on as if it was.      *)
CsourceIgnored(c, m) ==
  /\ phase[c] \in {"building", "aborting"}
  /\ \E p \in {"compiled", "opened"} : Move(c, m, p, "ignored")
  /\ faults < MaxFaults
  /\ faults' = faults + 1
  /\ suspect' = suspect \cup {SafeName[m]}
  /\ UNCHANGED <<profile, run, version, phase, session, csources, makefile>>

(* The coordinator gives up once the workers that were running are done. *)
Abort(c) ==
  /\ phase[c] = "aborting"
  /\ \A m \in DOMAIN place[c] : place[c][m] \notin {"compiled", "opened"}
  /\ phase' = [phase EXCEPT ![c] = "failed"]
  /\ UNCHANGED <<profile, run, version, session, place, artifacts, faults>>

-----------------------------------------------------------------------------
(* CodegenBackend::link, once every module is compiled                     *)

(* OngoingCodegen::join has returned. *)
Joined(c) ==
  phase[c] = "building" /\ \A m \in DOMAIN place[c] : place[c][m] \in {"written", "ignored"}

MakefileOf(c) == [i \in 1 .. MakefileBlocks[c] |-> c]

(* A write at offset 0 leaves what was beyond its end. *)
Overlay(new, file) ==
  [i \in 1 .. (IF Len(new) > Len(file) THEN Len(new) ELSE Len(file)) |->
     IF i <= Len(new) THEN new[i] ELSE file[i]]

(* Mutant: the Makefile is opened without O_TRUNC. *)
OpenMakefileKeeps(c) ==
  /\ Joined(c)
  /\ phase' = [phase EXCEPT ![c] = "truncated"]
  /\ suspect' = suspect \cup {"Makefile"}
  /\ UNCHANGED <<profile, run, version, session, place, csources, makefile, faults>>

(* emit_final_makefile, in every crate's link: fs::write truncates the     *)
(* Makefile ...                                                            *)
OpenMakefile(c) ==
  /\ Joined(c)
  /\ phase' = [phase EXCEPT ![c] = "truncated"]
  /\ makefile' = <<>>
  /\ suspect' = suspect \cup {"Makefile"}
  /\ UNCHANGED <<profile, run, version, session, place, csources, faults>>

(* ... and writes it. *)
WriteMakefile(c) ==
  /\ phase[c] = "truncated"
  /\ phase' = [phase EXCEPT ![c] = "stubs"]
  /\ makefile' = Overlay(MakefileOf(c), makefile)
  /\ suspect' = suspect \ {"Makefile"}
  /\ UNCHANGED <<profile, run, version, session, place, csources, faults>>

(* Or the Makefile could not be opened or not be written, and the result   *)
(* is dropped.                                                             *)
MakefileIgnored(c) ==
  /\ Joined(c) \/ phase[c] = "truncated"
  /\ faults < MaxFaults
  /\ faults' = faults + 1
  /\ phase' = [phase EXCEPT ![c] = "stubs"]
  /\ suspect' = suspect \cup {"Makefile"}
  /\ UNCHANGED <<profile, run, version, session, place, csources, makefile>>

(* The end of emit_final_makefile: native_stubs.c, the same text from      *)
(* every crate, so that it is truncated for a moment matters to nobody.    *)
WriteStubs(c) ==
  /\ phase[c] = "stubs"
  /\ phase' = [phase EXCEPT ![c] = "linking"]
  /\ csources' = Put(csources, StubsFile, Stubs)
  /\ suspect' = suspect \ {StubsFile}
  /\ UNCHANGED <<profile, run, version, session, place, makefile, faults>>

StubsIgnored(c) ==
  /\ phase[c] = "stubs"
  /\ faults < MaxFaults
  /\ faults' = faults + 1
  /\ phase' = [phase EXCEPT ![c] = "linking"]
  /\ csources' \in {csources, Put(csources, StubsFile, {})}
  /\ suspect' = suspect \cup {StubsFile}
  /\ UNCHANGED <<profile, run, version, session, place, makefile>>

(* The exports and link_binary.  The session is over: what it wrote is     *)
(* good, and an incremental one keeps its objects.                         *)
Link(c) ==
  /\ phase[c] = "linking"
  /\ phase' = [phase EXCEPT ![c] = "ended"]
  /\ linked' = [linked EXCEPT ![c] =
       [code |-> (UNION {objects[c][m] : m \in DOMAIN objects[c]})
                   \cup UNION {linked[d].code : d \in Deps[c]},
        exports |-> UnwindSymbols]]
  /\ cache' = IF profile.incremental THEN [cache EXCEPT ![c] = objects[c]] ELSE cache
  /\ suspect' = suspect \ {SafeName[m] : m \in {n \in DOMAIN place[c] : place[c][n] = "written"}}
  /\ UNCHANGED <<profile, run, version, modules, place, objects, csources, makefile, faults>>

(* A step of c's rustc process. *)
Step(c) ==
  \/ Start(c) \/ Abort(c)
  \/ OpenMakefile(c) \/ WriteMakefile(c) \/ MakefileIgnored(c)
  \/ WriteStubs(c) \/ StubsIgnored(c) \/ Link(c)
  \/ \E m \in DOMAIN place[c] :
       \/ Compile(c, m) \/ CompileFails(c, m)
       \/ OpenCsource(c, m) \/ WriteCsource(c, m) \/ CsourceIgnored(c, m)

Next == CargoBuild \/ Interrupt \/ \E c \in Crates : Step(c)

Spec == Init /\ [][Next]_vars

(* cargo starts what it can, and the processes are scheduled. *)
FairSpec == Spec /\ \A c \in Crates : WF_vars(Step(c))

-----------------------------------------------------------------------------
TypeOK ==
  /\ profile \in [lto : Modes, incremental : BOOLEAN]
  /\ run \in 1 .. MaxRuns
  /\ \A c \in Crates :
       /\ version[c] \in DOMAIN Code[c]
       /\ phase[c] \in Phases
       /\ DOMAIN place[c] = DOMAIN modules[c]
       /\ \A m \in DOMAIN place[c] : place[c][m] \in Places
  /\ makefile \in Seq(Crates)
  /\ suspect \subseteq DOMAIN csources \cup {StubsFile, "Makefile"} \cup {SafeName[u] : u \in DOMAIN SafeName}
  /\ faults \in 0 .. MaxFaults

(* When a crate has been built, csources/ holds the very source each of    *)
(* its objects was compiled from, also for objects that were not compiled  *)
(* again; unless writing the file failed, or the last session that wrote   *)
(* it did not succeed.                                                     *)
SourcesMatchObjects ==
  \A c \in Crates : phase[c] = "ended" =>
    \A m \in DOMAIN objects[c] :
      \/ SafeName[m] \in suspect
      \/ SafeName[m] \in DOMAIN csources /\ csources[SafeName[m]] = objects[c][m]

(* What rustc links is the current code of the crate and of the crates it  *)
(* uses, all of it, in every LTO mode and with every reuse of old objects. *)
LinkedIsCurrent ==
  \A c \in Crates : phase[c] = "ended" =>
    linked[c].code = UNION {UNION {Units(d)[u] : u \in DOMAIN Units(d)} : d \in Closure(c)}

(* A cargo run ends, also when workers panic or the run is killed: no      *)
(* process waits for a module that is not coming.                          *)
RunsEnd == [](~Over => <>Over)

(* `make build`: the objects are linked in the order of the listing, and   *)
(* the first definition of a symbol is taken.  It gives program p.         *)
Makes(p) ==
  /\ makefile = MakefileOf(p)
  /\ \A d \in linked[p].code \cup Stubs : d.name \notin FileLocal =>
       \E i \in DOMAIN Listing :
         /\ Listing[i] \in DOMAIN csources /\ d \in csources[Listing[i]]
         /\ \A j \in 1 .. i - 1 : Listing[j] \in DOMAIN csources =>
              \A e \in csources[Listing[j]] : e.name # d.name

(* When make can build the program at all: one program links all crates,   *)
(* the listing has every file, and no two definitions of any versions of   *)
(* the crates have the same name but those local to a file.                *)
OneProgram == \E p \in Programs : Closure(p) = Crates
AllListed ==
  /\ Listing \in Seq({SafeName[u] : u \in DOMAIN SafeName} \cup {StubsFile})
  /\ \A f \in {SafeName[u] : u \in DOMAIN SafeName} \cup {StubsFile} :
       \E i \in 1 .. Len(Listing) : Listing[i] = f
SourceOf(c, v) == UNION {Code[c][v][u] : u \in DOMAIN Code[c][v]}
Linkable ==
  \A c, d \in Crates : \A v \in DOMAIN Code[c], w \in DOMAIN Code[d] : (c = d => v = w) =>
    \A x \in SourceOf(c, v) \cup Stubs, y \in SourceOf(d, w) \cup Stubs :
      x.name = y.name /\ x.name \notin FileLocal => x = y

AllEnded == \A c \in Crates : phase[c] = "ended"
Leftover == DOMAIN csources \ ({StubsFile} \cup
  UNION {{SafeName[m] : m \in DOMAIN objects[c]} : c \in Crates})

(* After a cargo run the Makefile and csources/ build the program that     *)
(* rustc linked, however the processes interleaved, if no write failed and *)
(* no file of an earlier run's units is left over.                         *)
MakeMatchesLink ==
  AllEnded /\ suspect = {} /\ Leftover = {} => \E p \in Programs : Makes(p)

(* README.md, "Build your Rust program from C sources": after cargo build, *)
(* make build builds the program.                                          *)
MakeBuildsTheProgram ==
  AllEnded /\ suspect = {} => \E p \in Programs : Makes(p)
=============================================================================
