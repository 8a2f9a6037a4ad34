---------------------------- MODULE ObjectCompiler ----------------------------
(***************************************************************************)
(* Compilation of one module to an archive, assembly, LLVM IR or a shared   *)
(* object (ObjectCompiler.cpp).  Each invocation of mojo makes one compiler  *)
(* and asks it once; the transform cache on disk is what invocations share. *)
(*                                                                         *)
(* emitArchive splits the LLVM module into pieces that tasks of the work    *)
(* queue optimise, rid of functions another piece has already taken         *)
(* (seenCodeGenFns, under dedupMutex) and hand to code generation, one unit *)
(* per piece or one per function.  When all are there they are linked.      *)
(* Anything that can fail fails at most MaxFaults times.                    *)
(***************************************************************************)
EXTENDS LinkLine, FiniteSets

CONSTANTS
  Fns,             \* functions the module defines
  Exported,        \* those with external linkage and default visibility
  LibFns,          \* functions of the bitcode libraries the module declares
  Reach,           \* [Fns \cup LibFns -> SUBSET (Fns \cup LibFns)]: what code needs
  Options,         \* what one invocation asks for
  Config,          \* the installation, see LinkLine
  Defines,         \* [library -> names it defines]
  MaxInvocations, MaxFaults

Symbols == Fns \cup LibFns
Outputs == {"executable", "run", "sharedLibrary", "assembly", "sharedObject", "llvm", "llvmOpt"}

ASSUME CompilerAssumption ==
  /\ Exported \subseteq Fns /\ Exported # {} /\ Fns \cap LibFns = {}
  /\ Reach \in [Symbols -> SUBSET Symbols]
  /\ \A r \in Options : r.out \in Outputs /\ r.saveTemps \in BOOLEAN
  /\ MaxInvocations \in Nat /\ MaxFaults \in Nat

VARIABLES
  cache,     \* transform cache: set of [key, val]
  o,         \* options of this invocation
  pc,        \* where the caller of the compiler is
  mod,       \* the LLVM module: [defs, marked]
  erases,    \* how often the MLIR module was erased
  seen,      \* seenCodeGenFns
  task,      \* task of each piece, by the piece's root
  linked,    \* archive the pieces were linked into
  temp,      \* assembly saved for saveTempsPrefix
  result,    \* what the invocation got
  undefined, \* the value of a failed unit was used
  faults, count

compilerVars == <<cache, o, pc, mod, erases, seen, task, linked, temp, result, undefined, faults, count>>

NoRequest == [out |-> None]
NoAnswer == [ok |-> FALSE, kind |-> "pending"]
Error == [ok |-> FALSE, kind |-> "error"]
NoModule == [defs |-> {}, marked |-> {}]
whole == CHOOSE f \in Exported : TRUE

isJIT == o.out = "run"
emitAssembly == o.out = "assembly"
forSharedObject == o.out \in {"sharedLibrary", "sharedObject"}
SaveTemps == o.saveTemps
UsesArchive == o.out \notin {"llvm", "llvmOpt"}

\* cachedTransform hashes the module, which carries the target, here its format, and
\* not options.print; the module is the same in every invocation.  The rest is
\* spelled out by the code.
archiveKeyPlain == [format |-> o.format, isJIT |-> isJIT, perFunction |-> o.strategy = "PerFunction",
                    asm |-> emitAssembly, shared |-> FALSE]
archiveKey == [format |-> o.format, isJIT |-> isJIT, perFunction |-> o.strategy = "PerFunction",
               asm |-> emitAssembly, shared |-> forSharedObject]

MayFail == faults < MaxFaults
Fault == MayFail /\ faults' = faults + 1
NoFault == UNCHANGED faults

Reply(a) == pc' = "done" /\ result' = a
Erase == erases' = erases + 1
Keep == UNCHANGED erases

-----------------------------------------------------------------------------
(* create, and the look-up in the cache.                                    *)

\* A process of its own for each invocation: only the cache lives on.
Invoke(r) ==
  /\ pc \in {"idle", "done", "aborted"} /\ count < MaxInvocations
  /\ o' = r /\ pc' = "create" /\ count' = count + 1
  /\ mod' = NoModule /\ erases' = 0 /\ seen' = {} /\ task' = <<>>
  /\ linked' = NoAnswer /\ temp' = NoAnswer /\ result' = NoAnswer /\ faults' = 0
  /\ UNCHANGED <<cache, undefined>>

\* A program has a main, a library has none.
SymbolsFit == (o.out \in {"executable", "run"} => o.main) /\ (o.out = "sharedLibrary" => ~o.main)

Create ==
  /\ pc = "create"
  /\ \/ /\ CanCreate(Config, o.format) /\ SymbolsFit /\ NoFault /\ UNCHANGED result
        /\ pc' = IF UsesArchive THEN "emit" ELSE "lower"
     \/ Reply(Error) /\ ((~(CanCreate(Config, o.format) /\ SymbolsFit) /\ NoFault) \/ Fault)
  /\ UNCHANGED <<cache, o, mod, erases, seen, task, linked, temp, undefined, count>>

Hits(key) == {e \in cache : e.key = key}

\* After the archive: a shared object is linked, everything else is the answer.
Deliver(a) == IF o.out = "sharedObject" THEN pc' = "link" /\ linked' = a /\ UNCHANGED result
              ELSE Reply(a) /\ linked' = a

\* createTargetMachine, the key, and the hit that erases the MLIR module.
emitArchive ==
  /\ pc = "emit"
  /\ \/ Fault /\ Reply(Error) /\ UNCHANGED <<linked, erases>>
     \/ /\ Hits(archiveKey) # {} /\ NoFault /\ Erase
        /\ \E e \in Hits(archiveKey) : Deliver(e.val)
     \/ Hits(archiveKey) = {} /\ NoFault /\ pc' = "lower" /\ UNCHANGED <<linked, erases, result>>
  /\ UNCHANGED <<cache, o, mod, seen, task, temp, undefined, count>>

-----------------------------------------------------------------------------
(* Lowering and bitcode libraries.                                          *)

markDefinitionsForCOFFExport(defs) == defs \cap Exported

translateModuleToLLVMIR == [defs |-> Fns, marked |-> {}]

\* prepareModuleForLowering, the pass pipeline, the translation; a failure
\* erases the MLIR module.
lowerAllFuncsToLLVM ==
  /\ pc = "lower"
  /\ \/ Fault /\ Reply(Error) /\ (IF UsesArchive THEN Erase ELSE Keep) /\ UNCHANGED mod
     \/ /\ NoFault /\ Keep /\ UNCHANGED result
        /\ mod' = IF forSharedObject /\ o.format = "coff"
                  THEN [translateModuleToLLVMIR EXCEPT !.marked = markDefinitionsForCOFFExport(Fns)]
                  ELSE translateModuleToLLVMIR
        /\ pc' = IF o.out = "llvm" THEN "print" ELSE "libs"
  /\ UNCHANGED <<cache, o, seen, task, linked, temp, undefined, count>>

\* The functions of the libraries that load and are for this target.
LoadsAll(libs) == \A i \in 1..Len(libs) : libs[i].loads
Supplied(libs) == UNION {libs[i].defs : i \in {j \in 1..Len(libs) : libs[j].sameTriple}}
\* LinkOnlyNeeded: what the module's code reaches through declarations.
LinkOnlyNeeded(libs) == Supplied(libs) \cap UNION {Reach[f] : f \in Fns}
HasExtern == \E f \in Fns : Reach[f] \cap LibFns # {}
onlyLinkExtern == ~o.linkAll

LinksNothing(libs) == libs = <<>> \/ (~HasExtern /\ onlyLinkExtern)

linkBitcodeLibraries(libs) ==
  IF LinksNothing(libs) THEN {}
  ELSE IF onlyLinkExtern THEN LinkOnlyNeeded(libs) ELSE Supplied(libs)

ReleaseEarly == ~SaveTemps \/ emitAssembly

\* The module is erased once nothing needs it again.  An error leaves it alone.
LinkLibraries ==
  /\ pc = "libs"
  /\ \/ /\ Fault \/ (NoFault /\ ~LinksNothing(o.libs) /\ ~LoadsAll(o.libs))
        /\ Reply(Error) /\ Keep /\ UNCHANGED mod
     \/ /\ NoFault /\ (LinksNothing(o.libs) \/ LoadsAll(o.libs)) /\ UNCHANGED result
        /\ mod' = [mod EXCEPT !.defs = @ \cup linkBitcodeLibraries(o.libs)]
        /\ IF UsesArchive /\ ReleaseEarly THEN Erase ELSE Keep
        /\ pc' = IF UsesArchive THEN "split" ELSE "print"
  /\ UNCHANGED <<cache, o, seen, task, linked, temp, undefined, count>>

\* lowerAllFuncsToLLVMAndOptimize with emitLLVMIR, or emitBitcode.
emitLLVMIR ==
  /\ pc = "print"
  /\ \/ Fault /\ Reply(Error)
     \/ NoFault /\ Reply([ok |-> TRUE, kind |-> "ir", defs |-> mod.defs])
  /\ UNCHANGED <<cache, o, mod, erases, seen, task, linked, temp, undefined, count>>

-----------------------------------------------------------------------------
(* Splitting and the tasks of the pieces.                                   *)

NoSplitting == o.workers < 2 \/ o.strategy = "None"
parLLC == o.workers >= 2 /\ o.parallelLLC /\ ~o.interprocedural /\ (NoSplitting \/ o.strategy # "PerFunction")

\* splitPerExported gives each exported function what it reaches,
\* splitPerFunction each function alone.
Pieces(defs) ==
  IF NoSplitting THEN [r \in {whole} |-> defs]
  ELSE IF o.strategy = "PerFunction" THEN [r \in defs |-> {r}]
  ELSE [r \in Exported |-> ({r} \cup Reach[r]) \cap defs]

Queued(defs) == [r \in DOMAIN Pieces(defs) |->
                   [st |-> "queued", def |-> Pieces(defs)[r], dup |-> {}, unit |-> <<>>]]

emitArchiveParallelCompilation ==
  /\ pc = "split" /\ pc' = "compile" /\ task' = Queued(mod.defs)
  /\ UNCHANGED <<cache, o, mod, erases, seen, linked, temp, result, undefined, faults, count>>

\* optimizeLLVMModule may inline and drop what is local to the piece.
Droppable(r) == IF NoSplitting \/ o.strategy = "PerExported" THEN task[r].def \ Exported ELSE {}
optimizeLLVMModule(r) == {task[r].def \ drop : drop \in SUBSET Droppable(r)}

DuplicatesNone(def) == {}
Duplicates(def) == def \cap seen

\* compileOptimizedLLVMToObjects: a unit per function or one for the piece.
Units(def) == IF parLLC THEN {{f} : f \in def} ELSE {def}

\* The task of a piece up to the launch of its units; seenCodeGenFns is read
\* and written under dedupMutex.
lowerLLVMModuleToObjects(r) ==
  /\ pc \in {"compile", "recompile"} /\ task[r].st = "queued"
  /\ \/ Fault /\ task' = [task EXCEPT ![r].st = "error"] /\ UNCHANGED seen
     \/ /\ NoFault
        /\ \E def \in optimizeLLVMModule(r) :
             /\ seen' = seen \cup def
             /\ task' = [task EXCEPT ![r] = [st |-> "units", def |-> def, dup |-> Duplicates(def),
                                             unit |-> [u \in Units(def) |-> "pending"]]]
  /\ UNCHANGED <<cache, o, pc, mod, erases, linked, temp, result, undefined, count>>

\* The verifier and the set-up of the passes may refuse.
runLlcPasses == {"done", "error"}

\* One unit through llc, in its own context and target machine.
compileOptimizedLLVMModuleToObject(r, u) ==
  /\ pc \in {"compile", "recompile"} /\ task[r].st = "units" /\ u \in DOMAIN task[r].unit
  /\ task[r].unit[u] = "pending"
  /\ \E st \in runLlcPasses :
       /\ IF st = "error" THEN Fault ELSE NoFault
       /\ task' = [task EXCEPT ![r].unit[u] = st]
  /\ UNCHANGED <<cache, o, pc, mod, erases, seen, linked, temp, result, undefined, count>>

\* The callback behind the units takes their values without asking whether one
\* is an error: an assertion stops the program or a value that is not there is
\* moved from.
CollectUnits(r) ==
  /\ pc \in {"compile", "recompile"} /\ task[r].st = "units"
  /\ \A u \in DOMAIN task[r].unit : task[r].unit[u] # "pending"
  /\ IF \A u \in DOMAIN task[r].unit : task[r].unit[u] = "done"
     THEN task' = [task EXCEPT ![r].st = "done"] /\ UNCHANGED <<pc, undefined>>
     ELSE /\ undefined' = TRUE
          /\ \/ pc' = "aborted" /\ UNCHANGED task
             \/ task' = [task EXCEPT ![r].st = "done"] /\ UNCHANGED pc
  /\ UNCHANGED <<cache, o, mod, erases, seen, linked, temp, result, faults, count>>

-----------------------------------------------------------------------------
(* Linking the pieces, saving the assembly, answering.                      *)

AllIn == \A r \in DOMAIN task : task[r].st \in {"done", "error"}
SomeFailed == (\E r \in DOMAIN task : task[r].st = "error") /\ NoFault

\* MCLinker takes from each piece what is not a duplicate.
Taken(r) == (UNION {u \in DOMAIN task[r].unit : task[r].unit[u] = "done"}) \ task[r].dup
Copies(f) == Cardinality({r \in DOMAIN task : f \in Taken(r)})
Linked(asm) == [ok |-> TRUE, kind |-> IF asm THEN "asm" ELSE "object",
                code |-> [f \in Symbols |-> Copies(f)],
                defs |-> UNION {task[r].def : r \in DOMAIN task},
                marked |-> mod.marked]

Store(a) == cache' = cache \cup {[key |-> archiveKey, val |-> a]}

\* With saveTempsPrefix the pieces are compiled once more from the MLIR module.
ClearSeenNot == seen
ClearSeen == {}
emitArchiveMCLinking ==
  /\ pc = "compile" /\ AllIn
  /\ \/ /\ Reply(Error) /\ (SomeFailed \/ Fault)
        /\ UNCHANGED <<cache, linked, seen>>
     \/ /\ \A r \in DOMAIN task : task[r].st = "done"
        /\ NoFault
        /\ IF SaveTemps /\ ~emitAssembly
           THEN pc' = "saveTemps" /\ linked' = Linked(FALSE) /\ seen' = ClearSeen /\ UNCHANGED <<cache, result>>
           ELSE Store(Linked(emitAssembly)) /\ Deliver(Linked(emitAssembly)) /\ UNCHANGED seen
  /\ UNCHANGED <<o, mod, erases, task, temp, undefined, count>>

\* translateModuleToLLVMIR again, without libraries and without export marks.
emitArchiveSaveTemps ==
  /\ pc = "saveTemps"
  /\ \/ Fault /\ Reply(Error) /\ Erase /\ UNCHANGED <<task, mod>>
     \/ NoFault /\ Keep /\ pc' = "recompile" /\ mod' = translateModuleToLLVMIR /\ task' = Queued(Fns) /\ UNCHANGED result
  /\ UNCHANGED <<cache, o, seen, linked, temp, undefined, count>>

SaveAssembly ==
  /\ pc = "recompile" /\ AllIn /\ Erase
  /\ \/ /\ Reply(Error) /\ (SomeFailed \/ Fault)
        /\ UNCHANGED <<cache, linked, temp>>
     \/ /\ \A r \in DOMAIN task : task[r].st = "done"
        /\ NoFault /\ temp' = Linked(TRUE) /\ Store(linked) /\ Deliver(linked)
  /\ UNCHANGED <<o, mod, seen, task, undefined, count>>

\* The object of the archive, as the linker sees it.
ObjectOf(a) == [needs |-> o.needs, marked |-> a.marked, visible |-> a.defs \cap Exported]

emitSharedObject ==
  /\ pc = "link"
  /\ LET image == createSharedObject(o.format, <<>>, sharedObjectLinkArgs(Config, o.format), ObjectOf(linked), Defines)
     IN  \/ ~image.ok /\ NoFault /\ Reply(Error)
         \/ Fault /\ Reply(Error)
         \/ image.ok /\ NoFault /\ Reply([ok |-> TRUE, kind |-> "image", exports |-> image.exports, from |-> image.from])
  /\ UNCHANGED <<cache, o, mod, erases, seen, task, linked, temp, undefined, count>>

-----------------------------------------------------------------------------
CompilerInit ==
  /\ cache = {} /\ o = NoRequest /\ pc = "idle" /\ mod = NoModule /\ erases = 0 /\ seen = {} /\ task = <<>>
  /\ linked = NoAnswer /\ temp = NoAnswer /\ result = NoAnswer /\ undefined = FALSE /\ faults = 0 /\ count = 0

CallerStep ==
  \/ Create \/ emitArchive \/ lowerAllFuncsToLLVM \/ LinkLibraries \/ emitLLVMIR
  \/ emitArchiveParallelCompilation \/ emitArchiveMCLinking \/ emitArchiveSaveTemps \/ SaveAssembly
  \/ emitSharedObject
UnitStep(r) == \E u \in SUBSET Symbols : compileOptimizedLLVMModuleToObject(r, u)
TaskStep(r) == r \in DOMAIN task /\ (lowerLLVMModuleToObjects(r) \/ UnitStep(r) \/ CollectUnits(r))

CompilerNext == (\E r \in Options : Invoke(r)) \/ CallerStep \/ (\E r \in Symbols : TaskStep(r))

\* The caller awaits and the work queue runs what was added to it.
CompilerFairness == WF_compilerVars(CallerStep) /\ \A r \in Symbols : WF_compilerVars(TaskStep(r))
CompilerSafe == CompilerInit /\ [][CompilerNext]_compilerVars
CompilerSpec == CompilerInit /\ [][CompilerNext]_compilerVars /\ CompilerFairness

-----------------------------------------------------------------------------
(* Properties.                                                              *)

\* Every function some piece still defines is in the archive once; what a library
\* supplies is asked for only where it was linked into the module.
WholeCode(a) ==
  /\ Exported \subseteq a.defs
  /\ \A f \in Symbols : a.code[f] = IF f \in a.defs THEN 1 ELSE 0

\* What an archive must be for the request it answers.
RightArchive(r, a) ==
  CASE a.kind = "object" -> /\ r.out \in {"run", "executable", "sharedLibrary"} /\ WholeCode(a)
                            /\ a.marked = IF r.out = "sharedLibrary" /\ r.format = "coff" THEN Exported ELSE {}
    [] a.kind = "asm" -> r.out = "assembly" /\ WholeCode(a)
    [] a.kind = "image" -> r.out = "sharedObject" /\ a.exports = Exported
    [] a.kind = "ir" -> r.out \in {"llvm", "llvmOpt"} /\ Fns \subseteq a.defs
    [] OTHER -> FALSE

\* The compiler implements the service of ArchiveService: whatever the order of
\* the tasks of emitArchiveParallelCompilation, whatever fails and whatever an
\* earlier invocation left in the cache, each request is answered once, with an
\* error or with an archive right for that request.
Service == INSTANCE ArchiveService
             WITH Requests <- Options, Right <- RightArchive, request <- o, answer <- result, broken <- undefined
ServiceKept == Service!Spec

\* The assembly saved beside an archive has all the code that it defines, which is
\* the program's and not the libraries' (emitArchiveSaveTemps links none): the second code
\* generation starts from an empty seenCodeGenFns, and from an MLIR module that
\* none of the paths has erased yet, while an emission that succeeds erases it once.
SavedAssemblyWhole ==
  /\ ~undefined /\ temp.ok => WholeCode(temp) /\ temp.kind = "asm"
  /\ pc \in {"lower", "libs", "saveTemps"} => erases = 0
  /\ pc = "done" /\ result.ok /\ UsesArchive => erases = 1

\* An entry of the transform cache stands for every invocation with its key.
CacheRight ==
  \A e \in cache : undefined \/
    /\ WholeCode(e.val)
    /\ e.val.kind = IF e.key.asm THEN "asm" ELSE "object"
    /\ e.val.marked = IF e.key.shared /\ e.key.format = "coff" THEN Exported ELSE {}
=============================================================================
