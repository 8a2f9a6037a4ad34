---------------------------- MODULE CompilerProofs ----------------------------
(***************************************************************************)
(* Proofs about ObjectCompiler, OffloadKernels, ExecutionEngine,            *)
(* InterpMemory, CallLowering and StructLayouts.                            *)
(***************************************************************************)
EXTENDS ObjectCompiler, OffloadKernels, ExecutionEngine, InterpMemory, CallLowering, StructLayouts, FiniteSetTheorems, NaturalsInduction, WellFoundedInduction, TLAPS

(* ---------------------------------------------------------------------- *)
(* ObjectCompiler: the inductive invariant                                 *)

Started == {r \in DOMAIN task : task[r].st \in {"units", "done"}}
\* What is taken from a piece once its units are there.
Took(r) == task[r].def \ task[r].dup

(* The tasks of a compilation: what the pieces that were started define has  *)
(* been seen, and each function that was seen belongs to one of them.        *)
TaskShape(r) ==
  /\ DOMAIN task[r] = {"st", "def", "dup", "unit"} /\ task[r].st \in {"queued", "error", "units", "done"}
  /\ r \in Started => DOMAIN task[r].unit = Units(task[r].def)
  /\ task[r].st = "done" /\ ~undefined => \A u \in DOMAIN task[r].unit : task[r].unit[u] = "done"
TasksInv ==
  /\ \A r \in DOMAIN task : TaskShape(r)
  /\ \A f \in Exported : \E r \in DOMAIN task : f \in task[r].def
  /\ \A r \in Started : task[r].def \subseteq seen
  /\ \A f \in seen : \E r \in Started : f \in Took(r)
  /\ \A r, q \in Started : \A f \in seen : f \in Took(r) /\ f \in Took(q) => r = q

(* What the archive of a key has to be.                                      *)
RightEntry(key, a) ==
  /\ WholeCode(a) /\ a.kind = IF key.asm THEN "asm" ELSE "object"
  /\ a.marked = IF key.shared /\ key.format = "coff" THEN Exported ELSE {}

(* Where the invocation is, and what it has by then.                         *)
PhaseInv ==
  /\ pc \in {"idle", "create", "emit", "lower", "libs", "print", "split", "compile", "saveTemps", "recompile", "link", "done", "aborted"}
  /\ undefined \in BOOLEAN /\ (pc = "aborted" => undefined)
  /\ IF pc = "idle" THEN o = NoRequest ELSE o \in Options
  /\ pc # "done" <=> result = NoAnswer
  /\ pc \in {"emit", "split", "compile", "saveTemps", "recompile", "link"} => UsesArchive
  /\ pc = "print" => ~UsesArchive
  /\ pc = "link" => o.out = "sharedObject"
  /\ pc \in {"saveTemps", "recompile"} => SaveTemps /\ ~emitAssembly
ModuleInv ==
  /\ pc \in {"libs", "split", "compile", "print"} =>
       /\ DOMAIN mod = {"defs", "marked"} /\ Fns \subseteq mod.defs
       /\ mod.marked = IF forSharedObject /\ o.format = "coff" THEN Exported ELSE {}
  /\ pc \in {"create", "emit", "lower", "libs", "split", "saveTemps"} => seen = {}
  /\ pc \in {"compile", "recompile"} => TasksInv
ErasesInv ==
  /\ pc \in {"create", "emit", "lower", "libs", "saveTemps", "recompile"} => erases = 0
  /\ pc \in {"split", "compile"} => erases = IF ReleaseEarly THEN 1 ELSE 0
  /\ pc = "link" => erases = 1
  /\ pc = "done" /\ result.ok /\ UsesArchive => erases = 1
AnswerInv ==
  /\ \A e \in cache : e.val.ok /\ (undefined \/ RightEntry(e.key, e.val))
  /\ pc \in {"saveTemps", "recompile", "link"} => linked.ok /\ (undefined \/ RightEntry(archiveKey, linked))
  /\ ~undefined /\ temp.ok => WholeCode(temp) /\ temp.kind = "asm"
CompilerInv == PhaseInv /\ ModuleInv /\ ErasesInv /\ AnswerInv

(* ---------------------------------------------------------------------- *)
(* ObjectCompiler: the tasks                                               *)

(* Fresh tasks: every exported function is in a piece, none is started.      *)
LEMMA QueuedTasks ==
  ASSUME NEW defs, Fns \subseteq defs, task' = Queued(defs), seen' = {}
  PROVE  TasksInv'
<1>1. \A r \in DOMAIN Pieces(defs) : task'[r] = [st |-> "queued", def |-> Pieces(defs)[r], dup |-> {}, unit |-> <<>>]
  BY DEF Queued
<1>2. DOMAIN task' = DOMAIN Pieces(defs)
  BY DEF Queued
<1>3. Started' = {}
  BY <1>1, <1>2 DEF Started
<1>4. ASSUME NEW f \in Exported PROVE \E r \in DOMAIN Pieces(defs) : f \in Pieces(defs)[r]
  <2>1. f \in defs
    BY CompilerAssumption
  <2>2. CASE NoSplitting
    BY <2>1, <2>2 DEF Pieces
  <2>3. CASE ~NoSplitting /\ o.strategy = "PerFunction"
    BY <2>1, <2>3 DEF Pieces
  <2>4. CASE ~NoSplitting /\ o.strategy # "PerFunction"
    BY <2>1, <2>4 DEF Pieces
  <2>5. QED
    BY <2>2, <2>3, <2>4
<1>5. \A f \in Exported : (\E r \in DOMAIN task : f \in task[r].def)'
  BY <1>1, <1>2, <1>4
<1>6. \A r \in DOMAIN task' : TaskShape(r)'
  BY <1>1, <1>2, <1>3 DEF TaskShape
<1>7. QED
  BY <1>3, <1>5, <1>6 DEF TasksInv

(* A task that nothing is done to.                                           *)
LEMMA SameShape ==
  ASSUME NEW q \in DOMAIN task, TaskShape(q), q \in DOMAIN task', task'[q] = task[q], o' = o, undefined => undefined'
  PROVE  TaskShape(q)'
<1>1. \A d : Units(d)' = Units(d)
  BY DEF Units, parLLC, NoSplitting
<1>2. (q \in Started)' <=> q \in Started
  BY DEF Started
<1>3. QED
  BY <1>1, <1>2 DEF TaskShape

(* The task of a piece is started: what it still defines and no other piece  *)
(* has taken becomes its own.                                                *)
LEMMA StartTask ==
  ASSUME NEW r \in DOMAIN task, TasksInv, lowerLLVMModuleToObjects(r)
  PROVE  TasksInv'
<1>1. task[r].st = "queued" /\ UNCHANGED <<undefined, o>>
  BY DEF lowerLLVMModuleToObjects
<1>2. \A q \in DOMAIN task : TaskShape(q)
  BY DEF TasksInv
<1>3. CASE task' = [task EXCEPT ![r].st = "error"] /\ UNCHANGED seen
  <2>1. DOMAIN task' = DOMAIN task /\ \A q \in DOMAIN task : q # r => task'[q] = task[q]
    BY <1>3
  <2>2. DOMAIN task'[r] = DOMAIN task[r] /\ task'[r].st = "error" /\ task'[r].def = task[r].def
    BY <1>2, <1>3 DEF TaskShape
  <2>3. Started' = Started /\ r \notin Started
    BY <1>1, <2>1, <2>2 DEF Started
  <2>4. ASSUME NEW q \in DOMAIN task PROVE TaskShape(q)'
    <3>1. CASE q = r
      BY <1>2, <2>1, <2>2, <2>3, <3>1 DEF TaskShape
    <3>2. CASE q # r
      BY <1>1, <1>2, <2>1, <3>2, SameShape
    <3>3. QED
      BY <3>1, <3>2
  <2>5. \A q \in Started : task'[q] = task[q] /\ Took(q)' = Took(q)
    BY <2>1, <2>3 DEF Started, Took
  <2>6. QED
    BY <1>3, <2>1, <2>2, <2>3, <2>4, <2>5 DEF TasksInv
<1>4. ASSUME NEW def \in optimizeLLVMModule(r), seen' = seen \cup def,
             task' = [task EXCEPT ![r] = [st |-> "units", def |-> def, dup |-> Duplicates(def),
                                          unit |-> [u \in Units(def) |-> "pending"]]]
      PROVE  TasksInv'
  <2>1. DOMAIN task' = DOMAIN task /\ \A q \in DOMAIN task : q # r => task'[q] = task[q]
    BY <1>4
  <2>2. task'[r] = [st |-> "units", def |-> def, dup |-> Duplicates(def), unit |-> [u \in Units(def) |-> "pending"]]
    BY <1>4
  <2>3. Started' = Started \cup {r} /\ r \notin Started
    BY <1>1, <2>1, <2>2 DEF Started
  <2>4. def \subseteq task[r].def /\ task[r].def \cap Exported \subseteq def
    BY <1>4 DEF optimizeLLVMModule, Droppable
  <2>5. Took(r)' = def \ seen
    BY <2>2 DEF Took, Duplicates
  <2>6. \A q \in Started : task'[q] = task[q] /\ Took(q)' = Took(q) /\ q # r
    BY <2>1, <2>3 DEF Started, Took
  <2>7. Units(def)' = Units(def)
    BY <1>1 DEF Units, parLLC, NoSplitting
  <2>8. ASSUME NEW q \in DOMAIN task PROVE TaskShape(q)'
    <3>1. CASE q = r
      BY <2>2, <2>7, <3>1 DEF TaskShape
    <3>2. CASE q # r
      BY <1>1, <1>2, <2>1, <3>2, SameShape
    <3>3. QED
      BY <3>1, <3>2
  <2>9. ASSUME NEW f \in Exported PROVE \E q \in DOMAIN task : f \in task'[q].def
    <3>1. PICK q \in DOMAIN task : f \in task[q].def
      BY DEF TasksInv
    <3>2. f \in task'[q].def
      BY <2>1, <2>2, <2>4, <3>1
    <3>3. QED
      BY <3>2
  <2>10. \A q \in Started' : task'[q].def \subseteq seen'
    BY <1>4, <2>2, <2>3, <2>6 DEF TasksInv
  <2>11. ASSUME NEW f \in seen' PROVE \E q \in Started' : f \in Took(q)'
    <3>1. CASE f \in seen
      BY <2>3, <2>6, <3>1 DEF TasksInv
    <3>2. CASE f \notin seen
      BY <1>4, <2>3, <2>5, <3>2
    <3>3. QED
      BY <3>1, <3>2
  <2>12. ASSUME NEW p \in Started', NEW q \in Started', NEW f \in seen', f \in Took(p)', f \in Took(q)' PROVE p = q
    <3>1. \A x \in Started : Took(x) \subseteq seen
      BY DEF TasksInv, Took
    <3>2. CASE f \in seen
      <4>1. p # r /\ q # r
        BY <2>5, <2>12, <3>2
      <4>2. p \in Started /\ q \in Started
        BY <2>3, <4>1
      <4>3. QED
        BY <2>6, <2>12, <3>2, <4>2 DEF TasksInv
    <3>3. CASE f \notin seen
      BY <2>3, <2>6, <2>12, <3>1, <3>3
    <3>4. QED
      BY <3>2, <3>3
  <2>13. QED
    BY <2>1, <2>8, <2>9, <2>10, <2>11, <2>12 DEF TasksInv
<1>5. QED
  BY <1>3, <1>4 DEF lowerLLVMModuleToObjects

(* A step that leaves alone what the tasks define.                           *)
LEMMA SameTasks ==
  ASSUME TasksInv, UNCHANGED <<o, seen>>, DOMAIN task' = DOMAIN task, Started' = Started,
         \A q \in DOMAIN task : TaskShape(q)',
         \A q \in DOMAIN task : task'[q].def = task[q].def /\ task'[q].dup = task[q].dup
  PROVE  TasksInv'
<1>1. \A q \in DOMAIN task : Took(q)' = Took(q)
  BY DEF Took
<1>2. Started \subseteq DOMAIN task
  BY DEF Started
<1>3. QED
  BY <1>1, <1>2 DEF TasksInv

(* A unit is through llc.                                                    *)
LEMMA UnitDone ==
  ASSUME NEW r \in DOMAIN task, NEW u, TasksInv, compileOptimizedLLVMModuleToObject(r, u)
  PROVE  TasksInv'
<1>1. PICK st \in runLlcPasses : task' = [task EXCEPT ![r].unit[u] = st]
  BY DEF compileOptimizedLLVMModuleToObject
<1>2. task[r].st = "units" /\ u \in DOMAIN task[r].unit /\ UNCHANGED <<o, seen, undefined>>
  BY DEF compileOptimizedLLVMModuleToObject
<1>3. \A q \in DOMAIN task : TaskShape(q)
  BY DEF TasksInv
<1>4. DOMAIN task' = DOMAIN task /\ \A q \in DOMAIN task : q # r => task'[q] = task[q]
  BY <1>1
<1>5. /\ DOMAIN task'[r] = DOMAIN task[r] /\ task'[r].st = "units" /\ task'[r].def = task[r].def
      /\ task'[r].dup = task[r].dup /\ DOMAIN task'[r].unit = DOMAIN task[r].unit
  BY <1>1, <1>2, <1>3 DEF TaskShape
<1>6. Started' = Started /\ r \in Started
  BY <1>2, <1>4, <1>5 DEF Started
<1>7. \A d : Units(d)' = Units(d)
  BY <1>2 DEF Units, parLLC, NoSplitting
<1>8. ASSUME NEW q \in DOMAIN task PROVE TaskShape(q)'
  <2>1. CASE q = r
    BY <1>3, <1>5, <1>6, <1>7, <2>1 DEF TaskShape
  <2>2. CASE q # r
    BY <1>2, <1>3, <1>4, <2>2, SameShape
  <2>3. QED
    BY <2>1, <2>2
<1>9. QED
  BY <1>2, <1>4, <1>5, <1>6, <1>8, SameTasks

(* The units of a piece are collected; a unit that failed makes what follows *)
(* undefined.                                                                *)
LEMMA UnitsCollected ==
  ASSUME NEW r \in DOMAIN task, TasksInv, CollectUnits(r)
  PROVE  TasksInv'
<1>1. task[r].st = "units" /\ UNCHANGED <<o, seen>>
  BY DEF CollectUnits
<1>2. \A q \in DOMAIN task : TaskShape(q)
  BY DEF TasksInv
<1>3. \/ task' = [task EXCEPT ![r].st = "done"] /\ undefined' = undefined /\ \A u \in DOMAIN task[r].unit : task[r].unit[u] = "done"
      \/ task' = [task EXCEPT ![r].st = "done"] /\ undefined'
      \/ task' = task /\ undefined'
  BY DEF CollectUnits
<1>4. undefined => undefined'
  BY <1>3
<1>5. CASE task' = [task EXCEPT ![r].st = "done"]
  <2>1. DOMAIN task' = DOMAIN task /\ \A q \in DOMAIN task : q # r => task'[q] = task[q]
    BY <1>5
  <2>2. /\ DOMAIN task'[r] = DOMAIN task[r] /\ task'[r].st = "done" /\ task'[r].def = task[r].def
        /\ task'[r].dup = task[r].dup /\ task'[r].unit = task[r].unit
    BY <1>2, <1>5 DEF TaskShape
  <2>3. Started' = Started /\ r \in Started
    BY <1>1, <2>1, <2>2 DEF Started
  <2>4. \A d : Units(d)' = Units(d)
    BY <1>1 DEF Units, parLLC, NoSplitting
  <2>5. undefined' \/ \A u \in DOMAIN task[r].unit : task[r].unit[u] = "done"
    BY <1>3
  <2>6. ASSUME NEW q \in DOMAIN task PROVE TaskShape(q)'
    <3>1. CASE q = r
      BY <1>2, <2>2, <2>3, <2>4, <2>5, <3>1 DEF TaskShape
    <3>2. CASE q # r
      BY <1>1, <1>2, <1>4, <2>1, <3>2, SameShape
    <3>3. QED
      BY <3>1, <3>2
  <2>7. QED
    BY <1>1, <2>1, <2>2, <2>3, <2>6, SameTasks
<1>6. CASE task' = task
  <2>1. \A q \in DOMAIN task : TaskShape(q)'
    BY <1>1, <1>2, <1>4, <1>6, SameShape
  <2>2. Started' = Started
    BY <1>6 DEF Started
  <2>3. QED
    BY <1>1, <1>6, <2>1, <2>2, SameTasks
<1>7. QED
  BY <1>3, <1>5, <1>6

(* The archive of pieces that all compiled has every function once.          *)
LEMMA LinkedWhole ==
  ASSUME TasksInv, ~undefined, \A r \in DOMAIN task : task[r].st = "done", NEW asm
  PROVE  WholeCode(Linked(asm))
<1>1. Started = DOMAIN task
  BY DEF Started
<1>2. ASSUME NEW r \in DOMAIN task PROVE Taken(r) = Took(r)
  <2>1. DOMAIN task[r].unit = Units(task[r].def) /\ \A u \in DOMAIN task[r].unit : task[r].unit[u] = "done"
    BY <1>1 DEF TasksInv, TaskShape
  <2>2. {u \in DOMAIN task[r].unit : task[r].unit[u] = "done"} = Units(task[r].def)
    BY <2>1
  <2>3. UNION Units(task[r].def) = task[r].def
    BY DEF Units
  <2>4. QED
    BY <2>2, <2>3 DEF Taken, Took
<1> DEFINE defs == UNION {task[r].def : r \in DOMAIN task}
           From(f) == {r \in DOMAIN task : f \in Taken(r)}
<1>3. defs = seen
  <2>1. defs \subseteq seen
    BY <1>1 DEF TasksInv
  <2>2. seen \subseteq defs
    BY <1>1 DEF TasksInv, Took
  <2>3. QED
    BY <2>1, <2>2
<1>4. Exported \subseteq defs
  BY DEF TasksInv
<1>5. ASSUME NEW f \in Symbols PROVE Copies(f) = IF f \in defs THEN 1 ELSE 0
  <2>1. CASE f \in seen
    <3>1. PICK r \in DOMAIN task : f \in Took(r)
      BY <1>1, <2>1 DEF TasksInv
    <3>2. \A q \in DOMAIN task : f \in Took(q) => q = r
      BY <1>1, <2>1, <3>1 DEF TasksInv
    <3>3. From(f) = {r}
      BY <1>2, <3>1, <3>2
    <3>4. Cardinality({r}) = 1
      BY FS_Singleton
    <3>5. QED
      BY <1>3, <2>1, <3>3, <3>4 DEF Copies
  <2>2. CASE f \notin seen
    <3>1. From(f) = {}
      BY <1>1, <1>2, <2>2 DEF TasksInv, Took
    <3>2. QED
      BY <1>3, <2>2, <3>1, FS_EmptySet DEF Copies
  <2>3. QED
    BY <2>1, <2>2
<1>6. Linked(asm).defs = defs /\ \A f \in Symbols : Linked(asm).code[f] = Copies(f)
  BY DEF Linked
<1> HIDE DEF defs
<1>7. QED
  BY <1>4, <1>5, <1>6 DEF WholeCode

(* ---------------------------------------------------------------------- *)
(* ObjectCompiler: every action keeps the invariant                        *)

LEMMA NotYetAnswered == Error # NoAnswer /\ \A a : a.ok => a # NoAnswer
<1>1. NoAnswer.ok = FALSE /\ NoAnswer.kind # Error.kind
  BY DEF NoAnswer, Error
<1>2. QED
  BY <1>1

LEMMA NextPhase ==
  ASSUME CompilerInv, CompilerNext
  PROVE  PhaseInv'
<1> USE NotYetAnswered
<1>1. ASSUME NEW r \in Options, Invoke(r) PROVE PhaseInv'
  BY <1>1 DEF CompilerInv, PhaseInv, Invoke
<1>2. CASE Create
  BY <1>2 DEF CompilerInv, PhaseInv, Create, Reply, UsesArchive
<1>3. CASE emitArchive
  <2>1. \A e \in Hits(archiveKey) : e.val.ok
    BY DEF CompilerInv, AnswerInv, Hits
  <2>2. QED
    BY <1>3, <2>1 DEF CompilerInv, PhaseInv, emitArchive, Deliver, Reply, UsesArchive
<1>4. CASE lowerAllFuncsToLLVM
  BY <1>4 DEF CompilerInv, PhaseInv, lowerAllFuncsToLLVM, Reply, UsesArchive
<1>5. CASE LinkLibraries
  BY <1>5 DEF CompilerInv, PhaseInv, LinkLibraries, Reply, UsesArchive
<1>6. CASE emitLLVMIR
  BY <1>6 DEF CompilerInv, PhaseInv, emitLLVMIR, Reply, UsesArchive
<1>7. CASE emitArchiveParallelCompilation
  BY <1>7 DEF CompilerInv, PhaseInv, emitArchiveParallelCompilation, UsesArchive
<1>8. CASE emitArchiveMCLinking
  <2>1. \A asm : Linked(asm).ok
    BY DEF Linked
  <2>2. QED
    BY <1>8, <2>1, ZenonT(30) DEF CompilerInv, PhaseInv, emitArchiveMCLinking, Deliver, Reply, UsesArchive, SaveTemps, emitAssembly
<1>9. CASE emitArchiveSaveTemps
  BY <1>9 DEF CompilerInv, PhaseInv, emitArchiveSaveTemps, Reply, UsesArchive, SaveTemps, emitAssembly
<1>10. CASE SaveAssembly
  <2>1. pc = "recompile" /\ linked.ok
    BY <1>10 DEF CompilerInv, AnswerInv, SaveAssembly
  <2>2. QED
    BY <1>10, <2>1 DEF CompilerInv, PhaseInv, SaveAssembly, Deliver, Reply, UsesArchive
<1>11. CASE emitSharedObject
  BY <1>11 DEF CompilerInv, PhaseInv, emitSharedObject, Reply, UsesArchive
<1>12. ASSUME NEW r \in DOMAIN task, lowerLLVMModuleToObjects(r) PROVE PhaseInv'
  BY <1>12 DEF CompilerInv, PhaseInv, lowerLLVMModuleToObjects, UsesArchive, SaveTemps, emitAssembly
<1>13. ASSUME NEW r \in DOMAIN task, NEW u, compileOptimizedLLVMModuleToObject(r, u) PROVE PhaseInv'
  BY <1>13 DEF CompilerInv, PhaseInv, compileOptimizedLLVMModuleToObject, UsesArchive, SaveTemps, emitAssembly
<1>14. ASSUME NEW r \in DOMAIN task, CollectUnits(r) PROVE PhaseInv'
  BY <1>14 DEF CompilerInv, PhaseInv, CollectUnits, UsesArchive, SaveTemps, emitAssembly
<1>15. QED
  BY <1>1, <1>2, <1>3, <1>4, <1>5, <1>6, <1>7, <1>8, <1>9, <1>10, <1>11, <1>12, <1>13, <1>14
  DEF CompilerNext, CallerStep, TaskStep, UnitStep

LEMMA NextModule ==
  ASSUME CompilerInv, CompilerNext
  PROVE  ModuleInv'
<1>1. ASSUME NEW r \in Options, Invoke(r) PROVE ModuleInv'
  BY <1>1 DEF ModuleInv, Invoke
<1>2. CASE Create
  BY <1>2 DEF CompilerInv, ModuleInv, Create, Reply
<1>3. CASE emitArchive
  BY <1>3 DEF CompilerInv, ModuleInv, emitArchive, Deliver, Reply
<1>4. CASE lowerAllFuncsToLLVM
  <2>1. Fns \cap Exported = Exported
    BY CompilerAssumption
  <2>2. QED
    BY <1>4, <2>1 DEF CompilerInv, ModuleInv, lowerAllFuncsToLLVM, Reply, translateModuleToLLVMIR,
                      markDefinitionsForCOFFExport, forSharedObject
<1>5. CASE LinkLibraries
  BY <1>5 DEF CompilerInv, ModuleInv, LinkLibraries, Reply, forSharedObject
<1>6. CASE emitLLVMIR
  BY <1>6 DEF ModuleInv, emitLLVMIR, Reply
<1>7. CASE emitArchiveParallelCompilation
  <2>1. pc' = "compile" /\ task' = Queued(mod.defs) /\ Fns \subseteq mod.defs /\ seen' = {} /\ UNCHANGED <<mod, o>>
    BY <1>7 DEF CompilerInv, ModuleInv, emitArchiveParallelCompilation
  <2>2. TasksInv'
    BY <2>1, QueuedTasks
  <2>3. QED
    BY <1>7, <2>1, <2>2 DEF CompilerInv, ModuleInv, emitArchiveParallelCompilation, forSharedObject
<1>8. CASE emitArchiveMCLinking
  BY <1>8 DEF CompilerInv, ModuleInv, emitArchiveMCLinking, Deliver, Reply, ClearSeen
<1>9. CASE emitArchiveSaveTemps
  <2>1. CASE pc' = "done"
    BY <2>1 DEF ModuleInv
  <2>2. CASE pc' # "done"
    <3>1. pc' = "recompile" /\ task' = Queued(Fns) /\ seen' = {}
      BY <1>9, <2>2 DEF CompilerInv, ModuleInv, emitArchiveSaveTemps, Reply
    <3>2. TasksInv'
      BY <3>1, QueuedTasks
    <3>3. QED
      BY <3>1, <3>2 DEF ModuleInv
  <2>3. QED
    BY <2>1, <2>2
<1>10. CASE SaveAssembly
  BY <1>10 DEF ModuleInv, SaveAssembly, Deliver, Reply
<1>11. CASE emitSharedObject
  BY <1>11 DEF ModuleInv, emitSharedObject, Reply
<1>12. ASSUME TasksInv', pc \in {"compile", "recompile"}, pc' \in {pc, "aborted"}, UNCHANGED <<mod, o>>
       PROVE  ModuleInv'
  BY <1>12 DEF CompilerInv, ModuleInv, forSharedObject
<1>13. pc \in {"compile", "recompile"} => TasksInv
  BY DEF CompilerInv, ModuleInv
<1>14. ASSUME NEW r \in DOMAIN task, lowerLLVMModuleToObjects(r) PROVE ModuleInv'
  <2>1. pc \in {"compile", "recompile"} /\ UNCHANGED <<pc, mod, o>>
    BY <1>14 DEF lowerLLVMModuleToObjects
  <2>2. QED
    BY <1>12, <1>13, <1>14, <2>1, StartTask
<1>15. ASSUME NEW r \in DOMAIN task, NEW u, compileOptimizedLLVMModuleToObject(r, u) PROVE ModuleInv'
  <2>1. pc \in {"compile", "recompile"} /\ UNCHANGED <<pc, mod, o>>
    BY <1>15 DEF compileOptimizedLLVMModuleToObject
  <2>2. QED
    BY <1>12, <1>13, <1>15, <2>1, UnitDone
<1>16. ASSUME NEW r \in DOMAIN task, CollectUnits(r) PROVE ModuleInv'
  <2>1. pc \in {"compile", "recompile"} /\ pc' \in {pc, "aborted"} /\ UNCHANGED <<mod, o>>
    BY <1>16 DEF CollectUnits
  <2>2. QED
    BY <1>12, <1>13, <1>16, <2>1, UnitsCollected
<1>17. QED
  BY <1>1, <1>2, <1>3, <1>4, <1>5, <1>6, <1>7, <1>8, <1>9, <1>10, <1>11, <1>14, <1>15, <1>16
  DEF CompilerNext, CallerStep, TaskStep, UnitStep

LEMMA NextErases ==
  ASSUME CompilerInv, CompilerNext
  PROVE  ErasesInv'
<1> USE DEF Erase, Keep, Reply, UsesArchive, ErasesInv
<1>1. Error.ok = FALSE
  BY DEF Error
<1>2. ASSUME NEW r \in Options, Invoke(r) PROVE ErasesInv'
  BY <1>2 DEF Invoke
<1>3. CASE Create
  BY <1>1, <1>3 DEF CompilerInv, Create
<1>4. CASE emitArchive
  BY <1>1, <1>4 DEF CompilerInv, emitArchive, Deliver
<1>5. CASE lowerAllFuncsToLLVM
  BY <1>1, <1>5 DEF CompilerInv, lowerAllFuncsToLLVM
<1>6. CASE LinkLibraries
  BY <1>1, <1>6 DEF CompilerInv, LinkLibraries, ReleaseEarly, SaveTemps, emitAssembly
<1>7. CASE emitLLVMIR
  BY <1>7 DEF CompilerInv, PhaseInv, emitLLVMIR
<1>8. CASE emitArchiveParallelCompilation
  BY <1>8 DEF CompilerInv, emitArchiveParallelCompilation, ReleaseEarly, SaveTemps, emitAssembly
<1>9. CASE emitArchiveMCLinking
  BY <1>1, <1>9 DEF CompilerInv, emitArchiveMCLinking, Deliver, ReleaseEarly, SaveTemps, emitAssembly
<1>10. CASE emitArchiveSaveTemps
  BY <1>1, <1>10 DEF CompilerInv, emitArchiveSaveTemps
<1>11. CASE SaveAssembly
  <2>1. erases = 0 /\ erases' = erases + 1
    BY <1>11 DEF CompilerInv, SaveAssembly
  <2>2. pc' \in {"done", "link"}
    BY <1>11 DEF SaveAssembly, Deliver
  <2>3. QED
    BY <2>1, <2>2
<1>12. CASE emitSharedObject
  BY <1>1, <1>12 DEF CompilerInv, emitSharedObject
<1>13. ASSUME pc \in {"compile", "recompile"}, pc' \in {pc, "aborted"}, UNCHANGED <<erases, o>>
       PROVE  ErasesInv'
  BY <1>13 DEF CompilerInv, ReleaseEarly, SaveTemps, emitAssembly
<1>14. ASSUME NEW r \in DOMAIN task,
              lowerLLVMModuleToObjects(r) \/ CollectUnits(r) \/ \E u : compileOptimizedLLVMModuleToObject(r, u)
       PROVE  ErasesInv'
  BY <1>13, <1>14 DEF lowerLLVMModuleToObjects, CollectUnits, compileOptimizedLLVMModuleToObject
<1>15. QED
  BY <1>2, <1>3, <1>4, <1>5, <1>6, <1>7, <1>8, <1>9, <1>10, <1>11, <1>12, <1>14
  DEF CompilerNext, CallerStep, TaskStep, UnitStep

(* An archive stands for the request: what is stored under the key is right. *)
LEMMA ArchiveRight ==
  ASSUME CompilerInv, ~undefined, pc = "compile", \A r \in DOMAIN task : task[r].st = "done",
         NEW asm \in BOOLEAN, asm = emitAssembly
  PROVE  RightEntry(archiveKey, Linked(asm))
<1>1. WholeCode(Linked(asm))
  BY LinkedWhole DEF CompilerInv, ModuleInv
<1>2. Linked(asm).kind = (IF asm THEN "asm" ELSE "object") /\ Linked(asm).marked = mod.marked
  BY DEF Linked
<1>3. mod.marked = IF forSharedObject /\ o.format = "coff" THEN Exported ELSE {}
  BY DEF CompilerInv, ModuleInv
<1>4. archiveKey.asm = emitAssembly /\ archiveKey.shared = forSharedObject /\ archiveKey.format = o.format
  BY DEF archiveKey
<1>5. QED
  BY <1>1, <1>2, <1>3, <1>4 DEF RightEntry

LEMMA NextAnswer ==
  ASSUME CompilerInv, CompilerNext
  PROVE  AnswerInv'
<1> USE DEF Reply
<1>1. AnswerInv /\ undefined \in BOOLEAN
  BY DEF CompilerInv, PhaseInv
<1>2. archiveKey' = archiveKey \/ o' # o
  BY DEF archiveKey, isJIT, emitAssembly, forSharedObject
<1>3. ASSUME cache' = cache, undefined => undefined', temp' = temp \/ ~temp'.ok,
             pc' \notin {"saveTemps", "recompile", "link"} \/ (pc' = pc /\ UNCHANGED <<linked, o>>)
      PROVE  AnswerInv'
  BY <1>1, <1>2, <1>3 DEF AnswerInv
<1>4. ASSUME NEW r \in Options, Invoke(r) PROVE AnswerInv'
  BY <1>3, <1>4 DEF Invoke, NoAnswer
<1>5. CASE Create
  BY <1>3, <1>5 DEF Create
<1>6. CASE emitArchive
  <2>1. CASE pc' \in {"done", "lower"} /\ UNCHANGED linked
    BY <1>3, <1>6, <2>1 DEF emitArchive
  <2>2. ASSUME NEW e \in Hits(archiveKey), Deliver(e.val) PROVE AnswerInv'
    <3>1. e.val.ok /\ (undefined \/ RightEntry(archiveKey, e.val))
      BY <1>1, <2>2 DEF AnswerInv, Hits
    <3>2. UNCHANGED <<cache, temp, undefined, o>> /\ linked' = e.val
      BY <1>6, <2>2 DEF emitArchive, Deliver
    <3>3. QED
      BY <1>1, <1>2, <3>1, <3>2 DEF AnswerInv
  <2>3. QED
    BY <1>6, <2>1, <2>2 DEF emitArchive
<1>7. CASE lowerAllFuncsToLLVM
  BY <1>3, <1>7 DEF lowerAllFuncsToLLVM
<1>8. CASE LinkLibraries
  BY <1>3, <1>8 DEF LinkLibraries
<1>9. CASE emitLLVMIR
  BY <1>3, <1>9 DEF emitLLVMIR
<1>10. CASE emitArchiveParallelCompilation
  BY <1>3, <1>10 DEF emitArchiveParallelCompilation
<1>11. CASE emitArchiveMCLinking
  <2>1. CASE Reply(Error) /\ UNCHANGED cache
    BY <1>3, <1>11, <2>1 DEF emitArchiveMCLinking
  <2>2. CASE ~(Reply(Error) /\ UNCHANGED cache)
    <3>1. pc = "compile" /\ (\A r \in DOMAIN task : task[r].st = "done") /\ UNCHANGED <<undefined, temp, o>>
      BY <1>11, <2>2 DEF emitArchiveMCLinking
    <3>2. emitAssembly \in BOOLEAN /\ \A asm : Linked(asm).ok
      BY DEF emitAssembly, Linked
    <3>3. undefined \/ RightEntry(archiveKey, Linked(emitAssembly))
      BY <3>1, <3>2, ArchiveRight
    <3>4. CASE SaveTemps /\ ~emitAssembly
      <4>1. pc' = "saveTemps" /\ linked' = Linked(FALSE) /\ cache' = cache
        BY <1>11, <2>2, <3>4 DEF emitArchiveMCLinking
      <4>2. Linked(emitAssembly) = Linked(FALSE)
        BY <3>2, <3>4, Zenon
      <4>3. QED
        BY <1>1, <1>2, <3>1, <3>2, <3>3, <4>1, <4>2 DEF AnswerInv
    <3>5. CASE ~(SaveTemps /\ ~emitAssembly)
      <4>1. Store(Linked(emitAssembly)) /\ linked' = Linked(emitAssembly)
        BY <1>11, <2>2, <3>5 DEF emitArchiveMCLinking, Deliver
      <4>2. cache' = cache \cup {[key |-> archiveKey, val |-> Linked(emitAssembly)]}
        BY <4>1 DEF Store
      <4>3. QED
        BY <1>1, <1>2, <3>1, <3>2, <3>3, <4>1, <4>2 DEF AnswerInv
    <3>6. QED
      BY <3>4, <3>5
  <2>3. QED
    BY <2>1, <2>2
<1>12. CASE emitArchiveSaveTemps
  <2>1. pc = "saveTemps" /\ pc' \in {"recompile", "done"} /\ UNCHANGED <<cache, o, linked, temp, undefined>>
    BY <1>12 DEF emitArchiveSaveTemps
  <2>2. QED
    BY <1>1, <1>2, <2>1 DEF AnswerInv
<1>13. CASE SaveAssembly
  <2>1. CASE Reply(Error) /\ UNCHANGED <<cache, linked, temp>>
    BY <1>3, <1>13, <2>1 DEF SaveAssembly
  <2>2. CASE ~(Reply(Error) /\ UNCHANGED <<cache, linked, temp>>)
    <3>1. /\ pc = "recompile" /\ (\A r \in DOMAIN task : task[r].st = "done") /\ UNCHANGED <<undefined, o>>
          /\ temp' = Linked(TRUE) /\ Store(linked) /\ linked' = linked
      BY <1>13, <2>2 DEF SaveAssembly, Deliver
    <3>2. undefined \/ WholeCode(temp')
      BY <1>1, <3>1, LinkedWhole DEF CompilerInv, ModuleInv
    <3>3. temp'.kind = "asm"
      BY <3>1 DEF Linked
    <3>4. cache' = cache \cup {[key |-> archiveKey, val |-> linked]}
      BY <3>1 DEF Store
    <3>5. linked.ok /\ (undefined \/ RightEntry(archiveKey, linked))
      BY <1>1, <3>1 DEF AnswerInv
    <3>6. \A e \in cache' : e.val.ok /\ (undefined \/ RightEntry(e.key, e.val))
      BY <1>1, <3>4, <3>5 DEF AnswerInv
    <3>7. archiveKey' = archiveKey
      BY <1>2, <3>1
    <3>8. QED
      BY <3>1, <3>2, <3>3, <3>5, <3>6, <3>7 DEF AnswerInv
  <2>3. QED
    BY <2>1, <2>2
<1>14. CASE emitSharedObject
  BY <1>3, <1>14 DEF emitSharedObject
<1>15. ASSUME NEW r \in DOMAIN task, lowerLLVMModuleToObjects(r) PROVE AnswerInv'
  BY <1>3, <1>15 DEF lowerLLVMModuleToObjects
<1>16. ASSUME NEW r \in DOMAIN task, NEW u, compileOptimizedLLVMModuleToObject(r, u) PROVE AnswerInv'
  BY <1>3, <1>16 DEF compileOptimizedLLVMModuleToObject
<1>17. ASSUME NEW r \in DOMAIN task, CollectUnits(r) PROVE AnswerInv'
  BY <1>3, <1>17 DEF CollectUnits
<1>18. QED
  BY <1>4, <1>5, <1>6, <1>7, <1>8, <1>9, <1>10, <1>11, <1>12, <1>13, <1>14, <1>15, <1>16, <1>17
  DEF CompilerNext, CallerStep, TaskStep, UnitStep

LEMMA InitCompiler == CompilerInit => CompilerInv
<1>1. NoAnswer.ok = FALSE
  BY DEF NoAnswer
<1>2. QED
  BY <1>1 DEF CompilerInit, CompilerInv, PhaseInv, ModuleInv, ErasesInv, AnswerInv

LEMMA StepCompiler == CompilerInv /\ [CompilerNext]_compilerVars => CompilerInv'
<1> SUFFICES ASSUME CompilerInv, [CompilerNext]_compilerVars PROVE CompilerInv'
  OBVIOUS
<1>1. CASE CompilerNext
  BY <1>1, NextPhase, NextModule, NextErases, NextAnswer DEF CompilerInv
<1>2. CASE UNCHANGED compilerVars
  <2> USE <1>2 DEF compilerVars, CompilerInv
  <2>1. PhaseInv'
    BY DEF PhaseInv, UsesArchive, SaveTemps, emitAssembly
  <2>2. ErasesInv'
    BY DEF ErasesInv, UsesArchive, ReleaseEarly, SaveTemps, emitAssembly
  <2>3. ASSUME TasksInv PROVE TasksInv'
    <3>1. Started' = Started
      BY DEF Started
    <3>2. \A q \in DOMAIN task : TaskShape(q)'
      BY <2>3, SameShape DEF TasksInv
    <3>3. QED
      BY <2>3, <3>1, <3>2, SameTasks
  <2>4. ModuleInv'
    BY <2>3 DEF ModuleInv, forSharedObject
  <2>5. archiveKey' = archiveKey
    BY DEF archiveKey, isJIT, emitAssembly, forSharedObject
  <2>6. AnswerInv'
    BY <2>5 DEF AnswerInv
  <2>7. QED
    BY <2>1, <2>2, <2>4, <2>6
<1>3. QED
  BY <1>1, <1>2

(* An entry of the transform cache stands for every invocation with its key: *)
(* all the code once, of the kind and with the export marks that key asks    *)
(* for, however the module was split, whatever order the tasks ran in and    *)
(* whatever failed (emitArchive).                                            *)
THEOREM CacheRightHolds == CompilerSafe => []CacheRight
<1>1. CompilerInv => CacheRight
  BY DEF CompilerInv, AnswerInv, RightEntry, CacheRight
<1>2. QED
  BY <1>1, InitCompiler, StepCompiler, PTL DEF CompilerSafe

(* The assembly that saveTempsPrefix asks for has all its code although the  *)
(* pieces were compiled before, and the MLIR module is there until its last  *)
(* use and erased once.                                                      *)
THEOREM SavedAssemblyWholeHolds == CompilerSafe => []SavedAssemblyWhole
<1>1. CompilerInv => SavedAssemblyWhole
  BY DEF CompilerInv, AnswerInv, ErasesInv, SavedAssemblyWhole
<1>2. QED
  BY <1>1, InitCompiler, StepCompiler, PTL DEF CompilerSafe

(* ---------------------------------------------------------------------- *)
(* ObjectCompiler: the service                                             *)

(* An archive right for its key is right for the request, unless the request *)
(* has a shared object linked from it.                                       *)
LEMMA EntryAnswers ==
  ASSUME NEW a, o \in Options, UsesArchive, o.out # "sharedObject", RightEntry(archiveKey, a)
  PROVE  RightArchive(o, a)
<1>1. o.out \in {"executable", "run", "sharedLibrary", "assembly"}
  BY CompilerAssumption DEF Outputs, UsesArchive
<1>2. archiveKey.asm = emitAssembly /\ archiveKey.shared = forSharedObject /\ archiveKey.format = o.format
  BY DEF archiveKey
<1>3. CASE o.out = "assembly"
  BY <1>2, <1>3 DEF RightEntry, RightArchive, emitAssembly
<1>4. CASE o.out # "assembly"
  BY <1>1, <1>2, <1>4 DEF RightEntry, RightArchive, emitAssembly, forSharedObject
<1>5. QED
  BY <1>3, <1>4

(* A compiler that replies does so once and with an error or what is right.  *)
LEMMA ReplyAnswers ==
  ASSUME CompilerInv, NEW a, pc \notin {"idle", "done"}, Reply(a), UNCHANGED <<o, undefined>>,
         a # NoAnswer, a = Error \/ RightArchive(o, a) \/ undefined
  PROVE  Service!Answer
<1>1. o \in Options /\ result = NoAnswer
  BY DEF CompilerInv, PhaseInv
<1>2. o # NoRequest
  <2>1. o.out \in Outputs /\ NoRequest.out \notin Outputs
    BY <1>1, CompilerAssumption DEF Outputs, NoRequest, None
  <2>2. QED
    BY <2>1
<1>3. QED
  BY <1>1, <1>2 DEF Service!Answer, Reply

LEMMA DeliverAnswers ==
  ASSUME CompilerInv, NEW a, pc \in {"emit", "compile", "recompile"}, Deliver(a), UNCHANGED <<o, undefined>>,
         a.ok, undefined \/ RightEntry(archiveKey, a)
  PROVE  Service!Answer \/ UNCHANGED <<o, result, undefined>>
<1>1. o \in Options /\ UsesArchive
  BY DEF CompilerInv, PhaseInv
<1>2. CASE o.out = "sharedObject"
  BY <1>2 DEF Deliver
<1>3. CASE o.out # "sharedObject"
  <2>1. Reply(a) /\ a # NoAnswer
    BY <1>3, NotYetAnswered DEF Deliver
  <2>2. undefined \/ RightArchive(o, a)
    BY <1>1, <1>3, EntryAnswers
  <2>3. QED
    BY <2>1, <2>2, ReplyAnswers
<1>4. QED
  BY <1>2, <1>3

(* Every step of the compiler is one of the service or none.                 *)
LEMMA ServiceStep ==
  ASSUME CompilerInv, [CompilerNext]_compilerVars
  PROVE  [Service!Next]_<<o, result, undefined>>
<1> DEFINE Same == UNCHANGED <<o, result, undefined>>
<1> SUFFICES Service!Ask \/ Service!Answer \/ Service!Break \/ Same
  BY DEF Service!Next
<1>1. ASSUME pc \notin {"idle", "done"}, Reply(Error), UNCHANGED <<o, undefined>> PROVE Service!Answer
  BY <1>1, ReplyAnswers, NotYetAnswered
<1>2. ASSUME NEW r \in Options, Invoke(r) PROVE Service!Ask
  <2>1. o = NoRequest \/ result # NoAnswer \/ undefined
    BY <1>2 DEF CompilerInv, PhaseInv, Invoke
  <2>2. QED
    BY <1>2, <2>1 DEF Invoke, Service!Ask
<1>3. CASE Create
  BY <1>1, <1>3 DEF Create
<1>4. CASE emitArchive
  <2>1. \A e \in Hits(archiveKey) : e.val.ok /\ (undefined \/ RightEntry(archiveKey, e.val))
    BY DEF CompilerInv, AnswerInv, Hits
  <2>2. QED
    BY <1>1, <1>4, <2>1, DeliverAnswers DEF emitArchive
<1>5. CASE lowerAllFuncsToLLVM
  BY <1>1, <1>5 DEF lowerAllFuncsToLLVM
<1>6. CASE LinkLibraries
  BY <1>1, <1>6 DEF LinkLibraries
<1>7. CASE emitLLVMIR
  <2> DEFINE ir == [ok |-> TRUE, kind |-> "ir", defs |-> mod.defs]
  <2>1. pc = "print" /\ UNCHANGED <<o, undefined>> /\ (Reply(Error) \/ Reply(ir))
    BY <1>7 DEF emitLLVMIR
  <2>2. o.out \in {"llvm", "llvmOpt"} /\ Fns \subseteq mod.defs
    BY <2>1 DEF CompilerInv, PhaseInv, ModuleInv, UsesArchive
  <2>3. RightArchive(o, ir) /\ ir.ok
    BY <2>2 DEF RightArchive
  <2> HIDE DEF ir
  <2>4. QED
    BY <1>1, <2>1, <2>3, ReplyAnswers, NotYetAnswered
<1>8. CASE emitArchiveParallelCompilation
  BY <1>8 DEF emitArchiveParallelCompilation
<1>9. CASE emitArchiveMCLinking
  <2>1. pc = "compile" /\ UNCHANGED <<o, undefined>>
    BY <1>9 DEF emitArchiveMCLinking
  <2>2. CASE Reply(Error)
    BY <1>1, <2>1, <2>2
  <2>3. CASE ~Reply(Error)
    <3>1. /\ \A r \in DOMAIN task : task[r].st = "done"
          /\ UNCHANGED result \/ Deliver(Linked(emitAssembly))
      BY <1>9, <2>3 DEF emitArchiveMCLinking
    <3>2. Linked(emitAssembly).ok /\ emitAssembly \in BOOLEAN
      BY DEF Linked, emitAssembly
    <3>3. undefined \/ RightEntry(archiveKey, Linked(emitAssembly))
      BY <2>1, <3>1, <3>2, ArchiveRight
    <3>4. QED
      BY <2>1, <3>1, <3>2, <3>3, DeliverAnswers
  <2>4. QED
    BY <2>2, <2>3
<1>10. CASE emitArchiveSaveTemps
  BY <1>1, <1>10 DEF emitArchiveSaveTemps
<1>11. CASE SaveAssembly
  <2>1. linked.ok /\ (undefined \/ RightEntry(archiveKey, linked))
    BY <1>11 DEF CompilerInv, AnswerInv, SaveAssembly
  <2>2. pc = "recompile" /\ UNCHANGED <<o, undefined>> /\ (Reply(Error) \/ Deliver(linked))
    BY <1>11 DEF SaveAssembly
  <2>3. QED
    BY <1>1, <2>1, <2>2, DeliverAnswers
<1>12. CASE emitSharedObject
  <2> DEFINE made == createSharedObject(o.format, <<>>, sharedObjectLinkArgs(Config, o.format), ObjectOf(linked), Defines)
             image == [ok |-> TRUE, kind |-> "image", exports |-> made.exports, from |-> made.from]
  <2>1. pc = "link" /\ UNCHANGED <<o, undefined>> /\ (Reply(Error) \/ Reply(image))
    BY <1>12 DEF emitSharedObject
  <2>2. o.out = "sharedObject" /\ (undefined \/ RightEntry(archiveKey, linked))
    BY <2>1 DEF CompilerInv, PhaseInv, AnswerInv
  <2>3. made.exports = IF o.format = "coff" THEN linked.marked ELSE linked.defs \cap Exported
    BY DEF createSharedObject, Published, ObjectOf
  <2>4. archiveKey.shared = TRUE /\ archiveKey.format = o.format
    BY <2>2 DEF archiveKey, forSharedObject
  <2>5. undefined \/ made.exports = Exported
    <3> HIDE DEF made
    <3>1. QED
      BY <2>2, <2>3, <2>4 DEF RightEntry, WholeCode
  <2>6. image.ok /\ image.kind = "image" /\ image.exports = made.exports
    OBVIOUS
  <2> HIDE DEF image, made
  <2>7. undefined \/ RightArchive(o, image)
    BY <2>2, <2>5, <2>6 DEF RightArchive
  <2>8. QED
    BY <1>1, <2>1, <2>6, <2>7, ReplyAnswers, NotYetAnswered
<1>13. ASSUME NEW r \in DOMAIN task, lowerLLVMModuleToObjects(r) PROVE Same
  BY <1>13 DEF lowerLLVMModuleToObjects
<1>14. ASSUME NEW r \in DOMAIN task, NEW u, compileOptimizedLLVMModuleToObject(r, u) PROVE Same
  BY <1>14 DEF compileOptimizedLLVMModuleToObject
<1>15. ASSUME NEW r \in DOMAIN task, CollectUnits(r) PROVE Same \/ Service!Break
  BY <1>15 DEF CollectUnits, Service!Break
<1>16. CASE UNCHANGED compilerVars
  BY <1>16 DEF compilerVars
<1>17. QED
  BY <1>2, <1>3, <1>4, <1>5, <1>6, <1>7, <1>8, <1>9, <1>10, <1>11, <1>12, <1>13, <1>14, <1>15, <1>16
  DEF CompilerNext, CallerStep, TaskStep, UnitStep

(* The safety part of the service.                                           *)
ServiceSafe == Service!Init /\ [][Service!Next]_<<o, result, undefined>>

(* The compiler implements the service of ArchiveService up to its liveness: *)
(* one answer for each request, an error or an archive right for it, until a *)
(* failed unit's value is used.                                              *)
THEOREM ServiceKeptSafely == CompilerSafe => ServiceSafe
<1>1. CompilerInit => Service!Init
  BY DEF CompilerInit, Service!Init
<1>2. QED
  BY <1>1, InitCompiler, StepCompiler, ServiceStep, PTL DEF CompilerSafe, ServiceSafe

(* ---------------------------------------------------------------------- *)
(* OffloadKernels: the inductive invariant                                 *)

(* What the key of an emission stands for.                                   *)
KeyBuffer(key) ==
  [kind |-> key.emitAs, bitcode |-> key.bitcode,
   from |-> IF key.emitAs = "OBJECT"
            THEN createSharedObject(KernelFormat, <<>>, key.link, [needs |-> KernelNeeds, marked |-> {}, visible |-> {}], LibDefines).from
            ELSE <<>>]

EmissionInv(s, e) ==
  LET em == ktask[s].em[e]
  IN  DOMAIN em = {"st", "buf"} /\ (em.st = "done" => em.buf = EmitBuffer(s, e))

(* The task of a kernel, from the queue to its two promises.                 *)
KernelTaskInv(s) ==
  /\ DOMAIN ktask[s] = DOMAIN Fresh /\ ktask[s].st \in {"queued", "emitting", "done"}
  /\ ktask[s].id \in {"pending", "ok", "error"} /\ (ktask[s].st # "done" => ktask[s].id = "pending")
  /\ ktask[s].st = "emitting" =>
       /\ KernelIdOf[s] # 0 /\ DOMAIN ktask[s].em = Emissions(s) /\ ktask[s].own = shouldDeserialize(s)
       /\ \A e \in Emissions(s) : EmissionInv(s, e)
  /\ ktask[s].id = "error" => KernelIdOf[s] = 0
  /\ ktask[s].id = "ok" =>
       /\ KernelIdOf[s] # 0 /\ ktask[s].bufs \in {"ok", "error"}
       /\ ktask[s].bufs = "ok" => \A e \in kinds(s) : ktask[s].em[e].buf = EmitBuffer(s, e)

(* The result, when there is one: the second half of KernelsRight.           *)
KernelsGiven ==
  kresult.ok =>
    /\ kopts.isOffload => \A s \in Kernels : KernelIdOf[s] \in DOMAIN kresult.bufs
    /\ \A s \in Kernels : KernelIdOf[s] # 0 =>
         /\ KernelIdOf[s] \in DOMAIN kresult.bufs
         /\ DOMAIN kresult.bufs[KernelIdOf[s]] = Kinds[KernelIdOf[s]]
         /\ \A e \in Kinds[KernelIdOf[s]] : kresult.bufs[KernelIdOf[s]][e] = EmitBuffer(s, e)

KernelInv ==
  /\ kopts \in [saveTemps : BOOLEAN, isOffload : BOOLEAN] /\ DOMAIN ktask = Kernels
  /\ \A h \in kcache : h.val = KeyBuffer(h.key)
  /\ \A s \in Kernels : KernelTaskInv(s)
  /\ KernelsGiven

(* ---------------------------------------------------------------------- *)
(* OffloadKernels: every action keeps the invariant                        *)

(* What the options and the link arguments fix is the same after a step that *)
(* leaves them alone.                                                        *)
LEMMA SameRun ==
  ASSUME UNCHANGED <<kopts, kcfg>>, NEW s
  PROVE  /\ Emissions(s)' = Emissions(s) /\ shouldDeserialize(s)' = shouldDeserialize(s)
         /\ \A e : EmitBuffer(s, e)' = EmitBuffer(s, e)
BY DEF Emissions, shouldDeserialize, shouldRunExtraAsm, kinds, getKernelIDFromLLVMModule, EmitBuffer, KindOf

LEMMA SameKernel ==
  ASSUME NEW s, KernelTaskInv(s), UNCHANGED <<kopts, kcfg>>, ktask'[s] = ktask[s]
  PROVE  KernelTaskInv(s)'
<1>1. \A e : EmissionInv(s, e) => EmissionInv(s, e)'
  BY SameRun DEF EmissionInv
<1>2. kinds(s)' = kinds(s)
  BY DEF kinds, getKernelIDFromLLVMModule
<1>3. QED
  BY <1>1, <1>2, SameRun DEF KernelTaskInv, Fresh

LEMMA SameGiven ==
  ASSUME KernelsGiven, UNCHANGED <<kopts, kcfg, kresult>>
  PROVE  KernelsGiven'
BY SameRun, SMTT(30) DEF KernelsGiven

LEMMA KeyBufferIs == ASSUME NEW s, NEW e PROVE KeyBuffer(kernelKey(s, e)) = EmitBuffer(s, e)
BY DEF KeyBuffer, kernelKey, EmitBuffer

LEMMA FreshKernel == ASSUME NEW s \in Kernels, ktask'[s] = Fresh PROVE KernelTaskInv(s)'
BY DEF KernelTaskInv, Fresh

(* A step of one task: the others, the result and the cache are as before.   *)
LEMMA OneKernel ==
  ASSUME KernelInv, NEW s \in Kernels, UNCHANGED <<kopts, kcfg, kresult>>,
         DOMAIN ktask' = Kernels, \A x \in Kernels : x # s => ktask'[x] = ktask[x],
         KernelTaskInv(s)', \A h \in kcache' : h.val = KeyBuffer(h.key)
  PROVE  KernelInv'
<1>1. \A x \in Kernels : KernelTaskInv(x)'
  BY SameKernel DEF KernelInv
<1>2. KernelsGiven'
  BY SameGiven DEF KernelInv
<1>3. QED
  BY <1>1, <1>2 DEF KernelInv

LEMMA StartKept ==
  ASSUME KernelInv, NEW s \in Kernels, StartKernel(s)
  PROVE  KernelInv'
<1>1. DOMAIN ktask = Kernels /\ KernelTaskInv(s) /\ \A h \in kcache : h.val = KeyBuffer(h.key)
  BY DEF KernelInv
<1>2. UNCHANGED <<kcache, kopts, kcfg, kresult>> /\ ktask[s].st = "queued"
  BY DEF StartKernel
<1>3. ASSUME KernelTaskInv(s)', DOMAIN ktask' = Kernels, \A x \in Kernels : x # s => ktask'[x] = ktask[x] PROVE KernelInv'
  BY <1>1, <1>2, <1>3, OneKernel
<1>4. CASE KernelIdOf[s] = 0
  <2>1. ktask' = [ktask EXCEPT ![s] = FailBoth]
    BY <1>4 DEF StartKernel, getKernelIDFromLLVMModule
  <2>2. ktask'[s] = FailBoth
    BY <1>1, <2>1
  <2>3. KernelTaskInv(s)'
    BY <1>4, <2>2 DEF KernelTaskInv, FailBoth, Fresh
  <2>4. QED
    BY <1>1, <1>3, <2>1, <2>3
<1>5. CASE KernelIdOf[s] # 0 /\ ktask' = [ktask EXCEPT ![s] = FailBuffers]
  <2>1. ktask'[s] = FailBuffers
    BY <1>1, <1>5
  <2>2. KernelTaskInv(s)'
    BY <2>1 DEF KernelTaskInv, FailBuffers, Fresh
  <2>3. QED
    BY <1>1, <1>3, <1>5, <2>2
<1>6. CASE KernelIdOf[s] # 0 /\ ktask' # [ktask EXCEPT ![s] = FailBuffers]
  <2> DEFINE em == [e \in Emissions(s) |-> IF KHits(kernelKey(s, e)) = {}
                      THEN [st |-> "launched", buf |-> NoBuf]
                      ELSE [st |-> "done", buf |-> (CHOOSE h \in KHits(kernelKey(s, e)) : TRUE).val]]
  <2>1. ktask' = [ktask EXCEPT ![s] = [@ EXCEPT !.st = "emitting", !.own = shouldDeserialize(s), !.em = em]]
    BY <1>6 DEF StartKernel, getKernelIDFromLLVMModule
  <2>2. ASSUME NEW e \in Emissions(s)
        PROVE  DOMAIN em[e] = {"st", "buf"} /\ (em[e].st = "done" => em[e].buf = EmitBuffer(s, e))
    <3>1. CASE KHits(kernelKey(s, e)) = {}
      BY <3>1
    <3>2. CASE KHits(kernelKey(s, e)) # {}
      <4>1. PICK h \in KHits(kernelKey(s, e)) : em[e] = [st |-> "done", buf |-> h.val]
        BY <3>2
      <4>2. h.val = EmitBuffer(s, e)
        BY <1>1, <4>1, KeyBufferIs DEF KHits
      <4>3. QED
        BY <4>1, <4>2
    <3>3. QED
      BY <3>1, <3>2
  <2>3. DOMAIN em = Emissions(s)
    OBVIOUS
  <2> HIDE DEF em
  <2>4. /\ DOMAIN ktask'[s] = DOMAIN Fresh /\ ktask'[s].st = "emitting" /\ ktask'[s].own = shouldDeserialize(s)
        /\ ktask'[s].em = em /\ ktask'[s].id = "pending"
    BY <1>1, <1>2, <2>1 DEF KernelTaskInv, Fresh
  <2>5. \A e \in Emissions(s) : EmissionInv(s, e)'
    BY <1>2, <2>2, <2>4, SameRun DEF EmissionInv
  <2>6. KernelTaskInv(s)'
    BY <1>2, <1>6, <2>3, <2>4, <2>5, SameRun DEF KernelTaskInv, Fresh
  <2>7. QED
    BY <1>1, <1>3, <2>1, <2>6
<1>7. QED
  BY <1>4, <1>5, <1>6

(* A step of one emission of a task.                                         *)
LEMMA OneEmission ==
  ASSUME KernelInv, NEW s \in Kernels, NEW e, NEW was, UNCHANGED <<kopts, kcfg, kresult>>,
         ktask[s].st = "emitting", e \in DOMAIN ktask[s].em, ktask' = [ktask EXCEPT ![s].em[e] = was],
         DOMAIN was = {"st", "buf"}, was.st = "done" => was.buf = EmitBuffer(s, e),
         \A h \in kcache' : h.val = KeyBuffer(h.key)
  PROVE  KernelInv'
<1>1. DOMAIN ktask = Kernels /\ KernelTaskInv(s)
  BY DEF KernelInv
<1>2. DOMAIN ktask' = Kernels /\ \A x \in Kernels : x # s => ktask'[x] = ktask[x]
  BY <1>1
<1>3. ktask'[s] = [ktask[s] EXCEPT !.em = [ktask[s].em EXCEPT ![e] = was]]
  BY <1>1
<1>4. /\ DOMAIN ktask'[s] = DOMAIN Fresh /\ ktask'[s].st = "emitting" /\ ktask'[s].own = ktask[s].own
      /\ ktask'[s].id = "pending" /\ ktask'[s].em = [ktask[s].em EXCEPT ![e] = was]
  BY <1>1, <1>3 DEF KernelTaskInv, Fresh
<1>5. DOMAIN ktask'[s].em = Emissions(s) /\ KernelIdOf[s] # 0 /\ ktask'[s].own = shouldDeserialize(s)
  BY <1>1, <1>4 DEF KernelTaskInv
<1>6. ASSUME NEW x \in Emissions(s) PROVE EmissionInv(s, x)'
  <2>1. CASE x = e
    <3>1. ktask'[s].em[x] = was
      BY <1>4, <2>1
    <3>2. QED
      BY <2>1, <3>1, SameRun DEF EmissionInv
  <2>2. CASE x # e
    <3>1. ktask'[s].em[x] = ktask[s].em[x] /\ EmissionInv(s, x)
      BY <1>1, <1>4, <2>2 DEF KernelTaskInv
    <3>2. QED
      BY <3>1, SameRun DEF EmissionInv
  <2>3. QED
    BY <2>1, <2>2
<1>7. KernelTaskInv(s)'
  BY <1>4, <1>5, <1>6, SameRun DEF KernelTaskInv, Fresh
<1>8. QED
  BY <1>2, <1>7, OneKernel

LEMMA EmissionKept ==
  ASSUME KernelInv, NEW s \in Kernels, NEW e, BeginEmission(s, e) \/ EndEmission(s, e)
  PROVE  KernelInv'
<1>1. UNCHANGED <<kopts, kcfg, kresult>> /\ ktask[s].st = "emitting" /\ e \in DOMAIN ktask[s].em
  BY DEF BeginEmission, EndEmission
<1>2. DOMAIN ktask = Kernels /\ KernelTaskInv(s) /\ \A h \in kcache : h.val = KeyBuffer(h.key)
  BY DEF KernelInv
<1>3. DOMAIN ktask[s].em[e] = {"st", "buf"} /\ e \in Emissions(s)
  BY <1>1, <1>2 DEF KernelTaskInv, EmissionInv
<1>4. ASSUME NEW st \in {"running", "error"}, ktask' = [ktask EXCEPT ![s].em[e].st = st], kcache' = kcache PROVE KernelInv'
  <2> DEFINE was == [ktask[s].em[e] EXCEPT !.st = st]
  <2>1. ktask' = [ktask EXCEPT ![s].em[e] = was]
    BY <1>4
  <2>2. DOMAIN was = {"st", "buf"} /\ was.st # "done"
    BY <1>3
  <2> HIDE DEF was
  <2>3. QED
    BY <1>1, <1>2, <1>4, <2>1, <2>2, OneEmission
<1>5. CASE /\ ktask' = [ktask EXCEPT ![s].em[e] = [st |-> "done", buf |-> EmitBuffer(s, e)]]
           /\ kcache' = kcache \cup {[key |-> kernelKey(s, e), val |-> EmitBuffer(s, e)]}
  <2>1. \A h \in kcache' : h.val = KeyBuffer(h.key)
    BY <1>2, <1>5, KeyBufferIs
  <2> DEFINE was == [st |-> "done", buf |-> EmitBuffer(s, e)]
  <2>2. DOMAIN was = {"st", "buf"} /\ was.buf = EmitBuffer(s, e) /\ ktask' = [ktask EXCEPT ![s].em[e] = was]
    BY <1>5
  <2> HIDE DEF was
  <2>3. QED
    BY <1>1, <2>1, <2>2, OneEmission
<1>6. QED
  BY <1>4, <1>5 DEF BeginEmission, EndEmission

LEMMA FinishKept ==
  ASSUME KernelInv, NEW s \in Kernels, FinishKernel(s)
  PROVE  KernelInv'
<1>1. DOMAIN ktask = Kernels /\ KernelTaskInv(s) /\ \A h \in kcache : h.val = KeyBuffer(h.key)
  BY DEF KernelInv
<1>2. /\ UNCHANGED <<kcache, kopts, kcfg, kresult>> /\ ktask[s].st = "emitting"
      /\ \A e \in DOMAIN ktask[s].em : ktask[s].em[e].st \in {"done", "error"}
      /\ ktask' = [ktask EXCEPT ![s].st = "done", ![s].id = "ok", ![s].bufs = Buffers(s)]
  BY DEF FinishKernel
<1>3. DOMAIN ktask' = Kernels /\ \A x \in Kernels : x # s => ktask'[x] = ktask[x]
  BY <1>1, <1>2
<1>4. /\ DOMAIN ktask'[s] = DOMAIN Fresh /\ ktask'[s].st = "done" /\ ktask'[s].id = "ok"
      /\ ktask'[s].bufs = Buffers(s) /\ ktask'[s].em = ktask[s].em
  BY <1>1, <1>2 DEF KernelTaskInv, Fresh
<1>5. Buffers(s) = "ok" => \A e \in kinds(s) : ktask[s].em[e].buf = EmitBuffer(s, e)
  <2>1. kinds(s) \subseteq Emissions(s)
    BY DEF Emissions
  <2>2. QED
    BY <1>1, <1>2, <2>1 DEF Buffers, KernelTaskInv, EmissionInv
<1>6. Buffers(s) \in {"ok", "error"} /\ KernelIdOf[s] # 0
  BY <1>1, <1>2 DEF Buffers, KernelTaskInv
<1>7. kinds(s)' = kinds(s)
  BY DEF kinds, getKernelIDFromLLVMModule
<1>8. \A e : EmitBuffer(s, e)' = EmitBuffer(s, e)
  BY <1>2, SameRun
<1>9. (ktask[s].bufs = "ok" => \A e \in kinds(s) : ktask[s].em[e].buf = EmitBuffer(s, e))'
  BY <1>4, <1>5, <1>7, <1>8
<1>10. KernelTaskInv(s)'
  BY <1>4, <1>6, <1>9 DEF KernelTaskInv, Fresh
<1>11. QED
  BY <1>1, <1>2, <1>3, <1>10, OneKernel

(* The result is put together from the tasks.                                *)
LEMMA ResultKept ==
  ASSUME KernelInv, emitOffloadKernels
  PROVE  KernelInv'
<1>1. UNCHANGED <<kcache, kopts, kcfg, ktask>> /\ \A s \in Kernels : Resolved(s)
  BY DEF emitOffloadKernels
<1>2. \A s \in Kernels : KernelTaskInv(s)
  BY DEF KernelInv
<1>3. \A s \in Kernels : KernelTaskInv(s)'
  BY <1>1, <1>2, SameKernel
<1>4. KernelsGiven'
  <2>1. CASE \E s \in Kernels : Refused(s)
    <3>1. kresult' = KernelError
      BY <2>1 DEF emitOffloadKernels
    <3>2. QED
      BY <3>1 DEF KernelsGiven, KernelError
  <2>2. CASE ~ \E s \in Kernels : Refused(s)
    <3> DEFINE bufs == [i \in {KernelIdOf[s] : s \in Found} |->
                          LET s == CHOOSE x \in Found : KernelIdOf[x] = i
                          IN  [e \in kinds(s) |-> ktask[s].em[e].buf]]
    <3>1. kresult'.bufs = bufs
      BY <2>2 DEF emitOffloadKernels
    <3>2. ASSUME NEW s \in Kernels, KernelIdOf[s] # 0
          PROVE  /\ s \in Found /\ KernelIdOf[s] \in DOMAIN bufs
                 /\ bufs[KernelIdOf[s]] = [e \in kinds(s) |-> EmitBuffer(s, e)]
      <4>1. ktask[s].id = "ok" /\ ktask[s].bufs = "ok"
        BY <1>1, <1>2, <2>2, <3>2 DEF KernelTaskInv, Resolved, Refused
      <4>2. s \in Found
        BY <4>1 DEF Found
      <4>3. (CHOOSE x \in Found : KernelIdOf[x] = KernelIdOf[s]) = s
        <5>1. \A x \in Found : KernelIdOf[x] = KernelIdOf[s] => x = s
          BY <3>2, KernelAssumption DEF Found
        <5>2. QED
          BY <4>2, <5>1
      <4>4. KernelIdOf[s] \in DOMAIN bufs
        BY <4>2
      <4>5. bufs[KernelIdOf[s]] = [e \in kinds(s) |-> ktask[s].em[e].buf]
        BY <4>3, <4>4
      <4>6. \A e \in kinds(s) : ktask[s].em[e].buf = EmitBuffer(s, e)
        BY <1>2, <4>1 DEF KernelTaskInv
      <4>7. QED
        BY <4>2, <4>4, <4>5, <4>6
    <3>3. kopts.isOffload => \A s \in Kernels : KernelIdOf[s] \in DOMAIN bufs
      <4>1. SUFFICES ASSUME kopts.isOffload, NEW s \in Kernels PROVE KernelIdOf[s] \in DOMAIN bufs
        OBVIOUS
      <4>2. ktask[s].id = "ok"
        BY <1>1, <1>2, <2>2, <4>1 DEF KernelTaskInv, Resolved, Refused
      <4>3. QED
        BY <4>2 DEF Found
    <3> HIDE DEF bufs
    <3>4. ASSUME NEW s \in Kernels, KernelIdOf[s] # 0
          PROVE  /\ DOMAIN kresult'.bufs[KernelIdOf[s]] = Kinds[KernelIdOf[s]]
                 /\ \A e \in Kinds[KernelIdOf[s]] : kresult'.bufs[KernelIdOf[s]][e] = EmitBuffer(s, e)'
      <4>1. kinds(s) = Kinds[KernelIdOf[s]]
        BY DEF kinds, getKernelIDFromLLVMModule
      <4>2. \A e : EmitBuffer(s, e)' = EmitBuffer(s, e)
        BY <1>1, SameRun
      <4>3. kresult'.bufs[KernelIdOf[s]] = [e \in Kinds[KernelIdOf[s]] |-> EmitBuffer(s, e)]
        BY <3>1, <3>2, <3>4, <4>1
      <4>4. QED
        BY <4>2, <4>3
    <3>5. QED
      BY <1>1, <3>1, <3>2, <3>3, <3>4 DEF KernelsGiven
  <2>3. QED
    BY <2>1, <2>2
<1>5. QED
  BY <1>1, <1>3, <1>4 DEF KernelInv

LEMMA StepKernels == KernelInv /\ [KernelNext]_kernelVars => KernelInv'
<1> SUFFICES ASSUME KernelInv, [KernelNext]_kernelVars PROVE KernelInv'
  OBVIOUS
<1>1. ASSUME NEW k \in KernelOptions, NEW c \in LinkConfigs, RunKernels(k, c) PROVE KernelInv'
  <2>1. kopts' = k /\ ktask' = [s \in Kernels |-> Fresh] /\ kresult' = NoKernels /\ kcache' = kcache
    BY <1>1 DEF RunKernels
  <2>2. \A s \in Kernels : KernelTaskInv(s)'
    BY <2>1, FreshKernel
  <2>3. KernelsGiven'
    BY <2>1 DEF KernelsGiven, NoKernels
  <2>4. QED
    BY <2>1, <2>2, <2>3, KernelAssumption DEF KernelInv
<1>2. CASE LowerKernels
  <2>1. UNCHANGED <<kcache, kopts, kcfg, ktask>> /\ (UNCHANGED kresult \/ kresult' = KernelError)
    BY <1>2 DEF LowerKernels
  <2>2. \A s \in Kernels : KernelTaskInv(s)'
    BY <2>1, SameKernel DEF KernelInv
  <2>3. KernelsGiven'
    <3>1. CASE UNCHANGED kresult
      BY <2>1, <3>1, SameGiven DEF KernelInv
    <3>2. CASE kresult' = KernelError
      BY <3>2 DEF KernelsGiven, KernelError
    <3>3. QED
      BY <2>1, <3>1, <3>2
  <2>4. QED
    BY <2>1, <2>2, <2>3 DEF KernelInv
<1>3. CASE UNCHANGED kernelVars
  <2>1. \A s \in Kernels : KernelTaskInv(s)'
    BY <1>3, SameKernel DEF KernelInv, kernelVars
  <2>2. KernelsGiven'
    BY <1>3, SameGiven DEF KernelInv, kernelVars
  <2>3. QED
    BY <1>3, <2>1, <2>2 DEF KernelInv, kernelVars
<1>4. QED
  BY <1>1, <1>2, <1>3, StartKept, EmissionKept, FinishKept, ResultKept DEF KernelNext, KernelCaller, KernelTask

(* Unless the piece's task owns the module for all of them, there is one     *)
(* emission.                                                                 *)
LEMMA OwnEmission ==
  ASSUME KernelInv, NEW s \in Kernels
  PROVE  EmissionsApart(s)
<1> DEFINE busy == {e \in DOMAIN ktask[s].em : ktask[s].em[e].st \in {"launched", "running"}}
<1>1. SUFFICES ASSUME ktask[s].st = "emitting", ~ktask[s].own PROVE Cardinality(busy) <= 1
  BY DEF EmissionsApart
<1>2. KernelIdOf[s] # 0 /\ DOMAIN ktask[s].em = Emissions(s) /\ ~shouldDeserialize(s)
  BY <1>1 DEF KernelInv, KernelTaskInv
<1>3. Emissions(s) = kinds(s) /\ ~(Cardinality(kinds(s)) > 1)
  BY <1>2 DEF Emissions, shouldDeserialize
<1>4. kinds(s) \subseteq EmitAs
  BY <1>2, KernelAssumption DEF kinds, getKernelIDFromLLVMModule
<1>5. IsFiniteSet(EmitAs)
  <2>1. IsFiniteSet({}) /\ \A S, x : IsFiniteSet(S) => IsFiniteSet(S \cup {x})
    BY FS_EmptySet, FS_AddElement
  <2>2. EmitAs = ((((({} \cup {"ASM"}) \cup {"OBJECT"}) \cup {"LLVM"}) \cup {"LLVM_OPT"}) \cup {"LLVM_BITCODE"}) \cup {"LLVM_OPT_BITCODE"}
    BY DEF EmitAs
  <2>3. QED
    BY <2>1, <2>2
<1>6. IsFiniteSet(kinds(s)) /\ Cardinality(kinds(s)) \in Nat
  BY <1>4, <1>5, FS_Subset, FS_CardinalityType
<1>7. Cardinality(busy) <= Cardinality(kinds(s)) /\ Cardinality(busy) \in Nat
  <2>1. busy \subseteq kinds(s)
    BY <1>2, <1>3
  <2> HIDE DEF busy
  <2>2. QED
    BY <1>6, <2>1, FS_Subset, FS_CardinalityType
<1>8. QED
  BY <1>3, <1>6, <1>7

(* emitOffloadKernels: a bundle that compiles gives each kernel with an id   *)
(* its own code in exactly the kinds asked for, linked as the installation   *)
(* is configured now although the cache is shared, none missing on an        *)
(* offload target, and two emissions are never at work on one module.        *)
THEOREM KernelsRightHolds == KernelSafe => []KernelsRight
<1>1. KernelInit => KernelInv
  <2> SUFFICES ASSUME KernelInit PROVE KernelInv
    OBVIOUS
  <2>1. \A s \in Kernels : KernelTaskInv(s)
    BY DEF KernelInit, KernelTaskInv, Fresh
  <2>2. KernelsGiven
    BY DEF KernelInit, KernelsGiven, NoKernels
  <2>3. QED
    BY <2>1, <2>2 DEF KernelInit, KernelInv
<1>2. KernelInv => KernelsRight
  BY OwnEmission DEF KernelInv, KernelsGiven, KernelsRight
<1>3. QED
  BY <1>1, <1>2, StepKernels, PTL DEF KernelSafe

(* ---------------------------------------------------------------------- *)
(* ExecutionEngine: what is asked first                                    *)

(* A set of natural numbers that is not empty has a least one.               *)
LEMMA LeastNat ==
  ASSUME NEW T \in SUBSET Nat, T # {}
  PROVE  \E x \in T : \A y \in T : x <= y
<1> DEFINE R == {ss \in Nat \X Nat : ss[1] < ss[2]}
<1>1. IsWellFoundedOn(R, Nat)
  BY NatLessThanWellFounded DEF OpToRel
<1>2. PICK x \in T : \A y \in T : <<y, x>> \notin R
  <2> HIDE DEF R
  <2>1. QED
    BY <1>1, WFMin
<1>3. \A y \in T : ~(y < x)
  BY <1>2
<1>4. QED
  BY <1>3

(* So the least place that CHOOSE names is one.                              *)
LEMMA LeastChosen ==
  ASSUME NEW I \in SUBSET Nat, I # {}
  PROVE  LET least == CHOOSE i \in I : \A j \in I : i <= j IN least \in I /\ \A j \in I : least <= j
<1>1. \E i \in I : \A j \in I : i <= j
  BY LeastNat
<1>2. QED
  BY <1>1

(* A dylib that does not define a name takes it from its first generator     *)
(* that knows it.                                                            *)
LEMMA InDylibIs ==
  ASSUME NEW d, NEW n, NEW gens, gens = dylib[d].gens, n \notin dylib[d].defined, Len(gens) \in Nat
  PROVE  \/ (\A i \in 1 .. Len(gens) : Knows(gens[i], n) = {}) /\ InDylib(d, n) = {}
         \/ \E i \in 1 .. Len(gens) : /\ Knows(gens[i], n) # {} /\ \A j \in 1 .. Len(gens) : Knows(gens[j], n) # {} => i <= j
                                      /\ InDylib(d, n) = Knows(gens[i], n)
<1> DEFINE know == {i \in 1 .. Len(gens) : Knows(gens[i], n) # {}}
           least == CHOOSE i \in know : \A j \in know : i <= j
<1>1. InDylib(d, n) = IF know = {} THEN {} ELSE Knows(gens[least], n)
  BY DEF InDylib
<1>2. CASE know = {}
  BY <1>1, <1>2
<1>3. CASE know # {}
  <2>1. know \in SUBSET Nat
    OBVIOUS
  <2>2. least \in know /\ \A j \in know : least <= j
    <3> HIDE DEF know
    <3>1. QED
      BY <1>3, <2>1, LeastChosen
  <2>3. InDylib(d, n) = Knows(gens[least], n)
    BY <1>1, <1>3
  <2> HIDE DEF least
  <2>4. QED
    BY <2>2, <2>3
<1>4. QED
  BY <1>2, <1>3

(* The first dylib of an order that has a name.                              *)
LEMMA FirstInIs ==
  ASSUME NEW order, NEW n, Len(order) \in Nat, NEW i \in 1 .. Len(order), InDylib(order[i], n) # {},
         \A j \in 1 .. (i - 1) : InDylib(order[j], n) = {}
  PROVE  FirstIn(order, n) = order[i]
<1> DEFINE has == {j \in 1 .. Len(order) : InDylib(order[j], n) # {}}
           least == CHOOSE j \in has : \A k \in has : j <= k
<1>1. i \in has /\ has \in SUBSET Nat /\ \A j \in has : i <= j
  <2>1. i \in has /\ has \in SUBSET Nat
    OBVIOUS
  <2>2. ASSUME NEW j \in has PROVE i <= j
    <3>1. j \in 1 .. Len(order) /\ ~(j \in 1 .. (i - 1))
      OBVIOUS
    <3> HIDE DEF has
    <3>2. QED
      BY <3>1
  <2>3. QED
    BY <2>1, <2>2
<1>2. FirstIn(order, n) = IF has = {} THEN NoName ELSE order[least]
  BY DEF FirstIn
<1>3. least \in has /\ \A k \in has : least <= k
  <2> HIDE DEF has
  <2>1. QED
    BY <1>1, LeastChosen
<1>4. least = i
  <2> HIDE DEF least, has
  <2>1. PICK k : k = least
    OBVIOUS
  <2>2. k <= i /\ i <= k /\ k \in Nat /\ i \in Nat
    BY <1>1, <1>3, <2>1
  <2>3. k = i
    BY <2>2
  <2>4. QED
    BY <2>1, <2>3
<1>5. QED
  BY <1>1, <1>2, <1>4

(* ---------------------------------------------------------------------- *)
(* ExecutionEngine: the inductive invariant                                *)

Libs == {platformStdlib, compilerRTlib, mlirclib}
Asked == setup.libraryPaths \o <<"compilerrt">>

(* The session as create and addIfAbsent leave it: the three dylibs, and     *)
(* every archive with its definitions and its way to them.                   *)
SessionInv ==
  /\ plugins = createPlugins
  /\ Libs \subseteq DOMAIN dylib /\ DOMAIN dylib \ Libs \subseteq DOMAIN Archives
  /\ dylib[platformStdlib] = (IF setup.cross THEN Bare ELSE setupPlatform)
  /\ dylib[compilerRTlib] = initializeCompilerRT /\ dylib[mlirclib] = mlirc
  /\ \A a \in DOMAIN dylib \ Libs : /\ dylib[a] = [defined |-> Archives[a].defs, gens |-> <<>>]
                                    /\ a \in DOMAIN linkOrder /\ linkOrder[a] = LinkOrderOf(a)
  /\ searchOrder \in Seq(DOMAIN dylib)

(* What NamesBound says of one name of one archive.                          *)
Bound(a, n, by) ==
  LET lib == {g \in Range(Asked) : Answers[g][n] # {}}
  IN  /\ by # {}
      /\ n \in Archives[a].defs => by = {a}
      /\ n \notin Archives[a].defs /\ lib # {} => \E g \in lib : by = Answers[g][n]
      /\ n \in StdioNames \ Archives[a].defs /\ lib = {} /\ coff => by = {platformStdlib}

(* What is said of every archive linked so far.                              *)
LinkedInv ==
  \A a \in DOMAIN loaded :
     /\ a \in DOMAIN Archives /\ DOMAIN loaded[a] = Archives[a].needs
     /\ Undisputed /\ ~setup.cross => \A n \in DOMAIN loaded[a] : Bound(a, n, loaded[a][n])

(* What is true of an engine between any two calls.                          *)
EngineInv ==
  /\ setup \in Setups /\ epc \in {"start", "ready", "ran", "failed", "ended"}
  /\ epc = "ready" => SessionInv
  /\ epc = "start" => searchOrder = <<>> /\ DOMAIN loaded = {} /\ found.in \notin DOMAIN Archives
  /\ found.in \in DOMAIN Archives /\ epc = "ready" => found.in \in DOMAIN loaded
  /\ LinkedInv

(* ---------------------------------------------------------------------- *)
(* ExecutionEngine: how a name is bound                                    *)

(* The runtime's dylib asks the libraries in their order, sanitizers last.   *)
LEMMA AskedIs ==
  ASSUME EngineInv
  PROVE  /\ Len(Asked) \in Nat \ {0} /\ Len(initializeCompilerRT.gens) = Len(Asked) + 1
         /\ Range(Asked) = {Asked[i] : i \in 1 .. Len(Asked)}
         /\ \A i \in 1 .. Len(Asked) : initializeCompilerRT.gens[i] = Asked[i]
         /\ initializeCompilerRT.gens[Len(Asked) + 1] = "sanitizers"
         /\ "compilerrt" \in Range(Asked) /\ Asked[Len(Asked)] = "compilerrt"
<1>1. PICK T : setup.libraryPaths \in Seq(T)
  BY EngineAssumption DEF EngineInv
<1>2. PICK s \in Seq(T \cup {"compilerrt", "sanitizers"}) : s = setup.libraryPaths
  BY <1>1
<1>3. Asked = s \o <<"compilerrt">> /\ initializeCompilerRT.gens = s \o <<"compilerrt", "sanitizers">>
  BY <1>2 DEF Asked, initializeCompilerRT
<1>4. /\ Len(s) \in Nat /\ Len(Asked) = Len(s) + 1 /\ Len(initializeCompilerRT.gens) = Len(s) + 2
      /\ \A i \in 1 .. Len(s) : Asked[i] = s[i] /\ initializeCompilerRT.gens[i] = s[i]
      /\ Asked[Len(s) + 1] = "compilerrt" /\ initializeCompilerRT.gens[Len(s) + 1] = "compilerrt"
      /\ initializeCompilerRT.gens[Len(s) + 2] = "sanitizers" /\ DOMAIN Asked = 1 .. Len(Asked)
  BY <1>2, <1>3
<1>5. Range(Asked) = {Asked[i] : i \in 1 .. Len(Asked)}
  BY <1>4 DEF Range
<1>6. \A i \in 1 .. Len(Asked) : initializeCompilerRT.gens[i] = Asked[i]
  <2> TAKE i \in 1 .. Len(Asked)
  <2>1. i \in 1 .. Len(s) \/ i = Len(s) + 1
    BY <1>4
  <2>2. QED
    BY <1>4, <2>1
<1>7. "compilerrt" \in Range(Asked)
  <2>1. Len(Asked) \in 1 .. Len(Asked) /\ Asked[Len(Asked)] = "compilerrt"
    BY <1>4
  <2>2. QED
    BY <1>5, <2>1
<1>8. QED
  BY <1>4, <1>5, <1>6, <1>7

(* A name that a library of the command line or the runtime has comes from   *)
(* one of them; otherwise the runtime's dylib has it from the sanitizers, or, *)
(* off COFF, from the process.                                               *)
LEMMA FromRuntime ==
  ASSUME EngineInv, SessionInv, Undisputed, NEW a \in DOMAIN Archives, NEW n \in Archives[a].needs
  PROVE  LET lib == {g \in Range(Asked) : Answers[g][n] # {}}
             by == InDylib(compilerRTlib, n)
         IN  /\ lib # {} => by # {} /\ \E g \in lib : by = Answers[g][n]
             /\ lib = {} /\ coff => by = Answers["sanitizers"][n]
             /\ lib = {} /\ ~coff /\ Answers["process"][n] # {} => by # {}
<1> DEFINE lib == {g \in Range(Asked) : Answers[g][n] # {}}
           by == InDylib(compilerRTlib, n)
<1>1. PICK gens : gens = initializeCompilerRT.gens
  OBVIOUS
<1>2. gens = dylib[compilerRTlib].gens /\ n \notin dylib[compilerRTlib].defined
  BY <1>1 DEF SessionInv, initializeCompilerRT
<1>3. /\ Len(Asked) \in Nat \ {0} /\ Len(gens) = Len(Asked) + 1 /\ \A i \in 1 .. Len(Asked) : gens[i] = Asked[i] /\ Asked[i] \in Range(Asked)
      /\ gens[Len(Asked) + 1] = "sanitizers" /\ \A g \in Range(Asked) : \E i \in 1 .. Len(Asked) : g = Asked[i]
  BY <1>1, AskedIs
<1>4. \/ (\A i \in 1 .. Len(gens) : Knows(gens[i], n) = {}) /\ by = {}
      \/ \E i \in 1 .. Len(gens) : /\ Knows(gens[i], n) # {} /\ \A j \in 1 .. Len(gens) : Knows(gens[j], n) # {} => i <= j
                                   /\ by = Knows(gens[i], n)
  <2>1. Len(gens) \in Nat
    BY <1>3
  <2>2. QED
    BY <1>2, <2>1, InDylibIs, Zenon
<1>5. \A g \in Range(Asked) : Knows(g, n) = IF Answers[g][n] # {} THEN Answers[g][n] ELSE IF coff THEN {} ELSE Answers["process"][n]
  BY DEF Knows, Asked
<1>6. CASE lib # {}
  <2>1. PICK k \in 1 .. Len(Asked) : Answers[Asked[k]][n] # {}
    BY <1>3, <1>6
  <2>2. k \in 1 .. Len(gens) /\ Knows(gens[k], n) # {}
    BY <1>3, <1>5, <2>1
  <2>3. PICK i \in 1 .. Len(gens) : /\ Knows(gens[i], n) # {} /\ \A j \in 1 .. Len(gens) : Knows(gens[j], n) # {} => i <= j
                                    /\ by = Knows(gens[i], n)
    BY <1>4, <2>2
  <2>4. i \in 1 .. Len(Asked) /\ gens[i] = Asked[i] /\ Asked[i] \in Range(Asked)
    BY <1>3, <2>2, <2>3
  <2>5. Answers[Asked[i]][n] # {}
    <3>1. CASE coff \/ Answers["process"][n] = {}
      BY <1>5, <2>3, <2>4, <3>1
    <3>2. CASE ~coff /\ Answers["process"][n] # {}
      <4>1. Answers[Asked[1]][n] # {}
        <5>1. Answers[Asked[1]][n] # {} \/ \A g \in Range(Asked) : Answers[g][n] = {}
          BY <3>2 DEF Undisputed, Asked
        <5>2. QED
          BY <1>3, <2>1, <5>1
      <4>2. 1 \in 1 .. Len(gens) /\ Knows(gens[1], n) # {}
        <5>1. 1 \in 1 .. Len(Asked) /\ 1 \in 1 .. Len(gens)
          BY <1>3
        <5>2. gens[1] = Asked[1] /\ Asked[1] \in Range(Asked)
          BY <1>3, <5>1
        <5>3. Knows(Asked[1], n) = Answers[Asked[1]][n]
          BY <1>5, <4>1, <5>2
        <5>4. QED
          BY <4>1, <5>1, <5>2, <5>3
      <4>3. i = 1
        <5>1. i <= 1 /\ i \in 1 .. Len(gens)
          BY <2>3, <4>2
        <5>2. QED
          BY <5>1
      <4>4. QED
        BY <4>1, <4>3
    <3>3. QED
      BY <3>1, <3>2
  <2>6. by = Answers[Asked[i]][n] /\ Asked[i] \in lib
    BY <1>5, <2>3, <2>4, <2>5
  <2>7. QED
    BY <1>6, <2>5, <2>6
<1>7. CASE lib = {} /\ coff
  <2>1. \A i \in 1 .. Len(Asked) : Knows(gens[i], n) = {}
    BY <1>3, <1>5, <1>7
  <2>2. Knows("sanitizers", n) = Answers["sanitizers"][n]
    BY <1>7 DEF Knows
  <2>3. Len(Asked) + 1 \in 1 .. Len(gens) /\ \A i \in 1 .. Len(gens) : i \in 1 .. Len(Asked) \/ i = Len(Asked) + 1
    BY <1>3
  <2>4. by = Answers["sanitizers"][n]
    BY <1>3, <1>4, <2>1, <2>2, <2>3
  <2>5. QED
    BY <1>7, <2>4
<1>8. CASE lib = {} /\ ~coff
  <2>1. ASSUME Answers["process"][n] # {} PROVE by # {}
    <3>1. 1 \in 1 .. Len(gens) /\ Knows(gens[1], n) # {}
      BY <1>3, <1>5, <1>8, <2>1
    <3>2. QED
      BY <1>4, <3>1
  <2>2. QED
    BY <1>8, <2>1
<1>9. QED
  BY <1>6, <1>7, <1>8

(* The places of two sequences put together.                                 *)
LEMMA ConcatIs ==
  ASSUME NEW T, NEW s \in Seq(T), NEW t \in Seq(T)
  PROVE  /\ s \o t \in Seq(T) /\ Len(s \o t) = Len(s) + Len(t) /\ Len(s) \in Nat /\ Len(t) \in Nat
         /\ \A i \in 1 .. Len(s) : (s \o t)[i] = s[i]
         /\ \A i \in 1 .. Len(t) : (s \o t)[Len(s) + i] = t[i]
OBVIOUS
(* Short sequences as functions.                                             *)
LEMMA TupleIs ==
  ASSUME NEW T, NEW a \in T, NEW b \in T
  PROVE  /\ <<>> \in Seq(T) /\ Len(<<>>) = 0
         /\ <<a>> \in Seq(T) /\ Len(<<a>>) = 1 /\ <<a>>[1] = a
         /\ <<a, b>> \in Seq(T) /\ Len(<<a, b>>) = 2 /\ <<a, b>>[1] = a /\ <<a, b>>[2] = b
OBVIOUS

(* The link order of an archive, with the archive in front.                  *)
LEMMA OrderIs ==
  ASSUME NEW d, NEW order, order = <<d>> \o LinkOrderOf(d), d \notin Libs
  PROVE  /\ Len(order) \in Nat /\ {1, 2, 3} \subseteq 1 .. Len(order) /\ (coff => 4 \in 1 .. Len(order) /\ order[4] = platformStdlib)
         /\ order[1] = d /\ order[2] = compilerRTlib /\ order[3] = mlirclib
<1>1. PICK T : {d, compilerRTlib, mlirclib, platformStdlib} \subseteq T
  OBVIOUS
<1>2. PICK f : f = <<d>> /\ f \in Seq(T) /\ Len(f) = 1 /\ f[1] = d
  BY <1>1, TupleIs
<1>3. PICK h : h = <<compilerRTlib, mlirclib>> /\ h \in Seq(T) /\ Len(h) = 2 /\ h[1] = compilerRTlib /\ h[2] = mlirclib
  <2>1. PICK b \in T : b = compilerRTlib
    BY <1>1
  <2>2. PICK c \in T : c = mlirclib
    BY <1>1
  <2>3. <<b, c>> \in Seq(T) /\ Len(<<b, c>>) = 2 /\ <<b, c>>[1] = b /\ <<b, c>>[2] = c
    BY TupleIs
  <2>4. QED
    BY <2>1, <2>2, <2>3
<1>4. PICK r : r = (IF coff THEN <<platformStdlib>> ELSE <<>>) /\ r \in Seq(T) /\ Len(r) \in Nat
                 /\ (coff => Len(r) = 1 /\ r[1] = platformStdlib)
  <2>1. platformStdlib \in T /\ 0 \in Nat /\ 1 \in Nat
    BY <1>1
  <2>2. CASE coff
    BY <2>1, <2>2, TupleIs, Zenon
  <2>3. CASE ~coff
    BY <2>1, <2>3, TupleIs, Zenon
  <2>4. QED
    BY <2>2, <2>3
<1>5. PICK s : s = h \o r
  OBVIOUS
<1>6. s \in Seq(T) /\ Len(s) = 2 + Len(r) /\ s[1] = h[1] /\ s[2] = h[2] /\ (coff => s[3] = r[1])
  <2>1. /\ s \in Seq(T) /\ Len(s) = Len(h) + Len(r) /\ \A i \in 1 .. Len(h) : s[i] = h[i]
        /\ \A i \in 1 .. Len(r) : s[Len(h) + i] = r[i]
    BY <1>3, <1>4, <1>5, ConcatIs
  <2>2. 1 \in 1 .. Len(h) /\ 2 \in 1 .. Len(h) /\ (coff => 1 \in 1 .. Len(r)) /\ Len(h) + 1 = 3
    BY <1>3, <1>4
  <2>3. QED
    BY <1>3, <2>1, <2>2
<1>7. order = f \o s
  BY <1>2, <1>3, <1>4, <1>5, Zenon DEF LinkOrderOf, Libs
<1>8. /\ Len(order) = Len(f) + Len(s) /\ \A i \in 1 .. Len(f) : order[i] = f[i]
      /\ \A i \in 1 .. Len(s) : order[Len(f) + i] = s[i]
  BY <1>2, <1>6, <1>7, ConcatIs
<1>9. /\ 1 \in 1 .. Len(f) /\ 1 \in 1 .. Len(s) /\ 2 \in 1 .. Len(s) /\ (coff => 3 \in 1 .. Len(s))
      /\ Len(f) + 1 = 2 /\ Len(f) + 2 = 3 /\ Len(f) + 3 = 4
  BY <1>2, <1>4, <1>6
<1>10. order[1] = d /\ order[2] = compilerRTlib /\ order[3] = mlirclib /\ (coff => order[4] = platformStdlib)
  BY <1>2, <1>3, <1>4, <1>6, <1>8, <1>9
<1>11. Len(order) = 3 + Len(r)
  BY <1>2, <1>4, <1>6, <1>8
<1>12. QED
  BY <1>4, <1>10, <1>11

(* A dylib's names: its own, the runtime's, MLIR's, on COFF the platform's.  *)
LEMMA ResolvedFirst ==
  ASSUME NEW d, NEW n, d # NoName, d \notin Libs
  PROVE  LET by == Resolve(<<d>> \o LinkOrderOf(d), n) IN
         /\ InDylib(d, n) # {} => by = InDylib(d, n)
         /\ InDylib(d, n) = {} /\ InDylib(compilerRTlib, n) # {} => by = InDylib(compilerRTlib, n)
         /\ InDylib(d, n) = {} /\ InDylib(compilerRTlib, n) = {} /\ InDylib(mlirclib, n) # {} => by = InDylib(mlirclib, n)
         /\ coff /\ InDylib(d, n) = {} /\ InDylib(compilerRTlib, n) = {} /\ InDylib(mlirclib, n) = {}
              /\ InDylib(platformStdlib, n) # {} => by = InDylib(platformStdlib, n)
<1>1. PICK order : order = <<d>> \o LinkOrderOf(d)
  OBVIOUS
<1>2. /\ Len(order) \in Nat /\ {1, 2, 3} \subseteq 1 .. Len(order) /\ (coff => 4 \in 1 .. Len(order) /\ order[4] = platformStdlib)
      /\ order[1] = d /\ order[2] = compilerRTlib /\ order[3] = mlirclib
  BY <1>1, OrderIs
<1>3. ASSUME NEW i \in 1 .. Len(order), InDylib(order[i], n) # {}, \A j \in 1 .. (i - 1) : InDylib(order[j], n) = {}, order[i] # NoName
      PROVE  Resolve(order, n) = InDylib(order[i], n)
  <2>1. FirstIn(order, n) = order[i]
    BY <1>2, <1>3, FirstInIs
  <2>2. QED
    BY <1>3, <2>1, Zenon DEF Resolve
<1>4. compilerRTlib # NoName /\ mlirclib # NoName /\ platformStdlib # NoName
  BY Zenon DEF compilerRTlib, mlirclib, platformStdlib, NoName
<1>5. 1 .. 0 = {} /\ 1 .. 1 = {1} /\ 1 .. 2 = {1, 2} /\ 1 .. 3 = {1, 2, 3} /\ 1 - 1 = 0 /\ 2 - 1 = 1 /\ 3 - 1 = 2 /\ 4 - 1 = 3
  OBVIOUS
<1>6. InDylib(d, n) # {} => Resolve(order, n) = InDylib(d, n)
  BY <1>2, <1>3, <1>5
<1>7. InDylib(d, n) = {} /\ InDylib(compilerRTlib, n) # {} => Resolve(order, n) = InDylib(compilerRTlib, n)
  BY <1>2, <1>3, <1>4, <1>5
<1>8. InDylib(d, n) = {} /\ InDylib(compilerRTlib, n) = {} /\ InDylib(mlirclib, n) # {} => Resolve(order, n) = InDylib(mlirclib, n)
  BY <1>2, <1>3, <1>4, <1>5
<1>9. coff /\ InDylib(d, n) = {} /\ InDylib(compilerRTlib, n) = {} /\ InDylib(mlirclib, n) = {} /\ InDylib(platformStdlib, n) # {}
        => Resolve(order, n) = InDylib(platformStdlib, n)
  BY <1>2, <1>3, <1>4, <1>5
<1>10. QED
  BY <1>1, <1>6, <1>7, <1>8, <1>9

(* The archive's own names first, then the runtime and the libraries of the  *)
(* command line, then MLIR's, and on COFF the platform's.                    *)
LEMMA ResolveBinds ==
  ASSUME EngineInv, SessionInv, Undisputed, ~setup.cross, NEW a \in DOMAIN Archives, a \in DOMAIN dylib,
         NEW n \in Archives[a].needs
  PROVE  Bound(a, n, Resolve(<<a>> \o linkOrder[a], n))
<1> DEFINE lib == {g \in Range(Asked) : Answers[g][n] # {}}
<1>1. /\ a \notin Libs /\ a # NoName /\ setup \in Setups
      /\ dylib[a] = [defined |-> Archives[a].defs, gens |-> <<>>] /\ linkOrder[a] = LinkOrderOf(a)
  BY EngineAssumption DEF SessionInv, EngineInv, Libs, platformStdlib, compilerRTlib, mlirclib
<1>2. PICK by : by = Resolve(<<a>> \o LinkOrderOf(a), n)
  OBVIOUS
<1>3. /\ InDylib(a, n) # {} => by = InDylib(a, n)
      /\ InDylib(a, n) = {} /\ InDylib(compilerRTlib, n) # {} => by = InDylib(compilerRTlib, n)
      /\ InDylib(a, n) = {} /\ InDylib(compilerRTlib, n) = {} /\ InDylib(mlirclib, n) # {} => by = InDylib(mlirclib, n)
      /\ coff /\ InDylib(a, n) = {} /\ InDylib(compilerRTlib, n) = {} /\ InDylib(mlirclib, n) = {}
           /\ InDylib(platformStdlib, n) # {} => by = InDylib(platformStdlib, n)
  BY <1>1, <1>2, ResolvedFirst
<1>4. CASE n \in Archives[a].defs
  <2>1. InDylib(a, n) = {a}
    BY <1>1, <1>4 DEF InDylib
  <2>2. by = {a}
    BY <1>3, <2>1
  <2>3. QED
    BY <1>1, <1>2, <1>4, <2>2 DEF Bound
<1>5. CASE n \notin Archives[a].defs
  <2>1. InDylib(a, n) = {}
    <3>1. dylib[a].gens = <<>> /\ n \notin dylib[a].defined /\ Len(<<>>) = 0
      BY <1>1, <1>5
    <3>2. 1 .. 0 = {}
      OBVIOUS
    <3>3. QED
      BY <3>1, <3>2 DEF InDylib
  <2>2. /\ lib # {} => InDylib(compilerRTlib, n) # {} /\ \E g \in lib : InDylib(compilerRTlib, n) = Answers[g][n]
        /\ lib = {} /\ coff => InDylib(compilerRTlib, n) = Answers["sanitizers"][n]
        /\ lib = {} /\ ~coff /\ Answers["process"][n] # {} => InDylib(compilerRTlib, n) # {}
    BY FromRuntime
  <2>3. Available(setup, n)
    BY <1>1, <1>5, EngineAssumption
  <2>4. CASE lib # {}
    <3>1. by = InDylib(compilerRTlib, n)
      BY <1>3, <2>1, <2>2, <2>4
    <3>2. by # {} /\ \E g \in lib : by = Answers[g][n]
      BY <2>2, <2>4, <3>1
    <3>3. QED
      BY <1>1, <1>2, <1>5, <2>4, <3>2 DEF Bound
  <2>5. CASE lib = {} /\ ~coff
    <3>1. Answers["process"][n] # {}
      <4>1. \A g \in Range(setup.libraryPaths \o <<"compilerrt">>) : Answers[g][n] = {}
        BY <2>5 DEF Asked
      <4>2. QED
        BY <2>3, <2>5, <4>1 DEF Available, coff
    <3>2. by # {}
      BY <1>3, <2>1, <2>2, <2>5, <3>1
    <3>3. QED
      BY <1>1, <1>2, <1>5, <2>5, <3>2 DEF Bound
  <2>6. CASE lib = {} /\ coff
    <3>1. \A g : Knows(g, n) = Answers[g][n]
      BY <2>6 DEF Knows
    <3>2. InDylib(mlirclib, n) = Answers["mlir"][n]
      <4>1. PICK gens : gens = dylib[mlirclib].gens
        OBVIOUS
      <4>2. gens = <<"mlir">> /\ n \notin dylib[mlirclib].defined
        BY <4>1 DEF SessionInv, mlirc
      <4>3. Len(gens) \in Nat /\ gens[1] = "mlir" /\ 1 .. Len(gens) = {1}
        BY <4>2
      <4>4. \/ (\A i \in 1 .. Len(gens) : Knows(gens[i], n) = {}) /\ InDylib(mlirclib, n) = {}
            \/ \E i \in 1 .. Len(gens) : /\ Knows(gens[i], n) # {} /\ \A j \in 1 .. Len(gens) : Knows(gens[j], n) # {} => i <= j
                                         /\ InDylib(mlirclib, n) = Knows(gens[i], n)
        BY <4>1, <4>2, <4>3, InDylibIs, Zenon
      <4>5. QED
        BY <3>1, <4>3, <4>4
    <3>3. /\ n \in StdioNames => InDylib(platformStdlib, n) = {platformStdlib}
          /\ InDylib(compilerRTlib, n) = {} => InDylib(platformStdlib, n) # {}
      <4>1. PICK gens : gens = dylib[platformStdlib].gens
        OBVIOUS
      <4>2. /\ gens = <<"process">> \o <<"ucrtbase.dll", "kernel32.dll", "ntdll.dll">>
            /\ dylib[platformStdlib].defined = StdioNames
        BY <1>1, <2>6, <4>1, EngineAssumption DEF SessionInv, setupPlatform, coff
      <4>3. Len(gens) \in Nat /\ gens[1] = "process" /\ gens[2] = "ucrtbase.dll" /\ gens[3] = "kernel32.dll"
              /\ gens[4] = "ntdll.dll" /\ 1 .. Len(gens) = {1, 2, 3, 4}
        BY <4>2
      <4>4. n \in StdioNames => InDylib(platformStdlib, n) = {platformStdlib}
        BY <4>2 DEF InDylib
      <4>5. ASSUME n \notin StdioNames PROVE InDylib(platformStdlib, n) # {}
        <5>1. \A g \in Range(setup.libraryPaths \o <<"compilerrt">>) : Answers[g][n] = {}
          BY <2>6 DEF Asked
        <5>2. \E g \in {"process", "ucrtbase.dll", "kernel32.dll", "ntdll.dll"} : Answers[g][n] # {}
          BY <2>3, <4>5, <5>1 DEF Available
        <5>3. \E i \in 1 .. Len(gens) : Knows(gens[i], n) # {}
          <6>1. PICK i \in {1, 2, 3, 4} : Answers[gens[i]][n] # {}
            BY <4>3, <5>2
          <6>2. i \in 1 .. Len(gens) /\ Knows(gens[i], n) # {}
            BY <3>1, <4>3, <6>1
          <6>3. QED
            BY <6>2
        <5>4. \/ (\A i \in 1 .. Len(gens) : Knows(gens[i], n) = {}) /\ InDylib(platformStdlib, n) = {}
              \/ \E i \in 1 .. Len(gens) : /\ Knows(gens[i], n) # {} /\ \A j \in 1 .. Len(gens) : Knows(gens[j], n) # {} => i <= j
                                           /\ InDylib(platformStdlib, n) = Knows(gens[i], n)
          <6>1. n \notin dylib[platformStdlib].defined
            BY <4>2, <4>5
          <6>2. Len(gens) \in Nat
            BY <4>3
          <6>3. QED
            BY <4>1, <6>1, <6>2, InDylibIs, Zenon
        <5>5. QED
          BY <5>3, <5>4
      <4>6. QED
        BY <4>4, <4>5
    <3>4. by # {}
      BY <1>3, <2>1, <2>6, <3>3
    <3>5. ASSUME n \in StdioNames PROVE by = {platformStdlib}
      <4>1. InDylib(compilerRTlib, n) = {} /\ InDylib(mlirclib, n) = {}
        BY <2>2, <2>6, <3>2, <3>5, EngineAssumption
      <4>2. QED
        BY <1>3, <2>1, <2>6, <3>3, <3>5, <4>1
    <3>6. QED
      BY <1>1, <1>2, <1>5, <2>6, <3>4, <3>5 DEF Bound
  <2>7. QED
    BY <2>4, <2>5, <2>6
<1>6. QED
  BY <1>4, <1>5

(* ---------------------------------------------------------------------- *)
(* ExecutionEngine: every action keeps the invariant                       *)

(* No session yet.                                                           *)
LEMMA InitEngine == EngineInit => EngineInv
<1> SUFFICES ASSUME EngineInit PROVE EngineInv
  OBVIOUS
<1>1. DOMAIN loaded = {} /\ searchOrder = <<>> /\ epc = "start" /\ setup \in Setups
  BY DEF EngineInit
<1>2. found.in \notin DOMAIN Archives
  BY EngineAssumption DEF EngineInit, NotFound
<1>3. QED
  BY <1>1, <1>2 DEF EngineInv, LinkedInv

(* What is said of the archives linked so far does not depend on the session. *)
LEMMA StillBound ==
  ASSUME EngineInv, UNCHANGED <<setup, loaded>>
  PROVE  LinkedInv'
<1>1. LinkedInv
  BY DEF EngineInv
<1>2. LinkedInv' <=> LinkedInv
  BY SMTT(30) DEF LinkedInv, Undisputed, Bound, Asked, coff
<1>3. QED
  BY <1>1, <1>2

(* create gives the three dylibs what SessionInv says they have.             *)
LEMMA CreateEngine == EngineInv /\ create => EngineInv'
<1> SUFFICES ASSUME EngineInv, create PROVE EngineInv'
  OBVIOUS
<1>1. UNCHANGED <<setup, loaded, found>> /\ epc = "start" /\ epc' \in {"failed", "ready"}
  BY DEF create, Stop
<1>2. found.in \notin DOMAIN Archives /\ searchOrder = <<>>
  BY <1>1 DEF EngineInv
<1>3. ASSUME epc' = "ready" PROVE SessionInv'
  <2>1. /\ plugins' = createPlugins /\ addToSearchOrder(platformStdlib)
        /\ dylib' = [n \in {platformStdlib, compilerRTlib, mlirclib} |->
                       CASE n = platformStdlib -> IF setup.cross THEN Bare ELSE setupPlatform
                         [] n = compilerRTlib -> initializeCompilerRT
                         [] OTHER -> mlirc]
    BY <1>3 DEF create, Stop
  <2>2. platformStdlib # compilerRTlib /\ platformStdlib # mlirclib /\ compilerRTlib # mlirclib
    BY DEF platformStdlib, compilerRTlib, mlirclib
  <2>3. /\ DOMAIN dylib' = Libs /\ dylib'[platformStdlib] = (IF setup.cross THEN Bare ELSE setupPlatform)
        /\ dylib'[compilerRTlib] = initializeCompilerRT /\ dylib'[mlirclib] = mlirc
    BY <2>1, <2>2 DEF Libs
  <2>4. searchOrder' \in Seq(DOMAIN dylib')
    <3>1. PICK T : T = DOMAIN dylib' /\ platformStdlib \in T
      BY <2>3 DEF Libs
    <3>2. <<platformStdlib>> \in Seq(T) /\ <<>> \in Seq(T)
      BY <3>1, TupleIs
    <3>3. <<platformStdlib>> \o <<>> \in Seq(T)
      BY <3>2, ConcatIs, Zenon
    <3>4. QED
      BY <1>2, <2>1, <3>1, <3>3 DEF addToSearchOrder
  <2>5. createPlugins' = createPlugins /\ setupPlatform' = setupPlatform /\ initializeCompilerRT' = initializeCompilerRT
    BY <1>1 DEF createPlugins, setupPlatform, initializeCompilerRT, coff
  <2>6. Libs' = Libs /\ mlirc' = mlirc /\ Bare' = Bare /\ setup' = setup
    BY <1>1 DEF Libs, mlirc, Bare
  <2>7. QED
    BY <2>1, <2>3, <2>4, <2>5, <2>6 DEF SessionInv
<1>4. QED
  BY <1>1, <1>2, <1>3, StillBound DEF EngineInv

(* addIfAbsent adds an archive and touches no other dylib.                   *)
LEMMA AddEngine ==
  ASSUME EngineInv, NEW a \in DOMAIN Archives, addIfAbsent(a)
  PROVE  EngineInv'
<1>1. UNCHANGED <<setup, epc, plugins, loaded, found>> /\ epc = "ready" /\ a \notin DOMAIN dylib /\ SessionInv
  BY DEF addIfAbsent, EngineInv
<1>2. /\ DOMAIN dylib' = DOMAIN dylib \cup {a} /\ dylib'[a] = [defined |-> Archives[a].defs, gens |-> <<>>]
      /\ \A n \in DOMAIN dylib : dylib'[n] = dylib[n]
  BY <1>1 DEF addIfAbsent
<1>3. /\ DOMAIN linkOrder' = DOMAIN linkOrder \cup {a} /\ linkOrder'[a] = LinkOrderOf(a)
      /\ \A n \in DOMAIN linkOrder : n # a => linkOrder'[n] = linkOrder[n]
  BY DEF addIfAbsent, addToSearchOrder
<1>4. searchOrder' \in Seq(DOMAIN dylib')
  <2>1. PICK T : T = DOMAIN dylib' /\ a \in T /\ DOMAIN dylib \subseteq T
    BY <1>2
  <2>2. PICK s \in Seq(T) : s = searchOrder
    BY <1>1, <2>1 DEF SessionInv
  <2>3. <<a>> \in Seq(T)
    BY <2>1, TupleIs
  <2>4. <<a>> \o s \in Seq(T)
    BY <2>3, ConcatIs, Zenon
  <2>5. QED
    BY <2>1, <2>2, <2>4 DEF addIfAbsent, addToSearchOrder
<1>5. createPlugins' = createPlugins /\ setupPlatform' = setupPlatform /\ initializeCompilerRT' = initializeCompilerRT
  BY <1>1 DEF createPlugins, setupPlatform, initializeCompilerRT, coff
<1>6. Libs' = Libs /\ mlirc' = mlirc /\ Bare' = Bare /\ \A n : LinkOrderOf(n)' = LinkOrderOf(n)
  BY <1>1 DEF Libs, mlirc, Bare, LinkOrderOf, coff
<1>7. SessionInv'
  <2>1. Libs \subseteq DOMAIN dylib' /\ DOMAIN dylib' \ Libs \subseteq DOMAIN Archives
    BY <1>1, <1>2 DEF SessionInv
  <2>2. /\ dylib'[platformStdlib] = (IF setup.cross THEN Bare ELSE setupPlatform)
        /\ dylib'[compilerRTlib] = initializeCompilerRT /\ dylib'[mlirclib] = mlirc
    BY <1>1, <1>2 DEF SessionInv, Libs
  <2>3. ASSUME NEW b \in DOMAIN dylib' \ Libs
        PROVE  /\ dylib'[b] = [defined |-> Archives[b].defs, gens |-> <<>>]
               /\ b \in DOMAIN linkOrder' /\ linkOrder'[b] = LinkOrderOf(b)
    <3>1. CASE b = a
      BY <1>2, <1>3, <3>1
    <3>2. CASE b # a
      <4>1. b \in DOMAIN dylib \ Libs
        BY <1>2, <3>2
      <4>2. QED
        BY <1>1, <1>2, <1>3, <3>2, <4>1 DEF SessionInv
    <3>3. QED
      BY <3>1, <3>2
  <2>4. QED
    BY <1>1, <1>4, <1>5, <1>6, <2>1, <2>2, <2>3, Zenon DEF SessionInv
<1>8. QED
  BY <1>1, <1>7, StillBound DEF EngineInv

(* The plugin takes the sections away that JITLink cannot link.              *)
LEMMA AlwaysLinks == ASSUME SessionInv, NEW d PROVE LinksInMemory(d)
BY DEF SessionInv, LinksInMemory, createPlugins, COFFUnwindSectionRemovalPlugin

(* lookup links what it found, once, from the session as it is then.         *)
LEMMA LookupEngine ==
  ASSUME EngineInv, NEW name, lookup(name)
  PROVE  EngineInv'
<1>1. UNCHANGED <<setup, epc, dylib, linkOrder, searchOrder, plugins>> /\ epc = "ready" /\ SessionInv
  BY DEF lookup, EngineInv
<1>2. PICK d : d = FirstIn(searchOrder, name)
  OBVIOUS
<1>3. found'.in = d
  BY <1>2 DEF lookup
<1>4. SessionInv'
  BY <1>1 DEF SessionInv, createPlugins, setupPlatform, initializeCompilerRT, coff, LinkOrderOf, mlirc, Bare, Libs
<1>5. CASE d \notin DOMAIN Archives
  <2>1. UNCHANGED loaded
    BY <1>2, <1>5 DEF lookup
  <2>2. QED
    BY <1>1, <1>3, <1>4, <1>5, <2>1, StillBound DEF EngineInv
<1>6. CASE d \in DOMAIN Archives
  <2>1. loaded' = [a \in DOMAIN loaded \cup {d} |->
                     IF a = d THEN [x \in Archives[d].needs |-> Resolve(<<d>> \o linkOrder[d], x)] ELSE loaded[a]]
    BY <1>1, <1>2, <1>6, AlwaysLinks DEF lookup
  <2>2. d \in DOMAIN dylib
    <3>1. PICK order : order = searchOrder /\ Len(order) \in Nat /\ \A i \in 1 .. Len(order) : order[i] \in DOMAIN dylib
      BY <1>1 DEF SessionInv
    <3>2. d # NoName
      BY <1>6, EngineAssumption
    <3>3. \E i \in 1 .. Len(order) : d = order[i]
      <4> DEFINE has == {i \in 1 .. Len(order) : InDylib(order[i], name) # {}}
                 least == CHOOSE i \in has : \A j \in has : i <= j
      <4>1. d = IF has = {} THEN NoName ELSE order[least]
        BY <1>2, <3>1 DEF FirstIn
      <4>2. has # {} /\ has \in SUBSET Nat
        BY <3>2, <4>1
      <4>3. least \in has
        <5> HIDE DEF has
        <5>1. QED
          BY <4>2, LeastChosen
      <4>4. d = order[least] /\ least \in 1 .. Len(order)
        BY <4>1, <4>2, <4>3
      <4> HIDE DEF least
      <4>5. QED
        BY <4>4
    <3>4. QED
      BY <3>1, <3>3
  <2>3. ASSUME NEW a \in DOMAIN loaded'
        PROVE  /\ a \in DOMAIN Archives /\ DOMAIN loaded'[a] = Archives[a].needs
               /\ Undisputed /\ ~setup.cross => \A n \in DOMAIN loaded'[a] : Bound(a, n, loaded'[a][n])
    <3>1. CASE a = d
      <4>1. loaded'[a] = [x \in Archives[a].needs |-> Resolve(<<a>> \o linkOrder[a], x)]
        BY <2>1, <3>1
      <4>2. ASSUME Undisputed, ~setup.cross, NEW n \in Archives[a].needs PROVE Bound(a, n, loaded'[a][n])
        <5>1. Bound(a, n, Resolve(<<a>> \o linkOrder[a], n))
          BY <1>1, <1>6, <2>2, <3>1, <4>2, ResolveBinds
        <5>2. QED
          BY <4>1, <5>1
      <4>3. DOMAIN loaded'[a] = Archives[a].needs /\ a \in DOMAIN Archives
        BY <1>6, <3>1, <4>1
      <4>4. QED
        BY <4>2, <4>3
    <3>2. CASE a # d
      <4>1. a \in DOMAIN loaded /\ loaded'[a] = loaded[a]
        BY <2>1, <3>2
      <4>2. QED
        BY <4>1 DEF EngineInv, LinkedInv
    <3>3. QED
      BY <3>1, <3>2
  <2>5. LinkedInv'
    BY <1>1, <2>3 DEF LinkedInv, Undisputed, Bound, Asked, coff
  <2>6. d \in DOMAIN loaded'
    BY <2>1
  <2>7. QED
    BY <1>1, <1>3, <1>4, <2>5, <2>6 DEF EngineInv
<1>7. QED
  BY <1>5, <1>6

(* Every step of a session keeps the invariant.                              *)
LEMMA NextEngine == EngineInv /\ [EngineNext]_engineVars => EngineInv'
<1> SUFFICES ASSUME EngineInv, [EngineNext]_engineVars PROVE EngineInv'
  OBVIOUS
<1>1. CASE UNCHANGED engineVars
  <2>1. UNCHANGED <<setup, epc, dylib, linkOrder, searchOrder, plugins, loaded, found>>
    BY <1>1 DEF engineVars
  <2>2. SessionInv => SessionInv'
    BY <2>1 DEF SessionInv, createPlugins, setupPlatform, initializeCompilerRT, coff, LinkOrderOf, mlirc, Bare, Libs
  <2>3. QED
    BY <2>1, <2>2, StillBound DEF EngineInv
<1>2. CASE create
  BY <1>2, CreateEngine
<1>3. ASSUME NEW a \in DOMAIN Archives, addIfAbsent(a) PROVE EngineInv'
  BY <1>3, AddEngine
<1>4. CASE lookup("main")
  BY <1>4, LookupEngine
<1>5. CASE runProgram
  <2>1. UNCHANGED <<setup, loaded>> /\ epc' \in {"ran", "failed"}
    BY <1>5 DEF runProgram
  <2>2. QED
    BY <2>1, StillBound DEF EngineInv
<1>6. CASE EndSession
  <2>1. UNCHANGED setup /\ epc' = "ended" /\ DOMAIN loaded' = {}
    BY <1>6 DEF EndSession
  <2>2. QED
    BY <2>1 DEF EngineInv, LinkedInv
<1>7. QED
  BY <1>1, <1>2, <1>3, <1>4, <1>5, <1>6 DEF EngineNext

(* Whatever archives are loaded in whatever order, a main that was found has *)
(* been linked, and every name it needs is bound to who is meant to have it, *)
(* for any libraries, archives and formats: on COFF always, elsewhere unless *)
(* the process has a name that only a library behind the first one has       *)
(* (setupPlatform, initializeCompilerRT, the link order of a dylib).         *)
THEOREM NamesBoundHolds == EngineSpec => [](Undisputed => NamesBound)
<1>1. EngineInv => (Undisputed => NamesBound)
  <2> SUFFICES ASSUME EngineInv, Undisputed PROVE NamesBound
    OBVIOUS
  <2>1. found.in \in DOMAIN Archives /\ epc = "ready" => found.in \in DOMAIN loaded
    BY DEF EngineInv
  <2>2. ASSUME NEW a \in DOMAIN loaded, ~setup.cross, NEW n \in DOMAIN loaded[a] PROVE Bound(a, n, loaded[a][n])
    BY <2>2 DEF EngineInv, LinkedInv
  <2>3. QED
    BY <2>1, <2>2, Zenon DEF NamesBound, Bound, Asked
<1>2. QED
  BY <1>1, InitEngine, NextEngine, PTL DEF EngineSpec

(* ---------------------------------------------------------------------- *)
(* InterpMemory: stores in chunks                                          *)

(* Induction over the natural numbers, for a set of them.                    *)
LEMMA Inductive ==
  ASSUME NEW T \in SUBSET Nat, 0 \in T, \A n \in T : n + 1 \in T
  PROVE  T = Nat
<1> SUFFICES ASSUME Nat \ T # {} PROVE FALSE
  OBVIOUS
<1>1. PICK x \in Nat \ T : \A y \in Nat \ T : x <= y
  BY LeastNat
<1>2. x # 0 /\ x - 1 \in Nat /\ x - 1 \in T
  BY <1>1
<1>3. (x - 1) + 1 = x
  BY <1>2
<1>4. QED
  BY <1>1, <1>2, <1>3

(* The first c of n cells and the others.                                    *)
LEMMA CellsSplit ==
  ASSUME NEW idx \in Nat, NEW n \in Nat, NEW c \in Nat, c <= n
  PROVE  Cells(idx, n) = Cells(idx, c) \cup Cells(idx + c, n - c)
BY DEF Cells

(* Chunks of at least one byte and no more than are left, each stored where  *)
(* the one before it ended, store every byte once.                           *)
LEMMA ChunksCover ==
  ASSUME NEW base \in Nat, NEW size \in Nat, NEW cut, NEW block,
         \A n \in 1 .. size : cut[n] \in 1 .. n /\ block[n] = Cells(base + size - n, cut[n])
  PROVE  InChunks(size, cut, block) = Cells(base, size)
<1>1. PICK G : G = [n \in 0 .. size |-> Cells(base + size - n, n)]
  OBVIOUS
<1>2. ASSUME NEW n \in 0 .. size PROVE G[n] = IF n = 0 THEN {} ELSE block[n] \cup G[n - cut[n]]
  <2>1. CASE n = 0
    BY <1>1, <2>1 DEF Cells
  <2>2. CASE n # 0
    <3>1. n \in 1 .. size /\ cut[n] \in 1 .. n
      BY <2>2
    <3>2. PICK c \in 1 .. n : c = cut[n]
      BY <3>1
    <3>3. PICK start \in Nat : start = base + size - n
      OBVIOUS
    <3>4. G[n] = Cells(start, n) /\ block[n] = Cells(start, c)
      BY <1>1, <3>1, <3>2, <3>3
    <3>5. n - c \in 0 .. size /\ base + size - (n - c) = start + c
      BY <3>2, <3>3
    <3>6. G[n - c] = Cells(start + c, n - c)
      BY <1>1, <3>5
    <3>7. c \in Nat /\ n \in Nat /\ c <= n
      BY <3>2
    <3>8. Cells(start, n) = Cells(start, c) \cup Cells(start + c, n - c)
      BY <3>7, CellsSplit
    <3>9. QED
      BY <2>2, <3>2, <3>4, <3>6, <3>8
  <2>3. QED
    BY <2>1, <2>2
<1>3. G = [n \in 0 .. size |-> IF n = 0 THEN {} ELSE block[n] \cup G[n - cut[n]]]
  BY <1>1, <1>2
<1> DEFINE left[n \in 0 .. size] == IF n = 0 THEN {} ELSE block[n] \cup left[n - cut[n]]
<1>4. left = [n \in 0 .. size |-> IF n = 0 THEN {} ELSE block[n] \cup left[n - cut[n]]]
  BY <1>3
<1>5. InChunks(size, cut, block) = left[size]
  BY DEF InChunks
<1> HIDE DEF left
<1> DEFINE T == {n \in Nat : n \in 0 .. size /\ left[n] # G[n]}
<1>6. T = {}
  <2> SUFFICES ASSUME T # {} PROVE FALSE
    OBVIOUS
  <2>1. PICK n \in T : \A m \in T : n <= m
    BY LeastNat
  <2>2. n \in 0 .. size /\ left[n] = (IF n = 0 THEN {} ELSE block[n] \cup left[n - cut[n]]) /\ left[n] # G[n]
    BY <1>4, <2>1
  <2>3. n # 0
    BY <1>2, <2>2
  <2>4. n \in 1 .. size
    BY <2>2, <2>3
  <2>5. cut[n] \in 1 .. n
    BY <2>4
  <2>6. n - cut[n] \in 0 .. size /\ n - cut[n] < n /\ n - cut[n] \in Nat
    BY <2>4, <2>5
  <2>7. n - cut[n] \notin T
    BY <2>1, <2>4, <2>6
  <2>8. left[n - cut[n]] = G[n - cut[n]]
    BY <2>6, <2>7
  <2>9. G[n] = block[n] \cup G[n - cut[n]]
    BY <1>2, <2>2, <2>3
  <2>10. QED
    BY <2>2, <2>3, <2>8, <2>9
<1>7. left[size] = G[size]
  <2>1. size \in Nat /\ size \in 0 .. size
    OBVIOUS
  <2>2. QED
    BY <1>6, <2>1
<1>8. G[size] = Cells(base, size)
  <2>1. size \in 0 .. size /\ base + size - size = base
    OBVIOUS
  <2>2. G[size] = Cells(base + size - size, size)
    BY <1>1, <2>1
  <2>3. QED
    BY <2>1, <2>2
<1>9. QED
  BY <1>5, <1>7, <1>8

(* A power of two is at hand for every size.                                 *)
LEMMA LargestPowerIn ==
  ASSUME NEW n \in Nat, n # 0
  PROVE  LargestPowerOf2(n) \in 1 .. n
<1> DEFINE P == {p \in 1 .. n : IsPowerOf2(p)}
           T == {n - p : p \in P}
<1>1. 1 \in P
  BY DEF IsPowerOf2
<1> LargestPowerOf2(n) = CHOOSE x \in P : \A y \in P : x >= y
  BY DEF LargestPowerOf2, Max
<1> P \subseteq 1 .. n
  OBVIOUS
<1> HIDE DEF P
<1>2. T \in SUBSET Nat /\ T # {}
  BY <1>1
<1>3. PICK t \in T : \A u \in T : t <= u
  BY <1>2, LeastNat
<1>4. PICK p \in P : t = n - p
  BY <1>3
<1>5. \A q \in P : p >= q
  <2> TAKE q \in P
  <2>1. n - q \in T
    OBVIOUS
  <2>2. n - p <= n - q /\ p \in 1 .. n /\ q \in 1 .. n
    BY <1>3, <1>4, <2>1
  <2>3. QED
    BY <2>2
<1>6. \E x \in P : \A y \in P : x >= y
  BY <1>5
<1>7. QED
  BY <1>6

(* The vector stores of a chunk store its bytes.                             *)
LEMMA VectorStoresIs ==
  ASSUME NEW idx \in Nat, NEW size \in Nat
  PROVE  materializeVectorStores(idx, size) = Cells(idx, size)
<1>1. PICK cut : cut = [n \in 1 .. size |-> LargestPowerOf2(n)]
  OBVIOUS
<1>2. PICK block : block = [n \in 1 .. size |-> Cells(idx + size - n, LargestPowerOf2(n))]
  OBVIOUS
<1>3. ASSUME NEW n \in 1 .. size PROVE cut[n] \in 1 .. n /\ block[n] = Cells(idx + size - n, cut[n])
  <2>1. n \in Nat /\ n # 0
    OBVIOUS
  <2>2. QED
    BY <1>1, <1>2, <2>1, LargestPowerIn
<1>4. InChunks(size, cut, block) = Cells(idx, size)
  BY <1>3, ChunksCover
<1>5. QED
  BY <1>1, <1>2, <1>4 DEF materializeVectorStores

(* The stores of a run store its bytes.                                      *)
LEMMA RunStoresIs ==
  ASSUME NEW c, c.start \in Nat, c.reps \in Nat
  PROVE  RunStores(c) = Cells(c.start, c.reps)
<1>0. PICK s \in Nat, size \in Nat : s = c.start /\ size = c.reps
  OBVIOUS
<1>1. PICK cut : cut = [n \in 1 .. size |-> Least(SimdWidth, n)]
  OBVIOUS
<1>2. PICK block : block = [n \in 1 .. size |-> materializeVectorStores(s + size - n, Least(SimdWidth, n))]
  OBVIOUS
<1>3. ASSUME NEW n \in 1 .. size PROVE cut[n] \in 1 .. n /\ block[n] = Cells(s + size - n, cut[n])
  <2>1. Least(SimdWidth, n) \in 1 .. n
    BY SpaceAssumption DEF Least
  <2>2. s + size - n \in Nat /\ Least(SimdWidth, n) \in Nat
    BY <2>1
  <2>3. QED
    BY <1>1, <1>2, <2>1, <2>2, VectorStoresIs
<1>4. InChunks(size, cut, block) = Cells(s, size)
  BY <1>3, ChunksCover
<1>5. QED
  BY <1>0, <1>1, <1>2, <1>4 DEF RunStores

(* ---------------------------------------------------------------------- *)
(* InterpMemory: filling an allocation                                     *)

EndOf(b, m) == b.regions[m].offset + PointerSize
InRegion(b, m, k) == k \in Cells(b.regions[m].offset, PointerSize)

(* A cell holds its byte, or its byte of the pointer of the region it is in. *)
CellRight(b, place, img, k) ==
  \/ /\ \A m \in 1 .. Len(b.regions) : ~InRegion(b, m, k)
     /\ img[k] = <<0, b.data[k]>>
  \/ \E m \in 1 .. Len(b.regions) :
       /\ InRegion(b, m, k)
       /\ img[k] = <<1, place[b.regions[m].blob], b.regions[m].at, k - 1 - b.regions[m].offset>>
InRun(c, k) == c.reps # 0 /\ k \in Cells(c.start, c.reps)

(* A blob as the proofs take it: its regions are inside it, apart and in     *)
(* order.                                                                    *)
BlobShape(b) ==
  /\ Size(b) \in Nat /\ Len(b.regions) \in Nat
  /\ \A m \in 1 .. Len(b.regions) : b.regions[m].offset \in Nat /\ EndOf(b, m) <= Size(b)
  /\ \A m, n \in 1 .. Len(b.regions) : m < n => EndOf(b, m) <= b.regions[n].offset

(* Where a region starts and ends, as numbers.                               *)
LEMMA RegionAt ==
  ASSUME NEW b, BlobShape(b), NEW m \in 1 .. Len(b.regions)
  PROVE  /\ b.regions[m].offset \in Nat /\ EndOf(b, m) \in Nat /\ EndOf(b, m) = b.regions[m].offset + PointerSize
         /\ m \in Nat /\ b.regions[m].offset <= EndOf(b, m)
BY SpaceAssumption DEF BlobShape, EndOf
LEMMA AtMost == ASSUME NEW x \in Nat, NEW y \in Nat, NEW z \in Nat, x <= y, y <= z PROVE x <= z
OBVIOUS

(* A fill that has come to byte i: the regions passed end there and those to *)
(* come start there or later; the bytes of the run reach up to i, are equal, *)
(* and no region is among them; every cell before i that is not in the run   *)
(* is as it will stay.                                                       *)
FillShape(b, f) ==
  /\ f = [i |-> f.i, r |-> f.r, run |-> f.run, img |-> f.img]
  /\ f.run = [start |-> f.run.start, value |-> f.run.value, reps |-> f.run.reps]
  /\ f.run.start \in Nat /\ f.run.reps \in Nat /\ f.r \in Nat \ {0}
  /\ DOMAIN f.img = 1 .. Size(b)
RegionsPassed(b, f, i) ==
  /\ \A m \in 1 .. Len(b.regions) : m < f.r => EndOf(b, m) <= i
  /\ \A m \in 1 .. Len(b.regions) : m >= f.r => i <= b.regions[m].offset
RunInv(b, f, i) ==
  f.run.reps # 0 =>
    /\ f.run.start + f.run.reps = i
    /\ \A k \in Cells(f.run.start, f.run.reps) : b.data[k] = f.run.value
    /\ \A m \in 1 .. Len(b.regions) : m < f.r => EndOf(b, m) <= f.run.start
FillInv(b, place, f, i) ==
  /\ i \in Nat /\ i <= Size(b)
  /\ FillShape(b, f) /\ RegionsPassed(b, f, i) /\ RunInv(b, f, i)
  /\ \A k \in 1 .. i : InRun(f.run, k) \/ CellRight(b, place, f.img, k)

(* A cell that is not written stays right.                                   *)
LEMMA CellStays ==
  ASSUME NEW b, NEW place, NEW img, NEW new, NEW k, CellRight(b, place, img, k), new[k] = img[k]
  PROVE  CellRight(b, place, new, k)
BY DEF CellRight

(* A byte outside all regions that is stored is right.                       *)
LEMMA ByteRight ==
  ASSUME NEW b, NEW place, NEW img, NEW f, NEW s \in Nat, NEW i \in Nat, NEW k \in Nat, s < k, k <= i, BlobShape(b),
         \A m \in 1 .. Len(b.regions) : m < f.r => EndOf(b, m) <= s,
         \A m \in 1 .. Len(b.regions) : m >= f.r => i <= b.regions[m].offset,
         f.r \in Nat, img[k] = <<0, b.data[k]>>
  PROVE  CellRight(b, place, img, k)
<1>1. ASSUME NEW m \in 1 .. Len(b.regions) PROVE ~InRegion(b, m, k)
  <2>1. PICK off \in Nat : off = b.regions[m].offset
    BY DEF BlobShape
  <2>2. m \in Nat /\ PointerSize \in Nat
    BY SpaceAssumption DEF BlobShape
  <2>3. off + PointerSize <= s \/ i <= off
    BY <2>1, <2>2 DEF EndOf
  <2>4. QED
    BY <2>1, <2>2, <2>3 DEF InRegion, Cells
<1>2. QED
  BY <1>1 DEF CellRight

(* Committing the run leaves every cell right.                               *)
LEMMA CommitRight ==
  ASSUME NEW b, NEW place, NEW f, NEW i, BlobShape(b), FillInv(b, place, f, i)
  PROVE  LET g == commitCompressedStores(f, b.data)
         IN  /\ FillInv(b, place, g, i) /\ g.run.reps = 0 /\ g.r = f.r /\ g.i = f.i
             /\ \A k \in 1 .. i : CellRight(b, place, g.img, k)
<1>1. PICK g : g = commitCompressedStores(f, b.data)
  OBVIOUS
<1>2. CASE f.run.reps = 0
  <2>1. g = f
    BY <1>1, <1>2 DEF commitCompressedStores
  <2>2. \A k \in 1 .. i : CellRight(b, place, f.img, k)
    BY <1>2 DEF FillInv, InRun
  <2>3. QED
    BY <1>1, <1>2, <2>1, <2>2
<1>3. CASE f.run.reps # 0
  <2>0. FillShape(b, f) /\ RegionsPassed(b, f, i) /\ RunInv(b, f, i) /\ i \in Nat /\ i <= Size(b)
    BY DEF FillInv
  <2>1. PICK s \in Nat, n \in Nat : s = f.run.start /\ n = f.run.reps
    BY <2>0 DEF FillShape
  <2>2. s + n = i /\ n # 0 /\ (\A k \in Cells(s, n) : b.data[k] = f.run.value)
         /\ \A m \in 1 .. Len(b.regions) : m < f.r => EndOf(b, m) <= s
    BY <1>3, <2>0, <2>1 DEF RunInv
  <2>3. RunStores(f.run) = Cells(s, n)
    BY <2>1, RunStoresIs
  <2>4. PICK img : img = IF n <= 8 * SimdWidth THEN CopyBytes(f.img, b.data, Cells(s, n)) ELSE Memset(f.img, Cells(s, n), f.run.value)
    OBVIOUS
  <2>5. g = [f EXCEPT !.run = NoRun, !.img = img]
    BY <1>1, <1>3, <2>1, <2>3, <2>4 DEF commitCompressedStores
  <2>6. g.i = f.i /\ g.r = f.r /\ g.run = NoRun /\ g.img = img /\ g = [i |-> f.i, r |-> f.r, run |-> NoRun, img |-> img]
    BY <2>0, <2>5 DEF FillShape
  <2>7. DOMAIN img = 1 .. Size(b)
    BY <2>0, <2>4 DEF FillShape, CopyBytes, Memset
  <2>8. ASSUME NEW k \in 1 .. Size(b) PROVE img[k] = IF k \in Cells(s, n) THEN <<0, b.data[k]>> ELSE f.img[k]
    <3>1. DOMAIN f.img = 1 .. Size(b)
      BY <2>0 DEF FillShape
    <3>2. QED
      BY <2>2, <2>4, <3>1 DEF CopyBytes, Memset
  <2>9. ASSUME NEW k \in 1 .. i PROVE CellRight(b, place, img, k)
    <3>1. k \in 1 .. Size(b) /\ k \in Nat
      BY <2>0 DEF BlobShape
    <3>2. CASE k \in Cells(s, n)
      <4>1. s < k /\ k <= i
        BY <2>2, <3>1, <3>2 DEF Cells
      <4>2. img[k] = <<0, b.data[k]>>
        BY <2>8, <3>1, <3>2
      <4>3. f.r \in Nat /\ \A m \in 1 .. Len(b.regions) : m >= f.r => i <= b.regions[m].offset
        BY <2>0 DEF FillShape, RegionsPassed
      <4>4. QED
        BY <2>0, <2>2, <3>1, <4>1, <4>2, <4>3, ByteRight
    <3>3. CASE k \notin Cells(s, n)
      <4>1. CellRight(b, place, f.img, k)
        BY <2>1, <3>3 DEF FillInv, InRun
      <4>2. img[k] = f.img[k]
        BY <2>8, <3>1, <3>3
      <4>3. QED
        BY <4>1, <4>2, CellStays
    <3>4. QED
      BY <3>2, <3>3
  <2>10. g.run.reps = 0 /\ g.run.start = 0
    BY <2>6 DEF NoRun
  <2>11. FillShape(b, g)
    BY <2>0, <2>6, <2>7, <2>10 DEF FillShape, NoRun
  <2>12. RegionsPassed(b, g, i) /\ RunInv(b, g, i)
    BY <2>0, <2>6, <2>10 DEF RegionsPassed, RunInv
  <2>13. FillInv(b, place, g, i)
    BY <2>0, <2>6, <2>9, <2>11, <2>12 DEF FillInv
  <2>14. QED
    BY <1>1, <2>6, <2>9, <2>10, <2>13
<1>4. QED
  BY <1>2, <1>3

(* A chunk that is stored at once, after the run before it.                  *)
LEMMA StoreNowRight ==
  ASSUME NEW b, NEW place, NEW f, NEW i, NEW size \in Nat, BlobShape(b), FillInv(b, place, f, i), f.run.reps = 0,
         i + size <= Size(b), \A m \in 1 .. Len(b.regions) : m >= f.r => i + size <= b.regions[m].offset
  PROVE  LET g == StoreNow(f, b.data, materializeVectorStores(i, size))
         IN  FillInv(b, place, g, i + size) /\ g.r = f.r /\ g.i = f.i
<1>0. FillShape(b, f) /\ RegionsPassed(b, f, i) /\ i \in Nat /\ Size(b) \in Nat
  BY DEF FillInv, BlobShape
<1>1. materializeVectorStores(i, size) = Cells(i, size)
  BY <1>0, VectorStoresIs
<1>2. PICK img : img = CopyBytes(f.img, b.data, Cells(i, size))
  OBVIOUS
<1>3. PICK g : g = StoreNow(f, b.data, materializeVectorStores(i, size))
  OBVIOUS
<1>4. g = [f EXCEPT !.img = img]
  BY <1>1, <1>2, <1>3 DEF StoreNow
<1>5. g.i = f.i /\ g.r = f.r /\ g.run = f.run /\ g.img = img /\ g = [i |-> f.i, r |-> f.r, run |-> f.run, img |-> img]
  BY <1>0, <1>4 DEF FillShape
<1>6. DOMAIN img = 1 .. Size(b)
  BY <1>0, <1>2 DEF FillShape, CopyBytes
<1>7. ASSUME NEW k \in 1 .. Size(b) PROVE img[k] = IF k \in Cells(i, size) THEN <<0, b.data[k]>> ELSE f.img[k]
  BY <1>0, <1>2 DEF FillShape, CopyBytes
<1>8. ASSUME NEW k \in 1 .. i + size PROVE CellRight(b, place, img, k)
  <2>1. k \in 1 .. Size(b) /\ k \in Nat
    BY <1>0
  <2>2. CASE k \in Cells(i, size)
    <3>1. i < k /\ k <= i + size /\ i + size \in Nat
      BY <1>0, <2>1, <2>2 DEF Cells
    <3>2. img[k] = <<0, b.data[k]>>
      BY <1>7, <2>1, <2>2
    <3>3. f.r \in Nat /\ \A m \in 1 .. Len(b.regions) : m < f.r => EndOf(b, m) <= i
      BY <1>0 DEF FillShape, RegionsPassed
    <3>4. PICK e \in Nat : e = i + size
      BY <3>1
    <3>5. k <= e /\ \A m \in 1 .. Len(b.regions) : m >= f.r => e <= b.regions[m].offset
      BY <3>1, <3>4
    <3>6. QED
      BY <1>0, <2>1, <3>1, <3>2, <3>3, <3>5, ByteRight
  <2>3. CASE k \notin Cells(i, size)
    <3>1. k \in 1 .. i
      BY <1>0, <2>1, <2>3 DEF Cells
    <3>2. CellRight(b, place, f.img, k) /\ img[k] = f.img[k]
      BY <1>7, <2>1, <2>3, <3>1 DEF FillInv, InRun
    <3>3. QED
      BY <3>2, CellStays
  <2>4. QED
    BY <2>2, <2>3
<1>9. FillShape(b, g)
  BY <1>0, <1>5, <1>6 DEF FillShape
<1>10. RegionsPassed(b, g, i + size)
  <2>1. ASSUME NEW m \in 1 .. Len(b.regions), m < f.r PROVE EndOf(b, m) <= i + size
    <3>1. EndOf(b, m) <= i /\ EndOf(b, m) \in Nat
      BY <1>0, <2>1, RegionAt DEF RegionsPassed
    <3>2. QED
      BY <1>0, <3>1
  <2>2. QED
    BY <1>5, <2>1 DEF RegionsPassed
<1>11. RunInv(b, g, i + size)
  BY <1>5 DEF RunInv
<1>12. QED
  BY <1>0, <1>3, <1>5, <1>8, <1>9, <1>10, <1>11 DEF FillInv

(* A chunk of equal bytes that starts a run.                                 *)
LEMMA RunStarts ==
  ASSUME NEW b, NEW place, NEW f, NEW i, NEW size \in Nat, BlobShape(b), FillInv(b, place, f, i), f.run.reps = 0,
         size # 0, AllEqual(b.data, i, size),
         i + size <= Size(b), \A m \in 1 .. Len(b.regions) : m >= f.r => i + size <= b.regions[m].offset
  PROVE  LET g == [f EXCEPT !.run = RunOf(b.data, i, size)]
         IN  FillInv(b, place, g, i + size) /\ g.r = f.r /\ g.i = f.i
<1>0. FillShape(b, f) /\ RegionsPassed(b, f, i) /\ i \in Nat /\ Size(b) \in Nat
  BY DEF FillInv, BlobShape
<1>1. PICK run : run = RunOf(b.data, i, size)
  OBVIOUS
<1>2. PICK g : g = [f EXCEPT !.run = run]
  OBVIOUS
<1>3. g.i = f.i /\ g.r = f.r /\ g.run = run /\ g.img = f.img /\ g = [i |-> f.i, r |-> f.r, run |-> run, img |-> f.img]
  BY <1>0, <1>2 DEF FillShape
<1>4. run.start = i /\ run.reps = size /\ run.value = b.data[i + 1] /\ run = [start |-> run.start, value |-> run.value, reps |-> run.reps]
  BY <1>1 DEF RunOf
<1>5. FillShape(b, g)
  BY <1>0, <1>3, <1>4 DEF FillShape
<1>6. ASSUME NEW m \in 1 .. Len(b.regions), m < f.r PROVE EndOf(b, m) <= i + size /\ EndOf(b, m) <= i
  <2>1. EndOf(b, m) <= i /\ EndOf(b, m) \in Nat
    BY <1>0, <1>6, RegionAt DEF RegionsPassed
  <2>2. QED
    BY <1>0, <2>1
<1>7. RegionsPassed(b, g, i + size)
  BY <1>3, <1>6 DEF RegionsPassed
<1>8. RunInv(b, g, i + size)
  BY <1>3, <1>4, <1>6 DEF RunInv, AllEqual
<1>9. ASSUME NEW k \in 1 .. i + size PROVE InRun(run, k) \/ CellRight(b, place, f.img, k)
  <2>1. CASE k \in Cells(i, size)
    BY <1>4, <2>1 DEF InRun
  <2>2. CASE k \notin Cells(i, size)
    <3>1. k \in 1 .. i
      BY <1>0, <2>2 DEF Cells
    <3>2. QED
      BY <3>1 DEF FillInv, InRun
  <2>3. QED
    BY <2>1, <2>2
<1>10. QED
  BY <1>0, <1>1, <1>2, <1>3, <1>5, <1>7, <1>8, <1>9 DEF FillInv

(* A chunk of the bytes of the run that is open.                             *)
LEMMA RunGoesOn ==
  ASSUME NEW b, NEW place, NEW f, NEW i, NEW size \in Nat, BlobShape(b), FillInv(b, place, f, i), f.run.reps # 0,
         size # 0, AllEqual(b.data, i, size), f.run.value = b.data[i + 1],
         i + size <= Size(b), \A m \in 1 .. Len(b.regions) : m >= f.r => i + size <= b.regions[m].offset
  PROVE  LET g == [f EXCEPT !.run.reps = @ + size]
         IN  FillInv(b, place, g, i + size) /\ g.r = f.r /\ g.i = f.i
<1>0. FillShape(b, f) /\ RegionsPassed(b, f, i) /\ RunInv(b, f, i) /\ i \in Nat /\ Size(b) \in Nat
  BY DEF FillInv, BlobShape
<1>1. PICK s \in Nat, n \in Nat : s = f.run.start /\ n = f.run.reps
  BY <1>0 DEF FillShape
<1>2. PICK g : g = [f EXCEPT !.run.reps = @ + size]
  OBVIOUS
<1>3. PICK run : run = [start |-> s, value |-> f.run.value, reps |-> n + size]
  OBVIOUS
<1>4. g.i = f.i /\ g.r = f.r /\ g.run = run /\ g.img = f.img /\ g = [i |-> f.i, r |-> f.r, run |-> run, img |-> f.img]
  BY <1>0, <1>1, <1>2, <1>3 DEF FillShape
<1>5. run.start = s /\ run.reps = n + size /\ run.value = f.run.value /\ run = [start |-> run.start, value |-> run.value, reps |-> run.reps]
  BY <1>3
<1>6. FillShape(b, g)
  BY <1>0, <1>4, <1>5 DEF FillShape
<1>7. s + n = i /\ n # 0 /\ \A m \in 1 .. Len(b.regions) : m < f.r => EndOf(b, m) <= s
  BY <1>0, <1>1 DEF RunInv
<1>8. ASSUME NEW m \in 1 .. Len(b.regions), m < f.r PROVE EndOf(b, m) <= i + size
  <2>1. EndOf(b, m) <= s /\ EndOf(b, m) \in Nat
    BY <1>7, <1>8, RegionAt
  <2>2. QED
    BY <1>0, <1>7, <2>1
<1>9. RegionsPassed(b, g, i + size)
  BY <1>4, <1>8 DEF RegionsPassed
<1>10. ASSUME NEW k \in Cells(s, n + size) PROVE b.data[k] = f.run.value
  <2>1. k \in Cells(s, n) \/ k \in Cells(i, size)
    BY <1>0, <1>7 DEF Cells
  <2>2. QED
    BY <1>0, <1>1, <2>1 DEF RunInv, AllEqual
<1>11. s + (n + size) = i + size /\ n + size # 0
  BY <1>7
<1>12. RunInv(b, g, i + size)
  BY <1>4, <1>5, <1>7, <1>10, <1>11 DEF RunInv
<1>13. ASSUME NEW k \in 1 .. i + size PROVE InRun(run, k) \/ CellRight(b, place, f.img, k)
  <2>1. CASE k \in Cells(s, n + size)
    BY <1>5, <1>11, <2>1 DEF InRun
  <2>2. CASE k \notin Cells(s, n + size)
    <3>1. k \in 1 .. i /\ k \notin Cells(s, n)
      BY <1>0, <1>7, <2>2 DEF Cells
    <3>2. QED
      BY <1>1, <3>1 DEF FillInv, InRun
  <2>3. QED
    BY <2>1, <2>2
<1>14. QED
  BY <1>0, <1>2, <1>4, <1>6, <1>9, <1>12, <1>13 DEF FillInv

(* A chunk, whichever way it is stored.                                      *)
LEMMA StoreRight ==
  ASSUME NEW b, NEW place, NEW f, NEW i, NEW size \in Nat, BlobShape(b), FillInv(b, place, f, i),
         i + size <= Size(b), \A m \in 1 .. Len(b.regions) : m >= f.r => i + size <= b.regions[m].offset
  PROVE  LET g == materializeStore(f, b.data, i, size)
         IN  FillInv(b, place, g, i + size) /\ g.r = f.r /\ g.i = f.i
<1>0. i \in Nat
  BY DEF FillInv
<1>1. CASE size = 0
  <2>1. i + size = i /\ materializeStore(f, b.data, i, size) = f
    BY <1>0, <1>1 DEF materializeStore
  <2>2. QED
    BY <2>1
<1>2. PICK c : c = commitCompressedStores(f, b.data)
  OBVIOUS
<1>3. FillInv(b, place, c, i) /\ c.run.reps = 0 /\ c.r = f.r /\ c.i = f.i
  BY <1>2, CommitRight
<1>4. CASE size # 0 /\ ~AllEqual(b.data, i, size)
  <2>1. materializeStore(f, b.data, i, size) = StoreNow(c, b.data, materializeVectorStores(i, size))
    BY <1>2, <1>4 DEF materializeStore
  <2>2. QED
    BY <1>3, <2>1, StoreNowRight
<1>5. CASE size # 0 /\ AllEqual(b.data, i, size) /\ f.run.reps = 0
  <2>1. materializeStore(f, b.data, i, size) = [f EXCEPT !.run = RunOf(b.data, i, size)]
    BY <1>5 DEF materializeStore
  <2>2. QED
    BY <1>5, <2>1, RunStarts
<1>6. CASE size # 0 /\ AllEqual(b.data, i, size) /\ f.run.reps # 0 /\ f.run.value = b.data[i + 1]
  <2>1. materializeStore(f, b.data, i, size) = [f EXCEPT !.run.reps = @ + size]
    BY <1>6 DEF materializeStore
  <2>2. QED
    BY <1>6, <2>1, RunGoesOn
<1>7. CASE size # 0 /\ AllEqual(b.data, i, size) /\ f.run.reps # 0 /\ f.run.value # b.data[i + 1]
  <2>1. materializeStore(f, b.data, i, size) = [c EXCEPT !.run = RunOf(b.data, i, size)]
    BY <1>2, <1>7 DEF materializeStore
  <2>2. QED
    BY <1>3, <1>7, <2>1, RunStarts
<1>8. QED
  BY <1>1, <1>4, <1>5, <1>6, <1>7

(* Where the loop is between two rounds: what comes before its byte is done, *)
(* and no region to come starts before it.                                   *)
LoopInv(b, place, f) ==
  /\ f.i \in Nat /\ FillInv(b, place, f, Least(f.i, Size(b)))
  /\ \A m \in 1 .. Len(b.regions) : m >= f.r => f.i <= b.regions[m].offset

(* The same, said with the end of the chunk.                                 *)
LEMMA StoreUpTo ==
  ASSUME NEW b, NEW place, NEW f, NEW i \in Nat, NEW e \in Nat, BlobShape(b), FillInv(b, place, f, i), i <= e, e <= Size(b),
         \A m \in 1 .. Len(b.regions) : m >= f.r => e <= b.regions[m].offset
  PROVE  LET g == materializeStore(f, b.data, i, e - i)
         IN  FillInv(b, place, g, e) /\ g.r = f.r /\ g.i = f.i
<1>1. PICK size \in Nat : size = e - i
  OBVIOUS
<1>2. PICK j : j = i
  OBVIOUS
<1>3. e = j + size
  BY <1>1, <1>2
<1>4. j + size <= Size(b) /\ FillInv(b, place, f, j) /\ \A m \in 1 .. Len(b.regions) : m >= f.r => j + size <= b.regions[m].offset
  BY <1>2, <1>3
<1>5. FillInv(b, place, materializeStore(f, b.data, j, size), j + size)
      /\ materializeStore(f, b.data, j, size).r = f.r /\ materializeStore(f, b.data, j, size).i = f.i
  BY <1>4, StoreRight
<1>6. QED
  BY <1>1, <1>2, <1>3, <1>5

(* A pointer region: the bytes before it, the run, the pointer.              *)
LEMMA PointerRound ==
  ASSUME NEW b, NEW place, NEW f, BlobShape(b), LoopInv(b, place, f), f.i < Size(b), f.r \in 1 .. Len(b.regions),
         f.i <= b.regions[f.r].offset, b.regions[f.r].offset < f.i + SimdWidth
  PROVE  LoopInv(b, place, FillStep(b, place, f)) /\ FillStep(b, place, f).i > f.i
<1>0. PICK i \in Nat : i = f.i
  BY DEF LoopInv
<1>1. PICK q : q = b.regions[f.r]
  OBVIOUS
<1>2. PICK off \in Nat : off = q.offset
  BY <1>1 DEF BlobShape
<1>3. i <= off /\ off + PointerSize <= Size(b) /\ Size(b) \in Nat /\ PointerSize \in Nat \ {0} /\ SimdWidth \in Nat
  BY <1>0, <1>1, <1>2, SpaceAssumption DEF BlobShape, EndOf
<1>4. FillInv(b, place, f, i)
  BY <1>0, <1>3 DEF LoopInv, Least
<1>5. PICK size \in Nat : size = off - i
  BY <1>3
<1>6. i + size = off /\ i + size <= Size(b)
  BY <1>3, <1>5
<1>7. f.r \in Nat
  OBVIOUS
<1>8. ASSUME NEW m \in 1 .. Len(b.regions), m >= f.r PROVE off <= b.regions[m].offset /\ (m # f.r => off + PointerSize <= b.regions[m].offset)
  <2>1. CASE m = f.r
    BY <1>1, <1>2, <2>1
  <2>2. CASE m # f.r
    <3>1. f.r < m
      BY <1>7, <1>8, <2>2 DEF BlobShape
    <3>2. EndOf(b, f.r) <= b.regions[m].offset
      BY <3>1 DEF BlobShape
    <3>3. PICK y \in Nat : y = b.regions[m].offset
      BY RegionAt
    <3>4. EndOf(b, f.r) = off + PointerSize
      BY <1>1, <1>2 DEF EndOf
    <3>5. off <= y /\ off + PointerSize <= y
      BY <1>3, <3>2, <3>3, <3>4
    <3>6. QED
      BY <3>3, <3>5
  <2>3. QED
    BY <2>1, <2>2
<1>9. PICK s : s = materializeStore(f, b.data, i, size)
  OBVIOUS
<1>10. FillInv(b, place, s, off) /\ s.r = f.r /\ s.i = f.i
  <2>1. \A m \in 1 .. Len(b.regions) : m >= f.r => off <= b.regions[m].offset
    BY <1>8
  <2>2. off <= Size(b)
    BY <1>3
  <2>3. QED
    BY <1>3, <1>4, <1>5, <1>9, <2>1, <2>2, StoreUpTo
<1>11. PICK g : g = commitCompressedStores(s, b.data)
  OBVIOUS
<1>12. /\ FillInv(b, place, g, off) /\ g.run.reps = 0 /\ g.r = f.r /\ g.i = f.i
       /\ \A k \in 1 .. off : CellRight(b, place, g.img, k)
  <2>1. FillInv(b, place, s, off)
    BY <1>10
  <2>2. /\ FillInv(b, place, g, off) /\ g.run.reps = 0 /\ g.r = s.r /\ g.i = s.i
        /\ \A k \in 1 .. off : CellRight(b, place, g.img, k)
    BY <1>11, <2>1, CommitRight
  <2>3. QED
    BY <1>10, <2>2
<1>13. PICK img : img = StorePointer(g.img, off, place[q.blob], q.at)
  OBVIOUS
<1>14. PICK h : h = FillStep(b, place, f)
  OBVIOUS
<1>15. h = [g EXCEPT !.i = off + PointerSize, !.r = @ + 1, !.img = img]
  <2>1. ~(f.i >= Size(b)) /\ f.r <= Len(b.regions)
    BY <1>0, <1>3 DEF BlobShape
  <2>2. g = commitCompressedStores(materializeStore(f, b.data, f.i, q.offset - f.i), b.data)
    BY <1>0, <1>2, <1>5, <1>9, <1>11
  <2>3. QED
    BY <1>1, <1>2, <1>13, <1>14, <2>1, <2>2 DEF FillStep
<1>16. FillShape(b, g)
  BY <1>12 DEF FillInv
<1>17. /\ h.i = off + PointerSize /\ h.r = f.r + 1 /\ h.run = g.run /\ h.img = img
       /\ h = [i |-> h.i, r |-> h.r, run |-> h.run, img |-> h.img]
  BY <1>12, <1>15, <1>16 DEF FillShape
<1>18. DOMAIN img = 1 .. Size(b)
  BY <1>13, <1>16 DEF FillShape, StorePointer
<1>19. ASSUME NEW k \in 1 .. Size(b)
       PROVE  img[k] = IF k \in Cells(off, PointerSize) THEN <<1, place[q.blob], q.at, k - 1 - off>> ELSE g.img[k]
  BY <1>13, <1>16 DEF FillShape, StorePointer
<1>20. PICK e \in Nat : e = off + PointerSize
  BY <1>3
<1>21. ASSUME NEW k \in 1 .. e PROVE CellRight(b, place, img, k)
  <2>1. k \in 1 .. Size(b)
    BY <1>3, <1>20
  <2>2. CASE k \in Cells(off, PointerSize)
    <3>1. InRegion(b, f.r, k)
      BY <1>1, <1>2, <2>2 DEF InRegion
    <3>2. img[k] = <<1, place[q.blob], q.at, k - 1 - q.offset>>
      BY <1>2, <1>19, <2>1, <2>2
    <3>3. QED
      BY <1>1, <3>1, <3>2 DEF CellRight
  <2>3. CASE k \notin Cells(off, PointerSize)
    <3>1. k \in 1 .. off
      BY <1>3, <1>20, <2>3 DEF Cells
    <3>2. CellRight(b, place, g.img, k) /\ img[k] = g.img[k]
      BY <1>12, <1>19, <2>1, <2>3, <3>1
    <3>3. QED
      BY <3>2, CellStays
  <2>4. QED
    BY <2>2, <2>3
<1>22. FillShape(b, h)
  <2>1. h.run.start \in Nat /\ h.run.reps \in Nat /\ h.run = [start |-> h.run.start, value |-> h.run.value, reps |-> h.run.reps]
    BY <1>16, <1>17 DEF FillShape
  <2>2. h.r \in Nat \ {0}
    BY <1>7, <1>17
  <2>3. QED
    BY <1>17, <1>18, <2>1, <2>2 DEF FillShape
<1>23. \A m \in 1 .. Len(b.regions) : m >= h.r => e <= b.regions[m].offset
  <2> TAKE m \in 1 .. Len(b.regions)
  <2> HAVE m >= h.r
  <2>1. m >= f.r /\ m # f.r
    BY <1>7, <1>17 DEF BlobShape
  <2>2. QED
    BY <1>8, <1>20, <2>1
<1>24. ASSUME NEW m \in 1 .. Len(b.regions), m < h.r PROVE EndOf(b, m) <= e
  <2>1. CASE m = f.r
    BY <1>1, <1>2, <1>20, <2>1 DEF EndOf
  <2>2. CASE m # f.r
    <3>1. m < f.r
      BY <1>7, <1>17, <1>24, <2>2 DEF BlobShape
    <3>2. EndOf(b, m) <= off /\ EndOf(b, m) \in Nat
      <4>1. RegionsPassed(b, g, off)
        BY <1>12 DEF FillInv
      <4>2. QED
        BY <1>12, <3>1, <4>1, RegionAt DEF RegionsPassed
    <3>3. QED
      BY <1>3, <1>20, <3>2
  <2>3. QED
    BY <2>1, <2>2
<1>25. RegionsPassed(b, h, e) /\ RunInv(b, h, e)
  BY <1>12, <1>17, <1>23, <1>24 DEF RegionsPassed, RunInv
<1>26. FillInv(b, place, h, e)
  BY <1>3, <1>17, <1>20, <1>21, <1>22, <1>25 DEF FillInv
<1>27. Least(h.i, Size(b)) = e /\ h.i = e /\ e > f.i
  BY <1>0, <1>3, <1>17, <1>20 DEF Least
<1>28. QED
  BY <1>14, <1>20, <1>23, <1>26, <1>27 DEF LoopInv

(* A chunk without a pointer.                                                *)
LEMMA ChunkRound ==
  ASSUME NEW b, NEW place, NEW f, BlobShape(b), LoopInv(b, place, f), f.i < Size(b),
         ~(f.r <= Len(b.regions) /\ f.i <= b.regions[f.r].offset /\ b.regions[f.r].offset < f.i + SimdWidth)
  PROVE  LoopInv(b, place, FillStep(b, place, f)) /\ FillStep(b, place, f).i > f.i
<1>0. PICK i \in Nat : i = f.i
  BY DEF LoopInv
<1>1. Size(b) \in Nat /\ SimdWidth \in Nat \ {0} /\ i < Size(b) /\ PointerSize \in Nat /\ Len(b.regions) \in Nat
  BY <1>0, SpaceAssumption DEF BlobShape
<1>2. FillInv(b, place, f, i)
  BY <1>0, <1>1 DEF LoopInv, Least
<1>3. PICK size \in Nat : size = Least(SimdWidth, Size(b) - i)
  BY <1>1 DEF Least
<1>4. i + size = Least(i + SimdWidth, Size(b)) /\ i + size <= Size(b) /\ i + size <= i + SimdWidth
  BY <1>1, <1>3 DEF Least
<1>5. f.r \in Nat \ {0}
  BY <1>2 DEF FillInv, FillShape
<1>6. ASSUME NEW m \in 1 .. Len(b.regions), m >= f.r PROVE i + SimdWidth <= b.regions[m].offset /\ i + size <= b.regions[m].offset
  <2>1. f.r \in 1 .. Len(b.regions)
    BY <1>1, <1>5, <1>6
  <2>2. PICK x \in Nat, y \in Nat : x = b.regions[f.r].offset /\ y = b.regions[m].offset
    BY <2>1 DEF BlobShape
  <2>3. i <= x
    BY <1>0, <1>5, <2>1, <2>2 DEF LoopInv
  <2>4. i + SimdWidth <= x
    BY <1>0, <1>1, <2>1, <2>2, <2>3
  <2>5. x <= y
    <3>1. CASE m = f.r
      BY <2>2, <3>1
    <3>2. CASE m # f.r
      <4>1. f.r < m
        BY <1>5, <1>6, <3>2
      <4>2. EndOf(b, f.r) <= y /\ EndOf(b, f.r) \in Nat /\ x <= EndOf(b, f.r)
        BY <2>1, <2>2, <4>1, RegionAt DEF BlobShape
      <4>3. QED
        BY <4>2, AtMost
    <3>3. QED
      BY <3>1, <3>2
  <2>6. i + SimdWidth <= y /\ i + size <= y
    <3>1. i + SimdWidth \in Nat /\ i + size \in Nat
      BY <1>1
    <3>2. i + SimdWidth <= y
      BY <2>4, <2>5, <3>1, AtMost
    <3>3. QED
      BY <1>4, <3>1, <3>2, AtMost
  <2>7. QED
    BY <2>2, <2>6
<1>7. PICK g : g = materializeStore(f, b.data, i, size)
  OBVIOUS
<1>8. FillInv(b, place, g, i + size) /\ g.r = f.r /\ g.i = f.i
  <2>1. PICK e \in Nat : e = i + size
    OBVIOUS
  <2>2. i <= e /\ e <= Size(b) /\ size = e - i
    BY <1>4, <2>1
  <2>3. \A m \in 1 .. Len(b.regions) : m >= f.r => e <= b.regions[m].offset
    BY <1>6, <2>1
  <2>4. FillInv(b, place, g, e) /\ g.r = f.r /\ g.i = f.i
    BY <1>2, <1>7, <2>2, <2>3, StoreUpTo
  <2>5. QED
    BY <2>1, <2>4
<1>9. PICK h : h = FillStep(b, place, f)
  OBVIOUS
<1>10. h = [g EXCEPT !.i = @ + SimdWidth]
  BY <1>0, <1>1, <1>3, <1>7, <1>9 DEF FillStep
<1>11. FillShape(b, g)
  BY <1>8 DEF FillInv
<1>12. /\ h.i = i + SimdWidth /\ h.r = g.r /\ h.run = g.run /\ h.img = g.img
       /\ h = [i |-> h.i, r |-> h.r, run |-> h.run, img |-> h.img]
  BY <1>0, <1>8, <1>10, <1>11 DEF FillShape
<1>13. FillShape(b, h)
  BY <1>11, <1>12 DEF FillShape
<1>14. FillInv(b, place, h, i + size)
  BY <1>8, <1>12, <1>13 DEF FillInv, RegionsPassed, RunInv
<1>15. h.i \in Nat /\ h.i > f.i
  BY <1>0, <1>1, <1>12
<1>16. QED
  BY <1>4, <1>6, <1>8, <1>9, <1>12, <1>14, <1>15 DEF LoopInv

(* A round of the loop keeps what is done and comes further.                 *)
LEMMA FillRound ==
  ASSUME NEW b, NEW place, NEW f, BlobShape(b), LoopInv(b, place, f)
  PROVE  /\ LoopInv(b, place, FillStep(b, place, f))
         /\ FillStep(b, place, f).i > f.i \/ FillStep(b, place, f).i >= Size(b)
<1>0. f.i \in Nat /\ Size(b) \in Nat /\ Len(b.regions) \in Nat /\ f.r \in Nat \ {0}
  BY DEF LoopInv, BlobShape, FillInv, FillShape
<1>1. CASE f.i >= Size(b)
  <2>1. FillStep(b, place, f) = f
    BY <1>1 DEF FillStep
  <2>2. QED
    BY <1>1, <2>1
<1>2. CASE f.i < Size(b) /\ f.r <= Len(b.regions) /\ f.i <= b.regions[f.r].offset /\ b.regions[f.r].offset < f.i + SimdWidth
  <2>1. f.r \in 1 .. Len(b.regions)
    BY <1>0, <1>2
  <2>2. QED
    BY <1>2, <2>1, PointerRound
<1>3. CASE f.i < Size(b) /\ ~(f.r <= Len(b.regions) /\ f.i <= b.regions[f.r].offset /\ b.regions[f.r].offset < f.i + SimdWidth)
  BY <1>3, ChunkRound
<1>4. QED
  BY <1>0, <1>1, <1>2, <1>3

(* The loop runs as it is written.                                           *)
LEMMA LoopIs ==
  ASSUME NEW b, NEW place, NEW n \in Nat, n = Size(b)
  PROVE  \E F : /\ F[0] = FillStart(b) /\ FillLoop(b, place) = F[n]
                /\ \A i \in 1 .. n : F[i] = FillStep(b, place, F[i - 1])
<1>0. PICK z : z = FillStart(b)
  OBVIOUS
<1> DEFINE T == {m \in Nat : \E F : F = [i \in 0 .. m |-> F[i]] /\ F[0] = z /\ \A i \in 1 .. m : F[i] = FillStep(b, place, F[i - 1])}
<1> HIDE DEF T
<1>1. 0 \in T
  <2>1. PICK G : G = [i \in 0 .. 0 |-> z]
    OBVIOUS
  <2>2. G = [i \in 0 .. 0 |-> G[i]] /\ G[0] = z /\ \A i \in 1 .. 0 : G[i] = FillStep(b, place, G[i - 1])
    BY <2>1
  <2>3. QED
    BY <2>2 DEF T
<1>2. ASSUME NEW m \in T PROVE m + 1 \in T
  <2>1. PICK F : F = [i \in 0 .. m |-> F[i]] /\ F[0] = z /\ \A i \in 1 .. m : F[i] = FillStep(b, place, F[i - 1])
    BY <1>2 DEF T
  <2> m \in Nat
    BY <1>2 DEF T
  <2>2. PICK x : x = FillStep(b, place, F[m])
    OBVIOUS
  <2>3. PICK G : G = [i \in 0 .. (m + 1) |-> IF i = m + 1 THEN x ELSE F[i]]
    OBVIOUS
  <2>4. ASSUME NEW i \in 1 .. (m + 1) PROVE G[i] = FillStep(b, place, G[i - 1])
    <3>1. CASE i = m + 1
      <4>1. G[i - 1] = F[m] /\ G[i] = x
        BY <2>3, <3>1
      <4>2. QED
        BY <2>2, <4>1
    <3>2. CASE i \in 1 .. m
      <4>1. G[i] = F[i] /\ G[i - 1] = F[i - 1]
        BY <2>3, <3>2
      <4>2. QED
        BY <2>1, <3>2, <4>1
    <3>3. i = m + 1 \/ i \in 1 .. m
      OBVIOUS
    <3>4. QED
      BY <3>1, <3>2, <3>3
  <2>5. G[0] = z /\ G = [i \in 0 .. (m + 1) |-> G[i]]
    BY <2>1, <2>3
  <2>6. \E H : H = [i \in 0 .. (m + 1) |-> H[i]] /\ H[0] = z /\ \A i \in 1 .. (m + 1) : H[i] = FillStep(b, place, H[i - 1])
    BY <2>4, <2>5
  <2>7. m + 1 \in Nat
    OBVIOUS
  <2>8. QED
    BY <2>6, <2>7, Zenon DEF T
<1>3. T = Nat
  <2>1. T \in SUBSET Nat
    BY DEF T
  <2>2. QED
    BY <1>1, <1>2, <2>1, Inductive
<1>4. PICK G : G = [i \in 0 .. n |-> G[i]] /\ G[0] = z /\ \A i \in 1 .. n : G[i] = FillStep(b, place, G[i - 1])
  BY <1>3 DEF T
<1>5. \A i \in 0 .. n : G[i] = IF i = 0 THEN z ELSE FillStep(b, place, G[i - 1])
  <2> TAKE i \in 0 .. n
  <2>1. i = 0 \/ (i # 0 /\ i \in 1 .. n)
    OBVIOUS
  <2>2. QED
    BY <1>4, <2>1
<1>6. \E F : F = [i \in 0 .. n |-> IF i = 0 THEN z ELSE FillStep(b, place, F[i - 1])]
  <2>1. G = [i \in 0 .. n |-> IF i = 0 THEN z ELSE FillStep(b, place, G[i - 1])]
    BY <1>4, <1>5
  <2>2. QED
    BY <2>1
<1> DEFINE loop[i \in 0 .. n] == IF i = 0 THEN z ELSE FillStep(b, place, loop[i - 1])
<1>7. loop = [i \in 0 .. n |-> IF i = 0 THEN z ELSE FillStep(b, place, loop[i - 1])]
  BY <1>6
<1>8. FillLoop(b, place) = loop[n]
  BY <1>0 DEF FillLoop
<1> HIDE DEF loop
<1>9. loop[0] = z
  BY <1>7
<1>10. ASSUME NEW i \in 1 .. n PROVE loop[i] = FillStep(b, place, loop[i - 1])
  <2>1. i \in 0 .. n /\ i # 0
    OBVIOUS
  <2>2. QED
    BY <1>7, <2>1
<1>11. QED
  BY <1>0, <1>8, <1>9, <1>10

(* An allocation is filled with what its blob holds.                         *)
LEMMA FilledRight ==
  ASSUME NEW b, NEW place, BlobShape(b), isGlobalBlob(b) => Len(b.regions) = 0
  PROVE  \A k \in 1 .. Size(b) : CellRight(b, place, Filled(b, place), k)
<1>1. PICK n \in Nat : n = Size(b)
  BY DEF BlobShape
<1>2. CASE isGlobalBlob(b)
  <2>1. \A k \in 1 .. Size(b) : Filled(b, place)[k] = <<0, b.data[k]>>
    BY <1>2 DEF Filled
  <2>2. \A m \in 1 .. Len(b.regions) : FALSE
    BY <1>2
  <2>3. QED
    BY <2>1, <2>2 DEF CellRight
<1>3. CASE ~isGlobalBlob(b)
  <2>1. PICK F : /\ F[0] = FillStart(b) /\ FillLoop(b, place) = F[n]
                 /\ \A i \in 1 .. n : F[i] = FillStep(b, place, F[i - 1])
    BY <1>1, LoopIs
  <2> DEFINE T == {m \in Nat : m \in 0 .. n => LoopInv(b, place, F[m]) /\ (F[m].i >= m \/ F[m].i >= n)}
  <2> HIDE DEF T
  <2>2. 0 \in T
    <3>1. PICK z : z = FillStart(b)
      OBVIOUS
    <3>2. z.i = 0 /\ z.r = 1 /\ z.run = NoRun /\ z.img = [k \in 1 .. n |-> <<>>] /\ z = [i |-> z.i, r |-> z.r, run |-> z.run, img |-> z.img]
      BY <1>1, <3>1 DEF FillStart
    <3>3. z.run.start = 0 /\ z.run.reps = 0 /\ z.run = [start |-> z.run.start, value |-> z.run.value, reps |-> z.run.reps]
      BY <3>2 DEF NoRun
    <3>4. FillShape(b, z)
      BY <1>1, <3>2, <3>3 DEF FillShape
    <3>5. RegionsPassed(b, z, 0) /\ RunInv(b, z, 0) /\ \A m \in 1 .. Len(b.regions) : m >= z.r => 0 <= b.regions[m].offset
      BY <3>2, <3>3 DEF RegionsPassed, RunInv, BlobShape
    <3>6. Least(0, Size(b)) = 0
      BY <1>1 DEF Least
    <3>7. FillInv(b, place, z, 0)
      BY <1>1, <3>4, <3>5 DEF FillInv
    <3>8. LoopInv(b, place, z)
      BY <3>2, <3>5, <3>6, <3>7 DEF LoopInv
    <3>9. QED
      BY <2>1, <3>1, <3>2, <3>8 DEF T
  <2>3. ASSUME NEW m \in T PROVE m + 1 \in T
    <3>1. m \in Nat /\ m + 1 \in Nat
      BY <2>3 DEF T
    <3>2. SUFFICES ASSUME m + 1 \in 0 .. n PROVE LoopInv(b, place, F[m + 1]) /\ (F[m + 1].i >= m + 1 \/ F[m + 1].i >= n)
      BY <3>1 DEF T
    <3>3. m \in 0 .. n /\ m + 1 \in 1 .. n /\ (m + 1) - 1 = m
      BY <3>1, <3>2
    <3>4. LoopInv(b, place, F[m]) /\ (F[m].i >= m \/ F[m].i >= n)
      BY <2>3, <3>3 DEF T
    <3>5. F[m + 1] = FillStep(b, place, F[m])
      <4>1. F[m + 1] = FillStep(b, place, F[(m + 1) - 1])
        BY <2>1, <3>3
      <4>2. QED
        BY <3>3, <4>1
    <3>6. PICK f, g : f = F[m] /\ g = F[m + 1]
      OBVIOUS
    <3>7. LoopInv(b, place, g) /\ (g.i > f.i \/ g.i >= Size(b))
      BY <3>4, <3>5, <3>6, FillRound
    <3>8. f.i \in Nat /\ g.i \in Nat
      BY <3>4, <3>6, <3>7 DEF LoopInv
    <3>9. f.i >= m \/ f.i >= n
      BY <3>4, <3>6
    <3>10. g.i >= m + 1 \/ g.i >= n
      BY <1>1, <3>1, <3>7, <3>8, <3>9
    <3>11. QED
      BY <3>6, <3>7, <3>10
  <2>4. T = Nat
    <3>1. T \in SUBSET Nat
      BY DEF T
    <3>2. QED
      BY <2>2, <2>3, <3>1, Inductive
  <2>5. LoopInv(b, place, F[n]) /\ F[n].i >= n
    <3>1. n \in 0 .. n
      OBVIOUS
    <3>2. QED
      BY <2>4, <3>1 DEF T
  <2>6. PICK f : f = F[n]
    OBVIOUS
  <2>7. FillInv(b, place, f, n)
    <3>1. f.i \in Nat /\ f.i >= n /\ FillInv(b, place, f, Least(f.i, n))
      BY <1>1, <2>5, <2>6 DEF LoopInv
    <3>2. Least(f.i, n) = n
      BY <3>1 DEF Least
    <3>3. QED
      BY <3>1, <3>2
  <2>8. \A k \in 1 .. n : CellRight(b, place, commitCompressedStores(f, b.data).img, k)
    BY <2>7, CommitRight
  <2>9. Filled(b, place) = commitCompressedStores(f, b.data).img
    BY <1>3, <2>1, <2>6 DEF Filled
  <2>10. QED
    BY <1>1, <2>8, <2>9
<1>4. QED
  BY <1>2, <1>3

(* ---------------------------------------------------------------------- *)
(* InterpMemory: the memory the generated code builds                      *)

(* The blobs of a space are as the fill takes them.                          *)
LEMMA SpaceShape ==
  ASSUME space \in Spaces, NEW i \in Index
  PROVE  /\ BlobShape(space[i]) /\ (isGlobalBlob(space[i]) => Len(space[i].regions) = 0)
         /\ \A m \in 1 .. Len(space[i].regions) : space[i].regions[m].blob \in Index
         /\ Range(space[i].regions) = {space[i].regions[m] : m \in 1 .. Len(space[i].regions)}
<1>1. PICK b : b = space[i]
  OBVIOUS
<1>2. BlobOf(space, b)
  BY <1>1, SpaceAssumption DEF Index
<1>3. b.regions \in Seq(Range(b.regions)) /\ b.data \in Seq(Range(b.data))
  BY <1>2 DEF BlobOf
<1>4. Len(b.regions) \in Nat /\ Len(b.data) \in Nat /\ DOMAIN b.regions = 1 .. Len(b.regions)
  <2>1. PICK R, D : R = Range(b.regions) /\ D = Range(b.data)
    OBVIOUS
  <2>2. b.regions \in Seq(R) /\ b.data \in Seq(D)
    BY <1>3, <2>1
  <2>3. QED
    BY <2>2
<1>5. BlobShape(b)
  BY <1>2, <1>4 DEF BlobOf, BlobShape, EndOf, Size
<1>6. isGlobalBlob(b) => Len(b.regions) = 0
  BY <1>2 DEF BlobOf
<1>7. \A m \in 1 .. Len(b.regions) : b.regions[m].blob \in Index
  BY <1>2 DEF BlobOf, Index
<1>8. Range(b.regions) = {b.regions[m] : m \in 1 .. Len(b.regions)}
  BY <1>4 DEF Range
<1>9. QED
  BY <1>1, <1>5, <1>6, <1>7, <1>8

(* What a memref needs holds its blob and the target of each pointer in it.  *)
LEMMA NeedClosed ==
  ASSUME space \in Spaces, NEW ref \in Index, NEW need, need = materializePtrRegionBlobs(ref)
  PROVE  /\ need \subseteq Index /\ ref \in need
         /\ \A i \in need : \A m \in 1 .. Len(space[i].regions) : space[i].regions[m].blob \in need
<1>1. need = {i \in Index : \A S \in SUBSET Index : ref \in S /\ Closed(S) => i \in S}
  BY DEF materializePtrRegionBlobs
<1>2. ASSUME NEW i \in need, NEW m \in 1 .. Len(space[i].regions) PROVE space[i].regions[m].blob \in need
  <2>1. i \in Index
    BY <1>1
  <2>2. PICK r : r = space[i].regions[m]
    OBVIOUS
  <2>3. r.blob \in Index /\ r \in Range(space[i].regions)
    BY <2>1, <2>2, SpaceShape
  <2>4. ASSUME NEW S \in SUBSET Index, ref \in S, Closed(S) PROVE r.blob \in S
    <3>1. i \in S
      BY <1>1, <2>4
    <3>2. QED
      BY <2>3, <2>4, <3>1 DEF Closed
  <2>5. QED
    BY <1>1, <2>2, <2>3, <2>4
<1>3. QED
  BY <1>1, <1>2

(* The blobs of a set, one after another.                                    *)
LEMMA SeqOfSet ==
  ASSUME Len(space) \in Nat, NEW S \in SUBSET Index, NEW q, q = SetToSeq(S)
  PROVE  q \in Seq(Index) /\ Len(q) \in Nat /\ (\A k \in 1 .. Len(q) : q[k] \in S) /\ \A i \in S : \E k \in 1 .. Len(q) : q[k] = i
<1>1. IsFiniteSet(S)
  <2>1. IsFiniteSet(1 .. Len(space))
    BY FS_Interval
  <2>2. QED
    BY <2>1, FS_Subset DEF Index
<1>2. PICK n \in Nat : n = Cardinality(S)
  BY <1>1, FS_CardinalityType
<1>3. ExistsBijection(1 .. n, S)
  BY <1>1, <1>2, FS_CardinalityType
<1>4. \E f \in [1 .. n -> S] : IsInjective(f)
  BY <1>3 DEF ExistsBijection, Bijection, Injection, Surjection, IsInjective
<1>5. q \in [1 .. n -> S] /\ IsInjective(q)
  BY <1>2, <1>4 DEF SetToSeq
<1>6. q \in Seq(Index) /\ Len(q) = n
  BY <1>5
<1>7. ASSUME NEW i \in S PROVE \E k \in 1 .. n : q[k] = i
  <2>1. PICK R : R = {q[k] : k \in 1 .. n}
    OBVIOUS
  <2>2. R \in SUBSET S
    BY <1>5, <2>1
  <2>3. q \in Bijection(1 .. n, R)
    BY <1>5, <2>1 DEF Bijection, Injection, Surjection, IsInjective
  <2>4. ExistsBijection(1 .. n, R)
    BY <2>3 DEF ExistsBijection
  <2>5. IsFiniteSet(R) /\ Cardinality(R) = n
    BY <1>1, <2>2, <2>4, FS_Subset, FS_CountingElements
  <2>6. R = S
    BY <1>1, <1>2, <2>2, <2>5, FS_Subset
  <2>7. QED
    BY <2>1, <2>6
<1>8. QED
  BY <1>5, <1>6, <1>7

(* A cell of an entry for the blob b, in the memory M.                       *)
CellRestored(b, img, k, M) ==
  IF RegionsAt(b, k) = {} THEN img[k] = <<0, b.data[k]>>
  ELSE \E r \in RegionsAt(b, k), t \in 1 .. Len(M) :
         img[k] = <<1, t, r.at, k - 1 - r.offset>> /\ M[t].blob = r.blob
EntryRestored(e, M) == \A k \in 1 .. Size(space[e.blob]) : CellRestored(space[e.blob], e.img, k, M)
(* What is remembered of blobs is where entries for them are.                *)
Remembers(F, M) == F \in [Index -> 0 .. Len(M)] /\ \A i \in Index : F[i] # 0 => M[F[i]].blob = i
MemoryRight(M) ==
  /\ \E T : M \in Seq(T)
  /\ \A a \in 1 .. Len(M) : M[a].blob \in Index /\ EntryRestored(M[a], M)
MemInv == space \in Spaces /\ MemoryRight(mem) /\ Remembers(globals, mem) /\ Remembers(blobs, mem)

(* A pointer that is right for where the blobs are is right in memory.       *)
LEMMA CellInMemory ==
  ASSUME NEW b, NEW place, NEW img, NEW k, NEW M, CellRight(b, place, img, k),
         Range(b.regions) = {b.regions[m] : m \in 1 .. Len(b.regions)},
         \A m \in 1 .. Len(b.regions) : place[b.regions[m].blob] \in 1 .. Len(M) /\ M[place[b.regions[m].blob]].blob = b.regions[m].blob
  PROVE  CellRestored(b, img, k, M)
<1>1. CASE (\A m \in 1 .. Len(b.regions) : ~InRegion(b, m, k)) /\ img[k] = <<0, b.data[k]>>
  <2>1. RegionsAt(b, k) = {}
    BY <1>1 DEF RegionsAt, InRegion
  <2>2. QED
    BY <1>1, <2>1 DEF CellRestored
<1>2. ASSUME NEW m \in 1 .. Len(b.regions), InRegion(b, m, k),
             img[k] = <<1, place[b.regions[m].blob], b.regions[m].at, k - 1 - b.regions[m].offset>>
      PROVE  CellRestored(b, img, k, M)
  <2>1. PICK r : r = b.regions[m]
    OBVIOUS
  <2>2. r \in RegionsAt(b, k)
    BY <1>2, <2>1 DEF RegionsAt, InRegion
  <2>3. PICK t \in 1 .. Len(M) : t = place[r.blob] /\ M[t].blob = r.blob
    BY <2>1
  <2>4. img[k] = <<1, t, r.at, k - 1 - r.offset>>
    BY <1>2, <2>1, <2>3
  <2>5. QED
    BY <2>2, <2>3, <2>4 DEF CellRestored
<1>3. QED
  BY <1>1, <1>2 DEF CellRight

(* Entries added leave those before them right.                              *)
LEMMA EntryStays ==
  ASSUME NEW e, NEW M, NEW N, Len(M) \in Nat, Len(N) \in Nat, Len(M) <= Len(N), \A a \in 1 .. Len(M) : N[a] = M[a], EntryRestored(e, M)
  PROVE  EntryRestored(e, N)
<1>1. ASSUME NEW b, NEW img, NEW k, CellRestored(b, img, k, M) PROVE CellRestored(b, img, k, N)
  <2>1. CASE RegionsAt(b, k) = {}
    BY <1>1, <2>1 DEF CellRestored
  <2>2. CASE RegionsAt(b, k) # {}
    <3>1. PICK r \in RegionsAt(b, k), t \in 1 .. Len(M) : img[k] = <<1, t, r.at, k - 1 - r.offset>> /\ M[t].blob = r.blob
      BY <1>1, <2>2 DEF CellRestored
    <3>2. t \in 1 .. Len(N) /\ N[t].blob = r.blob
      BY <3>1
    <3>3. QED
      BY <2>2, <3>1, <3>2 DEF CellRestored
  <2>3. QED
    BY <2>1, <2>2
<1>2. QED
  BY <1>1 DEF EntryRestored

(* What was remembered before entries are added is still so.                 *)
LEMMA StillRemembers ==
  ASSUME NEW F, NEW M, NEW N, Len(M) \in Nat, Len(N) \in Nat, Len(M) <= Len(N), \A a \in 1 .. Len(M) : N[a] = M[a], Remembers(F, M)
  PROVE  Remembers(F, N)
<1>1. ASSUME NEW i \in Index PROVE F[i] \in 0 .. Len(N) /\ (F[i] # 0 => N[F[i]].blob = i)
  <2>1. F[i] \in 0 .. Len(M) /\ (F[i] # 0 => M[F[i]].blob = i)
    BY DEF Remembers
  <2>2. F[i] # 0 => F[i] \in 1 .. Len(M)
    BY <2>1
  <2>3. QED
    BY <2>1, <2>2
<1>2. F = [i \in Index |-> F[i]]
  BY DEF Remembers
<1>3. QED
  BY <1>1, <1>2 DEF Remembers

(* Where the blobs are once the entries of S are made.                       *)
LEMMA PlacedIs ==
  ASSUME MemInv, NEW S \in SUBSET Index, NEW fresh, fresh = SetToSeq(S), NEW i \in Index
  PROVE  /\ i \in S => \E k \in 1 .. Len(fresh) : fresh[k] = i /\ Placed(fresh)[i] = Len(mem) + k
         /\ i \notin S => Placed(fresh)[i] = globals[i]
<1>1. Len(space) \in Nat
  <2>1. PICK R : R = Range(space)
    OBVIOUS
  <2>2. space \in Seq(R)
    BY <2>1, SpaceAssumption DEF MemInv
  <2>3. QED
    BY <2>2
<1>2. (\A k \in 1 .. Len(fresh) : fresh[k] \in S) /\ \A j \in S : \E k \in 1 .. Len(fresh) : fresh[k] = j
  BY <1>1, SeqOfSet
<1>3. CASE i \in S
  <2>1. PICK k \in 1 .. Len(fresh) : k = CHOOSE j \in 1 .. Len(fresh) : fresh[j] = i
    BY <1>2, <1>3
  <2>2. fresh[k] = i
    BY <1>2, <1>3, <2>1
  <2>3. Placed(fresh)[i] = Len(mem) + k
    BY <2>1, <2>2 DEF Placed
  <2>4. QED
    BY <1>3, <2>2, <2>3
<1>4. CASE i \notin S
  BY <1>2, <1>4 DEF Placed
<1>5. QED
  BY <1>3, <1>4

(* A list, n entries, and the list with the entries behind it.               *)
Joined(old, entries, n, new) ==
  /\ \E U : new \in Seq(U)
  /\ Len(new) = Len(old) + n /\ Len(old) \in Nat
  /\ \A a \in 1 .. Len(old) : new[a] = old[a]
  /\ \A k \in 1 .. n : new[Len(old) + k] = entries[k]
LEMMA EntriesAdded ==
  ASSUME NEW T, NEW old \in Seq(T), NEW n \in Nat, NEW E, NEW entries \in [1 .. n -> E]
  PROVE  Joined(old, entries, n, old \o entries)
<1>1. PICK U : U = T \cup E
  OBVIOUS
<1>2. entries \in [1 .. n -> U] /\ T \subseteq U
  BY <1>1
<1>3. old \in Seq(U) /\ entries \in Seq(U) /\ Len(entries) = n
  BY <1>2
<1>4. old \o entries \in Seq(U)
  BY <1>3
<1>5. /\ Len(old \o entries) = Len(old) + n /\ Len(old) \in Nat
      /\ \A a \in 1 .. Len(old) : (old \o entries)[a] = old[a]
      /\ \A k \in 1 .. n : (old \o entries)[Len(old) + k] = entries[k]
  BY <1>3
<1>6. QED
  BY <1>4, <1>5 DEF Joined

(* Making the entries of S, whose pointers go to blobs of S or to globals    *)
(* that exist, leaves the memory right.                                      *)
LEMMA MaterializeRight ==
  ASSUME MemInv, NEW S \in SUBSET Index, Materialize(S), NEW place, place = Placed(SetToSeq(S)),
         \A i \in S : \A m \in 1 .. Len(space[i].regions) :
            space[i].regions[m].blob \in S \/ globals[space[i].regions[m].blob] # 0
  PROVE  /\ MemoryRight(mem') /\ Remembers(globals', mem') /\ Remembers(blobs, mem')
         /\ \A i \in Index : place[i] \in 0 .. Len(mem') /\ (i \in S => place[i] # 0) /\ (place[i] # 0 => mem'[place[i]].blob = i)
<1>0. space \in Spaces /\ MemoryRight(mem) /\ Remembers(globals, mem) /\ Remembers(blobs, mem)
  BY DEF MemInv
<1>1. PICK fresh : fresh = SetToSeq(S)
  OBVIOUS
<1>2. Len(space) \in Nat
  <2>1. PICK R : R = Range(space)
    OBVIOUS
  <2>2. space \in Seq(R)
    BY <1>0, <2>1, SpaceAssumption
  <2>3. QED
    BY <2>2
<1>3. Len(fresh) \in Nat /\ \A k \in 1 .. Len(fresh) : fresh[k] \in S
  BY <1>1, <1>2, SeqOfSet
<1>4. PICK entries : entries = [k \in 1 .. Len(fresh) |-> [blob |-> fresh[k], img |-> Filled(space[fresh[k]], place)]]
  OBVIOUS
<1>5. mem' = mem \o entries /\ globals' = [i \in Index |-> IF isGlobalBlob(space[i]) THEN place[i] ELSE globals[i]]
  BY <1>1, <1>4 DEF Materialize
<1>6. PICK T : mem \in Seq(T)
  BY <1>0 DEF MemoryRight
<1>7. PICK n \in Nat : n = Len(fresh)
  BY <1>3
<1>8. PICK E : entries \in [1 .. n -> E]
  <2>1. PICK E : E = {entries[k] : k \in 1 .. n}
    OBVIOUS
  <2>2. entries \in [1 .. n -> E]
    BY <1>4, <1>7, <2>1
  <2>3. QED
    BY <2>2
<1>9. /\ \E U : mem' \in Seq(U)
      /\ Len(mem') = Len(mem) + Len(fresh) /\ Len(mem) \in Nat
      /\ \A a \in 1 .. Len(mem) : mem'[a] = mem[a]
      /\ \A k \in 1 .. Len(fresh) : mem'[Len(mem) + k] = entries[k]
  <2>1. PICK old : old = mem
    OBVIOUS
  <2>2. old \in Seq(T)
    BY <1>6, <2>1
  <2>3. Joined(old, entries, n, old \o entries)
    BY <1>8, <2>2, EntriesAdded
  <2>4. Joined(mem, entries, n, mem')
    BY <1>5, <2>1, <2>3
  <2>5. QED
    BY <1>7, <2>4 DEF Joined
<1>10. Len(mem') \in Nat /\ Len(mem) <= Len(mem')
  BY <1>3, <1>9
<1>11. Remembers(globals, mem') /\ Remembers(blobs, mem')
  BY <1>0, <1>9, <1>10, StillRemembers
<1>12. ASSUME NEW i \in Index
       PROVE  place[i] \in 0 .. Len(mem') /\ (i \in S => place[i] # 0) /\ (place[i] # 0 => mem'[place[i]].blob = i)
  <2>1. CASE i \in S
    <3>1. PICK k \in 1 .. Len(fresh) : fresh[k] = i /\ place[i] = Len(mem) + k
      BY <1>1, <2>1, PlacedIs
    <3>2. mem'[place[i]] = entries[k] /\ entries[k].blob = i
      BY <1>4, <1>9, <3>1
    <3>3. QED
      BY <1>3, <1>9, <3>1, <3>2
  <2>2. CASE i \notin S
    <3>1. place[i] = globals[i]
      BY <1>1, <2>2, PlacedIs
    <3>2. QED
      BY <1>11, <2>2, <3>1 DEF Remembers
  <2>3. QED
    BY <2>1, <2>2
<1>13. Remembers(globals', mem')
  <2>1. ASSUME NEW i \in Index PROVE globals'[i] \in 0 .. Len(mem') /\ (globals'[i] # 0 => mem'[globals'[i]].blob = i)
    <3>1. globals'[i] = place[i] \/ globals'[i] = globals[i]
      BY <1>5
    <3>2. globals[i] \in 0 .. Len(mem') /\ (globals[i] # 0 => mem'[globals[i]].blob = i)
      BY <1>11 DEF Remembers
    <3>3. QED
      BY <1>12, <3>1, <3>2
  <2>2. globals' \in [Index -> 0 .. Len(mem')]
    BY <1>5, <2>1
  <2>3. QED
    BY <2>1, <2>2 DEF Remembers
<1>14. ASSUME NEW k \in 1 .. Len(fresh) PROVE entries[k].blob \in Index /\ EntryRestored(entries[k], mem')
  <2>1. PICK i \in S : i = fresh[k]
    BY <1>3
  <2>2. entries[k].blob = i /\ entries[k].img = Filled(space[i], place)
    BY <1>4, <2>1
  <2>3. PICK b : b = space[i]
    OBVIOUS
  <2>4. /\ BlobShape(b) /\ (isGlobalBlob(b) => Len(b.regions) = 0)
        /\ \A m \in 1 .. Len(b.regions) : b.regions[m].blob \in Index
        /\ Range(b.regions) = {b.regions[m] : m \in 1 .. Len(b.regions)}
    <3>1. i \in Index
      OBVIOUS
    <3>2. QED
      BY <1>0, <2>3, <3>1, SpaceShape, Zenon
  <2>5. \A c \in 1 .. Size(b) : CellRight(b, place, Filled(b, place), c)
    BY <2>4, FilledRight
  <2>6. ASSUME NEW m \in 1 .. Len(b.regions)
        PROVE  place[b.regions[m].blob] \in 1 .. Len(mem') /\ mem'[place[b.regions[m].blob]].blob = b.regions[m].blob
    <3>1. PICK j \in Index : j = b.regions[m].blob
      BY <2>4
    <3>2. j \in S \/ globals[j] # 0
      BY <2>3, <3>1
    <3>3. place[j] # 0
      <4>1. CASE j \in S
        BY <1>12, <4>1
      <4>2. CASE j \notin S
        <5>1. place[j] = globals[j]
          BY <1>1, <4>2, PlacedIs
        <5>2. QED
          BY <3>2, <4>2, <5>1
      <4>3. QED
        BY <4>1, <4>2
    <3>4. place[j] \in 0 .. Len(mem') /\ mem'[place[j]].blob = j
      BY <1>12, <3>3
    <3>5. QED
      BY <1>10, <3>1, <3>3, <3>4
  <2>7. \A c \in 1 .. Size(b) : CellRestored(b, Filled(b, place), c, mem')
    BY <2>4, <2>5, <2>6, CellInMemory
  <2>8. QED
    BY <2>2, <2>3, <2>7 DEF EntryRestored
<1>15. ASSUME NEW a \in 1 .. Len(mem') PROVE mem'[a].blob \in Index /\ EntryRestored(mem'[a], mem')
  <2>1. CASE a \in 1 .. Len(mem)
    <3>1. mem[a].blob \in Index /\ EntryRestored(mem[a], mem)
      BY <1>0, <2>1 DEF MemoryRight
    <3>2. EntryRestored(mem[a], mem')
      BY <1>9, <1>10, <3>1, EntryStays
    <3>3. QED
      BY <1>9, <2>1, <3>1, <3>2
  <2>2. CASE a \notin 1 .. Len(mem)
    <3>1. a - Len(mem) \in 1 .. Len(fresh) /\ Len(mem) + (a - Len(mem)) = a
      BY <1>3, <1>9, <2>2
    <3>2. PICK k \in 1 .. Len(fresh) : a = Len(mem) + k
      BY <3>1
    <3>3. mem'[a] = entries[k]
      BY <1>9, <3>2
    <3>4. QED
      BY <1>14, <3>3
  <2>3. QED
    BY <2>1, <2>2
<1>16. MemoryRight(mem')
  BY <1>9, <1>15 DEF MemoryRight
<1>17. QED
  BY <1>11, <1>12, <1>13, <1>16

(* The invariant is about the space as it was when the space stays.          *)
LEMMA SameSpace ==
  ASSUME space' = space
  PROVE  /\ \A i : space'[i] = space[i] /\ Index' = Index
         /\ (MemoryRight(mem))' <=> MemoryRight(mem')
         /\ (Remembers(globals, mem))' <=> Remembers(globals', mem')
         /\ (Remembers(blobs, mem))' <=> Remembers(blobs', mem')
BY DEF Index, MemoryRight, Remembers, EntryRestored

(* A memref lowered, refused or found in the cache.                          *)
LEMMA MemRefKept ==
  ASSUME MemInv, NEW ref \in Index, getOrMaterialize(ref)
  PROVE  MemInv'
<1>0. space' = space /\ space \in Spaces /\ MemoryRight(mem) /\ Remembers(globals, mem) /\ Remembers(blobs, mem)
  BY DEF MemInv, getOrMaterialize
<1>1. PICK need : need = materializePtrRegionBlobs(ref)
  OBVIOUS
<1>2. PICK made : made = {i \in need : isGlobalBlob(space[i]) /\ globals[i] # 0}
  OBVIOUS
<1>3. /\ need \subseteq Index
      /\ \A i \in need : \A m \in 1 .. Len(space[i].regions) : space[i].regions[m].blob \in need
  BY <1>0, <1>1, NeedClosed
<1>4. CASE UNCHANGED <<mem, globals, blobs, refused>>
  BY <1>0, <1>4, SameSpace DEF MemInv
<1>5. ASSUME NEW S \in SUBSET {i \in need \ made : isGlobalBlob(space[i])}, Materialize(S), UNCHANGED blobs
      PROVE  MemInv'
  <2>1. S \in SUBSET Index
    BY <1>3
  <2>2. ASSUME NEW i \in S, NEW m \in 1 .. Len(space[i].regions) PROVE FALSE
    <3>1. i \in Index /\ isGlobalBlob(space[i])
      BY <2>1
    <3>2. Len(space[i].regions) = 0
      BY <1>0, <3>1, SpaceShape
    <3>3. QED
      BY <3>2
  <2>3. PICK place : place = Placed(SetToSeq(S))
    OBVIOUS
  <2>4. MemoryRight(mem') /\ Remembers(globals', mem') /\ Remembers(blobs, mem')
    BY <1>5, <2>1, <2>2, <2>3, MaterializeRight
  <2>5. QED
    BY <1>0, <1>5, <2>4, SameSpace DEF MemInv
<1>6. ASSUME NEW place, place = Placed(SetToSeq(need \ made)), Materialize(need \ made),
             blobs' = [i \in Index |-> IF blobs[i] = 0 /\ i \in need THEN place[i] ELSE blobs[i]]
      PROVE  MemInv'
  <2>1. PICK S \in SUBSET Index : S = need \ made
    BY <1>3
  <2>2. ASSUME NEW i \in S, NEW m \in 1 .. Len(space[i].regions)
        PROVE  space[i].regions[m].blob \in S \/ globals[space[i].regions[m].blob] # 0
    <3>1. space[i].regions[m].blob \in need
      BY <1>3, <2>1
    <3>2. QED
      BY <1>2, <2>1, <3>1
  <2>3. /\ MemoryRight(mem') /\ Remembers(globals', mem') /\ Remembers(blobs, mem')
        /\ \A i \in Index : place[i] \in 0 .. Len(mem') /\ (place[i] # 0 => mem'[place[i]].blob = i)
    BY <1>6, <2>1, <2>2, MaterializeRight
  <2>4. ASSUME NEW i \in Index PROVE blobs'[i] \in 0 .. Len(mem') /\ (blobs'[i] # 0 => mem'[blobs'[i]].blob = i)
    <3>1. blobs'[i] = place[i] \/ blobs'[i] = blobs[i]
      BY <1>6
    <3>2. blobs[i] \in 0 .. Len(mem') /\ (blobs[i] # 0 => mem'[blobs[i]].blob = i)
      BY <2>3 DEF Remembers
    <3>3. QED
      BY <2>3, <3>1, <3>2
  <2>5. blobs' \in [Index -> 0 .. Len(mem')]
    BY <1>6, <2>4
  <2>6. Remembers(blobs', mem')
    BY <2>4, <2>5 DEF Remembers
  <2>7. QED
    BY <1>0, <2>3, <2>6, SameSpace DEF MemInv
<1>7. QED
  BY <1>1, <1>2, <1>4, <1>5, <1>6 DEF getOrMaterialize

LEMMA StepMemory == MemInv /\ [MemNext]_memVars => MemInv'
<1> SUFFICES ASSUME MemInv, [MemNext]_memVars PROVE MemInv'
  OBVIOUS
<1>1. CASE UNCHANGED memVars
  BY <1>1, SameSpace DEF MemInv, memVars
<1>2. ASSUME NEW ref \in Index, convertMemRef(ref) PROVE MemInv'
  BY <1>2, MemRefKept DEF convertMemRef
<1>3. CASE NewScope
  <2>1. /\ UNCHANGED <<space, mem, globals>> /\ blobs' = [i \in Index |-> 0]
    BY <1>3 DEF NewScope
  <2>2. Len(mem) \in Nat
    BY DEF MemInv, MemoryRight
  <2>3. Remembers(blobs', mem')
    BY <2>1, <2>2 DEF Remembers
  <2>4. QED
    BY <2>1, <2>3, SameSpace DEF MemInv
<1>4. QED
  BY <1>1, <1>2, <1>3 DEF MemNext

(* Whatever spaces the constants of a module refer to, for every SIMD width  *)
(* and pointer size, the memory that the generated code builds is what the   *)
(* interpreter had (getOrMaterialize).  The invariant adds that every place  *)
(* remembered for a blob is an entry that exists, which the fill of a later  *)
(* blob relies on; a fill is right because the run that is held back always  *)
(* ends where the loop stands and no pointer region is inside it (FillInv).  *)
THEOREM BlobsRestoredHolds == MemSpec => []BlobsRestored
<1>1. MemInit => MemInv
  <2> SUFFICES ASSUME MemInit PROVE MemInv
    OBVIOUS
  <2>1. space \in Spaces /\ mem = <<>> /\ globals = [i \in Index |-> 0] /\ blobs = [i \in Index |-> 0]
    BY DEF MemInit
  <2>2. Len(mem) = 0 /\ mem \in Seq({})
    BY <2>1
  <2>3. MemoryRight(mem)
    BY <2>2 DEF MemoryRight
  <2>4. Remembers(globals, mem) /\ Remembers(blobs, mem)
    BY <2>1, <2>2 DEF Remembers
  <2>5. QED
    BY <2>1, <2>3, <2>4 DEF MemInv
<1>2. MemInv => BlobsRestored
  BY DEF MemInv, MemoryRight, EntryRestored, CellRestored, Remembers, BlobsRestored
<1>3. QED
  BY <1>1, <1>2, StepMemory, PTL DEF MemSpec

(* ---------------------------------------------------------------------- *)
(* CallLowering: one argument                                              *)

(* How a type may be classified: as it is, in registers that are as large as *)
(* it, or in memory.                                                         *)
InRegisters(ci, t) ==
  \/ \E n \in {1, 2, 4, 8} : StoreBytesOf(t) = n /\ ci = CoercionInfo("Integer", IntTy(8 * n), NoTy, FALSE, FALSE, FALSE)
  \/ StoreBytesOf(t) = 8 /\ ci = CoercionInfo("SSE", VecTy(2, FloatTy(32)), NoTy, FALSE, FALSE, FALSE)
  \/ StoreBytesOf(t) = 16 /\ ci = CoercionInfo("IntegerPair", IntTy(64), IntTy(64), FALSE, FALSE, FALSE)
ArgClass(ci, t) == ci = Identity \/ (\E byval \in BOOLEAN : ci = indirectArgument(byval)) \/ InRegisters(ci, t)
RetClass(ci, t) == ci = Identity \/ ci = sretReturn \/ InRegisters(ci, t)

(* A struct of 1, 2, 4 or 8 bytes fills the integer it goes in.             *)
LEMMA SmallStruct ==
  ASSUME NEW t, NEW n \in {1, 2, 4, 8}, n = StoreBytesOf(t)
  PROVE  InRegisters(classifySmallIntegerStruct(n), t)
<1>1. getIntegerTypeForSize(n) = IntTy(8 * n)
  BY DEF getIntegerTypeForSize
<1>2. QED
  BY <1>1 DEF InRegisters, classifySmallIntegerStruct

(* Every ABI gives an argument one of the classes.                           *)
LEMMA ArgumentClass ==
  ASSUME NEW abi, NEW t
  PROVE  ArgClass(classifyArgumentType(abi, t), t)
<1>1. PICK n : n = StoreBytesOf(t)
  OBVIOUS
<1>2. n \in {1, 2, 4, 8} => InRegisters(classifySmallIntegerStruct(n), t)
  BY <1>1, SmallStruct
<1>3. ArgClass(Identity, t) /\ \A byval \in BOOLEAN : ArgClass(indirectArgument(byval), t)
  BY DEF ArgClass
<1>4. CASE abi = "default"
  BY <1>3, <1>4 DEF classifyArgumentType
<1>5. CASE abi = "win64"
  <2>1. classifyArgumentType(abi, t) \in {Identity, indirectArgument(FALSE)}
        \/ (n \in {1, 2, 4, 8} /\ classifyArgumentType(abi, t) = classifySmallIntegerStruct(n))
    BY <1>1, <1>5 DEF classifyArgumentType, Win64Argument, classifyAggregate, getStructSize
  <2>2. QED
    BY <1>2, <1>3, <2>1 DEF ArgClass
<1>6. CASE abi # "default" /\ abi # "win64"
  <2>1. PICK byval \in BOOLEAN : byval = (abi = "sysv")
    OBVIOUS
  <2>2. classifyArgumentType(abi, t) = RegisterPair(t, FALSE, byval)
    BY <1>6, <2>1 DEF classifyArgumentType
  <2>3. \/ RegisterPair(t, FALSE, byval) \in {Identity, indirectArgument(byval)}
        \/ n \in {1, 2, 4, 8} /\ RegisterPair(t, FALSE, byval) = classifySmallIntegerStruct(n)
        \/ n = 8 /\ RegisterPair(t, FALSE, byval) = CoercionInfo("SSE", VecTy(2, FloatTy(32)), NoTy, FALSE, FALSE, FALSE)
        \/ n = 16 /\ RegisterPair(t, FALSE, byval) = CoercionInfo("IntegerPair", IntTy(64), IntTy(64), FALSE, FALSE, FALSE)
    BY <1>1 DEF RegisterPair, getStructSize
  <2>4. QED
    BY <1>1, <1>2, <1>3, <2>2, <2>3 DEF ArgClass, InRegisters
<1>7. QED
  BY <1>4, <1>5, <1>6

(* The same for a result.                                                    *)
LEMMA ReturnClass ==
  ASSUME NEW abi, NEW t
  PROVE  RetClass(classifyReturnType(abi, t), t)
<1>1. PICK n : n = StoreBytesOf(t)
  OBVIOUS
<1>2. n \in {1, 2, 4, 8} => InRegisters(classifySmallIntegerStruct(n), t)
  BY <1>1, SmallStruct
<1>3. CASE abi = "default"
  BY <1>3 DEF classifyReturnType, RetClass
<1>4. CASE abi = "win64"
  <2>1. classifyReturnType(abi, t) \in {Identity, sretReturn}
        \/ (n \in {1, 2, 4, 8} /\ classifyReturnType(abi, t) = classifySmallIntegerStruct(n))
    BY <1>1, <1>4 DEF classifyReturnType, Win64Return, classifyAggregate, getStructSize
  <2>2. QED
    BY <1>2, <2>1 DEF RetClass
<1>5. CASE abi # "default" /\ abi # "win64"
  <2>1. classifyReturnType(abi, t) = RegisterPair(t, TRUE, FALSE)
    BY <1>5 DEF classifyReturnType
  <2>2. \/ RegisterPair(t, TRUE, FALSE) \in {Identity, sretReturn}
        \/ n \in {1, 2, 4, 8} /\ RegisterPair(t, TRUE, FALSE) = classifySmallIntegerStruct(n)
        \/ n = 8 /\ RegisterPair(t, TRUE, FALSE) = CoercionInfo("SSE", VecTy(2, FloatTy(32)), NoTy, FALSE, FALSE, FALSE)
        \/ n = 16 /\ RegisterPair(t, TRUE, FALSE) = CoercionInfo("IntegerPair", IntTy(64), IntTy(64), FALSE, FALSE, FALSE)
    BY <1>1 DEF RegisterPair, getStructSize
  <2>3. QED
    BY <1>1, <1>2, <2>1, <2>2 DEF RetClass, InRegisters
<1>6. QED
  BY <1>3, <1>4, <1>5

(* What the classes say.                                                     *)
LEMMA MemoryClasses ==
  /\ isIdentity(Identity) /\ ~isTwoRegister(Identity) /\ ~Identity.useSRet /\ Identity.t1 = NoTy
  /\ ~isIdentity(sretReturn) /\ ~isTwoRegister(sretReturn) /\ sretReturn.useSRet /\ sretReturn.t1 = NoTy
  /\ \A byval \in BOOLEAN :
       /\ ~isIdentity(indirectArgument(byval)) /\ ~isTwoRegister(indirectArgument(byval))
       /\ indirectArgument(byval).useIndirect /\ indirectArgument(byval).t1 = NoTy
BY DEF isIdentity, isTwoRegister, Identity, sretReturn, indirectArgument, CoercionInfo

LEMMA RegisterClasses ==
  ASSUME NEW ci, NEW t, InRegisters(ci, t)
  PROVE  /\ ~isIdentity(ci) /\ ~ci.useIndirect /\ ~ci.useSRet /\ ci.t1 # NoTy
         /\ isTwoRegister(ci) => PairTy(ci) = RegisterPairTy
         /\ StoreBytesOf(CoercedType(ci, t)) = StoreBytesOf(t)
<1>0. \A w : IntTy(w) # NoTy /\ VecTy(2, FloatTy(32)) # NoTy
  BY DEF IntTy, VecTy, NoTy, Ty
<1>1. ASSUME NEW n \in {1, 2, 4, 8}, StoreBytesOf(t) = n, ci = CoercionInfo("Integer", IntTy(8 * n), NoTy, FALSE, FALSE, FALSE)
      PROVE  /\ ~isIdentity(ci) /\ ~ci.useIndirect /\ ~ci.useSRet /\ ci.t1 = IntTy(8 * n) /\ ~isTwoRegister(ci)
             /\ StoreBytesOf(IntTy(8 * n)) = StoreBytesOf(t)
  BY <1>1, LayoutAssumption DEF isIdentity, isTwoRegister, CoercionInfo
<1>2. ASSUME StoreBytesOf(t) = 8, ci = CoercionInfo("SSE", VecTy(2, FloatTy(32)), NoTy, FALSE, FALSE, FALSE)
      PROVE  /\ ~isIdentity(ci) /\ ~ci.useIndirect /\ ~ci.useSRet /\ ci.t1 = VecTy(2, FloatTy(32)) /\ ~isTwoRegister(ci)
             /\ StoreBytesOf(VecTy(2, FloatTy(32))) = StoreBytesOf(t)
  BY <1>2, LayoutAssumption DEF isIdentity, isTwoRegister, CoercionInfo
<1>3. ASSUME StoreBytesOf(t) = 16, ci = CoercionInfo("IntegerPair", IntTy(64), IntTy(64), FALSE, FALSE, FALSE)
      PROVE  /\ ~isIdentity(ci) /\ ~ci.useIndirect /\ ~ci.useSRet /\ ci.t1 = IntTy(64) /\ ci.t2 = IntTy(64) /\ isTwoRegister(ci)
             /\ StoreBytesOf(RegisterPairTy) = StoreBytesOf(t)
  BY <1>3, LayoutAssumption DEF isIdentity, isTwoRegister, CoercionInfo
<1>4. QED
  BY <1>0, <1>1, <1>2, <1>3 DEF InRegisters, CoercedType, PairTy, RegisterPairTy

(* The slot of a value holds the register it comes in.                       *)
LEMMA ClassFits ==
  ASSUME NEW t \in CallTypes, NEW ci, ArgClass(ci, t) \/ RetClass(ci, t)
  PROVE  FitsSlot(CoercedType(ci, t), t)
<1>1. StoreBytesOf(t) <= AllocBytesOf(t)
  BY LayoutAssumption
<1>2. CASE InRegisters(ci, t)
  BY <1>1, <1>2, RegisterClasses DEF FitsSlot
<1>3. CASE ci = Identity \/ ci = sretReturn \/ \E byval \in BOOLEAN : ci = indirectArgument(byval)
  <2>1. ~isTwoRegister(ci) /\ ci.t1 = NoTy
    BY <1>3, MemoryClasses
  <2>2. QED
    BY <1>1, <2>1 DEF FitsSlot, CoercedType
<1>4. QED
  BY <1>2, <1>3 DEF ArgClass, RetClass

(* All bits of a value are inside its store size.                            *)
LEMMA BitsInside ==
  ASSUME NEW t \in CallTypes, NEW tag, NEW u, StoreBytesOf(u) = StoreBytesOf(t)
  PROVE  /\ ThroughAlloca(Bits(t, tag), u) = Bits(t, tag)
         /\ \A b \in Bits(t, tag) : b = <<b[1], b[2], b[3]>> /\ b[1] \in Nat /\ b[1] < 8 * StoreBytesOf(t)
<1>1. PICK n \in Nat : n = StoreBytesOf(t)
  BY LayoutAssumption
<1>2. \A b \in Bits(t, tag) : b = <<b[1], b[2], b[3]>> /\ b[1] \in Nat /\ b[1] < 8 * n
  BY <1>1 DEF Bits
<1>3. QED
  BY <1>1, <1>2 DEF ThroughAlloca

(* A value cut in two and put together again.                                *)
LEMMA CutAndJoined ==
  ASSUME NEW img, NEW cut \in Nat, \A b \in img : b = <<b[1], b[2], b[3]>> /\ b[1] \in Nat
  PROVE  {b \in img : b[1] < cut} \cup Shift({<<b[1] - cut, b[2], b[3]>> : b \in {d \in img : d[1] >= cut}}, cut) = img
<1>1. PICK high : high = {<<b[1] - cut, b[2], b[3]>> : b \in {d \in img : d[1] >= cut}}
  OBVIOUS
<1>2. ASSUME NEW x \in Shift(high, cut) PROVE x \in img
  <2>1. PICK h \in high : x = <<h[1] + cut, h[2], h[3]>>
    BY DEF Shift
  <2>2. PICK b \in img : b[1] >= cut /\ h = <<b[1] - cut, b[2], b[3]>>
    BY <1>1
  <2>3. h[1] = b[1] - cut /\ h[2] = b[2] /\ h[3] = b[3] /\ b[1] \in Nat
    BY <2>2
  <2>4. h[1] + cut = b[1]
    BY <2>3
  <2>5. QED
    BY <2>1, <2>3, <2>4
<1>3. ASSUME NEW b \in img PROVE b[1] < cut \/ b \in Shift(high, cut)
  <2>1. CASE b[1] >= cut
    <3>1. PICK h : h = <<b[1] - cut, b[2], b[3]>>
      OBVIOUS
    <3>2. h \in high /\ h[1] = b[1] - cut /\ h[2] = b[2] /\ h[3] = b[3] /\ b[1] \in Nat
      BY <1>1, <2>1, <3>1
    <3>3. h[1] + cut = b[1]
      BY <3>2
    <3>4. b = <<h[1] + cut, h[2], h[3]>>
      BY <3>2, <3>3
    <3>5. QED
      BY <3>2, <3>4 DEF Shift
  <2>2. b[1] \in Nat
    OBVIOUS
  <2>3. QED
    BY <2>1, <2>2
<1>4. QED
  BY <1>1, <1>2, <1>3


(* A loop whose steps stay in a set S: the states it goes through.           *)
StaysIn(n, S, z, R) == z \in S /\ R \in [1 .. n -> [S -> S]]
GoesThrough(n, S, z, R) == \E F \in [0 .. n -> S] : F[0] = z /\ \A i \in 1 .. n : F[i] = R[i][F[i - 1]]
LEMMA StepsIterate ==
  ASSUME NEW n \in Nat, NEW S, NEW z, NEW R, StaysIn(n, S, z, R)
  PROVE  GoesThrough(n, S, z, R)
<1> z \in S /\ R \in [1 .. n -> [S -> S]]
  BY DEF StaysIn
<1> DEFINE T == {m \in Nat : m <= n => \E F \in [0 .. m -> S] : F[0] = z /\ \A i \in 1 .. m : F[i] = R[i][F[i - 1]]}
<1> HIDE DEF T
<1>1. 0 \in T
  <2>1. PICK G : G = [i \in 0 .. 0 |-> z]
    OBVIOUS
  <2>2. G \in [0 .. 0 -> S] /\ G[0] = z /\ \A i \in 1 .. 0 : G[i] = R[i][G[i - 1]]
    BY <2>1
  <2>3. QED
    BY <2>2 DEF T
<1>2. ASSUME NEW m \in T PROVE m + 1 \in T
  <2> m \in Nat
    BY <1>2 DEF T
  <2>0. SUFFICES ASSUME m + 1 <= n
                 PROVE  \E F \in [0 .. (m + 1) -> S] : F[0] = z /\ \A i \in 1 .. (m + 1) : F[i] = R[i][F[i - 1]]
    <3>1. m + 1 \in Nat
      OBVIOUS
    <3>2. QED
      BY <3>1, Zenon DEF T
  <2>1. PICK F \in [0 .. m -> S] : F[0] = z /\ \A i \in 1 .. m : F[i] = R[i][F[i - 1]]
    BY <1>2, <2>0 DEF T
  <2>2. PICK x : x = R[m + 1][F[m]]
    OBVIOUS
  <2>3. x \in S
    BY <2>0, <2>1, <2>2
  <2>4. PICK G : G = [i \in 0 .. (m + 1) |-> IF i = m + 1 THEN x ELSE F[i]]
    OBVIOUS
  <2>5. G \in [0 .. (m + 1) -> S] /\ G[0] = z
    BY <2>1, <2>3, <2>4
  <2>6. ASSUME NEW i \in 1 .. (m + 1) PROVE G[i] = R[i][G[i - 1]]
    <3>1. CASE i = m + 1
      <4>1. G[i - 1] = F[m] /\ G[i] = x
        BY <2>4, <3>1
      <4>2. QED
        BY <2>2, <3>1, <4>1
    <3>2. CASE i \in 1 .. m
      <4>1. G[i] = F[i] /\ G[i - 1] = F[i - 1]
        BY <2>4, <3>2
      <4>2. QED
        BY <2>1, <3>2, <4>1
    <3>3. i = m + 1 \/ i \in 1 .. m
      OBVIOUS
    <3>4. QED
      BY <3>1, <3>2, <3>3
  <2>7. QED
    BY <2>5, <2>6
<1>3. T = Nat
  <2>1. T \in SUBSET Nat
    BY DEF T
  <2>2. QED
    BY <1>1, <1>2, <2>1, Inductive
<1>4. n \in T /\ n <= n
  BY <1>3
<1>5. QED
  BY <1>4, Zenon DEF T, GoesThrough

(* One argument: what the call site passes for it has the types of the       *)
(* definition's parameters, and the value is put together from it again.     *)
Registers(ci) == IF ~isIdentity(ci) /\ ~ci.useIndirect /\ isTwoRegister(ci) THEN 2 ELSE 1
Arrives(ci, t, tag, s) ==
  /\ DOMAIN s = 1 .. Registers(ci) /\ \E U : s \in [1 .. Registers(ci) -> U]
  /\ \E V : NewParamTypes(ci, t) \in [1 .. Registers(ci) -> V]
  /\ \A k \in 1 .. Registers(ci) : s[k].t = NewParamTypes(ci, t)[k]
  /\ isIdentity(ci) => NewParamTypes(ci, t) = <<t>>
  /\ ~isIdentity(ci) /\ ci.useIndirect => s[1].t = PtrTy /\ s[1].to = Bits(t, tag)
  /\ \A ps : \A p \in Nat : (\A k \in 1 .. Registers(ci) : ps[p + k - 1] = s[k]) => reconstructCABIArgument(ci, t, ps, p) = Bits(t, tag)
LEMMA OneArgument ==
  ASSUME NEW t \in CallTypes, NEW tag, NEW ci, ArgClass(ci, t), NEW s, s = Passed(ci, t, Bits(t, tag))
  PROVE  Arrives(ci, t, tag, s)
<1>0. PICK img : img = Bits(t, tag)
  OBVIOUS
<1> DEFINE Whole(ps, p) == \A k \in 1 .. Registers(ci) : ps[p + k - 1] = s[k]
<1> HIDE DEF Whole
<1>6. ASSUME Registers(ci) = 1, NEW ps, NEW p \in Nat, Whole(ps, p) PROVE ps[p] = s[1]
  <2>1. 1 \in 1 .. Registers(ci) /\ p + 1 - 1 = p
    BY <1>6
  <2>2. QED
    BY <1>6, <2>1 DEF Whole
<1>7. ASSUME NEW a, NEW b, s = <<a>>, NewParamTypes(ci, t) = <<b>>, a.t = b, Registers(ci) = 1
      PROVE  /\ DOMAIN s = 1 .. Registers(ci) /\ \E U : s \in [1 .. Registers(ci) -> U]
             /\ \E V : NewParamTypes(ci, t) \in [1 .. Registers(ci) -> V]
             /\ \A k \in 1 .. Registers(ci) : s[k].t = NewParamTypes(ci, t)[k]
  <2>1. s \in [1 .. 1 -> {a}] /\ <<b>> \in [1 .. 1 -> {b}] /\ DOMAIN s = 1 .. 1
    BY <1>7
  <2>2. \A k \in 1 .. 1 : s[k] = a /\ <<b>>[k] = b
    BY <1>7
  <2>3. QED
    BY <1>7, <2>1, <2>2
<1>1. CASE ci = Identity
  <2>1. isIdentity(ci) /\ Registers(ci) = 1
    BY <1>1, MemoryClasses DEF Registers
  <2>2. s = <<Param(t, img, {})>> /\ NewParamTypes(ci, t) = <<t>>
    BY <1>0, <2>1 DEF Passed, NewParamTypes
  <2>3. s[1].t = t /\ s[1].img = img /\ s = <<s[1]>>
    BY <2>2 DEF Param
  <2>4. \A ps : \A p \in Nat : ps[p] = s[1] => reconstructCABIArgument(ci, t, ps, p) = img
    BY <2>1, <2>3 DEF reconstructCABIArgument
  <2>5. \A ps : \A p \in Nat : Whole(ps, p) => reconstructCABIArgument(ci, t, ps, p) = img
    BY <1>6, <2>1, <2>4
  <2>6. QED
    BY <1>0, <1>7, <2>1, <2>2, <2>3, <2>5 DEF Whole, Arrives
<1>2. CASE \E byval \in BOOLEAN : ci = indirectArgument(byval)
  <2>1. ~isIdentity(ci) /\ ci.useIndirect /\ Registers(ci) = 1
    BY <1>2, MemoryClasses DEF Registers
  <2>2. s = <<Param(PtrTy, {}, img)>> /\ NewParamTypes(ci, t) = <<PtrTy>>
    BY <1>0, <2>1 DEF Passed, NewParamTypes
  <2>3. s[1].t = PtrTy /\ s[1].to = img /\ s = <<s[1]>>
    BY <2>2 DEF Param
  <2>4. \A ps : \A p \in Nat : ps[p] = s[1] => reconstructCABIArgument(ci, t, ps, p) = img
    BY <2>1, <2>3 DEF reconstructCABIArgument
  <2>5. \A ps : \A p \in Nat : Whole(ps, p) => reconstructCABIArgument(ci, t, ps, p) = img
    BY <1>6, <2>1, <2>4
  <2>6. QED
    BY <1>0, <1>7, <2>1, <2>2, <2>3, <2>5 DEF Whole, Arrives
<1>3. CASE InRegisters(ci, t) /\ ~isTwoRegister(ci)
  <2>1. ~isIdentity(ci) /\ ~ci.useIndirect /\ ~isTwoRegister(ci) /\ Registers(ci) = 1
    BY <1>3, RegisterClasses DEF Registers
  <2>2. s = <<Param(ci.t1, img, {})>> /\ NewParamTypes(ci, t) = <<ci.t1>>
    BY <1>0, <2>1 DEF Passed, NewParamTypes
  <2>3. s[1].t = ci.t1 /\ s[1].img = img /\ s = <<s[1]>>
    BY <2>2 DEF Param
  <2>4. ThroughAlloca(img, t) = img
    BY <1>0, BitsInside
  <2>5. \A ps : \A p \in Nat : ps[p] = s[1] => reconstructCABIArgument(ci, t, ps, p) = img
    BY <2>1, <2>3, <2>4 DEF reconstructCABIArgument
  <2>6. \A ps : \A p \in Nat : Whole(ps, p) => reconstructCABIArgument(ci, t, ps, p) = img
    BY <1>6, <2>1, <2>5
  <2>7. QED
    BY <1>0, <1>7, <2>1, <2>2, <2>3, <2>6 DEF Whole, Arrives
<1>4. CASE InRegisters(ci, t) /\ isTwoRegister(ci)
  <2>1. ~isIdentity(ci) /\ ~ci.useIndirect /\ isTwoRegister(ci) /\ Registers(ci) = 2 /\ PairTy(ci) = RegisterPairTy
    BY <1>4, RegisterClasses DEF Registers
  <2>2. PICK cut \in Nat : cut = FieldBit(PairTy(ci), 2)
    BY <2>1, LayoutAssumption
  <2>3. PICK low, high : low = {b \in img : b[1] < cut} /\ high = {<<b[1] - cut, b[2], b[3]>> : b \in {d \in img : d[1] >= cut}}
    OBVIOUS
  <2>4. s = <<Param(ci.t1, low, {}), Param(ci.t2, high, {})>> /\ NewParamTypes(ci, t) = <<ci.t1, ci.t2>>
    BY <1>0, <2>1, <2>2, <2>3 DEF Passed, NewParamTypes
  <2>5. /\ s[1].t = ci.t1 /\ s[1].img = low /\ s[2].t = ci.t2 /\ s[2].img = high
        /\ s \in [1 .. 2 -> {s[1], s[2]}] /\ <<ci.t1, ci.t2>> \in [1 .. 2 -> {ci.t1, ci.t2}]
    BY <2>4 DEF Param
  <2>6. low \cup Shift(high, cut) = img /\ ThroughAlloca(img, t) = img
    <3>1. \A b \in img : b = <<b[1], b[2], b[3]>> /\ b[1] \in Nat
      BY <1>0, BitsInside
    <3>2. QED
      BY <1>0, <2>3, <3>1, BitsInside, CutAndJoined
  <2>7. ASSUME NEW ps, NEW p \in Nat, ps[p] = s[1], ps[p + 1] = s[2] PROVE reconstructCABIArgument(ci, t, ps, p) = img
    <3>1. reconstructCABIArgument(ci, t, ps, p) = ThroughAlloca(ps[p].img \cup Shift(ps[p + 1].img, cut), t)
      BY <2>1, <2>2 DEF reconstructCABIArgument
    <3>2. QED
      BY <2>5, <2>6, <2>7, <3>1
  <2>8. \A k \in 1 .. 2 : k = 1 \/ k = 2
    OBVIOUS
  <2>9. \A k \in 1 .. 2 : s[k].t = <<ci.t1, ci.t2>>[k]
    BY <2>5, <2>8
  <2>10. ASSUME NEW ps, NEW p \in Nat, \A k \in 1 .. 2 : ps[p + k - 1] = s[k] PROVE reconstructCABIArgument(ci, t, ps, p) = img
    <3>1. ps[p + 1 - 1] = s[1] /\ ps[p + 2 - 1] = s[2]
      BY <2>10
    <3>2. p + 1 - 1 = p /\ p + 2 - 1 = p + 1
      OBVIOUS
    <3>3. QED
      BY <2>7, <3>1, <3>2
  <2>11. QED
    BY <1>0, <2>1, <2>4, <2>5, <2>9, <2>10 DEF Arrives
<1>5. QED
  BY <1>1, <1>2, <1>3, <1>4 DEF ArgClass

(* The signature of a C ABI call: every argument has its class.              *)
LEMMA SignatureIs ==
  ASSUME NEW c \in Calls, NEW sig, sig = computeSignatureInfo(c), NEW n, n = Len(c.args)
  PROVE  /\ n \in Nat /\ Len(sig.args) = n
         /\ \A i \in 1 .. n : c.args[i] \in CallTypes /\ ArgClass(sig.args[i], c.args[i])
         /\ c.ret = NoTy => sig.ret = Identity
         /\ c.ret # NoTy => c.ret \in CallTypes /\ RetClass(sig.ret, c.ret)
<1>1. c.args \in Seq(CallTypes) /\ c.ret \in CallTypes \cup {NoTy}
  BY CallAssumption
<1>2. n \in Nat /\ \A i \in 1 .. n : c.args[i] \in CallTypes
  BY <1>1
<1>3. PICK abi : abi = createCABIInfo(c)
  OBVIOUS
<1>4. /\ sig.args = [i \in 1 .. n |-> classifyArgumentType(abi, c.args[i])]
      /\ sig.ret = IF c.ret = NoTy THEN Identity ELSE classifyReturnType(abi, c.ret)
  BY <1>3 DEF computeSignatureInfo
<1>5. Len(sig.args) = n /\ \A i \in 1 .. n : ArgClass(sig.args[i], c.args[i])
  <2>1. Len(sig.args) = n /\ \A i \in 1 .. n : sig.args[i] = classifyArgumentType(abi, c.args[i])
    BY <1>2, <1>4
  <2>2. QED
    BY <2>1, ArgumentClass
<1>6. c.ret # NoTy => RetClass(sig.ret, c.ret)
  BY <1>4, ReturnClass
<1>7. QED
  BY <1>1, <1>2, <1>4, <1>5, <1>6

(* The walks over the arguments: of the call site, of the definition and of  *)
(* the body that puts the arguments together again.                          *)
PassesOn(c, sig, n, P) ==
  /\ P[0] = IF sig.ret.useSRet THEN <<Param(PtrTy, {}, {})>> ELSE <<>>
  /\ P[n] = prepareCall(c, Given(c.args, 0))
  /\ \A i \in 1 .. n : P[i] = P[i - 1] \o Passed(sig.args[i], c.args[i], Bits(c.args[i], i))
LEMMA CallSiteWalk ==
  ASSUME NEW c \in Calls, NEW sig, sig = computeSignatureInfo(c), NEW n, n = Len(c.args)
  PROVE  \E U : \E P \in [0 .. n -> Seq(U)] : PassesOn(c, sig, n, P)
<1>1. n \in Nat /\ \A i \in 1 .. n : c.args[i] \in CallTypes /\ ArgClass(sig.args[i], c.args[i])
  BY SignatureIs
<1>2. PICK imgs : imgs = Given(c.args, 0)
  OBVIOUS
<1>3. \A i \in 1 .. n : imgs[i] = Bits(c.args[i], i)
  BY <1>1, <1>2 DEF Given
<1>4. PICK A : A = [i \in 1 .. n |-> Passed(sig.args[i], c.args[i], Bits(c.args[i], i))]
  OBVIOUS
<1>5. PICK z : z = IF sig.ret.useSRet THEN <<Param(PtrTy, {}, {})>> ELSE <<>>
  OBVIOUS
<1>6. PICK U : U = {Param(PtrTy, {}, {})} \cup UNION {{A[i][k] : k \in 1 .. 2} : i \in 1 .. n}
  OBVIOUS
<1>7. z \in Seq(U)
  <2>1. PICK x : x = Param(PtrTy, {}, {})
    OBVIOUS
  <2>2. x \in U /\ (z = <<x>> \/ z = <<>>)
    BY <1>5, <1>6, <2>1
  <2>3. <<x>> \in Seq(U) /\ <<>> \in Seq(U)
    BY <2>2
  <2>4. QED
    BY <2>2, <2>3
<1>8. ASSUME NEW i \in 1 .. n PROVE A[i] \in Seq(U)
  <2>1. PICK m : m = Registers(sig.args[i])
    OBVIOUS
  <2>0. c.args[i] \in CallTypes /\ ArgClass(sig.args[i], c.args[i]) /\ A[i] = Passed(sig.args[i], c.args[i], Bits(c.args[i], i))
    BY <1>1, <1>4
  <2>2. m \in {1, 2} /\ DOMAIN A[i] = 1 .. m /\ \E W : A[i] \in [1 .. m -> W]
    <3>1. m \in {1, 2}
      BY <2>1 DEF Registers
    <3>2. DOMAIN A[i] = 1 .. m /\ \E W : A[i] \in [1 .. m -> W]
      <4>1. Arrives(sig.args[i], c.args[i], i, A[i])
        BY <2>0, OneArgument
      <4>2. QED
        BY <2>1, <4>1 DEF Arrives
    <3>3. QED
      BY <3>1, <3>2
  <2>3. \A k \in 1 .. m : A[i][k] \in U
    BY <1>6, <2>2
  <2>4. A[i] \in [1 .. m -> U]
    BY <2>2, <2>3
  <2>5. QED
    BY <2>2, <2>4
<1>9. PICK R : R = [i \in 1 .. n |-> [x \in Seq(U) |-> x \o A[i]]]
  OBVIOUS
<1>10. R \in [1 .. n -> [Seq(U) -> Seq(U)]]
  <2>1. \A i \in 1 .. n : \A x \in Seq(U) : x \o A[i] \in Seq(U)
    BY <1>8, ConcatIs
  <2>2. QED
    BY <1>9, <2>1
<1>11. PICK P \in [0 .. n -> Seq(U)] : P[0] = z /\ \A i \in 1 .. n : P[i] = R[i][P[i - 1]]
  <2>1. PICK S : S = Seq(U)
    OBVIOUS
  <2>2. StaysIn(n, S, z, R)
    BY <1>7, <1>10, <2>1 DEF StaysIn
  <2>3. PICK P \in [0 .. n -> S] : P[0] = z /\ \A i \in 1 .. n : P[i] = R[i][P[i - 1]]
    <3>1. n \in Nat
      BY <1>1
    <3>2. QED
      BY <2>2, <3>1, StepsIterate DEF GoesThrough
  <2>4. QED
    BY <2>1, <2>3
<1>12. ASSUME NEW i \in 1 .. n PROVE P[i] = P[i - 1] \o A[i]
  <2>1. P[i - 1] \in Seq(U)
    BY <1>1, <1>11
  <2>2. QED
    BY <1>9, <1>11, <2>1
<1>13. \A i \in 1 .. n : AddPassed(c, sig, imgs, P[i - 1], i) = P[i]
  BY <1>3, <1>4, <1>12 DEF AddPassed
<1>14. P = [i \in 0 .. n |-> IF i = 0 THEN z ELSE AddPassed(c, sig, imgs, P[i - 1], i)]
  <2>1. ASSUME NEW i \in 0 .. n PROVE P[i] = IF i = 0 THEN z ELSE AddPassed(c, sig, imgs, P[i - 1], i)
    <3>1. i = 0 \/ i \in 1 .. n
      BY <1>1
    <3>2. QED
      BY <1>11, <1>13, <3>1
  <2>2. QED
    BY <1>11, <2>1
<1> DEFINE upto[i \in 0 .. n] == IF i = 0 THEN z ELSE AddPassed(c, sig, imgs, upto[i - 1], i)
<1>15. upto = [i \in 0 .. n |-> IF i = 0 THEN z ELSE AddPassed(c, sig, imgs, upto[i - 1], i)]
  BY <1>14
<1>16. prepareCall(c, imgs) = upto[n]
  BY <1>5 DEF prepareCall
<1> HIDE DEF upto
<1>17. \A i \in 0 .. n : upto[i] = P[i]
  <2> DEFINE T == {m \in Nat : m <= n => upto[m] = P[m]}
  <2>1. 0 \in T
    BY <1>1, <1>11, <1>15
  <2>2. ASSUME NEW m \in T PROVE m + 1 \in T
    <3>1. m \in Nat /\ m + 1 \in Nat /\ (m + 1 <= n => m + 1 \in 1 .. n /\ m + 1 # 0 /\ m + 1 \in 0 .. n /\ (m + 1) - 1 = m /\ m <= n)
      BY <1>1
    <3>2. ASSUME m + 1 <= n PROVE upto[m + 1] = P[m + 1]
      <4>1. upto[m] = P[m]
        BY <3>1, <3>2
      <4>2. upto[m + 1] = AddPassed(c, sig, imgs, upto[m], m + 1)
        BY <1>15, <3>1, <3>2
      <4>3. QED
        BY <1>13, <3>1, <3>2, <4>1, <4>2
    <3>3. QED
      BY <3>1, <3>2
  <2>3. T = Nat
    <3> HIDE DEF T
    <3>1. T \in SUBSET Nat
      BY DEF T
    <3>2. QED
      BY <2>1, <2>2, <3>1, Inductive
  <2>4. QED
    BY <1>1, <2>3
<1>18. P[n] = prepareCall(c, imgs)
  BY <1>1, <1>16, <1>17
<1>19. \A i \in 1 .. n : P[i] = P[i - 1] \o Passed(sig.args[i], c.args[i], Bits(c.args[i], i))
  BY <1>4, <1>12
<1>20. P[0] = IF sig.ret.useSRet THEN <<Param(PtrTy, {}, {})>> ELSE <<>>
  BY <1>5, <1>11
<1>21. P[n] = prepareCall(c, Given(c.args, 0))
  BY <1>2, <1>18
<1>22. PassesOn(c, sig, n, P)
  BY <1>19, <1>20, <1>21 DEF PassesOn
<1>23. QED
  BY <1>11, <1>22, Zenon

(* The body: the parameter each argument starts at.                          *)
LEMMA BodyWalk ==
  ASSUME NEW c \in Calls, NEW sig, sig = computeSignatureInfo(c), NEW n, n = Len(c.args)
  PROVE  \E X \in [0 .. n -> Nat] :
           /\ X[0] = IF sig.ret.useSRet THEN 2 ELSE 1
           /\ X = ParamIdx(sig)
           /\ \A i \in 1 .. n : X[i] = X[i - 1] + Registers(sig.args[i])
<1>1. n \in Nat /\ Len(sig.args) = n
  BY SignatureIs
<1>2. PICK w : w = [i \in 1 .. n |-> Registers(sig.args[i])]
  OBVIOUS
<1>3. w \in [1 .. n -> Nat]
  BY <1>2 DEF Registers
<1>4. PICK z : z = IF sig.ret.useSRet THEN 2 ELSE 1
  OBVIOUS
<1>5. PICK R : R = [i \in 1 .. n |-> [x \in Nat |-> x + w[i]]]
  OBVIOUS
<1>6. StaysIn(n, Nat, z, R)
  BY <1>3, <1>4, <1>5 DEF StaysIn
<1>7. PICK X \in [0 .. n -> Nat] : X[0] = z /\ \A i \in 1 .. n : X[i] = R[i][X[i - 1]]
  <2>1. GoesThrough(n, Nat, z, R)
    BY <1>1, <1>6, StepsIterate
  <2>2. QED
    BY <2>1 DEF GoesThrough
<1>8. ASSUME NEW i \in 1 .. n PROVE X[i] = X[i - 1] + w[i]
  <2>1. X[i - 1] \in Nat
    BY <1>1, <1>7
  <2>2. QED
    BY <1>5, <1>7, <2>1
<1>9. \A i \in 1 .. n : NextIdx(sig, X[i - 1], i) = X[i]
  BY <1>2, <1>8 DEF NextIdx, Registers
<1>10. X = [i \in 0 .. n |-> IF i = 0 THEN z ELSE NextIdx(sig, X[i - 1], i)]
  <2>1. ASSUME NEW i \in 0 .. n PROVE X[i] = IF i = 0 THEN z ELSE NextIdx(sig, X[i - 1], i)
    <3>1. i = 0 \/ i \in 1 .. n
      BY <1>1
    <3>2. QED
      BY <1>7, <1>9, <3>1
  <2>2. QED
    BY <1>7, <2>1
<1> DEFINE paramIdx[i \in 0 .. n] == IF i = 0 THEN z ELSE NextIdx(sig, paramIdx[i - 1], i)
<1>11. paramIdx = [i \in 0 .. n |-> IF i = 0 THEN z ELSE NextIdx(sig, paramIdx[i - 1], i)]
  BY <1>10
<1>12. ParamIdx(sig) = paramIdx
  BY <1>1, <1>4 DEF ParamIdx
<1> HIDE DEF paramIdx
<1>13. \A i \in 0 .. n : paramIdx[i] = X[i]
  <2> DEFINE T == {m \in Nat : m <= n => paramIdx[m] = X[m]}
  <2>1. 0 \in T
    BY <1>1, <1>7, <1>11
  <2>2. ASSUME NEW m \in T PROVE m + 1 \in T
    <3>1. m \in Nat /\ m + 1 \in Nat /\ (m + 1 <= n => m + 1 \in 1 .. n /\ m + 1 # 0 /\ m + 1 \in 0 .. n /\ (m + 1) - 1 = m /\ m <= n)
      BY <1>1
    <3>2. ASSUME m + 1 <= n PROVE paramIdx[m + 1] = X[m + 1]
      <4>1. paramIdx[m] = X[m]
        BY <3>1, <3>2
      <4>2. paramIdx[m + 1] = NextIdx(sig, paramIdx[m], m + 1)
        BY <1>11, <3>1, <3>2
      <4>3. QED
        BY <1>9, <3>1, <3>2, <4>1, <4>2
    <3>3. QED
      BY <3>1, <3>2
  <2>3. T = Nat
    <3> HIDE DEF T
    <3>1. T \in SUBSET Nat
      BY DEF T
    <3>2. QED
      BY <2>1, <2>2, <3>1, Inductive
  <2>4. QED
    BY <1>1, <2>3
<1>14. X = ParamIdx(sig)
  <2>1. paramIdx = [i \in 0 .. n |-> paramIdx[i]]
    BY <1>11
  <2>2. QED
    BY <1>7, <1>12, <1>13, <2>1
<1>15. \A i \in 1 .. n : X[i] = X[i - 1] + Registers(sig.args[i])
  BY <1>2, <1>8
<1>16. QED
  BY <1>4, <1>7, <1>14, <1>15

(* The byval attribute an argument adds.                                     *)
ByvalOf(sig, c, i, len) ==
  IF ~isIdentity(sig.args[i]) /\ sig.args[i].useIndirect /\ sig.args[i].useByval THEN {<<len + 1, c.args[i]>>} ELSE {}
DefinesParams(c, sig, n, L, B) ==
  /\ L[0] = IF sig.ret.useSRet THEN <<PtrTy>> ELSE <<>>
  /\ B[0] = {}
  /\ NewParams(c, sig).params = L[n] /\ NewParams(c, sig).byval = B[n]
  /\ \A i \in 1 .. n : /\ L[i] = L[i - 1] \o NewParamTypes(sig.args[i], c.args[i])
                       /\ B[i] = B[i - 1] \cup ByvalOf(sig, c, i, Len(L[i - 1]))
LEMMA DefinitionWalk ==
  ASSUME NEW c \in Calls, NEW sig, sig = computeSignatureInfo(c), NEW n, n = Len(c.args)
  PROVE  \E V : \E L \in [0 .. n -> Seq(V)] : \E B : DefinesParams(c, sig, n, L, B)
<1>1. n \in Nat /\ \A i \in 1 .. n : c.args[i] \in CallTypes /\ ArgClass(sig.args[i], c.args[i])
  BY SignatureIs
<1>2. PICK A : A = [i \in 1 .. n |-> NewParamTypes(sig.args[i], c.args[i])]
  OBVIOUS
<1>3. PICK z : z = IF sig.ret.useSRet THEN <<PtrTy>> ELSE <<>>
  OBVIOUS
<1>4. PICK V : V = {PtrTy} \cup UNION {{A[i][k] : k \in 1 .. 2} : i \in 1 .. n}
  OBVIOUS
<1>5. z \in Seq(V)
  <2>1. PICK x : x = PtrTy
    OBVIOUS
  <2>2. x \in V /\ (z = <<x>> \/ z = <<>>)
    BY <1>3, <1>4, <2>1
  <2>3. <<x>> \in Seq(V) /\ <<>> \in Seq(V)
    BY <2>2
  <2>4. QED
    BY <2>2, <2>3
<1>6. ASSUME NEW i \in 1 .. n PROVE A[i] \in Seq(V)
  <2>1. PICK m : m = Registers(sig.args[i])
    OBVIOUS
  <2>2. c.args[i] \in CallTypes /\ ArgClass(sig.args[i], c.args[i]) /\ A[i] = NewParamTypes(sig.args[i], c.args[i])
    BY <1>1, <1>2
  <2>3. m \in {1, 2}
    BY <2>1 DEF Registers
  <2>4. PICK s : s = Passed(sig.args[i], c.args[i], Bits(c.args[i], i))
    OBVIOUS
  <2>5. Arrives(sig.args[i], c.args[i], i, s)
    BY <2>2, <2>4, OneArgument
  <2>6. PICK W : A[i] \in [1 .. m -> W]
    BY <2>1, <2>2, <2>5 DEF Arrives
  <2>7. \A k \in 1 .. m : A[i][k] \in V
    BY <1>4, <2>3
  <2>8. A[i] \in [1 .. m -> V]
    BY <2>6, <2>7
  <2>9. QED
    BY <2>3, <2>8
<1> DEFINE Ar == Nat \X CallTypes
           S == [params : Seq(V), byval : SUBSET Ar]
<1>7. PICK y : y = [params |-> z, byval |-> {}]
  OBVIOUS
<1>8. PICK R : R = [i \in 1 .. n |-> [x \in S |-> AddParams(c, sig, x, i)]]
  OBVIOUS
<1>9. ASSUME NEW i \in 1 .. n, NEW x \in S
      PROVE  /\ AddParams(c, sig, x, i) \in S
             /\ AddParams(c, sig, x, i).params = x.params \o A[i]
             /\ AddParams(c, sig, x, i).byval = x.byval \cup ByvalOf(sig, c, i, Len(x.params))
  <2>1. x.params \in Seq(V) /\ x.byval \in SUBSET Ar
    OBVIOUS
  <2>2. PICK ps : ps = x.params \o A[i]
    OBVIOUS
  <2>3. ps \in Seq(V) /\ Len(x.params) \in Nat
    BY <1>6, <2>1, <2>2, ConcatIs
  <2>4. PICK bs : bs = x.byval \cup ByvalOf(sig, c, i, Len(x.params))
    OBVIOUS
  <2>5. bs \in SUBSET Ar
    <3>1. <<Len(x.params) + 1, c.args[i]>> \in Ar
      BY <1>1, <2>3
    <3>2. QED
      BY <2>1, <2>4, <3>1 DEF ByvalOf
  <2>6. AddParams(c, sig, x, i) = [params |-> ps, byval |-> bs]
    BY <1>2, <2>2, <2>4 DEF AddParams, ByvalOf
  <2>7. QED
    BY <2>2, <2>3, <2>4, <2>5, <2>6
<1>10. StaysIn(n, S, y, R)
  <2>1. y \in S
    BY <1>5, <1>7
  <2>2. R \in [1 .. n -> [S -> S]]
    <3> HIDE DEF S
    <3>1. QED
      BY <1>8, <1>9
  <2>3. QED
    BY <2>1, <2>2 DEF StaysIn
<1>11. PICK D \in [0 .. n -> S] : D[0] = y /\ \A i \in 1 .. n : D[i] = R[i][D[i - 1]]
  <2> HIDE DEF S
  <2>1. GoesThrough(n, S, y, R)
    BY <1>1, <1>10, StepsIterate
  <2>2. QED
    BY <2>1 DEF GoesThrough
<1>12. ASSUME NEW i \in 1 .. n PROVE D[i - 1] \in S /\ D[i] = AddParams(c, sig, D[i - 1], i)
  <2> HIDE DEF S
  <2>1. D[i - 1] \in S
    BY <1>1, <1>11
  <2>2. QED
    BY <1>8, <1>11, <2>1
<1>13. D = [i \in 0 .. n |-> IF i = 0 THEN y ELSE AddParams(c, sig, D[i - 1], i)]
  <2> HIDE DEF S
  <2>1. ASSUME NEW i \in 0 .. n PROVE D[i] = IF i = 0 THEN y ELSE AddParams(c, sig, D[i - 1], i)
    <3>1. i = 0 \/ i \in 1 .. n
      BY <1>1
    <3>2. QED
      BY <1>11, <1>12, <3>1
  <2>2. QED
    BY <1>11, <2>1
<1> DEFINE upto[i \in 0 .. n] == IF i = 0 THEN y ELSE AddParams(c, sig, upto[i - 1], i)
<1>14. upto = [i \in 0 .. n |-> IF i = 0 THEN y ELSE AddParams(c, sig, upto[i - 1], i)]
  <2> HIDE DEF S
  <2>1. QED
    BY <1>13
<1>15. NewParams(c, sig) = upto[n]
  BY <1>3, <1>7 DEF NewParams
<1> HIDE DEF upto, S
<1>16. upto[n] = D[n]
  <2> DEFINE T == {m \in Nat : m <= n => upto[m] = D[m]}
  <2>1. 0 \in T
    BY <1>1, <1>11, <1>14
  <2>2. ASSUME NEW m \in T PROVE m + 1 \in T
    <3>1. m \in Nat /\ m + 1 \in Nat /\ (m + 1 <= n => m + 1 \in 1 .. n /\ m + 1 # 0 /\ m + 1 \in 0 .. n /\ (m + 1) - 1 = m /\ m <= n)
      BY <1>1
    <3>2. ASSUME m + 1 <= n PROVE upto[m + 1] = D[m + 1]
      <4>1. upto[m] = D[m]
        BY <3>1, <3>2
      <4>2. upto[m + 1] = AddParams(c, sig, upto[m], m + 1)
        BY <1>14, <3>1, <3>2
      <4>3. QED
        BY <1>12, <3>1, <3>2, <4>1, <4>2
    <3>3. QED
      BY <3>1, <3>2
  <2>3. T = Nat
    <3> HIDE DEF T
    <3>1. T \in SUBSET Nat
      BY DEF T
    <3>2. QED
      BY <2>1, <2>2, <3>1, Inductive
  <2>4. QED
    BY <1>1, <2>3
<1>17. PICK L, B : L = [i \in 0 .. n |-> D[i].params] /\ B = [i \in 0 .. n |-> D[i].byval]
  OBVIOUS
<1>18. L \in [0 .. n -> Seq(V)]
  BY <1>11, <1>17 DEF S
<1>19. L[0] = z /\ B[0] = {} /\ NewParams(c, sig).params = L[n] /\ NewParams(c, sig).byval = B[n]
  <2>1. 0 \in 0 .. n /\ n \in 0 .. n
    BY <1>1
  <2>2. y.params = z /\ y.byval = {}
    BY <1>7
  <2>3. QED
    BY <1>11, <1>15, <1>16, <1>17, <2>1, <2>2
<1>20. ASSUME NEW i \in 1 .. n
       PROVE  L[i] = L[i - 1] \o A[i] /\ B[i] = B[i - 1] \cup ByvalOf(sig, c, i, Len(L[i - 1]))
  <2>1. i \in 0 .. n /\ i - 1 \in 0 .. n
    BY <1>1
  <2>2. L[i] = D[i].params /\ L[i - 1] = D[i - 1].params /\ B[i] = D[i].byval /\ B[i - 1] = D[i - 1].byval
    BY <1>17, <2>1
  <2>3. QED
    BY <1>9, <1>12, <2>2
<1>21. \A i \in 1 .. n : /\ L[i] = L[i - 1] \o NewParamTypes(sig.args[i], c.args[i])
                         /\ B[i] = B[i - 1] \cup ByvalOf(sig, c, i, Len(L[i - 1]))
  BY <1>2, <1>20
<1>22. L[0] = IF sig.ret.useSRet THEN <<PtrTy>> ELSE <<>>
  BY <1>3, <1>19
<1>23. DefinesParams(c, sig, n, L, B)
  BY <1>19, <1>21, <1>22 DEF DefinesParams
<1>24. QED
  BY <1>18, <1>23, Zenon

(* After k arguments: the parameters passed have the types of the            *)
(* definition's, each argument is where the body looks for it, a byval       *)
(* attribute is on an argument that is passed indirectly, and a result       *)
(* pointer is first.                                                         *)
CarriedAt(c, sig, ps, x, i) ==
  /\ x \in Nat /\ x >= 1 /\ x + Registers(sig.args[i]) - 1 <= Len(ps)
  /\ \A j \in 1 .. Registers(sig.args[i]) : ps[x + j - 1] = Passed(sig.args[i], c.args[i], Bits(c.args[i], i))[j]
ByvalRight(c, sig, X, byval, k) ==
  \A p \in byval : \E i \in 1 .. k : p = <<X[i - 1], c.args[i]>> /\ ~isIdentity(sig.args[i]) /\ sig.args[i].useIndirect
NothingCoerced(c, sig) == ~sig.ret.useSRet /\ \A i \in 1 .. Len(c.args) : isIdentity(sig.args[i])
Walk(c, sig, P, L, B, X, k) ==
  /\ X[k] = Len(P[k]) + 1 /\ Len(L[k]) = Len(P[k])
  /\ \A j \in 1 .. Len(P[k]) : P[k][j].t = L[k][j]
  /\ \A i \in 1 .. k : CarriedAt(c, sig, P[k], X[i - 1], i)
  /\ ByvalRight(c, sig, X, B[k], k)
  /\ sig.ret.useSRet => Len(P[k]) >= 1 /\ P[k][1].t = PtrTy
  /\ NothingCoerced(c, sig) => Len(L[k]) = k /\ \A i \in 1 .. k : L[k][i] = c.args[i]

(* Before the first argument.                                                *)
LEMMA WalkStart ==
  ASSUME NEW c, NEW sig, NEW P, NEW L, NEW B, NEW X,
         P[0] = IF sig.ret.useSRet THEN <<Param(PtrTy, {}, {})>> ELSE <<>>,
         L[0] = IF sig.ret.useSRet THEN <<PtrTy>> ELSE <<>>,
         X[0] = IF sig.ret.useSRet THEN 2 ELSE 1, B[0] = {}
  PROVE  Walk(c, sig, P, L, B, X, 0)
<1>1. PICK a : a = Param(PtrTy, {}, {})
  OBVIOUS
<1>2. a.t = PtrTy
  BY <1>1 DEF Param
<1>3. CASE sig.ret.useSRet
  <2>1. P[0] = <<a>> /\ L[0] = <<PtrTy>> /\ X[0] = 2
    BY <1>1, <1>3
  <2>2. Len(P[0]) = 1 /\ Len(L[0]) = 1 /\ P[0][1] = a /\ L[0][1] = PtrTy
    BY <2>1
  <2>3. \A j \in 1 .. 1 : P[0][j].t = L[0][j]
    BY <1>2, <2>2
  <2>4. ByvalRight(c, sig, X, B[0], 0) /\ ~NothingCoerced(c, sig)
    BY <1>3 DEF ByvalRight, NothingCoerced
  <2>5. QED
    BY <1>2, <2>1, <2>2, <2>3, <2>4 DEF Walk
<1>4. CASE ~sig.ret.useSRet
  <2>1. P[0] = <<>> /\ L[0] = <<>> /\ X[0] = 1
    BY <1>4
  <2>2. Len(P[0]) = 0 /\ Len(L[0]) = 0
    BY <2>1
  <2>3. ByvalRight(c, sig, X, B[0], 0)
    BY DEF ByvalRight
  <2>4. QED
    BY <1>4, <2>1, <2>2, <2>3 DEF Walk
<1>5. QED
  BY <1>3, <1>4

(* One argument more.                                                        *)
LEMMA WalkStep ==
  ASSUME NEW c \in Calls, NEW sig, sig = computeSignatureInfo(c), NEW n, n = Len(c.args), NEW U, NEW V,
         NEW P \in [0 .. n -> Seq(U)], NEW L \in [0 .. n -> Seq(V)], NEW B, NEW X \in [0 .. n -> Nat],
         NEW k \in Nat, NEW h, h = k + 1, h <= n,
         P[h] = P[k] \o Passed(sig.args[h], c.args[h], Bits(c.args[h], h)),
         L[h] = L[k] \o NewParamTypes(sig.args[h], c.args[h]),
         B[h] = B[k] \cup ByvalOf(sig, c, h, Len(L[k])),
         X[h] = X[k] + Registers(sig.args[h]),
         Walk(c, sig, P, L, B, X, k)
  PROVE  Walk(c, sig, P, L, B, X, h)
<1>1. n \in Nat /\ h \in 1 .. n /\ h \in 0 .. n /\ k \in 0 .. n /\ h - 1 = k
  BY SignatureIs
<1>2. c.args[h] \in CallTypes /\ ArgClass(sig.args[h], c.args[h])
  BY <1>1, SignatureIs
<1>3. PICK a, nt, m : a = Passed(sig.args[h], c.args[h], Bits(c.args[h], h)) /\ nt = NewParamTypes(sig.args[h], c.args[h])
                      /\ m = Registers(sig.args[h])
  OBVIOUS
<1>4. m \in {1, 2}
  BY <1>3 DEF Registers
<1>5. Arrives(sig.args[h], c.args[h], h, a)
  BY <1>2, <1>3, OneArgument
<1>6. /\ \E E : a \in [1 .. m -> E]
      /\ \E E : nt \in [1 .. m -> E]
      /\ \A q \in 1 .. m : a[q].t = nt[q]
      /\ isIdentity(sig.args[h]) => nt = <<c.args[h]>>
  BY <1>3, <1>5 DEF Arrives
<1>7. PICK p0, p1, l0, l1, x0, x1 : p0 = P[k] /\ p1 = P[h] /\ l0 = L[k] /\ l1 = L[h] /\ x0 = X[k] /\ x1 = X[h]
  OBVIOUS
<1>8. p0 \in Seq(U) /\ l0 \in Seq(V) /\ p1 = p0 \o a /\ l1 = l0 \o nt /\ x1 = x0 + m /\ x0 \in Nat
  BY <1>1, <1>3, <1>7
<1>9. Joined(p0, a, m, p1) /\ Joined(l0, nt, m, l1)
  <2>1. m \in Nat
    BY <1>4
  <2>2. PICK E : a \in [1 .. m -> E]
    BY <1>6
  <2>3. PICK G : nt \in [1 .. m -> G]
    BY <1>6
  <2>4. QED
    BY <1>8, <2>1, <2>2, <2>3, EntriesAdded
<1>10. /\ x0 = Len(p0) + 1 /\ Len(l0) = Len(p0)
       /\ \A j \in 1 .. Len(p0) : p0[j].t = l0[j]
       /\ \A i \in 1 .. k : CarriedAt(c, sig, p0, X[i - 1], i)
       /\ ByvalRight(c, sig, X, B[k], k)
       /\ sig.ret.useSRet => Len(p0) >= 1 /\ p0[1].t = PtrTy
       /\ NothingCoerced(c, sig) => Len(l0) = k /\ \A i \in 1 .. k : l0[i] = c.args[i]
  BY <1>7 DEF Walk
<1>11. Len(p0) \in Nat /\ Len(p1) = Len(p0) + m /\ Len(l1) = Len(l0) + m
  BY <1>9 DEF Joined
<1>12. x1 = Len(p1) + 1 /\ Len(l1) = Len(p1)
  BY <1>4, <1>8, <1>10, <1>11
<1>13. ASSUME NEW j \in 1 .. Len(p1) PROVE p1[j].t = l1[j]
  <2>1. CASE j <= Len(p0)
    <3>1. j \in 1 .. Len(p0) /\ j \in 1 .. Len(l0)
      BY <1>10, <1>11, <2>1
    <3>2. p1[j] = p0[j] /\ l1[j] = l0[j]
      BY <1>9, <3>1 DEF Joined
    <3>3. QED
      BY <1>10, <3>1, <3>2
  <2>2. CASE j > Len(p0)
    <3>1. PICK q \in 1 .. m : j = Len(p0) + q /\ j = Len(l0) + q
      <4>1. j - Len(p0) \in 1 .. m /\ j = Len(p0) + (j - Len(p0))
        BY <1>4, <1>11, <2>2
      <4>2. QED
        BY <1>10, <4>1
    <3>2. p1[j] = a[q] /\ l1[j] = nt[q]
      BY <1>9, <3>1 DEF Joined
    <3>3. QED
      BY <1>6, <3>2
  <2>3. QED
    BY <1>4, <1>11, <2>1, <2>2
<1>14. ASSUME NEW i \in 1 .. h PROVE CarriedAt(c, sig, p1, X[i - 1], i)
  <2>1. CASE i \in 1 .. k
    <3>1. PICK x, w : x = X[i - 1] /\ w = Registers(sig.args[i])
      OBVIOUS
    <3>2. w \in {1, 2}
      BY <3>1 DEF Registers
    <3>3. /\ x \in Nat /\ x >= 1 /\ x + w - 1 <= Len(p0)
          /\ \A j \in 1 .. w : p0[x + j - 1] = Passed(sig.args[i], c.args[i], Bits(c.args[i], i))[j]
      BY <1>10, <2>1, <3>1 DEF CarriedAt
    <3>4. x + w - 1 <= Len(p1)
      BY <1>4, <1>11, <3>2, <3>3
    <3>5. \A j \in 1 .. w : x + j - 1 \in 1 .. Len(p0)
      BY <1>11, <3>2, <3>3
    <3>6. \A j \in 1 .. w : p1[x + j - 1] = p0[x + j - 1]
      BY <1>9, <3>5 DEF Joined
    <3>7. QED
      BY <3>1, <3>3, <3>4, <3>6 DEF CarriedAt
  <2>2. CASE i = h
    <3>1. X[i - 1] = x0
      BY <1>1, <1>7, <2>2
    <3>2. x0 >= 1 /\ x0 + m - 1 <= Len(p1)
      BY <1>4, <1>10, <1>11
    <3>3. \A j \in 1 .. m : x0 + j - 1 = Len(p0) + j
      BY <1>4, <1>10, <1>11
    <3>4. \A j \in 1 .. m : p1[x0 + j - 1] = a[j]
      BY <1>9, <3>3 DEF Joined
    <3>5. QED
      BY <1>3, <1>8, <2>2, <3>1, <3>2, <3>4 DEF CarriedAt
  <2>3. i \in 1 .. k \/ i = h
    OBVIOUS
  <2>4. QED
    BY <2>1, <2>2, <2>3
<1>15. ByvalRight(c, sig, X, B[h], h)
  <2>1. ASSUME NEW p \in B[h] PROVE \E i \in 1 .. h : p = <<X[i - 1], c.args[i]>> /\ ~isIdentity(sig.args[i]) /\ sig.args[i].useIndirect
    <3>1. CASE p \in B[k]
      <4>1. PICK i \in 1 .. k : p = <<X[i - 1], c.args[i]>> /\ ~isIdentity(sig.args[i]) /\ sig.args[i].useIndirect
        BY <1>10, <3>1 DEF ByvalRight
      <4>2. i \in 1 .. h
        OBVIOUS
      <4>3. QED
        BY <4>1, <4>2
    <3>2. CASE p \in ByvalOf(sig, c, h, Len(l0))
      <4>1. p = <<Len(l0) + 1, c.args[h]>> /\ ~isIdentity(sig.args[h]) /\ sig.args[h].useIndirect
        BY <3>2 DEF ByvalOf
      <4>2. Len(l0) + 1 = X[h - 1] /\ h \in 1 .. h
        <5>1. X[h - 1] = x0 /\ Len(l0) + 1 = x0
          BY <1>1, <1>7, <1>10
        <5>2. h \in 1 .. h
          OBVIOUS
        <5>3. QED
          BY <5>1, <5>2
      <4>3. QED
        BY <4>1, <4>2
    <3>3. B[h] = B[k] \cup ByvalOf(sig, c, h, Len(l0))
      BY <1>7
    <3>4. QED
      BY <3>1, <3>2, <3>3
  <2>2. QED
    BY <2>1 DEF ByvalRight
<1>16. ASSUME sig.ret.useSRet PROVE Len(p1) >= 1 /\ p1[1].t = PtrTy
  <2>1. 1 \in 1 .. Len(p0)
    BY <1>10, <1>11, <1>16
  <2>2. p1[1] = p0[1]
    BY <1>9, <2>1 DEF Joined
  <2>3. QED
    BY <1>4, <1>10, <1>11, <1>16, <2>2
<1>17. ASSUME NothingCoerced(c, sig) PROVE Len(l1) = h /\ \A i \in 1 .. h : l1[i] = c.args[i]
  <2>1. isIdentity(sig.args[h])
    BY <1>1, <1>17 DEF NothingCoerced
  <2>2. m = 1 /\ nt = <<c.args[h]>>
    BY <1>3, <1>6, <2>1 DEF Registers
  <2>3. Len(l0) = k /\ \A i \in 1 .. k : l0[i] = c.args[i]
    BY <1>10, <1>17
  <2>4. Len(l1) = h
    BY <1>11, <2>2, <2>3
  <2>5. \A i \in 1 .. k : l1[i] = l0[i]
    BY <1>9, <2>3 DEF Joined
  <2>6. l1[h] = c.args[h]
    <3>1. nt[1] = c.args[h] /\ 1 \in 1 .. m /\ h = Len(l0) + 1
      BY <2>2, <2>3
    <3>2. l1[Len(l0) + 1] = nt[1]
      BY <1>9, <3>1 DEF Joined
    <3>3. QED
      BY <3>1, <3>2
  <2>7. \A i \in 1 .. h : i \in 1 .. k \/ i = h
    OBVIOUS
  <2>8. QED
    BY <2>3, <2>4, <2>5, <2>6, <2>7
<1>18. QED
  BY <1>7, <1>12, <1>13, <1>14, <1>15, <1>16, <1>17 DEF Walk

(* After the last argument.                                                  *)
LEMMA ArgumentsMeet ==
  ASSUME NEW c \in Calls, NEW ps, ps = prepareCall(c, Given(c.args, 0)), NEW sig, sig = computeSignatureInfo(c),
         NEW n, n = Len(c.args)
  PROVE  /\ Len(ps) \in Nat
         /\ \A i \in 1 .. n : CarriedAt(c, sig, ps, ParamIdx(sig)[i - 1], i)
         /\ \E V : NewParams(c, sig).params \in Seq(V)
         /\ Len(NewParams(c, sig).params) = Len(ps)
         /\ \A j \in 1 .. Len(ps) : ps[j].t = NewParams(c, sig).params[j]
         /\ ByvalRight(c, sig, ParamIdx(sig), NewParams(c, sig).byval, n)
         /\ sig.ret.useSRet => ps[1].t = PtrTy
         /\ NothingCoerced(c, sig) => Len(NewParams(c, sig).params) = n /\ \A i \in 1 .. n : NewParams(c, sig).params[i] = c.args[i]
<1>1. n \in Nat
  BY SignatureIs
<1>2. PICK U : \E P \in [0 .. n -> Seq(U)] : PassesOn(c, sig, n, P)
  BY CallSiteWalk
<1>3. PICK P \in [0 .. n -> Seq(U)] : PassesOn(c, sig, n, P)
  BY <1>2
<1>4. PICK X \in [0 .. n -> Nat] :
           /\ X[0] = IF sig.ret.useSRet THEN 2 ELSE 1
           /\ X = ParamIdx(sig)
           /\ \A i \in 1 .. n : X[i] = X[i - 1] + Registers(sig.args[i])
  BY BodyWalk
<1>5. PICK V : \E L \in [0 .. n -> Seq(V)] : \E B : DefinesParams(c, sig, n, L, B)
  BY DefinitionWalk
<1>6. PICK L \in [0 .. n -> Seq(V)] : \E B : DefinesParams(c, sig, n, L, B)
  BY <1>5
<1>7. PICK B : DefinesParams(c, sig, n, L, B)
  BY <1>6
<1> DEFINE T == {k \in Nat : k <= n => Walk(c, sig, P, L, B, X, k)}
<1>8. 0 \in T
  <2>1. L[0] = (IF sig.ret.useSRet THEN <<PtrTy>> ELSE <<>>) /\ B[0] = {}
    BY <1>7 DEF DefinesParams
  <2>2. Walk(c, sig, P, L, B, X, 0)
    BY <1>3, <1>4, <2>1, WalkStart DEF PassesOn
  <2>3. QED
    BY <2>2
<1>9. ASSUME NEW k \in T PROVE k + 1 \in T
  <2>1. k \in Nat /\ k + 1 \in Nat
    OBVIOUS
  <2>2. ASSUME k + 1 <= n PROVE Walk(c, sig, P, L, B, X, k + 1)
    <3>1. PICK h : h = k + 1
      OBVIOUS
    <3>2. h \in 1 .. n /\ h - 1 = k /\ h <= n /\ k <= n
      BY <1>1, <2>1, <2>2, <3>1
    <3>3. Walk(c, sig, P, L, B, X, k)
      BY <3>2
    <3>4. /\ P[h] = P[k] \o Passed(sig.args[h], c.args[h], Bits(c.args[h], h))
          /\ X[h] = X[k] + Registers(sig.args[h])
      BY <1>3, <1>4, <3>2 DEF PassesOn
    <3>5. /\ L[h] = L[k] \o NewParamTypes(sig.args[h], c.args[h])
          /\ B[h] = B[k] \cup ByvalOf(sig, c, h, Len(L[k]))
      BY <1>7, <3>2 DEF DefinesParams
    <3>6. Walk(c, sig, P, L, B, X, h)
      <4> HIDE DEF T
      <4>1. QED
        BY <2>1, <3>1, <3>2, <3>3, <3>4, <3>5, WalkStep
    <3>7. QED
      BY <3>1, <3>6
  <2>3. QED
    BY <2>1, <2>2
<1>10. Walk(c, sig, P, L, B, X, n)
  <2>1. T = Nat
    <3> HIDE DEF T
    <3>1. T \in SUBSET Nat
      BY DEF T
    <3>2. QED
      BY <1>8, <1>9, <3>1, Inductive
  <2>2. QED
    BY <1>1, <2>1
<1>11. ps = P[n] /\ NewParams(c, sig).params = L[n] /\ NewParams(c, sig).byval = B[n] /\ X = ParamIdx(sig)
  BY <1>3, <1>4, <1>7 DEF DefinesParams, PassesOn
<1>12. ps \in Seq(U) /\ L[n] \in Seq(V) /\ Len(ps) \in Nat
  BY <1>1, <1>3, <1>6, <1>11
<1> HIDE DEF T
<1>13. QED
  BY <1>10, <1>11, <1>12 DEF Walk

(* A C ABI call, from the call site to the definition.                       *)
LEMMA CABICall ==
  ASSUME NEW c \in Calls, NEW ps, ps = prepareCall(c, Given(c.args, 0)), NEW def, def = processCABIFunctionDefinition(c)
  PROVE  /\ reconstructCABIArguments(c, ps) = Given(c.args, 0)
         /\ [i \in 1 .. Len(ps) |-> ps[i].t] = def.params
         /\ \A p \in def.byval \cup def.sret : ps[p[1]].t = PtrTy
         /\ \A p \in def.byval : \E i \in 1 .. Len(c.args) : c.args[i] = p[2] /\ ps[p[1]].to = Given(c.args, 0)[i]
<1>1. PICK sig, n : sig = computeSignatureInfo(c) /\ n = Len(c.args)
  OBVIOUS
<1>2. n \in Nat /\ \A i \in 1 .. n : c.args[i] \in CallTypes /\ ArgClass(sig.args[i], c.args[i])
  BY <1>1, SignatureIs
<1>3. PICK new, X : new = NewParams(c, sig) /\ X = ParamIdx(sig)
  OBVIOUS
<1>4. /\ Len(ps) \in Nat
      /\ \A i \in 1 .. n : CarriedAt(c, sig, ps, X[i - 1], i)
      /\ \E V : new.params \in Seq(V)
      /\ Len(new.params) = Len(ps)
      /\ \A j \in 1 .. Len(ps) : ps[j].t = new.params[j]
      /\ ByvalRight(c, sig, X, new.byval, n)
      /\ sig.ret.useSRet => ps[1].t = PtrTy
      /\ NothingCoerced(c, sig) => Len(new.params) = n /\ \A i \in 1 .. n : new.params[i] = c.args[i]
  BY <1>1, <1>3, ArgumentsMeet
<1>5. ASSUME NEW i \in 1 .. n
      PROVE  /\ reconstructCABIArgument(sig.args[i], c.args[i], ps, X[i - 1]) = Bits(c.args[i], i)
             /\ ~isIdentity(sig.args[i]) /\ sig.args[i].useIndirect =>
                  ps[X[i - 1]].t = PtrTy /\ ps[X[i - 1]].to = Bits(c.args[i], i)
  <2>1. PICK ci, t, s, x : ci = sig.args[i] /\ t = c.args[i] /\ s = Passed(ci, t, Bits(t, i)) /\ x = X[i - 1]
    OBVIOUS
  <2>2. t \in CallTypes /\ ArgClass(ci, t)
    BY <1>2, <2>1
  <2>3. Arrives(ci, t, i, s)
    BY <2>1, <2>2, OneArgument
  <2>4. x \in Nat /\ \A j \in 1 .. Registers(ci) : ps[x + j - 1] = s[j]
    BY <1>4, <2>1 DEF CarriedAt
  <2>5. reconstructCABIArgument(ci, t, ps, x) = Bits(t, i)
    BY <2>3, <2>4 DEF Arrives
  <2>6. ps[x] = s[1]
    <3>1. 1 \in 1 .. Registers(ci) /\ x + 1 - 1 = x
      BY <2>4 DEF Registers
    <3>2. QED
      BY <2>4, <3>1
  <2>7. ~isIdentity(ci) /\ ci.useIndirect => s[1].t = PtrTy /\ s[1].to = Bits(t, i)
    BY <2>3 DEF Arrives
  <2>8. QED
    BY <2>1, <2>5, <2>6, <2>7
<1>6. PICK g : g = Given(c.args, 0)
  OBVIOUS
<1>7. g = [i \in 1 .. n |-> Bits(c.args[i], i)]
  BY <1>1, <1>2, <1>6 DEF Given
<1>8. reconstructCABIArguments(c, ps) = g
  <2>1. reconstructCABIArguments(c, ps) = [i \in 1 .. n |-> reconstructCABIArgument(sig.args[i], c.args[i], ps, X[i - 1])]
    BY <1>1, <1>3 DEF reconstructCABIArguments
  <2>2. QED
    BY <1>5, <1>7, <2>1
<1>9. [i \in 1 .. Len(ps) |-> ps[i].t] = new.params
  BY <1>4
<1>10. \A p \in new.byval : ps[p[1]].t = PtrTy /\ \E i \in 1 .. n : c.args[i] = p[2] /\ ps[p[1]].to = g[i]
  <2>1. ASSUME NEW p \in new.byval PROVE ps[p[1]].t = PtrTy /\ \E i \in 1 .. n : c.args[i] = p[2] /\ ps[p[1]].to = g[i]
    <3>1. PICK i \in 1 .. n : p = <<X[i - 1], c.args[i]>> /\ ~isIdentity(sig.args[i]) /\ sig.args[i].useIndirect
      BY <1>4 DEF ByvalRight
    <3>2. p[1] = X[i - 1] /\ p[2] = c.args[i] /\ g[i] = Bits(c.args[i], i)
      BY <1>7, <3>1
    <3>3. ps[X[i - 1]].t = PtrTy /\ ps[X[i - 1]].to = Bits(c.args[i], i)
      BY <1>5, <3>1
    <3>4. QED
      BY <3>2, <3>3
  <2>2. QED
    BY <2>1
<1>11. CASE isIdentity(sig.ret) /\ \A i \in 1 .. n : isIdentity(sig.args[i])
  <2>1. def = [params |-> c.args, byval |-> {}, sret |-> {}, ret |-> c.ret]
    BY <1>1, <1>11 DEF processCABIFunctionDefinition
  <2>2. def.params = c.args /\ def.byval = {} /\ def.sret = {}
    BY <2>1
  <2>3. ~sig.ret.useSRet
    <3>1. sig.ret = Identity \/ sig.ret = sretReturn \/ InRegisters(sig.ret, c.ret)
      BY <1>1, SignatureIs DEF RetClass
    <3>2. sig.ret = Identity
      BY <1>11, <3>1, MemoryClasses, RegisterClasses
    <3>3. QED
      BY <3>2, MemoryClasses
  <2>4. Len(new.params) = n /\ \A i \in 1 .. n : new.params[i] = c.args[i]
    BY <1>1, <1>4, <1>11, <2>3 DEF NothingCoerced
  <2>5. new.params = c.args
    <3>1. PICK V : new.params \in Seq(V)
      BY <1>4
    <3>2. c.args \in Seq(CallTypes)
      BY CallAssumption
    <3>3. new.params = [i \in 1 .. n |-> new.params[i]] /\ c.args = [i \in 1 .. n |-> c.args[i]]
      BY <1>1, <2>4, <3>1, <3>2
    <3>4. QED
      BY <2>4, <3>3
  <2>6. QED
    BY <1>6, <1>8, <1>9, <2>2, <2>5
<1>12. CASE ~(isIdentity(sig.ret) /\ \A i \in 1 .. n : isIdentity(sig.args[i]))
  <2>1. /\ def.params = new.params /\ def.byval = new.byval
        /\ def.sret = IF sig.ret.useSRet THEN {<<1, c.ret>>} ELSE {}
    BY <1>1, <1>3, <1>12 DEF processCABIFunctionDefinition
  <2>2. \A p \in def.sret : ps[p[1]].t = PtrTy
    BY <1>4, <2>1
  <2>3. QED
    BY <1>1, <1>6, <1>8, <1>9, <1>10, <2>1, <2>2
<1>13. QED
  BY <1>11, <1>12

(* The result of a C ABI call.                                               *)
LEMMA CABIResult ==
  ASSUME NEW c \in Calls, c.ret # NoTy, NEW sig, sig = computeSignatureInfo(c), NEW def, def = processCABIFunctionDefinition(c),
         NEW back, back = applyCABIReturnCoercion(sig.ret, c.ret, Bits(c.ret, 0))
  PROVE  /\ FitsSlot(CoercedType(sig.ret, c.ret), c.ret)
         /\ (IF def.sret # {} THEN back.to ELSE back.reg) = Bits(c.ret, 0)
<1>1. c.ret \in CallTypes /\ RetClass(sig.ret, c.ret)
  BY SignatureIs
<1>2. FitsSlot(CoercedType(sig.ret, c.ret), c.ret)
  BY <1>1, ClassFits
<1>3. PICK img : img = Bits(c.ret, 0)
  OBVIOUS
<1>4. CASE sig.ret = sretReturn
  <2>1. sig.ret.useSRet /\ ~isIdentity(sig.ret)
    BY <1>4, MemoryClasses
  <2>2. def.sret = {<<1, c.ret>>}
    BY <2>1 DEF processCABIFunctionDefinition
  <2>3. back.to = img
    BY <1>3, <2>1 DEF applyCABIReturnCoercion
  <2>4. QED
    BY <1>2, <1>3, <2>2, <2>3
<1>5. CASE sig.ret = Identity \/ InRegisters(sig.ret, c.ret)
  <2>1. ~sig.ret.useSRet
    BY <1>5, MemoryClasses, RegisterClasses
  <2>2. def.sret = {}
    BY <2>1 DEF processCABIFunctionDefinition
  <2>3. isIdentity(sig.ret) \/ ThroughAlloca(img, CoercedType(sig.ret, c.ret)) = img
    <3>1. CASE sig.ret = Identity
      BY <3>1, MemoryClasses
    <3>2. CASE InRegisters(sig.ret, c.ret)
      <4>1. StoreBytesOf(CoercedType(sig.ret, c.ret)) = StoreBytesOf(c.ret)
        BY <3>2, RegisterClasses
      <4>2. QED
        BY <1>1, <1>3, <4>1, BitsInside
    <3>3. QED
      BY <1>5, <3>1, <3>2
  <2>4. back.reg = img
    BY <1>3, <2>1, <2>3 DEF applyCABIReturnCoercion
  <2>5. QED
    BY <1>2, <1>3, <2>2, <2>4
<1>6. QED
  BY <1>1, <1>4, <1>5 DEF RetClass

(* A capture in the environment: the fields do not overlap, so the wrapper   *)
(* reads back what was stored.                                               *)
LEMMA CaptureKept ==
  ASSUME NEW c \in Calls, NEW ts, ts = c.captures, NEW env, env = generateClosureStruct(ts, Given(ts, 0)),
         NEW i \in 1 .. Len(ts), NEW at, at = FieldBit(liftedFunctionCaptureType(ts), i)
  PROVE  Captured(env, at, ts[i]) = Bits(ts[i], i)
<1>1. ts \in Seq(CallTypes)
  BY CallAssumption
<1>2. PICK n : n = Len(ts)
  OBVIOUS
<1>3. n \in Nat /\ \A j \in 1 .. n : ts[j] \in CallTypes
  BY <1>1, <1>2
<1>4. PICK F : F = [j \in 1 .. n |-> FieldBit(StructTy(ts), j)]
  OBVIOUS
<1>5. PICK w : w = [j \in 1 .. n |-> StoreBytesOf(ts[j])]
  OBVIOUS
<1>6. \A j \in 1 .. n : F[j] \in Nat /\ w[j] \in Nat /\ F[j] = FieldBit(StructTy(ts), j) /\ w[j] = StoreBytesOf(ts[j])
  BY <1>2, <1>3, <1>4, <1>5, LayoutAssumption
<1>7. \A j, k \in 1 .. n : j < k => F[j] + 8 * w[j] <= F[k]
  BY <1>2, <1>6, LayoutAssumption
<1>8. i \in 1 .. n /\ at = F[i]
  BY <1>2, <1>4 DEF liftedFunctionCaptureType
<1>9. env = UNION {Shift(Bits(ts[j], j), F[j]) : j \in 1 .. n}
  <2>1. \A j \in 1 .. n : Given(ts, 0)[j] = Bits(ts[j], j)
    BY <1>2, <1>3 DEF Given
  <2>2. QED
    BY <1>2, <1>6, <2>1 DEF generateClosureStruct, liftedFunctionCaptureType
<1>10. ASSUME NEW j \in 1 .. n, NEW b \in Shift(Bits(ts[j], j), F[j])
       PROVE  \E a \in Nat : a < 8 * w[j] /\ b[1] = a + F[j] /\ b[2] = j /\ b[3] = a /\ b = <<b[1], b[2], b[3]>>
  <2>1. PICK d \in Bits(ts[j], j) : b = <<d[1] + F[j], d[2], d[3]>>
    BY <1>10 DEF Shift
  <2>2. PICK a \in 0 .. 8 * w[j] - 1 : d = <<a, j, a>>
    BY <1>6, <2>1 DEF Bits
  <2>3. a \in Nat /\ a < 8 * w[j]
    BY <1>6, <2>2
  <2>4. d[1] = a /\ d[2] = j /\ d[3] = a
    BY <2>2
  <2>5. b = <<a + F[j], j, a>>
    BY <2>1, <2>4
  <2>6. b[1] = a + F[j] /\ b[2] = j /\ b[3] = a
    BY <2>5
  <2>7. QED
    BY <2>3, <2>5, <2>6
<1>11. ASSUME NEW x \in Captured(env, at, ts[i]) PROVE x \in Bits(ts[i], i)
  <2>1. PICK b \in env : b[1] >= at /\ b[1] < at + 8 * w[i] /\ x = <<b[1] - at, b[2], b[3]>>
    BY <1>6, <1>8 DEF Captured
  <2>2. PICK j \in 1 .. n : b \in Shift(Bits(ts[j], j), F[j])
    BY <1>9, <2>1
  <2>3. PICK a \in Nat : a < 8 * w[j] /\ b[1] = a + F[j] /\ b[2] = j /\ b[3] = a
    BY <1>10, <2>2
  <2>4. j = i
    <3>1. PICK fi \in Nat, wi \in Nat, fj \in Nat, wj \in Nat : fi = F[i] /\ wi = 8 * w[i] /\ fj = F[j] /\ wj = 8 * w[j]
      <4>1. F[i] \in Nat /\ 8 * w[i] \in Nat /\ F[j] \in Nat /\ 8 * w[j] \in Nat
        BY <1>6, <1>8, <2>2
      <4>2. QED
        BY <4>1
    <3>5. /\ a + fj >= fi /\ a + fj < fi + wi /\ a < wj
          /\ (j < i => fj + wj <= fi) /\ (i < j => fi + wi <= fj)
      BY <1>7, <1>8, <2>1, <2>2, <2>3, <3>1
    <3>2. ~(j < i)
      BY <3>1, <3>5
    <3>3. ~(i < j)
      BY <3>1, <3>5
    <3>4. QED
      BY <1>8, <2>2, <3>2, <3>3
  <2>5. F[i] \in Nat /\ w[i] \in Nat
    BY <1>6, <1>8
  <2>6. b[1] - at = a /\ a \in 0 .. 8 * w[i] - 1
    BY <1>8, <2>3, <2>4, <2>5
  <2>7. x = <<a, i, a>>
    BY <2>1, <2>3, <2>4, <2>6
  <2>8. QED
    BY <1>6, <1>8, <2>6, <2>7 DEF Bits
<1>12. ASSUME NEW x \in Bits(ts[i], i) PROVE x \in Captured(env, at, ts[i])
  <2>1. F[i] \in Nat /\ w[i] \in Nat /\ w[i] = StoreBytesOf(ts[i])
    BY <1>6, <1>8
  <2>2. PICK a \in 0 .. 8 * w[i] - 1 : x = <<a, i, a>>
    BY <2>1 DEF Bits
  <2>3. a \in Nat /\ a < 8 * w[i]
    BY <2>1, <2>2
  <2>4. x[1] = a /\ x[2] = i /\ x[3] = a
    BY <2>2
  <2>5. PICK b : b = <<x[1] + F[i], x[2], x[3]>>
    OBVIOUS
  <2>6. b \in Shift(Bits(ts[i], i), F[i])
    BY <2>5 DEF Shift
  <2>7. b \in env
    BY <1>8, <1>9, <2>6
  <2>8. b[1] = a + F[i] /\ b[2] = i /\ b[3] = a
    BY <2>4, <2>5
  <2>9. b[1] >= at /\ b[1] < at + 8 * StoreBytesOf(ts[i]) /\ b[1] - at = a
    BY <1>8, <2>1, <2>3, <2>8
  <2>10. x = <<b[1] - at, b[2], b[3]>>
    BY <2>2, <2>8, <2>9
  <2>11. QED
    BY <2>7, <2>9, <2>10 DEF Captured
<1>13. QED
  BY <1>11, <1>12

(* A closure, from its creation through the wrapper.                         *)
LEMMA ClosureCall ==
  ASSUME NEW c \in Calls, c.kind = "closure", NEW m, m = Len(c.captures),
         NEW ps, ps = CallIndirect(c, Given(c.args, m), Given(c.captures, 0))
  PROVE  /\ Received(c, ps) = Given(c.captures, 0) \o Given(c.args, m)
         /\ [i \in 1 .. Len(ps) |-> ps[i].t] = generateWrapperFunction(c)
<1>1. c.args \in Seq(CallTypes) /\ c.captures \in Seq(CallTypes)
  BY CallAssumption
<1>2. PICK n : n = Len(c.args)
  OBVIOUS
<1>3. n \in Nat /\ m \in Nat
  BY <1>1, <1>2
<1>4. PICK env : env = generateClosureStruct(c.captures, Given(c.captures, 0))
  OBVIOUS
<1>5. PICK given : given = Given(c.args, m)
  OBVIOUS
<1>6. PICK rest : rest = [i \in 1 .. n |-> Param(c.args[i], given[i], {})]
  OBVIOUS
<1>7. PICK e : e = Param(PtrTy, {}, env)
  OBVIOUS
<1>8. ps = <<e>> \o rest
  BY <1>2, <1>4, <1>5, <1>6, <1>7 DEF CallIndirect, CreateClosure
<1>9. Joined(<<e>>, rest, n, <<e>> \o rest)
  <2>1. PICK E : E = {rest[i] : i \in 1 .. n}
    OBVIOUS
  <2>2. rest \in [1 .. n -> E]
    BY <1>6, <2>1
  <2>3. <<e>> \in Seq({e})
    OBVIOUS
  <2>4. QED
    BY <1>3, <2>2, <2>3, EntriesAdded
<1>10. Len(ps) = n + 1 /\ ps[1] = e /\ \A i \in 1 .. n : ps[i + 1] = rest[i]
  <2>0. PICK one : one = <<e>>
    OBVIOUS
  <2>1. Len(one) = 1 /\ one[1] = e /\ 1 \in 1 .. 1
    BY <2>0
  <2>4. Joined(one, rest, n, ps)
    BY <1>8, <1>9, <2>0
  <2>2. Len(ps) = 1 + n /\ ps[1] = e /\ \A i \in 1 .. n : ps[1 + i] = rest[i]
    BY <2>1, <2>4 DEF Joined
  <2>3. QED
    BY <1>3, <2>2
<1>11. ps[1].t = PtrTy /\ ps[1].to = env /\ \A i \in 1 .. n : ps[i + 1].t = c.args[i] /\ ps[i + 1].img = given[i]
  BY <1>6, <1>7, <1>10 DEF Param
<1>12. Received(c, ps) = Given(c.captures, 0) \o given
  <2>1. PICK caught : caught = [i \in 1 .. m |-> Captured(ps[1].to, FieldBit(liftedFunctionCaptureType(c.captures), i), c.captures[i])]
    OBVIOUS
  <2>2. caught = Given(c.captures, 0)
    <3>1. \A i \in 1 .. m : caught[i] = Bits(c.captures[i], i)
      BY <1>4, <1>11, <2>1, CaptureKept
    <3>2. Given(c.captures, 0) = [i \in 1 .. m |-> Bits(c.captures[i], i)]
      BY <1>3 DEF Given
    <3>3. QED
      BY <2>1, <3>1, <3>2
  <2>3. [i \in 1 .. n |-> ps[i + 1].img] = given
    <3>1. given = [i \in 1 .. n |-> given[i]]
      BY <1>2, <1>5 DEF Given
    <3>2. QED
      BY <1>11, <3>1
  <2>4. Received(c, ps) = caught \o [i \in 1 .. n |-> ps[i + 1].img]
    BY <1>2, <2>1 DEF Received, populateBodyOfWrapperFunction
  <2>5. QED
    BY <2>2, <2>3, <2>4
<1>13. [i \in 1 .. Len(ps) |-> ps[i].t] = generateWrapperFunction(c)
  <2>1. PICK V : V = CallTypes \cup {PtrTy}
    OBVIOUS
  <2>2. c.args \in Seq(V) /\ <<PtrTy>> \in Seq(V)
    BY <1>1, <2>1
  <2>3. PICK wrapper : wrapper = <<PtrTy>> \o c.args
    OBVIOUS
  <2>4. wrapper \in Seq(V) /\ Len(wrapper) = n + 1 /\ wrapper[1] = PtrTy /\ \A i \in 1 .. n : wrapper[1 + i] = c.args[i]
    <3>1. Len(<<PtrTy>>) = 1 /\ <<PtrTy>>[1] = PtrTy
      OBVIOUS
    <3>2. QED
      BY <1>2, <1>3, <2>2, <2>3, <3>1, ConcatIs
  <2>5. \A j \in 1 .. n + 1 : ps[j].t = wrapper[j]
    <3>1. ASSUME NEW j \in 1 .. n + 1 PROVE ps[j].t = wrapper[j]
      <4>1. j = 1 \/ \E i \in 1 .. n : j = i + 1 /\ j = 1 + i
        <5>1. j # 1 => j - 1 \in 1 .. n /\ j = (j - 1) + 1 /\ j = 1 + (j - 1)
          BY <1>3
        <5>2. QED
          BY <5>1
      <4>2. QED
        BY <1>11, <2>4, <4>1
    <3>2. QED
      BY <3>1
  <2>6. [i \in 1 .. Len(ps) |-> ps[i].t] = wrapper
    BY <1>10, <2>4, <2>5
  <2>7. QED
    BY <2>3, <2>6 DEF generateWrapperFunction
<1>14. QED
  BY <1>5, <1>12, <1>13

(* A function called with its arguments as they are.                         *)
LEMMA PlainCall ==
  ASSUME NEW c \in Calls, c.kind = "function", NEW ps, ps = CallIndirect(c, Given(c.args, 0), Given(c.captures, 0))
  PROVE  Received(c, ps) = Given(c.args, 0)
<1>1. c.args \in Seq(CallTypes)
  BY CallAssumption
<1>2. PICK n : n = Len(c.args)
  OBVIOUS
<1>3. PICK given : given = Given(c.args, 0)
  OBVIOUS
<1>4. PICK rest : rest = [i \in 1 .. n |-> Param(c.args[i], given[i], {})]
  OBVIOUS
<1>5. n \in Nat /\ given = [i \in 1 .. n |-> given[i]]
  BY <1>1, <1>2, <1>3 DEF Given
<1>6. ps = <<>> \o rest
  BY <1>2, <1>3, <1>4 DEF CallIndirect, CreateClosure
<1>7. <<>> \o rest = rest /\ Len(rest) = n
  <2>1. PICK E : E = {rest[i] : i \in 1 .. n}
    OBVIOUS
  <2>2. rest \in [1 .. n -> E]
    BY <1>4, <2>1
  <2>3. rest \in Seq(E) /\ Len(rest) = n
    BY <1>5, <2>2
  <2>4. QED
    BY <2>3
<1>8. Received(c, ps) = [i \in 1 .. n |-> rest[i].img]
  BY <1>6, <1>7 DEF Received
<1>9. \A i \in 1 .. n : rest[i].img = given[i]
  BY <1>4 DEF Param
<1>10. QED
  BY <1>3, <1>5, <1>8, <1>9

(* Only a closure puts captures before its arguments.                        *)
LEMMA NoCaptures ==
  ASSUME NEW c \in Calls, c.kind # "closure"
  PROVE  Len(c.captures) = 0 /\ Given(c.captures, 0) \o Given(c.args, 0) = Given(c.args, 0)
<1>1. c.captures = <<>> /\ c.args \in Seq(CallTypes)
  BY CallAssumption
<1>2. PICK n, given : n = Len(c.args) /\ given = Given(c.args, 0)
  OBVIOUS
<1>3. n \in Nat /\ given = [i \in 1 .. n |-> given[i]]
  BY <1>1, <1>2 DEF Given
<1>4. PICK E : E = {given[i] : i \in 1 .. n}
  OBVIOUS
<1>5. given \in Seq(E)
  BY <1>3, <1>4
<1>6. Len(c.captures) = 0 /\ Given(c.captures, 0) = <<>>
  BY <1>1 DEF Given
<1>7. <<>> \o given = given
  BY <1>5
<1>8. QED
  BY <1>2, <1>6, <1>7

(* All three kinds of call.                                                  *)
LEMMA EveryCallArrives ==
  ASSUME NEW c \in Calls, NEW m, m = Lowered(c)
  PROVE  Arrived(c, m)
<1>1. PICK k : k = Len(c.captures)
  OBVIOUS
<1>2. PICK ps : ps = CallIndirect(c, Given(c.args, k), Given(c.captures, 0))
  OBVIOUS
<1>3. /\ m.params = ps /\ m.got = Received(c, ps)
      /\ c.kind = "cabi" /\ c.ret # NoTy =>
           m.back = applyCABIReturnCoercion(computeSignatureInfo(c).ret, c.ret, Bits(c.ret, 0))
  BY <1>1, <1>2 DEF Lowered
<1>4. CASE c.kind = "closure"
  <2>1. m.got = Given(c.captures, 0) \o Given(c.args, k) /\ [i \in 1 .. Len(m.params) |-> m.params[i].t] = generateWrapperFunction(c)
    BY <1>1, <1>2, <1>3, <1>4, ClosureCall
  <2>2. QED
    BY <1>1, <1>4, <2>1 DEF Arrived
<1>5. CASE c.kind = "function"
  <2>1. k = 0 /\ Given(c.captures, 0) \o Given(c.args, 0) = Given(c.args, 0)
    BY <1>1, <1>5, NoCaptures
  <2>2. Received(c, ps) = Given(c.args, 0)
    BY <1>2, <1>5, <2>1, PlainCall
  <2>3. QED
    BY <1>1, <1>3, <1>5, <2>1, <2>2 DEF Arrived
<1>6. CASE c.kind = "cabi"
  <2>1. k = 0 /\ Given(c.captures, 0) \o Given(c.args, 0) = Given(c.args, 0)
    BY <1>1, <1>6, NoCaptures
  <2>2. ps = prepareCall(c, Given(c.args, 0)) /\ Received(c, ps) = reconstructCABIArguments(c, ps)
    BY <1>2, <1>6, <2>1 DEF CallIndirect, Received
  <2>3. PICK def, sig : def = processCABIFunctionDefinition(c) /\ sig = computeSignatureInfo(c)
    OBVIOUS
  <2>4. /\ reconstructCABIArguments(c, ps) = Given(c.args, 0)
        /\ [i \in 1 .. Len(ps) |-> ps[i].t] = def.params
        /\ \A p \in def.byval \cup def.sret : ps[p[1]].t = PtrTy
        /\ \A p \in def.byval : \E i \in 1 .. Len(c.args) : c.args[i] = p[2] /\ ps[p[1]].to = Given(c.args, 0)[i]
    BY <2>2, <2>3, CABICall
  <2>5. \A i \in 1 .. Len(c.args) : FitsSlot(CoercedType(sig.args[i], c.args[i]), c.args[i])
    BY <2>3, SignatureIs, ClassFits
  <2>6. ASSUME c.ret # NoTy
        PROVE  /\ FitsSlot(CoercedType(sig.ret, c.ret), c.ret)
               /\ (IF def.sret # {} THEN m.back.to ELSE m.back.reg) = Bits(c.ret, 0)
    BY <1>3, <1>6, <2>3, <2>6, CABIResult
  <2>7. QED
    BY <1>1, <1>3, <1>6, <2>1, <2>2, <2>3, <2>4, <2>5, <2>6 DEF Arrived
<1>7. QED
  BY <1>4, <1>5, <1>6, CallAssumption

(* Whatever the calls and whatever the data layout, the callee of a lowered  *)
(* call receives the captures and the arguments the caller passed, through   *)
(* registers, pairs of registers or memory, the two lowered signatures       *)
(* agree, and the caller finds the result.                                   *)
THEOREM ArgumentsArriveHolds == CallSpec => []ArgumentsArrive
<1> DEFINE Inv == call \in Calls /\ ArgumentsArrive
<1>1. CallInit => Inv
  <2> SUFFICES ASSUME CallInit PROVE Inv
    OBVIOUS
  <2>1. call \in Calls /\ met.done = FALSE
    BY DEF CallInit
  <2>2. QED
    BY <2>1 DEF ArgumentsArrive
<1>2. Inv /\ [LowerCall]_callVars => Inv'
  <2> SUFFICES ASSUME Inv, [LowerCall]_callVars PROVE Inv'
    OBVIOUS
  <2>1. CASE LowerCall
    <3>1. call' = call /\ met' = Lowered(call) /\ call \in Calls
      BY <2>1 DEF LowerCall
    <3>2. Arrived(call, met')
      BY <3>1, EveryCallArrives
    <3>3. QED
      BY <3>1, <3>2 DEF ArgumentsArrive
  <2>2. CASE UNCHANGED callVars
    BY <2>2 DEF callVars, ArgumentsArrive
  <2>3. QED
    BY <2>1, <2>2
<1>3. QED
  BY <1>1, <1>2, PTL DEF CallSpec

(* ---------------------------------------------------------------------- *)
(* StructLayouts: the two layouts of a struct                              *)

Multiple(x, a) == \E q \in Nat : x = q * a

LEMMA ProductIs ==
  ASSUME NEW p \in Nat, NEW q \in Nat, NEW a \in Nat
  PROVE  p * q \in Nat /\ p * (q * a) = (p * q) * a
OBVIOUS

LEMMA ProductGrows ==
  ASSUME NEW p \in Nat, NEW q \in Nat, NEW a \in Nat \ {0}, p * a < q * a + a
  PROVE  p <= q
<1>1. SUFFICES ASSUME p >= q + 1 PROVE FALSE
  OBVIOUS
<1>2. p * a >= (q + 1) * a
  BY <1>1
<1>3. (q + 1) * a = q * a + a
  OBVIOUS
<1>4. p * a \in Int /\ q * a \in Int
  OBVIOUS
<1>5. QED
  BY <1>2, <1>3, <1>4

(* AlignTo is the next multiple.                                             *)
LEMMA AlignIs ==
  ASSUME NEW x \in Nat, NEW a \in Nat \ {0}
  PROVE  /\ AlignTo(x, a) \in Nat /\ Multiple(AlignTo(x, a), a)
         /\ x <= AlignTo(x, a) /\ AlignTo(x, a) < x + a
<1>1. PICK y \in Nat : y = x + a - 1
  OBVIOUS
<1>2. PICK q : q = y \div a
  OBVIOUS
<1>3. q \in Nat /\ q * a <= y /\ y < q * a + a
  BY <1>2
<1>4. AlignTo(x, a) = q * a /\ q * a \in Nat
  BY <1>1, <1>2, <1>3 DEF AlignTo
<1>5. QED
  BY <1>1, <1>3, <1>4 DEF Multiple

LEMMA AlignLeast ==
  ASSUME NEW x \in Nat, NEW a \in Nat \ {0}, NEW m \in Nat, Multiple(m, a), x <= m
  PROVE  AlignTo(x, a) <= m
<1>1. PICK p \in Nat : AlignTo(x, a) = p * a
  BY AlignIs DEF Multiple
<1>2. PICK q \in Nat : m = q * a
  BY DEF Multiple
<1>3. p * a < q * a + a
  <2>1. PICK y \in Nat : y = AlignTo(x, a) /\ y < x + a
    BY AlignIs
  <2>2. y < m + a
    BY <2>1
  <2>3. QED
    BY <1>1, <1>2, <2>1, <2>2
<1>4. p <= q
  BY <1>3, ProductGrows
<1>5. p * a <= q * a
  BY <1>4
<1>6. QED
  BY <1>1, <1>2, <1>5

LEMMA AlignStays ==
  ASSUME NEW a \in Nat \ {0}, NEW m \in Nat, Multiple(m, a)
  PROVE  AlignTo(m, a) = m
<1>1. PICK y \in Nat : y = AlignTo(m, a) /\ m <= y
  BY AlignIs
<1>2. y <= m
  BY <1>1, AlignLeast
<1>3. QED
  BY <1>1, <1>2

LEMMA MultipleOf ==
  ASSUME NEW a \in Nat \ {0}, NEW b \in Nat \ {0}, Multiple(b, a), NEW m \in Nat, Multiple(m, b)
  PROVE  Multiple(m, a)
<1>1. PICK p \in Nat : m = p * b
  BY DEF Multiple
<1>2. PICK q \in Nat : b = q * a
  BY DEF Multiple
<1>3. m = (p * q) * a /\ p * q \in Nat
  BY <1>1, <1>2, ProductIs
<1>4. QED
  BY <1>3 DEF Multiple

(* Aligned to a stricter alignment, and to one after the other.              *)
LEMMA AlignStricter ==
  ASSUME NEW x \in Nat, NEW a \in Nat \ {0}, NEW b \in Nat \ {0}, Multiple(b, a)
  PROVE  /\ AlignTo(x, a) <= AlignTo(x, b)
         /\ AlignTo(AlignTo(x, b), a) = AlignTo(x, b)
         /\ AlignTo(AlignTo(x, a), b) = AlignTo(x, b)
<1>1. PICK u \in Nat, v \in Nat : u = AlignTo(x, a) /\ v = AlignTo(x, b)
  BY AlignIs
<1>2. Multiple(v, b) /\ x <= u /\ x <= v /\ Multiple(v, a)
  BY <1>1, AlignIs, MultipleOf
<1>3. u <= v
  BY <1>1, <1>2, AlignLeast
<1>4. AlignTo(v, a) = v
  BY <1>2, AlignStays
<1>5. PICK w \in Nat : w = AlignTo(u, b)
  BY AlignIs
<1>6. w <= v
  BY <1>2, <1>3, <1>5, AlignLeast
<1>7. u <= w /\ Multiple(w, b)
  BY <1>5, AlignIs
<1>8. v <= w
  <2>1. x <= w
    BY <1>2, <1>7
  <2>2. QED
    BY <1>1, <1>7, <2>1, AlignLeast
<1>9. QED
  BY <1>1, <1>3, <1>4, <1>5, <1>6, <1>8

(* A padding field is aligned everywhere and as long as it says.             *)
LEMMA PaddingIs ==
  ASSUME NEW n \in Nat
  PROVE  Padding(n).l.align = 1 /\ AllocBytes(Padding(n).l) = n
<1>1. ScalarAlign(8) = 1
  <2>1. (8 + 7) \div 8 = 1
    OBVIOUS
  <2>2. (CHOOSE q \in {1, 2, 4, 8, 16, 32} : q >= 1 /\ \A r \in {1, 2, 4, 8, 16, 32} : r >= 1 => q <= r) = 1
    OBVIOUS
  <2>3. QED
    BY <2>1, <2>2, DataLayoutAssumption DEF ScalarAlign, MinOf
<1>2. PICK l : l = LayoutFrom(IntTy(8), <<>>)
  OBVIOUS
<1>3. l = LayoutOf(8, 1, IntTy(8), <<>>)
  BY <1>1, <1>2 DEF LayoutFrom, IntTy, Ty
<1>4. StoreBytes(l) = 1
  BY <1>3 DEF StoreBytes, LayoutOf
<1>5. Padding(n).l = [l EXCEPT !.bits = n * 1 * 8, !.at = <<>>]
  BY <1>2, <1>4 DEF Padding, Field, LayoutFrom, ArrTy, IntTy, Ty
<1>6. Padding(n).l.align = 1 /\ Padding(n).l.bits = n * 8
  BY <1>3, <1>5 DEF LayoutOf
<1>7. (n * 8 + 7) \div 8 = n
  OBVIOUS
<1>8. AlignTo(n, 1) = n
  <2>1. Multiple(n, 1)
    BY DEF Multiple
  <2>2. QED
    BY <2>1, AlignStays
<1>9. QED
  BY <1>6, <1>7, <1>8 DEF AllocBytes, StoreBytes

(* The walk over the fields: each state of it.                               *)
Slots(U) == \A m \in U : m.align \in Nat \ {0} /\ m.size \in Nat
Walks(U) == [at : Seq(Nat), end : Nat, a : Nat \ {0}, t : {NoTy} \cup {m.t : m \in U}]
WalksOver(n, U, ms, F) ==
  /\ F \in [0 .. n -> Walks(U)] /\ F[0] = NoFields
  /\ \A i \in 1 .. n : F[i] = AddField(F[i - 1], ms[i])

LEMMA AddFieldType ==
  ASSUME NEW U, Slots(U), NEW w \in Walks(U), NEW m \in U
  PROVE  AddField(w, m) \in Walks(U)
<1>1. m.align \in Nat \ {0} /\ m.size \in Nat
  BY DEF Slots
<1>2. w.at \in Seq(Nat) /\ w.end \in Nat /\ w.a \in Nat \ {0} /\ w.t \in {NoTy} \cup {x.t : x \in U}
  BY DEF Walks
<1>3. PICK y \in Nat : y = AlignTo(w.end, m.align)
  BY <1>1, <1>2, AlignIs
<1>4. PICK r : r = AddField(w, m)
  OBVIOUS
<1>5. r = [at |-> Append(w.at, y), end |-> y + m.size, a |-> MaxOf(w.a, m.align), t |-> IF m.align >= w.a THEN m.t ELSE w.t]
  BY <1>3, <1>4 DEF AddField
<1>6. Append(w.at, y) \in Seq(Nat) /\ y + m.size \in Nat /\ MaxOf(w.a, m.align) \in Nat \ {0}
  BY <1>1, <1>2 DEF MaxOf
<1>7. (IF m.align >= w.a THEN m.t ELSE w.t) \in {NoTy} \cup {x.t : x \in U}
  BY <1>2
<1>8. r \in Walks(U)
  BY <1>5, <1>6, <1>7 DEF Walks
<1>9. QED
  BY <1>4, <1>8

LEMMA InOrderWalk ==
  ASSUME NEW U, Slots(U), NEW ms \in Seq(U), NEW n, n = Len(ms)
  PROVE  \E F : WalksOver(n, U, ms, F) /\ InOrder(ms) = F[n]
<1>1. n \in Nat /\ \A i \in 1 .. n : ms[i] \in U
  OBVIOUS
<1>2. PICK S, z : S = Walks(U) /\ z = NoFields
  OBVIOUS
<1>3. z \in S
  BY <1>2 DEF NoFields, Walks
<1>4. PICK R : R = [i \in 1 .. n |-> [w \in S |-> AddField(w, ms[i])]]
  OBVIOUS
<1>5. StaysIn(n, S, z, R)
  <2>1. \A i \in 1 .. n : \A w \in S : AddField(w, ms[i]) \in S
    BY <1>1, <1>2, AddFieldType
  <2>2. R \in [1 .. n -> [S -> S]]
    BY <1>4, <2>1
  <2>3. QED
    BY <1>3, <2>2 DEF StaysIn
<1>6. PICK F \in [0 .. n -> S] : F[0] = z /\ \A i \in 1 .. n : F[i] = R[i][F[i - 1]]
  <2>1. GoesThrough(n, S, z, R)
    BY <1>1, <1>5, StepsIterate
  <2>2. QED
    BY <2>1 DEF GoesThrough
<1>7. ASSUME NEW i \in 1 .. n PROVE F[i] = AddField(F[i - 1], ms[i])
  <2>1. F[i - 1] \in S
    BY <1>1, <1>6
  <2>2. QED
    BY <1>4, <1>6, <2>1
<1>8. F = [i \in 0 .. n |-> IF i = 0 THEN z ELSE AddField(F[i - 1], ms[i])]
  <2>1. ASSUME NEW i \in 0 .. n PROVE F[i] = IF i = 0 THEN z ELSE AddField(F[i - 1], ms[i])
    <3>1. i = 0 \/ i \in 1 .. n
      BY <1>1
    <3>2. QED
      BY <1>6, <1>7, <3>1
  <2>2. QED
    BY <1>6, <2>1
<1> DEFINE upto[i \in 0 .. n] == IF i = 0 THEN z ELSE AddField(upto[i - 1], ms[i])
<1>9. upto = [i \in 0 .. n |-> IF i = 0 THEN z ELSE AddField(upto[i - 1], ms[i])]
  BY <1>8
<1>10. InOrder(ms) = upto[n]
  BY <1>2 DEF InOrder
<1> HIDE DEF upto
<1>11. upto[n] = F[n]
  <2> DEFINE T == {m \in Nat : m <= n => upto[m] = F[m]}
  <2>1. 0 \in T
    BY <1>1, <1>6, <1>9
  <2>2. ASSUME NEW m \in T PROVE m + 1 \in T
    <3>1. m \in Nat /\ m + 1 \in Nat /\ (m + 1 <= n => m + 1 \in 1 .. n /\ m + 1 # 0 /\ m + 1 \in 0 .. n /\ (m + 1) - 1 = m /\ m <= n)
      BY <1>1
    <3>2. ASSUME m + 1 <= n PROVE upto[m + 1] = F[m + 1]
      <4>1. upto[m] = F[m]
        BY <3>1, <3>2
      <4>2. upto[m + 1] = AddField(upto[m], ms[m + 1])
        BY <1>9, <3>1, <3>2
      <4>3. F[m + 1] = AddField(F[m], ms[m + 1])
        BY <1>7, <3>1, <3>2
      <4>4. QED
        BY <4>1, <4>2, <4>3
    <3>3. QED
      BY <3>1, <3>2
  <2>3. T = Nat
    <3> HIDE DEF T
    <3>1. T \in SUBSET Nat
      BY DEF T
    <3>2. QED
      BY <2>1, <2>2, <3>1, Inductive
  <2>4. QED
    BY <1>1, <2>3
<1>12. WalksOver(n, U, ms, F) /\ InOrder(ms) = F[n]
  BY <1>2, <1>6, <1>7, <1>10, <1>11 DEF WalksOver
<1>13. QED
  BY <1>12

(* One field more.                                                           *)
LEMMA InOrderAppend ==
  ASSUME NEW U, Slots(U), NEW ms \in Seq(U), NEW m \in U
  PROVE  InOrder(ms) \in Walks(U) /\ InOrder(Append(ms, m)) = AddField(InOrder(ms), m)
<1>1. PICK n \in Nat, ns \in Seq(U) : n = Len(ms) /\ ns = Append(ms, m)
  <2>1. Len(ms) \in Nat /\ Append(ms, m) \in Seq(U)
    OBVIOUS
  <2>2. QED
    BY <2>1
<1>2. Len(ns) = n + 1 /\ ns[n + 1] = m /\ \A i \in 1 .. n : ns[i] = ms[i]
  BY <1>1
<1>3. PICK F : WalksOver(n, U, ms, F) /\ InOrder(ms) = F[n]
  BY <1>1, InOrderWalk
<1>4. PICK G : WalksOver(n + 1, U, ns, G) /\ InOrder(ns) = G[n + 1]
  BY <1>2, InOrderWalk
<1>5. F[0] = NoFields /\ G[0] = NoFields /\ F[n] \in Walks(U)
  BY <1>3, <1>4 DEF WalksOver
<1>6. ASSUME NEW i \in 1 .. n PROVE F[i] = AddField(F[i - 1], ms[i]) /\ G[i] = AddField(G[i - 1], ms[i])
  <2>1. i \in 1 .. (n + 1)
    OBVIOUS
  <2>2. QED
    BY <1>2, <1>3, <1>4, <2>1 DEF WalksOver
<1>7. G[n] = F[n]
  <2> DEFINE T == {k \in Nat : k <= n => G[k] = F[k]}
  <2>1. 0 \in T
    BY <1>5
  <2>2. ASSUME NEW k \in T PROVE k + 1 \in T
    <3>1. k \in Nat /\ k + 1 \in Nat /\ (k + 1 <= n => k + 1 \in 1 .. n /\ (k + 1) - 1 = k /\ k <= n)
      OBVIOUS
    <3>2. ASSUME k + 1 <= n PROVE G[k + 1] = F[k + 1]
      <4>1. G[k] = F[k]
        BY <3>1, <3>2
      <4>2. F[k + 1] = AddField(F[k], ms[k + 1]) /\ G[k + 1] = AddField(G[k], ms[k + 1])
        BY <1>6, <3>1, <3>2
      <4>3. QED
        BY <4>1, <4>2
    <3>3. QED
      BY <3>1, <3>2
  <2>3. T = Nat
    <3> HIDE DEF T
    <3>1. T \in SUBSET Nat
      BY DEF T
    <3>2. QED
      BY <2>1, <2>2, <3>1, Inductive
  <2>4. QED
    BY <2>3
<1>8. G[n + 1] = AddField(G[n], m)
  <2>1. n + 1 \in 1 .. (n + 1) /\ (n + 1) - 1 = n
    OBVIOUS
  <2>2. QED
    BY <1>2, <1>4, <2>1 DEF WalksOver
<1>9. QED
  BY <1>1, <1>3, <1>4, <1>5, <1>7, <1>8

(* Alignments are powers of two: of two of them the larger is a multiple of  *)
(* the smaller.                                                              *)
Alignments(A) == A \subseteq Nat \ {0} /\ 1 \in A /\ \A a, b \in A : a <= b => Multiple(b, a)

(* Fields that fit.                                                          *)
AllFit(Fs, A) == \A f \in Fs : FieldFits(f, A)

(* The fields that the LLVM struct can have.                                 *)
LLVMFields(Fs) == {Field(f.t, f.l) : f \in Fs} \cup {Padding(n) : n \in Nat}
SlotsOf(es) == [i \in 1 .. Len(es) |-> Slot(es[i].l)]
LLVMSlots(Fs) == {Slot(v.l) : v \in LLVMFields(Fs)}

LEMMA LLVMFieldIs ==
  ASSUME NEW A, Alignments(A), NEW Fs, AllFit(Fs, A), NEW v \in LLVMFields(Fs)
  PROVE  v.l.align \in A /\ v.l.align \in Nat \ {0} /\ AllocBytes(v.l) \in Nat
<1>1. CASE v \in {Field(f.t, f.l) : f \in Fs}
  <2>1. PICK f \in Fs : v = Field(f.t, f.l)
    BY <1>1
  <2>2. v.l = f.l
    BY <2>1 DEF Field
  <2>3. QED
    BY <2>2 DEF AllFit, FieldFits, Alignments
<1>2. CASE v \in {Padding(n) : n \in Nat}
  <2>1. PICK n \in Nat : v = Padding(n)
    BY <1>2
  <2>2. QED
    BY <2>1, PaddingIs DEF Alignments
<1>3. QED
  BY <1>1, <1>2 DEF LLVMFields

LEMMA LLVMSlotsAre ==
  ASSUME NEW A, Alignments(A), NEW Fs, AllFit(Fs, A)
  PROVE  Slots(LLVMSlots(Fs))
<1>1. ASSUME NEW m \in LLVMSlots(Fs) PROVE m.align \in Nat \ {0} /\ m.size \in Nat
  <2>1. PICK v \in LLVMFields(Fs) : m = Slot(v.l)
    BY DEF LLVMSlots
  <2>2. m.align = v.l.align /\ m.size = AllocBytes(v.l)
    BY <2>1 DEF Slot
  <2>3. QED
    BY <2>2, LLVMFieldIs
<1>2. QED
  BY <1>1 DEF Slots

(* A field pushed onto the LLVM struct.                                      *)
Pushed(w, v, w2) ==
  \E y \in Nat : /\ y = AlignTo(w.end, v.l.align)
                 /\ w2.at = Append(w.at, y) /\ w2.end = y + AllocBytes(v.l) /\ w2.a = MaxOf(w.a, v.l.align)
LEMMA PushIs ==
  ASSUME NEW A, Alignments(A), NEW Fs, AllFit(Fs, A), NEW es \in Seq(LLVMFields(Fs)), NEW v \in LLVMFields(Fs)
  PROVE  /\ InOrder(SlotsOf(es)) \in Walks(LLVMSlots(Fs))
         /\ Append(es, v) \in Seq(LLVMFields(Fs))
         /\ Pushed(InOrder(SlotsOf(es)), v, InOrder(SlotsOf(Append(es, v))))
<1>1. PICK V, U : V = LLVMFields(Fs) /\ U = LLVMSlots(Fs)
  OBVIOUS
<1>2. Slots(U) /\ es \in Seq(V) /\ v \in V /\ \A x \in V : Slot(x.l) \in U
  BY <1>1, LLVMSlotsAre DEF LLVMSlots
<1>3. PICK ms, m : ms = SlotsOf(es) /\ m = Slot(v.l)
  OBVIOUS
<1>4. ms \in Seq(U) /\ m \in U
  <2>1. \A i \in 1 .. Len(es) : Slot(es[i].l) \in U
    BY <1>2
  <2>2. PICK n \in Nat : n = Len(es)
    BY <1>2
  <2>3. ms \in [1 .. n -> U]
    BY <1>3, <2>1, <2>2 DEF SlotsOf
  <2>4. QED
    BY <1>2, <1>3, <2>3
<1>5. SlotsOf(Append(es, v)) = Append(ms, m)
  <2>1. PICK n \in Nat : n = Len(es)
    BY <1>2
  <2>2. PICK xs : xs = Append(es, v)
    OBVIOUS
  <2>3. Len(xs) = n + 1 /\ xs[n + 1] = v /\ \A i \in 1 .. n : xs[i] = es[i]
    BY <1>2, <2>1, <2>2
  <2>4. PICK ys : ys = Append(ms, m)
    OBVIOUS
  <2>5. ms = [i \in 1 .. n |-> Slot(es[i].l)] /\ Len(ms) = n
    BY <1>3, <2>1 DEF SlotsOf
  <2>6. ys \in Seq(U) /\ Len(ys) = n + 1 /\ ys[n + 1] = m /\ \A i \in 1 .. n : ys[i] = ms[i]
    BY <1>4, <2>4, <2>5
  <2>7. ys = [i \in 1 .. (n + 1) |-> ys[i]]
    BY <2>6
  <2>8. ASSUME NEW i \in 1 .. (n + 1) PROVE ys[i] = Slot(xs[i].l)
    <3>1. i = n + 1 \/ i \in 1 .. n
      OBVIOUS
    <3>2. QED
      BY <1>3, <2>3, <2>5, <2>6, <3>1
  <2>9. SlotsOf(xs) = [i \in 1 .. (n + 1) |-> Slot(xs[i].l)]
    BY <2>3 DEF SlotsOf
  <2>10. QED
    BY <2>2, <2>4, <2>7, <2>8, <2>9
<1>6. PICK w, w2 : w = InOrder(ms) /\ w2 = InOrder(Append(ms, m))
  OBVIOUS
<1>7. w \in Walks(U) /\ w2 = AddField(w, m)
  BY <1>2, <1>4, <1>6, InOrderAppend
<1>8. w.end \in Nat /\ v.l.align \in Nat \ {0}
  BY <1>7, LLVMFieldIs DEF Walks
<1>9. PICK y \in Nat : y = AlignTo(w.end, v.l.align)
  BY <1>8, AlignIs
<1>10. m.align = v.l.align /\ m.size = AllocBytes(v.l)
  BY <1>3 DEF Slot
<1>11. w2.at = Append(w.at, y) /\ w2.end = y + AllocBytes(v.l) /\ w2.a = MaxOf(w.a, v.l.align)
  BY <1>7, <1>9, <1>10 DEF AddField
<1>12. Pushed(w, v, w2)
  BY <1>9, <1>11 DEF Pushed
<1>13. Append(es, v) \in Seq(V)
  BY <1>2
<1>14. QED
  BY <1>1, <1>3, <1>5, <1>6, <1>7, <1>12, <1>13

(* The conversion's loop over the fields: each state of it.                  *)
TypeStates(Fs) == [es : Seq(LLVMFields(Fs)), idx : Seq(Nat), offset : Nat]
BeforeField(s, f, ko, es) ==
  /\ ko = AlignTo(s.offset, f.k.align) /\ ko >= s.offset
  /\ es = IF ko > AlignTo(s.offset, f.l.align) THEN Append(s.es, Padding(ko - s.offset)) ELSE s.es
  /\ AddType(s, f) = [es |-> Append(es, Field(f.t, f.l)), idx |-> Append(s.idx, Len(es) + 1), offset |-> ko + f.k.alloc]
LEMMA AddTypeIs ==
  ASSUME NEW A, Alignments(A), NEW Fs, AllFit(Fs, A), NEW s \in TypeStates(Fs), NEW f \in Fs
  PROVE  /\ AddType(s, f) \in TypeStates(Fs)
         /\ \E ko \in Nat, es \in Seq(LLVMFields(Fs)) : BeforeField(s, f, ko, es)
<1>1. f.k.align \in Nat \ {0} /\ f.k.alloc \in Nat
  BY DEF AllFit, FieldFits, Alignments
<1>2. s.es \in Seq(LLVMFields(Fs)) /\ s.idx \in Seq(Nat) /\ s.offset \in Nat
  BY DEF TypeStates
<1>3. PICK ko \in Nat : ko = AlignTo(s.offset, f.k.align) /\ ko >= s.offset
  BY <1>1, <1>2, AlignIs
<1>4. ko - s.offset \in Nat
  BY <1>2, <1>3
<1>5. PICK V, v, d : V = LLVMFields(Fs) /\ v = Field(f.t, f.l) /\ d = Padding(ko - s.offset)
  OBVIOUS
<1>6. v \in V /\ d \in V /\ s.es \in Seq(V)
  BY <1>2, <1>4, <1>5 DEF LLVMFields
<1>7. PICK es : es = IF ko > AlignTo(s.offset, f.l.align) THEN Append(s.es, d) ELSE s.es
  OBVIOUS
<1>8. es \in Seq(V)
  <2>1. Append(s.es, d) \in Seq(V)
    BY <1>6
  <2>2. QED
    BY <1>6, <1>7, <2>1
<1>9. AddType(s, f) = [es |-> Append(es, v), idx |-> Append(s.idx, Len(es) + 1), offset |-> ko + f.k.alloc]
  BY <1>3, <1>5, <1>7 DEF AddType
<1>10. Append(es, v) \in Seq(V) /\ Append(s.idx, Len(es) + 1) \in Seq(Nat) /\ ko + f.k.alloc \in Nat
  <2>1. Len(es) + 1 \in Nat
    BY <1>8
  <2>2. QED
    BY <1>1, <1>2, <1>6, <1>8, <2>1
<1>11. AddType(s, f) \in TypeStates(Fs)
  BY <1>5, <1>9, <1>10 DEF TypeStates
<1>12. BeforeField(s, f, ko, es)
  BY <1>3, <1>5, <1>7, <1>9 DEF BeforeField
<1>13. QED
  BY <1>5, <1>8, <1>11, <1>12

TypesOver(n, Fs, fs, F) ==
  /\ F \in [0 .. n -> TypeStates(Fs)] /\ F[0] = NoTypes
  /\ \A i \in 1 .. n : F[i] = AddType(F[i - 1], fs[i])
LEMMA StructFieldsWalk ==
  ASSUME NEW A, Alignments(A), NEW Fs, AllFit(Fs, A), NEW fs \in Seq(Fs), NEW n, n = Len(fs)
  PROVE  \E F : TypesOver(n, Fs, fs, F) /\ StructFields(fs) = F[n]
<1>1. n \in Nat /\ \A i \in 1 .. n : fs[i] \in Fs
  OBVIOUS
<1>2. PICK S, z : S = TypeStates(Fs) /\ z = NoTypes
  OBVIOUS
<1>3. z \in S
  BY <1>2 DEF NoTypes, TypeStates
<1>4. PICK R : R = [i \in 1 .. n |-> [w \in S |-> AddType(w, fs[i])]]
  OBVIOUS
<1>5. StaysIn(n, S, z, R)
  <2>1. \A i \in 1 .. n : \A w \in S : AddType(w, fs[i]) \in S
    BY <1>1, <1>2, AddTypeIs
  <2>2. R \in [1 .. n -> [S -> S]]
    BY <1>4, <2>1
  <2>3. QED
    BY <1>3, <2>2 DEF StaysIn
<1>6. PICK F \in [0 .. n -> S] : F[0] = z /\ \A i \in 1 .. n : F[i] = R[i][F[i - 1]]
  <2>1. GoesThrough(n, S, z, R)
    BY <1>1, <1>5, StepsIterate
  <2>2. QED
    BY <2>1 DEF GoesThrough
<1>7. ASSUME NEW i \in 1 .. n PROVE F[i] = AddType(F[i - 1], fs[i])
  <2>1. F[i - 1] \in S
    BY <1>1, <1>6
  <2>2. QED
    BY <1>4, <1>6, <2>1
<1>8. F = [i \in 0 .. n |-> IF i = 0 THEN z ELSE AddType(F[i - 1], fs[i])]
  <2>1. ASSUME NEW i \in 0 .. n PROVE F[i] = IF i = 0 THEN z ELSE AddType(F[i - 1], fs[i])
    <3>1. i = 0 \/ i \in 1 .. n
      BY <1>1
    <3>2. QED
      BY <1>6, <1>7, <3>1
  <2>2. QED
    BY <1>6, <2>1
<1> DEFINE upto[i \in 0 .. n] == IF i = 0 THEN z ELSE AddType(upto[i - 1], fs[i])
<1>9. upto = [i \in 0 .. n |-> IF i = 0 THEN z ELSE AddType(upto[i - 1], fs[i])]
  BY <1>8
<1>10. StructFields(fs) = upto[n]
  BY <1>2 DEF StructFields
<1> HIDE DEF upto
<1>11. upto[n] = F[n]
  <2> DEFINE T == {m \in Nat : m <= n => upto[m] = F[m]}
  <2>1. 0 \in T
    BY <1>1, <1>6, <1>9
  <2>2. ASSUME NEW m \in T PROVE m + 1 \in T
    <3>1. m \in Nat /\ m + 1 \in Nat /\ (m + 1 <= n => m + 1 \in 1 .. n /\ m + 1 # 0 /\ m + 1 \in 0 .. n /\ (m + 1) - 1 = m /\ m <= n)
      BY <1>1
    <3>2. ASSUME m + 1 <= n PROVE upto[m + 1] = F[m + 1]
      <4>1. upto[m] = F[m]
        BY <3>1, <3>2
      <4>2. upto[m + 1] = AddType(upto[m], fs[m + 1])
        BY <1>9, <3>1, <3>2
      <4>3. F[m + 1] = AddType(F[m], fs[m + 1])
        BY <1>7, <3>1, <3>2
      <4>4. QED
        BY <4>1, <4>2, <4>3
    <3>3. QED
      BY <3>1, <3>2
  <2>3. T = Nat
    <3> HIDE DEF T
    <3>1. T \in SUBSET Nat
      BY DEF T
    <3>2. QED
      BY <2>1, <2>2, <3>1, Inductive
  <2>4. QED
    BY <1>1, <2>3
<1>12. TypesOver(n, Fs, fs, F) /\ StructFields(fs) = F[n]
  BY <1>2, <1>6, <1>7, <1>10, <1>11 DEF TypesOver
<1>13. QED
  BY <1>12

(* The two layouts side by side after m fields: w is LLVM's layout of the    *)
(* fields so far, k KGEN's, s the state of the conversion.                   *)
InStep(m, fs, A, align, s, w, k) ==
  /\ s.offset = k.end /\ w.end = k.end
  /\ Len(w.at) = Len(s.es) /\ Len(s.idx) = m /\ Len(k.at) = m
  /\ \A i \in 1 .. m : /\ s.idx[i] \in 1 .. Len(s.es)
                       /\ s.es[s.idx[i]] = Field(fs[i].t, fs[i].l) /\ w.at[s.idx[i]] = k.at[i]
  /\ w.a \in A /\ w.a <= align

(* After the padding LLVM puts the field where KGEN does.                    *)
Ready(A, align, s, w, f, ko, es, u) ==
  /\ AlignTo(u.end, f.l.align) = ko /\ Len(u.at) = Len(es) /\ Len(es) >= Len(s.es)
  /\ \A i \in 1 .. Len(s.es) : es[i] = s.es[i] /\ u.at[i] = w.at[i]
  /\ u.a \in A /\ u.a <= align
LEMMA PaddedReady ==
  ASSUME NEW A, Alignments(A), NEW Fs, AllFit(Fs, A), NEW s \in TypeStates(Fs), NEW f \in Fs,
         NEW m, NEW fs, NEW align \in A, NEW w, w = InOrder(SlotsOf(s.es)), NEW k, InStep(m, fs, A, align, s, w, k),
         NEW ko \in Nat, NEW es \in Seq(LLVMFields(Fs)), BeforeField(s, f, ko, es),
         NEW u, u = InOrder(SlotsOf(es))
  PROVE  Ready(A, align, s, w, f, ko, es, u)
<1>1. /\ f.l.align \in Nat \ {0} /\ f.k.align \in Nat \ {0} /\ Multiple(f.k.align, f.l.align)
      /\ align \in Nat /\ 1 \in A /\ \A a \in A : a >= 1 /\ a \in Nat
  BY DEF AllFit, FieldFits, Alignments
<1>2. PICK x \in Nat : x = s.offset
  BY DEF TypeStates
<1>3. s.es \in Seq(LLVMFields(Fs)) /\ w.end = x /\ Len(w.at) = Len(s.es) /\ w.a \in A /\ w.a <= align
  BY <1>2 DEF TypeStates, InStep
<1>4. AlignTo(x, f.l.align) <= ko /\ AlignTo(ko, f.l.align) = ko /\ ko >= x
  BY <1>1, <1>2, AlignStricter DEF BeforeField
<1>5. PICK lo \in Nat : lo = AlignTo(x, f.l.align)
  BY <1>1, AlignIs
<1>6. CASE ko > lo
  <2>1. PICK d : d = Padding(ko - x)
    OBVIOUS
  <2>2. es = Append(s.es, d)
    BY <1>2, <1>5, <1>6, <2>1 DEF BeforeField
  <2>3. ko - x \in Nat
    BY <1>4
  <2>4. d \in LLVMFields(Fs)
    BY <2>1, <2>3 DEF LLVMFields
  <2>5. d.l.align = 1 /\ AllocBytes(d.l) = ko - x
    BY <2>1, <2>3, PaddingIs
  <2>6. Pushed(w, d, u) /\ w \in Walks(LLVMSlots(Fs))
    BY <1>3, <2>2, <2>4, PushIs
  <2>7. AlignTo(x, 1) = x
    <3>1. Multiple(x, 1)
      BY DEF Multiple
    <3>2. QED
      BY <3>1, AlignStays
  <2>8. u.at = Append(w.at, x) /\ u.end = x + (ko - x) /\ u.a = MaxOf(w.a, 1)
    BY <1>3, <2>5, <2>6, <2>7 DEF Pushed
  <2>9. u.end = ko /\ u.a = w.a
    BY <1>1, <1>3, <2>8 DEF MaxOf
  <2>10. w.at \in Seq(Nat)
    BY <2>6 DEF Walks
  <2>11. PICK n \in Nat : n = Len(s.es) /\ n = Len(w.at)
    BY <1>3, <2>10
  <2>12. Len(es) = n + 1 /\ \A i \in 1 .. n : es[i] = s.es[i]
    BY <1>3, <2>2, <2>4, <2>11
  <2>13. Len(u.at) = n + 1 /\ \A i \in 1 .. n : u.at[i] = w.at[i]
    BY <2>8, <2>10, <2>11
  <2>14. QED
    BY <1>3, <1>4, <2>9, <2>11, <2>12, <2>13 DEF Ready
<1>7. CASE ~(ko > lo)
  <2>1. es = s.es /\ u = w
    BY <1>2, <1>5, <1>7 DEF BeforeField
  <2>2. lo = ko
    BY <1>4, <1>5, <1>7
  <2>3. Len(s.es) \in Nat
    BY <1>3
  <2>4. AlignTo(u.end, f.l.align) = ko
    BY <1>3, <1>5, <2>1, <2>2
  <2>5. Len(u.at) = Len(es) /\ Len(es) >= Len(s.es)
    BY <1>3, <2>1, <2>3
  <2>6. \A i \in 1 .. Len(s.es) : es[i] = s.es[i] /\ u.at[i] = w.at[i]
    BY <2>1
  <2>7. u.a \in A /\ u.a <= align
    BY <1>3, <2>1
  <2>8. QED
    BY <2>4, <2>5, <2>6, <2>7 DEF Ready
<1>8. QED
  BY <1>6, <1>7

LEMMA InStepKept ==
  ASSUME NEW A, Alignments(A), NEW Fs, AllFit(Fs, A), NEW s \in TypeStates(Fs), NEW f \in Fs, NEW align \in A, f.k.align <= align,
         NEW m \in Nat, NEW fs, fs[m + 1] = f,
         NEW w, w = InOrder(SlotsOf(s.es)), NEW k, k.end \in Nat, k.at \in Seq(Nat), InStep(m, fs, A, align, s, w, k),
         NEW s2, s2 = AddType(s, f), NEW w2, w2 = InOrder(SlotsOf(s2.es)), NEW k2, k2 = AddField(k, KSlot(f.k))
  PROVE  InStep(m + 1, fs, A, align, s2, w2, k2)
<1>1. PICK ko \in Nat, es \in Seq(LLVMFields(Fs)) : BeforeField(s, f, ko, es)
  BY AddTypeIs
<1>2. PICK u : u = InOrder(SlotsOf(es))
  OBVIOUS
<1>3. Ready(A, align, s, w, f, ko, es, u)
  BY <1>1, <1>2, PaddedReady
<1>4. PICK v : v = Field(f.t, f.l)
  OBVIOUS
<1>5. v \in LLVMFields(Fs) /\ v.l = f.l
  BY <1>4 DEF LLVMFields, Field
<1>6. s2.es = Append(es, v) /\ s2.idx = Append(s.idx, Len(es) + 1) /\ s2.offset = ko + f.k.alloc
  BY <1>1, <1>4 DEF BeforeField
<1>7. Pushed(u, v, w2) /\ u \in Walks(LLVMSlots(Fs))
  BY <1>2, <1>5, <1>6, PushIs
<1>8. /\ f.l.align \in A /\ f.l.align \in Nat /\ f.k.align \in Nat /\ f.l.align <= f.k.align /\ align \in Nat
      /\ f.k.alloc \in Nat /\ AllocBytes(f.l) = f.k.alloc
  BY DEF AllFit, FieldFits, Alignments
<1>9. w2.at = Append(u.at, ko) /\ w2.end = ko + f.k.alloc /\ w2.a = MaxOf(u.a, f.l.align)
  BY <1>3, <1>5, <1>7, <1>8 DEF Pushed, Ready
<1>10. k2.at = Append(k.at, ko) /\ k2.end = ko + f.k.alloc
  <2>1. ko = AlignTo(k.end, f.k.align)
    BY <1>1 DEF BeforeField, InStep
  <2>2. QED
    BY <2>1 DEF AddField, KSlot
<1>11. u.at \in Seq(Nat) /\ s.idx \in Seq(Nat) /\ s.es \in Seq(LLVMFields(Fs))
  BY <1>7 DEF Walks, TypeStates
<1>12. PICK p \in Nat, q \in Nat : p = Len(es) /\ q = Len(s.es)
  <2>1. Len(es) \in Nat
    BY <1>1
  <2>2. Len(s.es) \in Nat
    BY <1>11
  <2>3. QED
    BY <2>1, <2>2
<1>13. Len(u.at) = p /\ q <= p /\ \A i \in 1 .. q : es[i] = s.es[i] /\ u.at[i] = w.at[i]
  BY <1>3, <1>12 DEF Ready
<1>14. /\ Len(s2.es) = p + 1 /\ s2.es[p + 1] = v /\ \A i \in 1 .. p : s2.es[i] = es[i]
  BY <1>1, <1>5, <1>6, <1>12
<1>15. Len(w2.at) = p + 1 /\ w2.at[p + 1] = ko /\ \A i \in 1 .. p : w2.at[i] = u.at[i]
  BY <1>9, <1>11, <1>13
<1>16. Len(s.idx) = m /\ Len(k.at) = m
  BY DEF InStep
<1>17. Len(s2.idx) = m + 1 /\ s2.idx[m + 1] = p + 1 /\ \A i \in 1 .. m : s2.idx[i] = s.idx[i]
  BY <1>6, <1>11, <1>12, <1>16
<1>18. Len(k2.at) = m + 1 /\ k2.at[m + 1] = ko /\ \A i \in 1 .. m : k2.at[i] = k.at[i]
  BY <1>10, <1>16
<1>19. ASSUME NEW i \in 1 .. (m + 1)
       PROVE  /\ s2.idx[i] \in 1 .. Len(s2.es)
              /\ s2.es[s2.idx[i]] = Field(fs[i].t, fs[i].l) /\ w2.at[s2.idx[i]] = k2.at[i]
  <2>1. CASE i = m + 1
    BY <1>4, <1>14, <1>15, <1>17, <1>18, <2>1
  <2>2. CASE i \in 1 .. m
    <3>1. PICK j : j = s.idx[i]
      OBVIOUS
    <3>2. j \in 1 .. q /\ s.es[j] = Field(fs[i].t, fs[i].l) /\ w.at[j] = k.at[i]
      BY <1>12, <2>2, <3>1 DEF InStep
    <3>3. j \in 1 .. p /\ j \in 1 .. (p + 1)
      BY <1>13, <3>2
    <3>4. s2.es[j] = s.es[j] /\ w2.at[j] = w.at[j]
      BY <1>13, <1>14, <1>15, <3>2, <3>3
    <3>5. s2.idx[i] = j /\ k2.at[i] = k.at[i]
      BY <1>17, <1>18, <2>2, <3>1
    <3>6. QED
      BY <1>14, <3>2, <3>3, <3>4, <3>5
  <2>3. QED
    BY <2>1, <2>2
<1>20. w2.a \in A /\ w2.a <= align
  <2>1. u.a \in A /\ u.a <= align
    BY <1>3 DEF Ready
  <2>2. QED
    BY <1>8, <1>9, <2>1 DEF MaxOf
<1>21. QED
  BY <1>6, <1>9, <1>10, <1>14, <1>15, <1>17, <1>18, <1>19, <1>20 DEF InStep

(* KGEN's slots of the fields.                                               *)
KSlotsOf(fs) == [i \in 1 .. Len(fs) |-> KSlot(fs[i].k)]
KSlots(Fs) == {KSlot(f.k) : f \in Fs}
LEMMA KSlotsAre ==
  ASSUME NEW A, Alignments(A), NEW Fs, AllFit(Fs, A), NEW fs \in Seq(Fs)
  PROVE  Slots(KSlots(Fs)) /\ KSlotsOf(fs) \in Seq(KSlots(Fs)) /\ Len(KSlotsOf(fs)) = Len(fs)
<1>1. ASSUME NEW x \in KSlots(Fs) PROVE x.align \in Nat \ {0} /\ x.size \in Nat
  <2>1. PICK f \in Fs : x = KSlot(f.k)
    BY DEF KSlots
  <2>2. x.align = f.k.align /\ x.size = f.k.alloc
    BY <2>1 DEF KSlot
  <2>3. QED
    BY <2>2 DEF AllFit, FieldFits, Alignments
<1>2. PICK U, n : U = KSlots(Fs) /\ n = Len(fs) /\ n \in Nat
  <2>1. Len(fs) \in Nat
    OBVIOUS
  <2>2. QED
    BY <2>1
<1>3. \A i \in 1 .. n : KSlot(fs[i].k) \in U
  BY <1>2 DEF KSlots
<1>4. KSlotsOf(fs) \in [1 .. n -> U]
  BY <1>2, <1>3 DEF KSlotsOf
<1>5. QED
  BY <1>1, <1>2, <1>4 DEF Slots

(* After the last field the two layouts are still side by side.              *)
LEMMA InStepToEnd ==
  ASSUME NEW A, Alignments(A), NEW Fs, AllFit(Fs, A), NEW fs \in Seq(Fs), NEW align \in A,
         \A i \in 1 .. Len(fs) : fs[i].k.align <= align
  PROVE  /\ StructFields(fs) \in TypeStates(Fs) /\ InOrder(KSlotsOf(fs)) \in Walks(KSlots(Fs))
         /\ InStep(Len(fs), fs, A, align, StructFields(fs), InOrder(SlotsOf(StructFields(fs).es)), InOrder(KSlotsOf(fs)))
<1>1. PICK n \in Nat : n = Len(fs)
  OBVIOUS
<1>2. PICK F : TypesOver(n, Fs, fs, F) /\ StructFields(fs) = F[n]
  BY <1>1, StructFieldsWalk
<1>3. PICK ms, U : ms = KSlotsOf(fs) /\ U = KSlots(Fs)
  OBVIOUS
<1>4. Slots(U) /\ ms \in Seq(U) /\ Len(ms) = n
  BY <1>1, <1>3, KSlotsAre
<1>5. PICK G : WalksOver(n, U, ms, G) /\ InOrder(ms) = G[n]
  BY <1>4, InOrderWalk
<1> DEFINE W(m) == InOrder(SlotsOf(F[m].es))
           T == {m \in Nat : m <= n => InStep(m, fs, A, align, F[m], W(m), G[m])}
<1>6. 0 \in T
  <2>1. F[0] = NoTypes /\ G[0] = NoFields
    BY <1>2, <1>5 DEF TypesOver, WalksOver
  <2>2. W(0) = NoFields
    <3>1. SlotsOf(<<>>) = <<>>
      BY DEF SlotsOf
    <3>2. W(0) = InOrder(<<>>)
      BY <2>1, <3>1 DEF NoTypes
    <3>3. Slots({}) /\ <<>> \in Seq({}) /\ Len(<<>>) = 0
      BY DEF Slots
    <3>4. PICK H : WalksOver(0, {}, <<>>, H) /\ InOrder(<<>>) = H[0]
      BY <3>3, InOrderWalk
    <3>5. QED
      BY <3>2, <3>4 DEF WalksOver
  <2>3. 1 \in A /\ 1 <= align
    <3>1. 1 \in A /\ align \in Nat \ {0}
      BY DEF Alignments
    <3>2. QED
      BY <3>1
  <2>4. PICK x, y : x = NoTypes /\ y = NoFields
    OBVIOUS
  <2>5. /\ x.offset = 0 /\ x.es = <<>> /\ x.idx = <<>>
        /\ y.end = 0 /\ y.at = <<>> /\ y.a = 1
    BY <2>4 DEF NoTypes, NoFields
  <2>6. InStep(0, fs, A, align, x, y, y)
    BY <2>3, <2>5 DEF InStep
  <2>7. QED
    BY <2>1, <2>2, <2>4, <2>6
<1>7. ASSUME NEW m \in T PROVE m + 1 \in T
  <2>1. m \in Nat /\ m + 1 \in Nat
    OBVIOUS
  <2>2. ASSUME m + 1 <= n PROVE InStep(m + 1, fs, A, align, F[m + 1], W(m + 1), G[m + 1])
    <3>1. m <= n /\ m + 1 \in 1 .. n /\ m \in 0 .. n /\ (m + 1) - 1 = m
      BY <2>1, <2>2
    <3>2. InStep(m, fs, A, align, F[m], W(m), G[m])
      BY <3>1
    <3>3. PICK f \in Fs : f = fs[m + 1] /\ f.k.align <= align
      BY <1>1, <3>1
    <3>4. F[m] \in TypeStates(Fs) /\ F[m + 1] = AddType(F[m], f)
      BY <1>2, <3>1, <3>3 DEF TypesOver
    <3>5. G[m] \in Walks(U) /\ G[m + 1] = AddField(G[m], ms[m + 1])
      BY <1>5, <3>1 DEF WalksOver
    <3>6. ms[m + 1] = KSlot(f.k)
      BY <1>1, <1>3, <3>1, <3>3 DEF KSlotsOf
    <3>7. G[m].end \in Nat /\ G[m].at \in Seq(Nat)
      BY <3>5 DEF Walks
    <3>8. PICK s, w, k, s2, w2, k2 : /\ s = F[m] /\ w = W(m) /\ k = G[m]
                                     /\ s2 = F[m + 1] /\ w2 = W(m + 1) /\ k2 = G[m + 1]
      OBVIOUS
    <3>9. /\ s \in TypeStates(Fs) /\ w = InOrder(SlotsOf(s.es)) /\ k.end \in Nat /\ k.at \in Seq(Nat)
          /\ InStep(m, fs, A, align, s, w, k) /\ s2 = AddType(s, f) /\ w2 = InOrder(SlotsOf(s2.es))
          /\ k2 = AddField(k, KSlot(f.k))
      BY <3>2, <3>4, <3>5, <3>6, <3>7, <3>8
    <3>10. InStep(m + 1, fs, A, align, s2, w2, k2)
      BY <2>1, <3>3, <3>9, InStepKept
    <3>11. QED
      BY <3>8, <3>10
  <2>3. QED
    BY <2>1, <2>2
<1>8. T = Nat
  <2> HIDE DEF T
  <2>1. T \in SUBSET Nat
    BY DEF T
  <2>2. QED
    BY <1>6, <1>7, <2>1, Inductive
<1>9. InStep(n, fs, A, align, F[n], W(n), G[n])
  BY <1>8
<1>10. F[n] \in TypeStates(Fs) /\ G[n] \in Walks(U)
  BY <1>2, <1>5 DEF TypesOver, WalksOver
<1>11. QED
  BY <1>1, <1>2, <1>3, <1>5, <1>9, <1>10

(* LLVM's layout of a struct, from the walk over its fields: its size is the *)
(* end of the last, aligned as the struct is.                                *)
LEMMA StructLayoutIs ==
  ASSUME NEW Fs, NEW es \in Seq(LLVMFields(Fs)), NEW w, w = InOrder(SlotsOf(es))
  PROVE  StructLayout(LayoutsOf(es)) = LayoutOf(8 * AlignTo(w.end, w.a), MaxOf(w.a, StructAlign), w.t, w.at)
<1>1. PICK n : n = Len(es) /\ n \in Nat
  <2>1. Len(es) \in Nat
    OBVIOUS
  <2>2. QED
    BY <2>1
<1>2. PICK ls : ls = LayoutsOf(es)
  OBVIOUS
<1>3. ls = [i \in 1 .. n |-> es[i].l]
  BY <1>1, <1>2 DEF LayoutsOf
<1>4. Len(ls) = n /\ \A i \in 1 .. n : ls[i] = es[i].l
  BY <1>1, <1>3
<1>5. [i \in 1 .. Len(ls) |-> Slot(ls[i])] = SlotsOf(es)
  BY <1>1, <1>4 DEF SlotsOf
<1>6. QED
  BY <1>2, <1>5 DEF StructLayout

LEMMA StructBytes ==
  ASSUME NEW A, Alignments(A), StructAlign \in A, NEW x \in Nat, NEW a \in A, NEW t, NEW at,
         NEW l, l = LayoutOf(8 * AlignTo(x, a), MaxOf(a, StructAlign), t, at)
  PROVE  /\ MaxOf(a, StructAlign) \in A
         /\ AllocBytes(l) = AlignTo(x, MaxOf(a, StructAlign))
<1>1. PICK b : b = MaxOf(a, StructAlign)
  OBVIOUS
<1>2. a \in Nat \ {0} /\ StructAlign \in Nat \ {0}
  BY DEF Alignments
<1>3. b \in A /\ a <= b
  BY <1>1, <1>2 DEF MaxOf
<1>4. b \in Nat \ {0} /\ Multiple(b, a)
  BY <1>3 DEF Alignments
<1>5. PICK y \in Nat : y = AlignTo(x, a)
  BY <1>2, AlignIs
<1>6. (8 * y + 7) \div 8 = y
  OBVIOUS
<1>7. StoreBytes(l) = y
  BY <1>5, <1>6 DEF StoreBytes, LayoutOf
<1>8. AllocBytes(l) = AlignTo(y, b)
  BY <1>1, <1>7 DEF AllocBytes, LayoutOf
<1>9. AlignTo(y, b) = AlignTo(x, b)
  BY <1>2, <1>4, <1>5, AlignStricter
<1>10. QED
  BY <1>1, <1>3, <1>8, <1>9

LEMMA KStructIs ==
  ASSUME NEW Fs, NEW fs \in Seq(Fs), NEW align, NEW k, k = InOrder(KSlotsOf(fs))
  PROVE  KStruct([i \in 1 .. Len(fs) |-> fs[i].k], align) = KL(align, AlignTo(k.end, align), k.at)
<1>1. PICK n : n = Len(fs) /\ n \in Nat
  <2>1. Len(fs) \in Nat
    OBVIOUS
  <2>2. QED
    BY <2>1
<1>2. PICK ks : ks = [i \in 1 .. n |-> fs[i].k]
  OBVIOUS
<1>3. Len(ks) = n /\ \A i \in 1 .. n : ks[i] = fs[i].k
  BY <1>1, <1>2
<1>4. [i \in 1 .. Len(ks) |-> KSlot(ks[i])] = KSlotsOf(fs)
  BY <1>1, <1>3 DEF KSlotsOf
<1>5. QED
  BY <1>1, <1>2, <1>4 DEF KStruct

(* A struct's fields are where KGEN's layout has them, the cache names them, *)
(* and the struct is itself a field that fits.                               *)
LayoutsAgree(fs, A, align, s, es, l, k) ==
  /\ \A i \in 1 .. Len(fs) : /\ s.idx[i] \in 1 .. Len(es) /\ es[s.idx[i]] = Field(fs[i].t, fs[i].l)
                             /\ l.at[s.idx[i]] = k.at[i]
  /\ l.align \in A /\ l.align <= k.align /\ k.align = align
  /\ AllocBytes(l) = k.alloc

(* A KGEN struct and the LLVM struct it is converted to have the same        *)
(* layout, whatever its fields are (LLVMLoweringUtils.cpp, the conversion of *)
(* StructType and getRemappedFieldIndex): with the padding fields put        *)
(* between and after them, the cache of field indices names the LLVM field   *)
(* of every logical field, LLVM puts it at the offset KGEN's layout has, and *)
(* the two agree on the size of the whole.  The fields are such that KGEN    *)
(* asks for no less alignment than LLVM and for the same room, and the       *)
(* struct converted is such a field again, so that the agreement goes        *)
(* through structs in structs.                                               *)
THEOREM StructLayoutsAgree ==
  ASSUME NEW A, Alignments(A), StructAlign \in A, NEW Fs, AllFit(Fs, A), NEW fs \in Seq(Fs),
         NEW align \in A, StructAlign <= align, \A i \in 1 .. Len(fs) : fs[i].k.align <= align,
         NEW s, s = StructFields(fs), NEW es, es = PaddedStruct(s, align)
  PROVE  LayoutsAgree(fs, A, align, s, es, StructLayout(LayoutsOf(es)), KStruct([i \in 1 .. Len(fs) |-> fs[i].k], align))
<1>1. PICK l, K : l = StructLayout(LayoutsOf(es)) /\ K = KStruct([i \in 1 .. Len(fs) |-> fs[i].k], align)
  OBVIOUS
<1>2. PICK w, k : w = InOrder(SlotsOf(s.es)) /\ k = InOrder(KSlotsOf(fs))
  OBVIOUS
<1>3. s \in TypeStates(Fs) /\ k \in Walks(KSlots(Fs)) /\ InStep(Len(fs), fs, A, align, s, w, k)
  BY <1>2, InStepToEnd
<1>4. PICK n : n = Len(fs) /\ n \in Nat
  <2>1. Len(fs) \in Nat
    OBVIOUS
  <2>2. QED
    BY <2>1
<1>5. PICK x \in Nat : x = s.offset /\ x = w.end /\ x = k.end
  BY <1>3 DEF InStep, TypeStates
<1>6. s.es \in Seq(LLVMFields(Fs)) /\ Len(w.at) = Len(s.es) /\ w.a \in A /\ w.a <= align
  BY <1>3 DEF TypeStates, InStep
<1>7. \A i \in 1 .. n : /\ s.idx[i] \in 1 .. Len(s.es)
                        /\ s.es[s.idx[i]] = Field(fs[i].t, fs[i].l) /\ w.at[s.idx[i]] = k.at[i]
  BY <1>3, <1>4 DEF InStep
<1>8. PICK abi : abi = MaxOf(w.a, StructAlign)
  OBVIOUS
<1>9. abi \in A /\ abi <= align
  BY <1>6, <1>8 DEF MaxOf
<1>10. abi \in Nat \ {0} /\ align \in Nat \ {0} /\ Multiple(align, abi)
  BY <1>9 DEF Alignments
<1>11. PICK ko \in Nat, lo \in Nat : ko = AlignTo(x, align) /\ lo = AlignTo(x, abi)
  BY <1>10, AlignIs
<1>12. x <= ko /\ lo <= ko /\ AlignTo(ko, abi) = ko
  <2>1. x <= AlignTo(x, align)
    BY <1>10, AlignIs
  <2>2. AlignTo(x, abi) <= AlignTo(x, align) /\ AlignTo(AlignTo(x, align), abi) = AlignTo(x, align)
    BY <1>10, AlignStricter
  <2>3. QED
    BY <1>11, <2>1, <2>2
<1>13. K = KL(align, ko, k.at)
  BY <1>1, <1>2, <1>5, <1>11, KStructIs
<1>14. K.align = align /\ K.alloc = ko /\ K.at = k.at
  BY <1>13 DEF KL
<1>15. StructLayout(LayoutsOf(s.es)).align = abi
  <2>1. StructLayout(LayoutsOf(s.es)) = LayoutOf(8 * AlignTo(w.end, w.a), abi, w.t, w.at)
    BY <1>2, <1>6, <1>8, StructLayoutIs
  <2>2. QED
    BY <2>1 DEF LayoutOf
<1>16. es = IF ko > lo THEN Append(s.es, Padding(ko - x)) ELSE s.es
  BY <1>5, <1>11, <1>15 DEF PaddedStruct
<1>17. CASE ko > lo
  <2>1. PICK d : d = Padding(ko - x)
    OBVIOUS
  <2>2. ko - x \in Nat
    BY <1>12
  <2>3. es = Append(s.es, d) /\ d \in LLVMFields(Fs) /\ d.l.align = 1 /\ AllocBytes(d.l) = ko - x
    BY <1>16, <1>17, <2>1, <2>2, PaddingIs DEF LLVMFields
  <2>4. PICK u : u = InOrder(SlotsOf(es))
    OBVIOUS
  <2>5. es \in Seq(LLVMFields(Fs)) /\ Pushed(w, d, u) /\ w \in Walks(LLVMSlots(Fs))
    BY <1>2, <1>6, <2>3, <2>4, PushIs
  <2>6. AlignTo(x, 1) = x
    <3>1. Multiple(x, 1)
      BY DEF Multiple
    <3>2. QED
      BY <3>1, AlignStays
  <2>7. u.at = Append(w.at, x) /\ u.end = x + (ko - x) /\ u.a = MaxOf(w.a, 1)
    BY <1>5, <2>3, <2>5, <2>6 DEF Pushed
  <2>8. u.end = ko /\ u.a = w.a
    <3>1. w.a \in Nat \ {0}
      BY <1>6 DEF Alignments
    <3>2. QED
      BY <2>7, <3>1 DEF MaxOf
  <2>9. l = LayoutOf(8 * AlignTo(ko, w.a), abi, u.t, u.at)
    BY <1>1, <1>8, <2>4, <2>5, <2>8, StructLayoutIs
  <2>10. l.align = abi /\ l.at = Append(w.at, x)
    BY <2>7, <2>9 DEF LayoutOf
  <2>11. AllocBytes(l) = ko
    BY <1>6, <1>8, <1>12, <2>9, StructBytes
  <2>12. w.at \in Seq(Nat)
    BY <2>5 DEF Walks
  <2>13. PICK q \in Nat : q = Len(s.es)
    <3>1. Len(s.es) \in Nat
      BY <1>6
    <3>2. QED
      BY <3>1
  <2>14. Len(es) = q + 1 /\ \A j \in 1 .. q : es[j] = s.es[j]
    BY <1>6, <2>3, <2>13
  <2>15. \A j \in 1 .. q : l.at[j] = w.at[j]
    BY <1>6, <2>10, <2>12, <2>13
  <2>16. ASSUME NEW i \in 1 .. n
         PROVE  s.idx[i] \in 1 .. Len(es) /\ es[s.idx[i]] = Field(fs[i].t, fs[i].l) /\ l.at[s.idx[i]] = K.at[i]
    <3>1. PICK j \in 1 .. q : j = s.idx[i] /\ s.es[j] = Field(fs[i].t, fs[i].l) /\ w.at[j] = k.at[i]
      BY <1>7, <2>13
    <3>2. j \in 1 .. (q + 1)
      OBVIOUS
    <3>3. QED
      BY <1>14, <2>14, <2>15, <3>1, <3>2
  <2>17. LayoutsAgree(fs, A, align, s, es, l, K)
    BY <1>4, <1>9, <1>14, <2>10, <2>11, <2>16 DEF LayoutsAgree
  <2>18. QED
    BY <1>1, <2>17
<1>18. CASE ~(ko > lo)
  <2>1. es = s.es /\ ko = lo
    BY <1>12, <1>16, <1>18
  <2>2. l = LayoutOf(8 * AlignTo(x, w.a), abi, w.t, w.at)
    BY <1>1, <1>2, <1>5, <1>6, <1>8, <2>1, StructLayoutIs
  <2>3. l.align = abi /\ l.at = w.at
    BY <2>2 DEF LayoutOf
  <2>4. AllocBytes(l) = ko
    BY <1>6, <1>8, <1>11, <2>1, <2>2, StructBytes
  <2>5. LayoutsAgree(fs, A, align, s, es, l, K)
    BY <1>4, <1>7, <1>9, <1>14, <2>1, <2>3, <2>4 DEF LayoutsAgree
  <2>6. QED
    BY <1>1, <2>5
<1>19. QED
  BY <1>17, <1>18
====
