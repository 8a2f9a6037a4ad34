------------------------------ MODULE MCCompiler ------------------------------
EXTENDS ObjectCompiler, OffloadKernels, ExecutionEngine

\* f and h are exported and both call g; f calls the library's k.
MCReach == [x \in {"f", "g", "h", "k"} |-> CASE x = "f" -> {"g", "k"} [] x = "h" -> {"g"} [] OTHER -> {}]
Lib(same) == [loads |-> TRUE, sameTriple |-> same, defs |-> {"k"}]
BadLib == [loads |-> FALSE, sameTriple |-> TRUE, defs |-> {"k"}]

Opt(out, format, strategy, workers, par, inter, save, libs, all, needs) ==
  [out |-> out, format |-> format, strategy |-> strategy, workers |-> workers, parallelLLC |-> par,
   interprocedural |-> inter, saveTemps |-> save, libs |-> libs, linkAll |-> all, needs |-> needs,
   main |-> out \in {"executable", "run"}]
MCOptions ==
  {Opt("executable", "coff", s, 2, FALSE, FALSE, s = "PerExported", <<Lib(TRUE)>>, FALSE, {}) : s \in {"PerFunction", "PerExported"}}
  \cup {Opt("sharedLibrary", "coff", "PerExported", 2, FALSE, FALSE, FALSE, <<Lib(TRUE)>>, FALSE, {})}
  \cup {Opt("assembly", "elf", "PerExported", 2, TRUE, inter, TRUE, <<Lib(FALSE)>>, TRUE, {}) : inter \in BOOLEAN}
  \cup {Opt("run", "coff", "None", w, TRUE, FALSE, FALSE, <<>>, FALSE, {}) : w \in {1, 2}}
  \cup {Opt("sharedObject", fm, "None", 1, FALSE, FALSE, FALSE, <<Lib(TRUE)>>, FALSE, n) :
          fm \in {"coff", "elf", "macho"}, n \in {{"_fltused", "rt"}, {"crt"}}}
  \cup {Opt(out, "elf", "None", 1, FALSE, FALSE, FALSE, <<Lib(TRUE)>>, FALSE, {}) : out \in {"llvm", "llvmOpt"}}
  \cup {[Opt("sharedLibrary", "elf", "None", 1, FALSE, FALSE, FALSE, <<Lib(TRUE), BadLib>>, FALSE, {}) EXCEPT !.main = m] : m \in BOOLEAN}

MCConfig == [lld |-> FALSE, path |-> {"ld.lld", "lld-link"}, configured |-> <<"mine.lib">>, importLib |-> "rt.lib",
             onDisk |-> TRUE, backend |-> TRUE]
MCDefines == [l \in {"mine.lib", "rt.lib"} |-> {"rt"}]

\* Two kernels of the same code, and a function without an id.
MCKernelIdOf == [s \in {"a", "b", "n"} |-> CASE s = "a" -> 1 [] s = "b" -> 2 [] OTHER -> 0]
MCBitcodeOf == [s \in {"a", "b", "n"} |-> IF s = "n" THEN "other" ELSE "same"]
MCKinds == [i \in {1, 2} |-> IF i = 1 THEN {"OBJECT"} ELSE {"OBJECT", "LLVM_OPT"}]
MCKernelOptions == {[saveTemps |-> so[1], isOffload |-> so[2]] : so \in {<<TRUE, FALSE>>, <<FALSE, TRUE>>, <<FALSE, FALSE>>}}
MCLinkConfigs == {<<"mine.lib", "rt.lib">>, <<>>}

\* What can be asked of the libraries of a Windows machine; memcpy is in two.
EngineNames == {"main", "own", "rt", "printf", "memcpy", "_write", "mlirX"}
MCAnswers ==
  [g \in {"process", "ucrtbase.dll", "kernel32.dll", "ntdll.dll", "compilerrt", "sanitizers", "mlir", "user.dll"} |->
     [n \in EngineNames |->
        CASE g = "process" /\ n = "memcpy" -> {"ntdll.dll", "other.dll"}
          [] g = "process" /\ n = "mlirX" -> {"mojo"}
          [] g = "process" /\ n = "printf" -> {"ntdll.dll"}
          [] g = "ucrtbase.dll" /\ n \in {"memcpy", "_write"} -> {g}
          [] g = "ntdll.dll" /\ n \in {"memcpy", "printf"} -> {g}
          [] g = "compilerrt" /\ n = "rt" -> {g}
          [] g = "user.dll" /\ n \in {"rt", "printf"} -> {g}
          [] g = "mlir" /\ n = "mlirX" -> {"mojo"}
          [] OTHER -> {}]]
Archive(defs, needs) == [defs |-> defs, needs |-> needs, sections |-> {".text", ".pdata", ".xdata"}]
MCArchives == [a \in {"exec", "cell"} |->
                 IF a = "exec" THEN Archive({"main", "own"}, {"own", "rt", "printf", "memcpy", "mlirX"})
                 ELSE Archive({"main"}, {"rt", "printf"})]
MCSetups == [format : {"coff", "elf"}, cross : BOOLEAN, windows : {TRUE}, debug : BOOLEAN, perf : BOOLEAN,
             libraryPaths : {<<>>, <<"user.dll">>}, rtExists : BOOLEAN]

\* One of the three is at work, the others are idle.
VARIABLE job
EngineIdle ==
  /\ setup = (CHOOSE x \in Setups : TRUE) /\ epc = "idle" /\ dylib = <<>> /\ linkOrder = <<>> /\ searchOrder = <<>>
  /\ plugins = {} /\ loaded = <<>> /\ found = NotFound /\ efaults = 0
MCInit == /\ CompilerInit /\ KernelInit
          /\ \/ job \in {"archive", "kernels"} /\ EngineIdle
             \/ job = "engine" /\ EngineInit
MCNext == \/ job = "archive" /\ CompilerNext /\ UNCHANGED <<job, kernelVars, engineVars>>
          \/ job = "kernels" /\ KernelNext /\ UNCHANGED <<job, compilerVars, engineVars>>
          \/ job = "engine" /\ EngineNext /\ UNCHANGED <<job, compilerVars, kernelVars>>
MCSpec == MCInit /\ [][MCNext]_<<job, compilerVars, kernelVars, engineVars>> /\ CompilerFairness /\ KernelFairness
=============================================================================
