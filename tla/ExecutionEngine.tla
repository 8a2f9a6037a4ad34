---------------------------- MODULE ExecutionEngine ----------------------------
(***************************************************************************)
(* The in-process JIT that mojo run and the REPL load archives into         *)
(* (ExecutionEngine.cpp): how a name in JIT'd code finds its definition.     *)
(*                                                                         *)
(* A dylib is a record [defined, gens]: names defined outright, with where  *)
(* they come from, and the generators asked in order about other names.     *)
(* Answers[g][n] are the libraries generator g may take n from: the modules *)
(* of the process come in an order nobody chooses.                          *)
(***************************************************************************)
EXTENDS Naturals, Sequences, SequencesExt, FiniteSets

CONSTANTS
  Setups,     \* [format, cross, windows, debug, perf, libraryPaths, rtExists]
  Answers,    \* [generator -> [name -> set of providers]]
  StdioNames, \* names setupPlatform defines itself
  Archives,   \* [name -> [defs, needs, sections]]: what can be loaded
  MaxEngineFaults

platformStdlib == "$platform-stdlib"
compilerRTlib == "$compilerrt-lib"
mlirclib == "$mlirc-lib"
NoName == ""

\* What an archive needs and does not define is to be had somewhere.
Available(s, n) ==
  \/ \E g \in {"process"} \cup Range(s.libraryPaths \o <<"compilerrt">>) : Answers[g][n] # {}
  \/ s.format = "coff" /\ (n \in StdioNames \/ \E g \in {"ucrtbase.dll", "kernel32.dll", "ntdll.dll"} : Answers[g][n] # {})

\* Code that is not for another machine is for this one; the sanitizers and the
\* symbols of MLIR are found by the prefix of their names, which no name of the
\* printf family has.
ASSUME EngineAssumption ==
  /\ DOMAIN Archives \cap {NoName, platformStdlib, compilerRTlib, mlirclib} = {}
  /\ \A s \in Setups : /\ s.libraryPaths \in Seq(DOMAIN Answers)
                       /\ s.format = "coff" /\ ~s.cross => s.windows
                       /\ \A a \in DOMAIN Archives : \A n \in Archives[a].needs \ Archives[a].defs : Available(s, n)
  /\ \A n \in StdioNames : Answers["sanitizers"][n] = {} /\ Answers["mlir"][n] = {}

VARIABLES
  setup, epc,
  dylib,       \* [name -> [defined, gens]]
  linkOrder,   \* [name -> sequence of dylib names]
  searchOrder, \* newest first
  plugins,     \* plugins of the object layer
  loaded,      \* archives materialised, [archive -> [name -> providers]]
  found,       \* last lookup: [name, in]
  efaults

engineVars == <<setup, epc, dylib, linkOrder, searchOrder, plugins, loaded, found, efaults>>

coff == setup.format = "coff"
Bare == [defined |-> {}, gens |-> <<>>]
NotFound == [name |-> NoName, in |-> NoName]

EFault == efaults < MaxEngineFaults /\ efaults' = efaults + 1
NoEFault == UNCHANGED efaults
Stop == epc' = "failed"

-----------------------------------------------------------------------------
(* create.                                                                  *)

\* Symbols of the process first, then, for COFF, the three system libraries
\* and this program's own copies of the printf family.
setupPlatform ==
  [defined |-> IF coff /\ setup.windows THEN StdioNames ELSE {},
   gens |-> <<"process">> \o (IF coff THEN <<"ucrtbase.dll", "kernel32.dll", "ntdll.dll">> ELSE <<>>)]

\* Libraries of the command line before the runtime, sanitizers last.
initializeCompilerRT == [defined |-> {}, gens |-> setup.libraryPaths \o <<"compilerrt", "sanitizers">>]
mlirc == [defined |-> {}, gens |-> <<"mlir">>]

\* Ahead of every other pass of a COFF object.
COFFUnwindSectionRemovalPlugin == {".pdata", ".xdata"}

createPlugins ==
  (IF coff THEN {"unwind"} ELSE {})
    \cup (IF setup.debug /\ setup.format # "coff" THEN {"debug"} ELSE {})
    \cup (IF setup.perf THEN {"perf"} ELSE {})

LinkOrderNoPlatform(name) == IF name = platformStdlib THEN <<>> ELSE <<compilerRTlib, mlirclib>>

\* What a dylib is resolved through once materialisation is under way.
LinkOrderOf(name) ==
  IF name = platformStdlib THEN <<>>
  ELSE <<compilerRTlib, mlirclib>> \o (IF coff THEN <<platformStdlib>> ELSE <<>>)

addToSearchOrder(name) ==
  /\ searchOrder' = <<name>> \o searchOrder
  /\ linkOrder' = [n \in DOMAIN linkOrder \cup {name} |-> IF n = name THEN LinkOrderOf(name) ELSE linkOrder[n]]

create ==
  /\ epc = "start"
  /\ \/ (EFault \/ (NoEFault /\ ~setup.rtExists)) /\ Stop /\ UNCHANGED <<dylib, linkOrder, searchOrder, plugins>>
     \/ /\ NoEFault /\ setup.rtExists /\ epc' = "ready"
        /\ plugins' = createPlugins
        /\ addToSearchOrder(platformStdlib)
        /\ dylib' = [n \in {platformStdlib, compilerRTlib, mlirclib} |->
                       CASE n = platformStdlib -> IF setup.cross THEN Bare ELSE setupPlatform
                         [] n = compilerRTlib -> initializeCompilerRT
                         [] OTHER -> mlirc]
  /\ UNCHANGED <<setup, loaded, found>>

-----------------------------------------------------------------------------
(* Loading and looking up.                                                  *)

\* addIfAbsent: a dylib of this name that is there already is left alone.
addIfAbsent(a) ==
  /\ epc = "ready" /\ a \notin DOMAIN dylib
  /\ dylib' = [n \in DOMAIN dylib \cup {a} |-> IF n = a THEN [defined |-> Archives[a].defs, gens |-> <<>>] ELSE dylib[n]]
  /\ addToSearchOrder(a)
  /\ UNCHANGED <<setup, epc, plugins, loaded, found, efaults>>

\* dlsym on a library goes on into what the library depends on, the C runtime
\* for one; GetProcAddress does not.
Knows(g, n) ==
  IF Answers[g][n] # {} THEN Answers[g][n]
  ELSE IF ~coff /\ g \in Range(setup.libraryPaths \o <<"compilerrt">>) THEN Answers["process"][n] ELSE {}

\* Where ORC finds n in a dylib: its definitions, else its first generator
\* that knows the name.
InDylib(d, n) ==
  IF n \in dylib[d].defined THEN {d}
  ELSE LET know == {i \in 1..Len(dylib[d].gens) : Knows(dylib[d].gens[i], n) # {}}
       IN  IF know = {} THEN {} ELSE Knows(dylib[d].gens[CHOOSE i \in know : \A j \in know : i <= j], n)
FirstIn(order, n) ==
  LET has == {i \in 1..Len(order) : InDylib(order[i], n) # {}}
  IN  IF has = {} THEN NoName ELSE order[CHOOSE i \in has : \A j \in has : i <= j]
Resolve(order, n) == IF FirstIn(order, n) = NoName THEN {} ELSE InDylib(FirstIn(order, n), n)

\* JITLink fails on a section whose entries are offsets from an image base.
LinksInMemory(a) ==
  coff => (Archives[a].sections \cap {".pdata", ".xdata"}) \
             (IF "unwind" \in plugins THEN COFFUnwindSectionRemovalPlugin ELSE {}) = {}

\* lookup: the newest dylib that defines the name; its code is linked then.
lookup(n) ==
  /\ epc = "ready"
  /\ LET d == FirstIn(searchOrder, n)
     IN  /\ found' = [name |-> n, in |-> d]
         /\ IF d \in DOMAIN Archives /\ LinksInMemory(d)
            THEN loaded' = [a \in DOMAIN loaded \cup {d} |->
                              IF a = d THEN [x \in Archives[d].needs |-> Resolve(<<d>> \o linkOrder[d], x)] ELSE loaded[a]]
            ELSE UNCHANGED loaded
  /\ UNCHANGED <<setup, epc, dylib, linkOrder, searchOrder, plugins, efaults>>

\* runProgram: the entry point straight from the last look-up.
runProgram ==
  /\ epc = "ready" /\ found.name = "main"
  /\ epc' = IF found.in \in DOMAIN loaded /\ \A x \in DOMAIN loaded[found.in] : loaded[found.in][x] # {} THEN "ran" ELSE "failed"
  /\ UNCHANGED <<setup, dylib, linkOrder, searchOrder, plugins, loaded, found, efaults>>

\* The destructor ends the session, and with it every dylib.
EndSession ==
  /\ epc \in {"ready", "ran", "failed"} /\ epc' = "ended"
  /\ dylib' = <<>> /\ linkOrder' = <<>> /\ searchOrder' = <<>> /\ loaded' = <<>>
  /\ UNCHANGED <<setup, plugins, found, efaults>>

EngineInit ==
  /\ setup \in Setups /\ epc = "start" /\ dylib = <<>> /\ linkOrder = <<>> /\ searchOrder = <<>>
  /\ plugins = {} /\ loaded = <<>> /\ found = NotFound /\ efaults = 0
EngineNext ==
  \/ create \/ (\E a \in DOMAIN Archives : addIfAbsent(a)) \/ lookup("main") \/ runProgram \/ EndSession
EngineSpec == EngineInit /\ [][EngineNext]_engineVars

-----------------------------------------------------------------------------
(* Properties.                                                              *)

\* Off COFF the first library that is asked answers for the process as well:
\* every name has to be there, or nowhere in the process, or in no library.
Undisputed ==
  coff \/ \A a \in DOMAIN Archives : \A n \in Archives[a].needs :
            LET libs == setup.libraryPaths \o <<"compilerrt">>
            IN  Answers["process"][n] = {} \/ Answers[libs[1]][n] # {} \/ \A g \in Range(libs) : Answers[g][n] = {}

\* A main found in a loaded archive was linked in memory, whatever sections its
\* object has, and on a host the code is for every name it needs is bound: a name of the printf family to this
\* program's own copy and never to ntdll's, a name the Mojo runtime or a library
\* of the command line has never to the system's.
NamesBound ==
  /\ found.in \in DOMAIN Archives /\ epc = "ready" => found.in \in DOMAIN loaded
  /\ \A a \in DOMAIN loaded : ~setup.cross =>
       \A n \in DOMAIN loaded[a] :
         LET by == loaded[a][n]
             lib == {g \in Range(setup.libraryPaths \o <<"compilerrt">>) : Answers[g][n] # {}}
         IN  /\ by # {}
             /\ n \in Archives[a].defs => by = {a}
             /\ n \notin Archives[a].defs /\ lib # {} => \E g \in lib : by = Answers[g][n]
             /\ n \in StdioNames \ Archives[a].defs /\ lib = {} /\ coff => by = {platformStdlib}

=============================================================================
