------------------------------ MODULE MCServices ------------------------------
EXTENDS LockedFile, ConfigPaths, Configuration, RPCClient, PackageBuild, LinkOutput, MojoTools

\* Machines: an environment, folders that exist, at most two configuration files.
Folders == {<<"HOME", ".modular">>, <<"XDG_CONFIG_HOME", "modular">>, <<"HOME", ".config", "modular">>, <<"/opt", "modular">>}
Homebrew == <<"/opt", "homebrew", "etc", "modular">>
FileFolders == Folders \cup {<<"/etc", "modular">>, <<"TEST_TMPDIR", ".modular">>, <<"APPDATA", "Local", "Modular">>}
Environments == {{}, {"HOME"}, {"HOME", "XDG_CONFIG_HOME"}, {"HOME", "XDG_CONFIG_HOME", "XDG_CACHE_HOME"},
                 {"XDG_CONFIG_HOME", "XDG_DATA_HOME"}, {"HOME", "MODULAR_HOME"}, {"HOME", "MODULAR_DERIVED_PATH"}, {"HOME", "TEST_TMPDIR"}}
MCMachines ==
  [os : {"posix"}, env : Environments, dirs : SUBSET Folders, files : {f \in SUBSET FileFolders : Cardinality(f) <= 1},
   sealed : {{}, {"XDG_CACHE_HOME", "/opt"}, {"HOME"}}]
  \cup [os : {"posix"}, env : {{"HOME"}, {"HOME", "XDG_CONFIG_HOME"}}, dirs : {{}},
        files : {f \in SUBSET FileFolders : Cardinality(f) = 2}, sealed : {{}, {"XDG_CONFIG_HOME", "XDG_CACHE_HOME"}}]
  \cup [os : {"macos"}, env : {{"HOME"}}, dirs : {{}}, files : SUBSET {Homebrew, <<"/etc", "modular">>, <<"HOME", ".modular">>}, sealed : {{}, {"HOME"}}]
  \cup [os : {"windows"}, env : {{}, {"HOME"}, {"MODULAR_HOME"}}, dirs : {{}}, files : {f \in SUBSET FileFolders : Cardinality(f) <= 1}, sealed : {{}, {"APPDATA"}}]

\* Worlds: what MODULAR_DEBUG says, and a key the environment or the runfiles give.
KV(n, a) == [k \in Keys |-> IF k = "nan-check" THEN n ELSE a]
File(n, a) == [ok |-> TRUE, kv |-> KV(n, a)]
BadFile == [File("none", "none") EXCEPT !.ok = FALSE]
World(debug, run, old) ==
  [debug |-> debug, env |-> KV("env", "none"), runfiles |-> KV("none", run), old |-> old, new |-> File("file", "file")]
MCWorlds == {World(<<"sensible", "assert-level=warn">>, "none", File("none", "none")), World(<<>>, "none", BadFile),
             World(<<"nan-check", "unknown">>, "run", File("none", "none"))}

\* Three ports: windows of one age with names as long (A and B, which the set
\* takes for one), a longer name, a silent window, one that refuses.
Editor(does, seen, name, length) == [does |-> does, seen |-> seen, name |-> name, length |-> length]
A == Editor("answers", 5, "a", 4)
B == Editor("answers", 5, "b", 4)
MCPorts == <<1, 2, 3>>
Recent == Editor("answers", 3, "c", 4)
Long == Editor("answers", 5, "long", 5)
MCEditors ==
  {[p \in 1..3 |-> e[p]] :
     e \in {<<A, B, A>>, <<B, Recent, A>>, <<Editor("silent", 0, "s", 4), Long, A>>,
            <<Editor("refuses", 0, "r", 4), Editor("denies", 5, "d", 4), B>>, <<Long, Editor("silent", 0, "s", 4), Editor("garbles", 1, "g", 4)>>}}
MCInputs == {-1, 0, 1, 3}

\* A package "src" of two files, a nested package and a struct; one file is
\* called as the package is, and "dep" has been imported.
PackageKind ==
  [o \in {"src", "dep", "thunk1", "thunk2", "closure", "trait", "f", "g", "sub", "s", "fn", "alias", "import1", "import2", "unresolved"} |->
     CASE o \in {"src", "dep", "sub"} -> "package" [] o \in {"f", "g"} -> "file" [] o = "s" -> "struct"
       [] o \in {"thunk1", "thunk2"} -> "thunk" [] o = "closure" -> "closureTrait"
       [] o \in {"import1", "import2"} -> "import" [] o = "unresolved" -> "unresolved" [] OTHER -> "decl"]
PackageKids ==
  [o \in DOMAIN PackageKind |->
     CASE o = "src" -> <<"import1", "f", "unresolved", "sub">> [] o = "f" -> <<"import2", "s", "fn">> [] o = "s" -> <<"alias">>
       [] o = "sub" -> <<"g">> [] OTHER -> <<>>]
PackageRefs ==
  <<[k |-> "symbol", path |-> <<"src", "f", "x">>], [k |-> "symbol", path |-> <<"dep", "src", "x">>], [k |-> "symbol", path |-> <<"src", "src", "x">>],
    [k |-> "packageName", path |-> <<"src">>], [k |-> "packageName", path |-> <<"dep">>],
    [k |-> "import", level |-> 0, path |-> <<"src", "f">>], [k |-> "import", level |-> 1, path |-> <<"src">>],
    [k |-> "import", level |-> 0, path |-> <<"dep", "src">>], [k |-> "import", level |-> 0, path |-> <<>>],
    [k |-> "text", text |-> <<<<"src", "f">>, <<"dep", "src", "x">>, <<"src", "f", "src", "x">>>>],
    [k |-> "text", text |-> <<<<"src", "src", "x">>, <<"dep", "src">>>>]>>
MCPackages ==
  [source : {"src"}, name : {"src", "out"}, kind : {PackageKind}, kids : {PackageKids},
   top : {<<"thunk1", "dep", "closure", "src", "thunk2", "trait">>}, root : {"src"}, refs : {PackageRefs}]

\* Links for three systems, and what `mojo run` is given instead.
Rpath == <<"-Xlinker", "-rpath", "-Xlinker", "libdir">>
MCLinks ==
  [out : {"exe", "shared"}, os : {"windows", "linux", "darwin"}, arch : {"x86_64", "aarch64"},
   config : [driver : {"", "mine"}, beside : BOOLEAN, onPath : BOOLEAN, runtime : {TRUE},
             system : {<<>>, <<"configured.lib">>, <<"configured.lib", "msvcrt.lib">>},
             shared : {<<>>, <<"configured.lib">> \o Rpath \o <<"configured.lib">>}, bindings : {FALSE}],
   debug : BOOLEAN, san : {{}, {"address", "shared"}, {"address", "external"}, {"thread"}}, extra : {<<"-l", "x">>}]
  \cup [out : {"exe", "shared"}, os : {"windows", "linux", "darwin"}, arch : {"x86_64"},
        config : [driver : {"mine"}, beside : {FALSE}, onPath : {TRUE}, runtime : BOOLEAN, system : {<<>>},
                  shared : {<<>>, Rpath}, bindings : BOOLEAN],
        debug : {FALSE}, san : {{}}, extra : {<<>>}]
Value(f, v, raw) == [f |-> f, v |-> v, raw |-> raw]
XlinkerValues ==
  {Value("-L", "", "-L"), Value("-L", "d1", "-Ld1"), Value("-l", "", "-l"), Value("-l", "x", "-lx"), Value("-rpath=", "d2", "-rpath=d2"),
   Value("-rpath=", "", "-rpath="), Value("none", "", "x"), Value("none", "", "d2"), Value("library", "", "y.so")}
LibraryFiles == {{<<"d1", "x">>, <<"d2", "x">>, <<"direct", "y.so">>}, {<<"d2", "x">>}, {<<"-l", "x">>, <<"d1", "-L">>}}
MCLoads ==
  [opens : {FALSE}, shared : {<<>>}, bindings : {<<>>}, args : UNION {[1..n -> XlinkerValues] : n \in 0..3}, files : LibraryFiles]
  \cup [opens : {TRUE}, shared : {<<>>, <<Token, Value("-l", "x", "-lx"), Token, Value("-L", "", "-L")>>},
        bindings : {<<>>, <<Value("library", "", "y.so")>>}, args : UNION {[1..n -> XlinkerValues] : n \in 0..1},
        files : {{<<"libdir", "x">>, <<"d2", "x">>, <<"direct", "y.so">>}}]

\* Two commands, on one output path or on two.
Ask(cmd, emit, out) ==
  [cmd |-> cmd, emit |-> emit, windows |-> TRUE, tells |-> FALSE, werror |-> FALSE, fixit |-> FALSE, dsym |-> FALSE, out |-> out]
MCInvocations ==
  {Ask("build", e, f) : e \in {"exe", "shared", "object", "asm"}, f \in {"a", "b"}} \cup {Ask("precompile", "package", f) : f \in {"a", "b"}}
  \cup {[Ask(c[1], c[2], "a") EXCEPT !.werror = TRUE] : c \in {<<"build", "exe">>, <<"build", "llvm">>, <<"precompile", "package">>, <<"run", "none">>}}
  \cup {[Ask(c[1], c[2], "a") EXCEPT !.fixit = TRUE] : c \in {<<"build", "exe">>, <<"precompile", "package">>}}
  \cup {[Ask("build", "exe", "a") EXCEPT !.tells = TRUE], [Ask("build", "exe", "a") EXCEPT !.windows = FALSE, !.dsym = TRUE]}

\* One process reads, writes or appends among others that append.
MCKinds == [p \in Procs |-> IF p = "p1" THEN {"read", "write", "append"} ELSE {"append"}]

\* One of them is at work, the others are at rest, where no fairness asks for a step.
VARIABLE job
PackageIdle ==
  /\ pkg = "none" /\ worklist = <<>> /\ at = Module /\ stage = "idle"
  /\ cloned = <<>> /\ deps = {} /\ refs = <<>>
LinkIdle == link = "none" /\ linker = NoLink
LoadIdle == loads = [in |-> "none", libs |-> <<>>, done |-> FALSE]
ToolsIdle ==
  /\ asked = [p \in Tools |-> Ask("run", "none", "a")]
  /\ step = [p \in Tools |-> "idle"] /\ code = [p \in Tools |-> 0] /\ kills = 0
  /\ disk = [f \in Paths |-> Old] /\ temps = {}
PathsIdle == machine = [os |-> "posix", env |-> {}, sealed |-> {}] /\ dirs = {} /\ files = {} /\ placed = NoFolder
ConfigIdle ==
  /\ world = (CHOOSE w \in Worlds : TRUE) /\ file = "old" /\ overrides = Empty /\ cachedKV = Empty
  /\ parseFlag = Closed /\ initFlag = Closed /\ left = <<>> /\ initError = FALSE
  /\ pc = [t \in Threads |-> "idle"] /\ cfg = [t \in Threads |-> Empty] /\ call = [t \in Threads |-> None]
  /\ during = [t \in Threads |-> {}] /\ answer = [t \in Threads |-> NoAnswer] /\ clean = [t \in Threads |-> {}]
  /\ set = {} /\ changes = 0
RPCIdle ==
  /\ editor = (CHOOSE e \in Editors : TRUE) /\ table = <<>>
  /\ ctl = [p \in Attempts |-> "start"] /\ talk = [p \in Attempts |-> "none"] /\ held = [p \in Attempts |-> NoFd]
  /\ connections = <<>> /\ futures = [p \in Attempts |-> p] /\ rpc = "returned" /\ index = NoFd /\ result = "none"
  /\ received = [p \in Attempts |-> "nothing"] /\ closes = [p \in Attempts |-> 0] /\ stray = {}
MCInit ==
  \/ job = "paths" /\ PathInit /\ ConfigIdle /\ RPCIdle /\ PackageIdle /\ LinkIdle /\ LoadIdle /\ ToolsIdle /\ LockInit
  \/ job = "config" /\ PathsIdle /\ ConfigInit /\ RPCIdle /\ PackageIdle /\ LinkIdle /\ LoadIdle /\ ToolsIdle /\ LockInit
  \/ job = "rpc" /\ PathsIdle /\ ConfigIdle /\ RPCInit /\ PackageIdle /\ LinkIdle /\ LoadIdle /\ ToolsIdle /\ LockInit
  \/ job = "package" /\ PathsIdle /\ ConfigIdle /\ RPCIdle /\ PackageInit /\ LinkIdle /\ LoadIdle /\ ToolsIdle /\ LockInit
  \/ job = "link" /\ PathsIdle /\ ConfigIdle /\ RPCIdle /\ PackageIdle /\ LinkInit /\ LoadIdle /\ ToolsIdle /\ LockInit
  \/ job = "load" /\ PathsIdle /\ ConfigIdle /\ RPCIdle /\ PackageIdle /\ LinkIdle /\ LoadInit /\ ToolsIdle /\ LockInit
  \/ job = "tools" /\ PathsIdle /\ ConfigIdle /\ RPCIdle /\ PackageIdle /\ LinkIdle /\ LoadIdle /\ ToolInit /\ LockInit
  \/ job = "lock" /\ PathsIdle /\ ConfigIdle /\ RPCIdle /\ PackageIdle /\ LinkIdle /\ LoadIdle /\ ToolsIdle /\ LockInit
MCNext ==
  \/ job = "paths" /\ PathNext /\ UNCHANGED <<job, configVars, rpcVars, packageVars, linkVars, loads, toolVars, lockedVars>>
  \/ job = "config" /\ ConfigNext /\ UNCHANGED <<job, pathVars, rpcVars, packageVars, linkVars, loads, toolVars, lockedVars>>
  \/ job = "rpc" /\ RPCNext /\ UNCHANGED <<job, pathVars, configVars, packageVars, linkVars, loads, toolVars, lockedVars>>
  \/ job = "package" /\ PackageNext /\ UNCHANGED <<job, pathVars, configVars, rpcVars, linkVars, loads, toolVars, lockedVars>>
  \/ job = "link" /\ RunLinker /\ UNCHANGED <<job, pathVars, configVars, rpcVars, packageVars, loads, toolVars, lockedVars>>
  \/ job = "load" /\ LoadLibraries /\ UNCHANGED <<job, pathVars, configVars, rpcVars, packageVars, linkVars, toolVars, lockedVars>>
  \/ job = "tools" /\ ToolNext /\ UNCHANGED <<job, pathVars, configVars, rpcVars, packageVars, linkVars, loads, lockedVars>>
  \/ job = "lock" /\ LockNext /\ UNCHANGED <<job, pathVars, configVars, rpcVars, packageVars, linkVars, loads, toolVars>>
MCSpec == MCInit /\ [][MCNext]_<<job, pathVars, configVars, rpcVars, packageVars, linkVars, loads, toolVars, lockedVars>>
          /\ RPCFairness /\ LockFairness
=============================================================================
