------------------------------ MODULE LinkOutput ------------------------------
(***************************************************************************)
(* The command line of the link that ends `mojo build` (linkOutput,         *)
(* mojo-build.cpp), and the libraries `mojo run` loads instead              *)
(* (resolveXlinkerLibraries, XlinkerResolution.cpp).                        *)
(*                                                                         *)
(* A link is [out, os, arch, config, debug, san, extra]: the output type,   *)
(* the target, the configuration's [driver, beside, onPath, runtime,        *)
(* system, shared, bindings] (linker, where lld-link or cc is, whether the  *)
(* runtime library exists, the words of system_libs and of shared_libs,     *)
(* whether the AsyncRT bindings are installed), debug level and sanitizers, *)
(* and the -Xlinker values of the command line.                             *)
(* Arguments are named for what they are; "archive", "manifest", "runtime", *)
(* "importlib" and "bindings.dll" are file names.                           *)
(***************************************************************************)
EXTENDS Naturals, Sequences, FiniteSets, SequencesExt

CONSTANTS Links,       \* the links asked for
          Loads        \* what mojo run is given: [opens, shared, bindings, args, files]

VARIABLES link, linker, loads
linkVars == <<link, linker>>

ForWindows(l) == l.os = "windows"
Darwin(l) == l.os = "darwin"

kWindowsCRTLibs == {"msvcrt.lib", "msvcrtd.lib", "libcmt.lib", "libcmtd.lib"}

When(c, args) == IF c THEN args ELSE <<>>

\* What MojoConfig appends for shared libraries: the words of shared_libs, or
\* else an rpath made up, and the bindings that are installed.
appendSharedLibraryLinkArgs(set, madeUp, bindings) == (IF set # <<>> THEN set ELSE madeUp) \o bindings

\* The bindings by the target's name for a shared library.
Bindings(l) == IF ForWindows(l) THEN "bindings.dll" ELSE "bindings.so"
Shared(l) ==
  appendSharedLibraryLinkArgs(l.config.shared, <<"-Xlinker", "-rpath", "-Xlinker", "libdir">>, When(l.config.bindings, <<Bindings(l)>>))

\* A shared_libs of libraries, and of rpaths of four arguments that start at rs.
LibrariesAndRpaths(s) ==
  /\ s \in Seq(Range(s))
  /\ \E rs \in SUBSET (1..Len(s)) :
       /\ \A b \in rs : b + 3 <= Len(s) /\ s[b] = "-Xlinker" /\ s[b + 1] = "-rpath" /\ s[b + 2] = "-Xlinker" /\ s[b + 3] = "libdir"
       /\ \A b, c \in rs : b < c => b + 3 < c
       /\ \A i \in 1..Len(s) : s[i] = "configured.lib" \/ \E b \in rs : i \in b..b + 3

\* The configuration names libraries, and one flavour of the C runtime at most.
ASSUME LinkAssumption ==
  \A l \in Links :
    /\ l.out \in {"exe", "shared"} /\ l.extra \in Seq(Range(l.extra))
    /\ LibrariesAndRpaths(l.config.shared) /\ l.config.bindings \in BOOLEAN
    /\ l.config.system \in Seq({"configured.lib"} \cup kWindowsCRTLibs)
    /\ \A i, j \in 1..Len(l.config.system) :
         {l.config.system[i], l.config.system[j]} \subseteq kWindowsCRTLibs => l.config.system[i] = l.config.system[j]

\* The linker: the configured driver; lld-link, first from the directory of
\* lld and then from PATH; or the C compiler from PATH.
findBundledLinker(l) == IF l.config.beside \/ l.config.onPath THEN "lld-link" ELSE "none"
Linker(l) ==
  CASE l.config.driver # "" -> l.config.driver
    [] l.config.driver = "" /\ ForWindows(l) -> findBundledLinker(l)
    [] OTHER -> IF l.config.onPath THEN "cc" ELSE "none"

\* What goes first: the archive, whole for a library, and the runtime.
CompilerRT(l) == IF ForWindows(l) THEN "importlib" ELSE "runtime"
\* A plausible bug: the archive of a DLL goes in like that of a program.
FirstInputsLoose(l) ==
  (CASE l.out = "exe" -> <<"archive">>
     [] l.out = "shared" /\ ForWindows(l) -> <<"/DLL", "archive">>
     [] l.out = "shared" /\ Darwin(l) -> <<"-shared", "-Wl,-force_load", "archive">>
     [] OTHER -> <<"-shared", "-Wl,--whole-archive", "archive", "-Wl,--no-whole-archive">>)
  \o <<CompilerRT(l)>>
FirstInputs(l) ==
  (CASE l.out = "exe" -> <<"archive">>
     [] l.out = "shared" /\ ForWindows(l) -> <<"/DLL", "/WHOLEARCHIVE:archive", "archive">>
     [] l.out = "shared" /\ Darwin(l) -> <<"-shared", "-Wl,-force_load", "archive">>
     [] OTHER -> <<"-shared", "-Wl,--whole-archive", "archive", "-Wl,--no-whole-archive">>)
  \o <<CompilerRT(l)>>

\* An ELF rpath, "-Xlinker -rpath -Xlinker dir", is taken out for Windows:
\* after [kept, skip], argument i of the configuration's s.
StartsRpath(l, s, i) == ForWindows(l) /\ i < Len(s) /\ s[i] = "-Xlinker" /\ s[i + 1] = "-rpath"
DropStep(l, acc, i) ==
  LET s == Shared(l)
  IN  IF acc.skip > 0 THEN [acc EXCEPT !.skip = @ - 1]
      ELSE IF StartsRpath(l, s, i) THEN [acc EXCEPT !.skip = 3]
      ELSE [acc EXCEPT !.kept = Append(@, s[i])]
NothingKept == [kept |-> <<>>, skip |-> 0]
DropRpath(l) ==
  LET loop[i \in 0..Len(Shared(l))] ==
        IF i = 0 THEN NothingKept ELSE DropStep(l, loop[i - 1], i)
  IN  loop[Len(Shared(l))].kept

HaveCRT(l) == \E i \in 1..Len(l.config.system) : l.config.system[i] \in kWindowsCRTLibs
CRT(l) == When(~HaveCRT(l), <<"libcmt.lib", "libvcruntime.lib", "libucrt.lib", "oldnames.lib">>)

WindowsArgs(l) ==
  <<"/out", "/nologo", "/SUBSYSTEM:CONSOLE">> \o When(l.out = "exe", <<"manifest">>) \o <<"/IGNORE:4001">>
    \o CRT(l) \o <<"/machine:X64">> \o When(l.debug, <<"/DEBUG">>)
AsanArgs(l) ==
  CASE "address" \notin l.san -> <<>>
    [] "address" \in l.san /\ "external" \in l.san -> <<"libasan">>
    [] OTHER -> <<"-fsanitize=address">> \o When("shared" \in l.san, <<"-shared-libasan">>)
UnixArgs(l) == <<"-o", "output">> \o AsanArgs(l) \o When("thread" \in l.san, <<"-fsanitize=thread">>)
StripArgs(l) ==
  CASE Darwin(l) -> <<"-Wl,-dead_strip">> [] ForWindows(l) -> <<"/OPT:REF">> [] OTHER -> <<"-Wl,--gc-sections", "-lm">>

\* The whole line; the user's own arguments come last.
LinkerArgs(l) ==
  FirstInputs(l) \o DropRpath(l) \o (IF ForWindows(l) THEN WindowsArgs(l) ELSE UnixArgs(l)) \o StripArgs(l) \o l.config.system
    \o [i \in 1..2 * Len(l.extra) |-> IF i % 2 = 1 THEN "-Xlinker" ELSE l.extra[i \div 2]]

\* Refused with a sentence: not x86-64 Windows, or a sanitizer there.
LinkRefused(l) ==
  \/ Linker(l) = "none" \/ ~l.config.runtime
  \/ ForWindows(l) /\ (l.arch # "x86_64" \/ {"address", "thread"} \cap l.san # {})

-----------------------------------------------------------------------------
(* mojo run: -Xlinker values as the JIT's libraries.  A value is [f, v, raw]: *)
(* flag, value in the same argument ("" if none) and the text of it all.    *)

hasSharedLibraryExtension(a) == a.f = "library"
TakesNext(a) == a.f \in {"-L", "--library-path", "-l", "-rpath"} /\ a.v = ""
DirFlags == {"-L", "--library-path", "-rpath", "-rpath="}     \* the last never takes the next
AsDir(a) == a.f \in DirFlags
Kind(a) == IF AsDir(a) THEN "dir" ELSE "name"

findLibraryByName(name, dirs, files) ==
  LET has == {i \in 1..Len(dirs) : <<dirs[i], name>> \in files}
  IN  IF has = {} THEN <<>> ELSE <<<<dirs[Min(has)], name>>>>

\* One pass over the values, a flag without one taking the next whatever it
\* is; then the names, against all the directories.
Put(acc, kind, v) == IF kind = "dir" THEN [acc EXCEPT !.dirs = Append(@, v)] ELSE [acc EXCEPT !.names = Append(@, v)]
XlinkerStep(files, acc, a) ==
  IF acc.want # "none" THEN [Put(acc, acc.want, a.raw) EXCEPT !.want = "none"]
  ELSE IF TakesNext(a) THEN [acc EXCEPT !.want = Kind(a)]
  ELSE IF AsDir(a) \/ a.f = "-l" THEN Put(acc, Kind(a), a.v)
  ELSE IF hasSharedLibraryExtension(a) /\ <<"direct", a.raw>> \in files
       THEN [acc EXCEPT !.libs = Append(@, <<"direct", a.raw>>)]
  ELSE acc                                           \* a warning
NothingYet == [dirs |-> <<>>, libs |-> <<>>, names |-> <<>>, want |-> "none"]
XlinkerPass(args, files) ==
  LET loop[i \in 0..Len(args)] == IF i = 0 THEN NothingYet ELSE XlinkerStep(files, loop[i - 1], args[i])
  IN  loop[Len(args)]
DeferredLibs(names, dirs, files) ==
  LET loop[i \in 0..Len(names)] == IF i = 0 THEN <<>> ELSE loop[i - 1] \o findLibraryByName(names[i], dirs, files)
  IN  loop[Len(names)]
resolveXlinkerLibraries(args, files) ==
  LET r == XlinkerPass(args, files) IN r.libs \o DeferredLibs(r.names, r.dirs, files)

\* What is resolved: the configured words, when there is a configuration, less
\* the tokens that a C compiler unwraps, and then the values of the command line.
Word(f, raw) == [f |-> f, v |-> "", raw |-> raw]
Token == Word("-Xlinker", "-Xlinker")
NotToken(a) == a # Token
ConfiguredLibs(x) ==
  appendSharedLibraryLinkArgs(x.shared, <<Token, Word("-rpath", "-rpath"), Token, Word("none", "libdir")>>, x.bindings)
RunArgs(x) == When(x.opens, SelectSeq(ConfiguredLibs(x), NotToken)) \o x.args
ASSUME LoadAssumption == \A x \in Loads : RunArgs(x) \in Seq(Range(RunArgs(x)))

-----------------------------------------------------------------------------
NoLink == [state |-> "none", args |-> <<>>]
LinkInit == link \in Links /\ linker = NoLink
LoadInit == loads \in {[in |-> x, libs |-> <<>>, done |-> FALSE] : x \in Loads}

RunLinker ==
  /\ linker.state = "none"
  /\ linker' = IF LinkRefused(link) THEN [state |-> "refused", args |-> <<>>] ELSE [state |-> "ran", args |-> LinkerArgs(link)]
  /\ UNCHANGED link
LoadLibraries ==
  /\ ~loads.done
  /\ loads' = [loads EXCEPT !.libs = resolveXlinkerLibraries(RunArgs(loads.in), loads.in.files), !.done = TRUE]
LinkSpec ==
  LinkInit /\ LoadInit /\ [][(RunLinker /\ UNCHANGED loads) \/ (LoadLibraries /\ UNCHANGED linkVars)]_<<linkVars, loads>>

\* What a COFF linker takes, and what only it takes; the values of the command
\* line are the user's affair.
CoffOnly == {"/DLL", "/WHOLEARCHIVE:archive", "/out", "/nologo", "/SUBSYSTEM:CONSOLE", "/IGNORE:4001", "/machine:X64",
             "/DEBUG", "/OPT:REF", "importlib", "manifest", "libvcruntime.lib", "libucrt.lib", "oldnames.lib"}
CoffArgs == CoffOnly \cup {"archive", "configured.lib"} \cup kWindowsCRTLibs
Own(l) == SubSeq(linker.args, 1, Len(linker.args) - 2 * Len(l.extra))
Occurrences(s, x) == Cardinality({i \in 1..Len(s) : s[i] = x})
\* The values read from the outside: an argument is the value of the flag
\* before it if an odd number of flags without a value lead up to it.
IsValue(args, i) ==
  \E k \in 1..i - 1 : /\ k % 2 = 1 /\ \A j \in i - k..i - 1 : TakesNext(args[j])
                      /\ k = i - 1 \/ ~TakesNext(args[i - k - 1])
Flags(args, fs) == {i \in 1..Len(args) : args[i].f \in fs /\ ~IsValue(args, i) /\ (TakesNext(args[i]) => i < Len(args))}
ValueAt(args, i) == IF TakesNext(args[i]) THEN args[i + 1].raw ELSE args[i].v

\* The archive of a shared library goes in whole, and nothing else does.
KeptWhole(l, own) ==
  CASE ForWindows(l) -> {"/DLL", "/WHOLEARCHIVE:archive"} \subseteq Range(own)
    [] Darwin(l) -> \E i \in 2..Len(own) : own[i - 1] = "-Wl,-force_load" /\ own[i] = "archive"
    [] OTHER -> \E i \in 2..Len(own) - 2 :
                  /\ own[i - 1] = "-Wl,--whole-archive" /\ own[i] = "archive" /\ own[i + 1] = "-Wl,--no-whole-archive"
                  /\ own[i + 2] = "runtime"
\* The line can be carried out by the linker it is for: one output, the archive
\* once and whole if it makes a library, the runtime once and as the file that
\* linker reads, and on Windows one C runtime, all four of its libraries if the
\* configuration has none, and no argument but lld-link's (the DLL of installed
\* bindings excepted); elsewhere none of lld-link's.  And under mojo run a
\* library is found in any directory of the configuration and the command line,
\* wherever that comes (linkOutput, resolveXlinkerLibraries).
LinkInputsRight ==
  /\ linker.state = "ran" =>
       LET own == Own(link)
       IN  /\ Occurrences(own, "/out") + Occurrences(own, "-o") = 1
           /\ Occurrences(own, "archive") = 1 /\ (link.out = "shared" => KeptWhole(link, own))
           /\ Occurrences(own, "importlib") = (IF ForWindows(link) THEN 1 ELSE 0)
           /\ Occurrences(own, "runtime") = (IF ForWindows(link) THEN 0 ELSE 1)
           /\ ForWindows(link) =>
                /\ Range(own) \ {"bindings.dll"} \subseteq CoffArgs
                /\ Cardinality(Range(own) \cap kWindowsCRTLibs) = 1
                /\ HaveCRT(link) \/ {"libcmt.lib", "libvcruntime.lib", "libucrt.lib", "oldnames.lib"} \subseteq Range(own)
                /\ (link.out = "exe") = Contains(own, "manifest")
           /\ ~ForWindows(link) =>
                /\ CoffOnly \cap Range(own) = {}
                /\ Darwin(link) \/ "-lm" \in Range(own)
  /\ loads.done =>
       LET args == RunArgs(loads.in)
           Has(n) == {i \in Flags(args, DirFlags) : <<ValueAt(args, i), n>> \in loads.in.files}
           names == {ValueAt(args, i) : i \in Flags(args, {"-l"})}
       IN  /\ Range(loads.libs) \subseteq loads.in.files
           /\ \A n \in names : Has(n) # {} => <<ValueAt(args, Min(Has(n))), n>> \in Range(loads.libs)
=============================================================================
