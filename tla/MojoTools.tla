------------------------------ MODULE MojoTools ------------------------------
(***************************************************************************)
(* The subcommands build, precompile and run as processes over one file     *)
(* system (mojo-build.cpp, mojo-precompile.cpp, mojo-run.cpp).              *)
(*                                                                         *)
(* An invocation is [cmd, emit, windows, tells, werror, fixit, dsym, out]:  *)
(* what is emitted, the target, whether help or a --print-* is asked for,   *)
(* whether a warning became an error, --experimental-fixit, whether a dSYM  *)
(* is made of the result (debug information, on a Mac for a Mac), and the   *)
(* output path.  A file is absent, as it was before ("old"), begun or       *)
(* finished by a process, or a mixture.  The parser, the pipeline, the      *)
(* object compiler and the linker may succeed or fail at any call.          *)
(***************************************************************************)
EXTENDS Naturals, Sequences, FiniteSets

CONSTANTS Tools,        \* processes
          Invocations,  \* what a process may be asked for
          Paths,        \* output paths
          MaxKills      \* processes killed outright

\* What may be asked, as the header says.
Emits == {"exe", "shared", "object", "llvm", "bitcode", "asm", "package", "none"}
ASSUME InvocationType ==
  Invocations \subseteq
    [cmd : {"build", "precompile", "run"}, emit : Emits, windows : BOOLEAN, tells : BOOLEAN,
     werror : BOOLEAN, fixit : BOOLEAN, dsym : BOOLEAN, out : Paths]

VARIABLES asked, step, disk, temps, code, kills
toolVars == <<asked, step, disk, temps, code, kills>>

Half(p) == <<"half", p>>
Whole(p) == <<"whole", p>>
Absent == <<"absent">>
Old == <<"old">>
Mixed == <<"mixed">>

Textual(p) == asked[p].emit \in {"llvm", "bitcode", "asm"}
Out(p) == asked[p].out
Temp(p, what) == <<p, what>>
Mine(p) == {t \in temps : t[1] = p}

\* ToolOutputFile and TempFile: a process that returns deletes, by name, the
\* output it opened and did not keep, and its temporary files.
Opened(p) == (asked[p].cmd = "precompile" /\ step[p] \in {"parse", "package", "emit"}) \/ (Textual(p) /\ step[p] = "emit")
Ends(p, c) ==
  /\ step' = [step EXCEPT ![p] = "ended"]
  /\ code' = [code EXCEPT ![p] = c]
  /\ temps' = temps \ Mine(p)
  /\ disk' = IF Opened(p) THEN [disk EXCEPT ![Out(p)] = Absent] ELSE disk
  /\ UNCHANGED <<asked, kills>>
Proceed(p, s) == step' = [step EXCEPT ![p] = s] /\ UNCHANGED <<asked, code, kills>>
Fails(p) == Ends(p, 1)
\* The output is in place.  An output written where it is (ToolOutputFile) is
\* whole only if nobody has opened or deleted it meanwhile: a second writer
\* makes a mixture, and a file that was deleted is kept under no name.
Kept(p) ==
  CASE disk[Out(p)] = Half(p) -> Whole(p) [] disk[Out(p)] = Absent -> Absent [] OTHER -> Mixed
Leaves(p, image, c) ==
  /\ disk' = [disk EXCEPT ![Out(p)] = image]
  /\ step' = [step EXCEPT ![p] = "ended"]
  /\ code' = [code EXCEPT ![p] = c]
  /\ temps' = temps \ Mine(p)
  /\ UNCHANGED <<asked, kills>>

ToolInit ==
  /\ asked \in [Tools -> Invocations]
  /\ step = [p \in Tools |-> "args"] /\ code = [p \in Tools |-> 0] /\ kills = 0
  /\ disk = [f \in Paths |-> Old] /\ temps = {}

\* Help and --print-* end the command; arguments may be refused, two --print-*
\* and --print-supported-cpus without a triple among them.
ParseArgs(p) ==
  /\ step[p] = "args"
  /\ \/ Fails(p)
     \/ asked[p].tells /\ Ends(p, 0)
     \/ /\ ~asked[p].tells
        /\ Proceed(p, IF asked[p].cmd = "precompile" THEN "open" ELSE "parse")
        /\ UNCHANGED <<disk, temps>>

\* precompile opens its output before it parses, a textual build when it has
\* something to write; both begin by emptying it.
OpenOutput(p) ==
  /\ step[p] = "open"
  /\ \/ Fails(p)
     \/ /\ Proceed(p, IF asked[p].cmd = "precompile" THEN "parse" ELSE "emit")
        /\ disk' = [disk EXCEPT ![Out(p)] = Half(p)]
        /\ UNCHANGED temps

\* --experimental-fixit ends here with success and nothing to compile.
Parse(p) ==
  /\ step[p] = "parse"
  /\ \/ Fails(p)
     \/ asked[p].fixit /\ Ends(p, 0)
     \/ /\ ~asked[p].fixit
        /\ Proceed(p, IF asked[p].cmd = "precompile" THEN "package" ELSE "pipeline")
        /\ UNCHANGED <<disk, temps>>

\* buildPackage.
Package(p) ==
  /\ step[p] = "package"
  /\ \/ Fails(p)
     \/ Proceed(p, "emit") /\ UNCHANGED <<disk, temps>>

\* The KGEN pipeline, the look for main and, for LLVM output, the lowering.
Pipeline(p) ==
  /\ step[p] = "pipeline"
  /\ \/ Fails(p)
     \/ Proceed(p, IF asked[p].cmd = "build" /\ Textual(p) THEN "open" ELSE "archive") /\ UNCHANGED <<disk, temps>>

\* What is written is kept before anything else can fail; precompile then
\* looks at the warnings, a textual build does not.
Emit(p) ==
  /\ step[p] = "emit"
  /\ \/ Fails(p)
     \/ Leaves(p, Kept(p), IF asked[p].cmd = "precompile" /\ asked[p].werror THEN 1 ELSE 0)

Archive(p) ==
  /\ step[p] = "archive"
  /\ \/ Fails(p)
     \/ asked[p].cmd = "build" /\ ~asked[p].werror /\ Proceed(p, "link") /\ UNCHANGED <<disk, temps>>
     \/ asked[p].cmd = "run" /\ Proceed(p, "execute") /\ UNCHANGED <<disk, temps>>

\* executeModule's end: the program's own result, then the warnings.
Execute(p) ==
  /\ step[p] = "execute"
  /\ Fails(p) \/ Ends(p, IF asked[p].werror THEN 1 ELSE 0)

\* linkOutput up to the temporary files: configuration, directory, linker; an
\* object is written beside the output and renamed over it.
LinkStep(p) ==
  /\ step[p] = "link"
  /\ \/ Fails(p)
     \/ asked[p].emit = "object" /\ Leaves(p, Whole(p), 0)
     \/ asked[p].emit # "object" /\ Proceed(p, "temporaries") /\ temps' = temps \cup {Temp(p, "archive")} /\ UNCHANGED disk

NeedsManifest(p) == asked[p].windows /\ asked[p].emit = "exe"
\* A plausible bug: the manifest is a variable of the branch and gone with it.
WriteManifestInBranch(p) ==
  /\ step[p] = "temporaries"
  /\ \/ Fails(p)
     \/ Proceed(p, "linker") /\ UNCHANGED <<disk, temps>>
WriteManifest(p) ==
  /\ step[p] = "temporaries"
  /\ \/ Fails(p)
     \/ /\ Proceed(p, "linker")
        /\ temps' = temps \cup (IF NeedsManifest(p) THEN {Temp(p, "manifest")} ELSE {})
        /\ UNCHANGED disk

\* No runtime library, a target that is refused: nothing is run.  The linker
\* itself replaces the output, or fails and leaves the old one or none; a dSYM
\* that cannot be made fails the command with the program in place.
RunTheLinker(p) ==
  /\ step[p] = "linker"
  /\ \/ Fails(p)
     \/ Leaves(p, Absent, 1)
     \/ Leaves(p, Whole(p), 0)
     \/ asked[p].dsym /\ Leaves(p, Whole(p), 1)

\* Killed outright: no destructor runs.
Kill(p) ==
  /\ step[p] # "ended" /\ step[p] # "killed" /\ kills < MaxKills
  /\ step' = [step EXCEPT ![p] = "killed"] /\ kills' = kills + 1
  /\ UNCHANGED <<asked, disk, temps, code>>

ToolNext ==
  \E p \in Tools :
    \/ ParseArgs(p) \/ OpenOutput(p) \/ Parse(p) \/ Package(p) \/ Pipeline(p) \/ Emit(p) \/ Archive(p)
    \/ Execute(p) \/ LinkStep(p) \/ WriteManifest(p) \/ RunTheLinker(p) \/ Kill(p)

ToolSpec == ToolInit /\ [][ToolNext]_toolVars

-----------------------------------------------------------------------------
Touches(p) == asked[p].cmd # "run" /\ ~asked[p].tells
Makes(p) == Touches(p) /\ ~asked[p].fixit
Shares(p) == \E q \in Tools \ {p} : Touches(q) /\ Out(q) = Out(p)

\* A command that says it succeeded has left its output whole, one that
\* returns leaves neither a half-written output nor a temporary file, and the
\* linker has every input that its line names.  A failed build leaves no new
\* program, and the old one unless the linker took it; a failed precompile
\* leaves the old package, or none once it has opened its output (build,
\* compileModuleToArchive, linkOutput, precompile).  Processes that write to
\* one path at a time are left out: nothing keeps them apart.
OutputsWhole ==
  \A p \in Tools :
    /\ step[p] = "ended" => Mine(p) = {} /\ disk[Out(p)] # Half(p)
    /\ step[p] = "linker" =>
         Mine(p) = {Temp(p, w) : w \in {"archive"} \cup IF NeedsManifest(p) THEN {"manifest"} ELSE {}}
    /\ step[p] = "ended" /\ ~Shares(p) =>
         /\ code[p] = 0 /\ Makes(p) => disk[Out(p)] = Whole(p)
         /\ code[p] = 1 /\ asked[p].cmd = "build" /\ ~Textual(p) /\ ~asked[p].dsym => disk[Out(p)] \in {Old, Absent}
         /\ code[p] = 1 /\ ~asked[p].werror /\ asked[p].cmd = "precompile" => disk[Out(p)] \in {Old, Absent}
         /\ asked[p].cmd = "run" \/ asked[p].tells => disk[Out(p)] = Old
=============================================================================
