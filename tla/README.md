# Verification of mojo.windows

mojo.windows ports the Mojo toolchain to Windows.  The repository does not hold
the toolchain.  It holds a pin to a commit of the upstream repository, whole
files that replace or extend upstream's at that commit (`overlay/`), and the
scripts that put the two together, move the pin, build, and run tests on a
Windows machine.  This directory holds TLA+ models of its parts, TLC
configurations that check them on small instances, and proofs checked by TLAPS.

`PROJECT.json` maps every definition to the lines it models, and lists runs,
mutants, hazards, findings and theorems.

## 1. The system

### 1.1 Parts modelled so far

**Pin, overlay and checkout** (`scripts/sync.sh`, `refresh.sh`,
`bump-upstream.sh`, `check-overlay.sh`, `common.sh`).
*State*: `upstream.lock`, the files under `overlay/` and the MANIFEST beside
them (per path `edit`, `new` or `delete` and the blob upstream had), what is
published, and the checkout under `.upstream` with its HEAD, working tree and
the marker `.checkout-ready`.
*Operations*: `sync.sh` makes the checkout from pin and overlay, `refresh.sh`
makes the overlay from the checkout, `bump-upstream.sh` moves the pin with a
three-way merge per file and then runs the other two, `check-overlay.sh` is what
CI runs.  The weekly workflow runs the bump.
*Hard*: every script is many steps and can be interrupted between any two; two
scripts are meant to be inverse; a resolved conflict is merged again; the lock,
the overlay and the checkout can each belong to a different pin.
*Correct when*: a sync that says "done" left exactly pin plus overlay; a refresh
followed by a sync changes nothing; a bump loses no change of either side; what
passes CI applies to its pin; nothing silently reverts upstream.

**Staging and running tests** (`scripts/run-on-windows.sh`).
*State*: on the Windows machine, a shared tree of external repositories, a lock
directory and a stamp (a count of entries) for each, and a directory per run; in
each run, the loop over repositories, the stamp it read, the lock it holds.
*Operations*: stage a repository unless its stamp says it is there, run the
test, and clean up in an EXIT trap; once for a machine reached through WSL, once
for one reached over ssh.
*Hard*: many runs at once on several build hosts, killed and interrupted by
Bazel's time limit, copies that fail half way, locks that dead runs leave.
*Correct when*: one run at a time stages a repository, a test starts with all it
needs, no run deletes another's directory, no lock leaks, every run ends.

**Child processes and pipes** (`std/os/process.mojo`, `std/sys/_fd.mojo`).
*State*: a Process object has a pid or a handle and a cached status; a Pipe has
two descriptors and their inheritance flags; the system has the ids, which it
gives away again, and the exit word of an ended child.
*Operations*: run, poll, wait, hangup, interrupt, kill, the destructor, and the
life of a pipe, on POSIX and on Windows.
*Hard*: reuse of ids, interrupted waits, exit codes that look like something
else (259, error severity), threads between `pipe` and `fcntl`.
*Correct when*: signals reach only children, a status is what ended the child,
ids are given back exactly once, children inherit what was asked for.

**Files** (`std/io/file.mojo`, `file_descriptor.mojo`, `io.mojo`, `std/sys/_fd.mojo`).
*State*: a handle's descriptor, the loop variables of a running call, the
descriptor table with offsets, the files.
*Operations*: open, close, seek, write, write_all, read, read_bytes, print.
*Hard*: system calls that move less than asked, fail half way, and mix with
those of other handles and programs; numbers that are reused; buffer growth.
*Correct when*: write_all writes everything once and in order, read_bytes
returns what is there, a descriptor has one owner.

**Files under a lock** (`Support/lib/FileSystemExtras.cpp`).
*State*: LLVM's lock file and its owner, the file, and in each process the
retries, the owner it waits for and whether it owns the lock.
*Operations*: readFileUnderLock, writeFileUnderLock, appendFileUnderLock.
*Hard*: owners that die, waits that time out, errors of tryLock, waits that end
because the lock is gone and not because one has it.
*Correct when*: one owner at a time, no lock left behind, every operation ends,
an append is seen whole.

**Constant folding** (`Mojo/lib/POPDialect/POPOpsFolders.cpp`).
*State*: the term, or the little program of loads and stores, that the rewriter
is working on; for the compile-time interpreter, its memory and compiler globals.
*Operations*: the folds, the canonicalization patterns and the interpreter's
handlers.
*Hard*: widths and signs, index types of unknown width, byte order, strides of
types with tail padding, atomic and volatile accesses, patterns that feed others.
*Correct when*: in whatever order they are applied the value stays the same, and
the rewriter comes to an end.

**Lowering to LLVM** (`Mojo/lib/KGENToLLVM`).
*State*: what has been lowered; for interpreter memory, the globals and the
scope's cache of blobs.
*Operations*: types and constants, C ABI signatures, calls and returns, closures
and indirect calls, the blobs of the interpreter.
*Hard*: two layouts that must agree bit by bit, two ends of a call lowered apart.
*Correct when*: the bits are where the other side looks for them.

**Object compiler** (`Mojo/lib/Compiler/ObjectCompiler`).
*State*: the module in its stages, the set of functions that pieces have taken,
one task per piece, the saved assembly, and the transform cache on disk that
invocations share; for kernels, two promises per kernel.
*Operations*: create, emit an archive, assembly, LLVM IR or a shared object, and
emit a bundle of offload kernels.
*Hard*: tasks in any order on shared state, a cache whose key must say all that
matters, one failure among many results, promises that nobody keeps.
*Correct when*: every request is answered with an error or with an archive that
is right for it, whether it was made or found in the cache.

**Execution engine** (`Mojo/lib/ExecutionEngine`).
*State*: dylibs with their generators, link and search orders, what is loaded.
*Operations*: set up the session, load an archive, look a name up, end.
*Correct when*: a name is bound to the library that is meant to provide it.

**Configuration** (`Support/lib/Configuration.cpp`).
*State*: the folders and files of a machine; process-wide overrides and the cached
file with their two once-gates; the copy in each Config.
*Operations*: find or make a folder, find the file, open, read, set, unset.
*Hard*: folders that, once made, change where one looks next; threads that open
together; an override that is unset while it is read; a file that is being written.
*Correct when*: the file stays found, and a read is what was right at one moment.

**Debugger RPC client** (`Mojo/tools/mojo/Debug/RPCClient.cpp`).
*State*: a connecting and a talking thread per port, descriptors, the ordered set
of connections, the choice.
*Operations*: connect to all ports, list who answers in time, send to one.
*Hard*: silent windows, sends that take a part, sockets that are moved, dropped
and closed, numbers that are reused.
*Correct when*: the list comes in time, the request reaches the window picked, and
each socket is closed once.

**Command line tools** (`Mojo/tools/mojo`: build, precompile, run).
*State*: for each command its step, the output path and the temporary files on
disk; the link line; the package that is being cloned.
*Operations*: parse arguments and source, compile, write an output, link, execute;
clone a package and rename it; find the libraries a JIT session loads.
*Hard*: an output that is opened before it is known whether there will be one,
files that go when a variable does, commands killed beside others, three linkers
with different arguments, names that look like the package's and are not.
*Correct when*: success means a whole output and nothing lying about, the linker
understands its line and has its inputs, a renamed package means what it meant.

### 1.2 Not modelled

| part | sources | why |
| --- | --- | --- |
| Telemetry, crash reporting, signal handler | `Support/lib/Telemetry`, `CrashReporting`, `Init/lib` | order of set-up and shutdown; the next candidates |
| Semaphore, affinity | `AsyncRT/lib/Support` | thin wrappers; the timed wait adds a time-out to `tv_nsec` without a carry (`Semaphore.cpp:186`), arithmetic that needs no model checker |
| `mojo` dispatcher, compiler options | `mojo.cpp`, `Mojo/lib/ToolCommon` | look-ups without state of their own |
| Temporary files, makedirs, TempFile, TempDir | `std/tempfile`, `std/os/os.mojo`, `FileSystemExtras.cpp` | tests and creates in two calls, so races are known from reading; nothing relies on more |
| subprocess, paths, quoting | `std/subprocess`, `std/os/path`, `std/pathlib` | pure functions on strings, covered by the tests beside them |
| Python binding | `std/python/_cpython.mojo`, `CompilerRT/Python.cpp` | mostly a table of bindings |
| Hardware information, linker driver | `Support/lib/Threading`, `bazel/internal/cc-toolchain/tools` | parsing of text |
| Platform queries, time, start-up, runtime calls, small libraries | `std/sys`, `std/time`, `CompilerRT/System.cpp`, ... | single calls of the system without state of their own |
| Bazel rules, workflows, packaging scripts | `bazel/`, `.github/`, `scripts/` | declarations, or sequential copying nothing else depends on |
| Pip lock files | `bazel/pip` | generated |

### 1.3 How the parts interact

The scripts of 1.1 share files only: `refresh.sh` reads what `sync.sh` wrote and
`bump-upstream.sh` calls both, so they are one module.  Runs of
`run-on-windows.sh` meet in the shared directories of one Windows machine, and
build hosts do not talk to each other.  `Process`, `Pipe`, `FileHandle` and
`FileDescriptor` all rest on `std/sys/_fd.mojo`; `ChildProcess` models the part
about inheritance and pipes, `FileIO` the part about transfers.
`FileSystemExtras` is used by processes of the toolchain that share a file;
`Configuration` reads its file through it, and since a process that waited for the
lock goes on without it (section 5), `Configuration` lets a read see half a write.
`PopFold` and `PopMemory` are what happens to constants before `TypeLowering` and
`InterpMemory` bring them to LLVM; the functions of `CallLowering` are part of the
modules `ObjectCompiler` compiles, and an archive it emits is what
`ExecutionEngine` loads.  They meet through values only, never in time, so they
are composed through the shared type and link modules and not by interleaving:
`TypeLowering` and `CallLowering` extend `LLVMTypes`, and `lowering.cfg` gives
`CallLowering` the data layout of `TypeLowering` for its constants; `ObjectCompiler`
and `OffloadKernels` extend `LinkLine`.

## 2. Modules

| module | models | one action is |
| --- | --- | --- |
| `OverlaySync` | the five scripts | a command, or a group of commands that change one thing, of the running script; a change by a person; an interrupt |
| `StageExternal` | `run-on-windows.sh` | a command of one run; a signal; a failed copy |
| `ChildProcess` | Process and Pipe | a method (the blocking wait is two); the end of a child; another process given an id |
| `FileIO` | FileHandle, FileDescriptor | a system call of a running library call |
| `LockedFile` | the operations under a lock | a call of LockFileManager, a wait's end, a piece written |
| `PopFold` | folds and patterns on values | one rewrite at the root or an operand |
| `PopMemory` | folds, patterns and the interpreter on pointers, loads, stores, globals | one rewrite of a program |
| `LLVMTypes` | the types of the LLVM dialect, a value's bits | (operators) |
| `StructLayouts` | LLVM's and KGEN's layout of a struct, the padding fields | (operators) |
| `TypeLowering` | types and constants to LLVM | the lowering of one constant |
| `CallLowering` | C ABI, closures, indirect calls | the lowering of one call at both ends |
| `InterpMemory` | interpreter memory to globals and filled allocations | the lowering of one memref |
| `LinkLine` | the link of a shared object | (operators) |
| `ArchiveService` | what a caller of emitArchive may rely on | ask, answer |
| `ObjectCompiler` | one invocation after another over a cache; implements `ArchiveService` | a step of the caller or of a piece's task |
| `OffloadKernels` | emitOffloadKernels | a step of the caller, of a kernel's task, of an emission |
| `ExecutionEngine` | a JIT session | a step of its set-up, a load, a look-up |
| `ConfigPaths` | search paths and folders | a call that finds or makes a folder or the file |
| `Configuration` | the values of a configuration | a call, cut where a mutex or a once-gate is released |
| `RPCClient` | mojo debug's client | a system call of one thread, a step of invokeRPC |
| `MojoTools` | build, precompile and run as processes over one disk | a step of a command that can fail or change the disk; a kill |
| `LinkOutput` | linkOutput's linker and line; resolveXlinkerLibraries | one link; one resolution |
| `PackageBuild` | buildPackage | one element of the worklist, the renaming, the checks |
| `MC...` | instances of the above | |
| `StageExternalProofs`, `OverlaySyncProofs`, `ChildProcessProofs`, `FileIOProofs`, `LockedFileProofs` | theorems about the module of that name | |
| `MojoToolsProofs` | theorems about `MojoTools`, `LinkOutput` and `PackageBuild` | |
| `CompilerProofs` | theorems about `ObjectCompiler`, `OffloadKernels`, `ExecutionEngine`, `InterpMemory`, `CallLowering` and `StructLayouts` | |
| `ServicesProofs` | theorems about `ConfigPaths`, `Configuration` and `RPCClient` | |

Variables are named for the variables of the code or the files they stand for,
and each declaration says which.  These variables are history and are read by no
action's guard: `pre` and `cut` of `OverlaySync` (pin and tree when a bump began; that a
refresh was interrupted while there was no MANIFEST), `why` of `StageExternal` (why a run
ended), `torn` of
`LockedFile` (who has read half an append), `signalled` of `ChildProcess`, `orig` of
`PopFold` and `written` of `PopMemory` (the term and the program as written), `parity` and
`turn` there (of the rewrites done, so that one that changes nothing is seen by `Settles`),
`placed` of `ConfigPaths`, `during`, `clean`, `answer` and `set` of `Configuration`,
`closes` and `stray` of `RPCClient`, `erases` of `ObjectCompiler`.
`start` and `disturbed` of `FileIO` are history of a call in the same sense.  A
definition named as "mutant" under `mutants` in `PROJECT.json` is a plausible
mistake in the definition after it; nothing refers to it, and each property of a passing run
fails when one of them takes the place of what it mutates.

### What the models leave out, and simplify

- `OverlaySync`.  A file is a function from two hunks to lines, and a blob is its
  content.  Bumps go to the pin or later.  Files are edited in a checkout that is
  ready, conflicts resolved right after the bump that reports them.  Git's own
  commands are atomic: a checkout or merge torn half way by a signal is not
  modelled.
- `StageExternal`.  An entry is absent, partial or whole.  The two transports
  are one set of actions, with the difference in how a missing stamp is read.  The
  EXIT trap is two steps, the directory and the lock, and the script may be killed
  between them.
- `ChildProcess`.  The arithmetic of exit words is kept, with the severity unit
  2^30 as a parameter so that TLC's integers hold it.  A wait fails only by EINTR.
  The thread handle CreateProcess returns is closed inside the spawn.
- `FileIO`.  A byte is its writer and its index.  An append is one step, as on
  POSIX; the C runtime on Windows seeks and then writes.  Seeks are to absolute
  offsets.
- `LockedFile`.  LockFileManager is LLVM's and is modelled from how it is used;
  each of its calls is atomic.  An append reaches the file in two pieces.  A
  stream that fails ends the process, as raw_fd_ostream does.  The special output
  names, TempFile and TempDir are not modelled.
- `PopFold`, `PopMemory`.  A value is a bit pattern of a few bits and a float the
  integer it stands for; `Eval` and `Interpret` are the reference.  Where an
  operation is undefined it has every value.  Strings are left out.  The folds whose
  lambda is in the file have a lane operator of their own, translated from it; those
  whose lambda is not (abs, round, div, floordiv, shifts, cmp) are taken to compute the
  reference, so for them only the shape of the rewrite is checked.  Left out: the
  compile-time interpretation of casts from builtin types and of unions; alignments and
  initializers of allocations; malloc and memcpy.  Outside the instance, because the
  code asserts or does not look: a constant array that is undef in an array replace
  (`POPOpsFolders.cpp:2158` casts it), an index behind the end of an array (`:2138`,
  `:2151`), and a free of a bitcast from something that is no pointer.
- `TypeLowering`, `CallLowering`, `InterpMemory`.  A value is the set of its bits
  with their places; a register pair is a parameter each.  The System V
  classification is external, as in the code.  A union constant whose member nests
  a struct with implicit tail padding is outside the instance: the walk that packs
  it (`LLVMLoweringUtils.cpp:598`) does not skip that padding, and `ImageKept` fails.
  A vector of elements narrower than a byte (`simd<N, bool>`, four- and six-bit floats)
  inside a struct or array has another size in LLVM than in KGEN (`:329-333` and the
  comment at `:134-136`); such constants are in the instance, and `ImageKept` asks for
  the value at KGEN's places only where there is no such vector, and of a union.  A constant address
  goes through an integer of the index type (`:1206-1210`, `:1023-1029`) and loses its
  high bits where that is narrower than a pointer: the model does so too, and the
  instance has an index as wide as a pointer.  Of calls, left out: lifetime markers
  (`LowerKGENClosuresToLLVM.cpp:249`, `:265-270`), tail kinds (`:366-372`), the unpacking
  of several results and types that do not convert (`:190-196`, `:432-446`).  Of interpreter memory, left out: the GEP for an offset
  into a blob (`LLVMLoweringUtils.cpp:713-728`), the making of the global (`:733-767`), and the alignment
  the stores claim, which is the blob's at every offset (`:786`, `:797`, `:982`).
- `ObjectCompiler`, `OffloadKernels`.  A module is the set of the functions it
  defines; what LLVM, the splitter, MCLinker and lld do is external.  Bitcode
  libraries do not change between invocations, because the cache's key names them
  by path.  Using the value of a failed unit ends all promises (`undefined`).  The key
  of an archive has the target only through the hashed module; the printed options do
  not name it.  A kernel's id is in `kernelEmissionKinds`: the look-up there is
  `operator[]` (`ObjectCompiler.cpp:1909`), which would insert a missing one into a map
  that tasks share.  A bundle has one object format, any in the theorem and COFF in the
  run; one kernel of the run has id 0, so that no kernel is missing from the kernels with
  ids is a matter of the theorem.
- `ExecutionEngine`.  ORC and JITLink are external.  runProgram's own look-up of main
  is a look-up action of its own.
- `ConfigPaths`, `Configuration`.  A file parses or does not; the runfiles are a
  table; `cache_dir`, getPath and the typed readings are left out.
- `MojoTools`.  A file is old, absent, half written, whole or a mixture.  The files
  that offloaded kernels are written to, and the object's own temporary file, are
  left out.  What a linker leaves when it fails is external: the old output or none.
- `LinkOutput`.  Arguments are named for what they are; libraries are compared
  without regard to case in the code and by name here.  The second name
  findLibraryByName tries on macOS is left out.  The comma-separated text of
  `shared_libs` is the list of arguments it becomes; that the words are libraries and
  run paths is assumed, the code takes any.
- `PackageBuild`.  Attributes and locations are a list of references; the source
  locations of doc strings, which are stripped, are left out.
- `RPCClient`.  What requests say is left out; a window refuses, answers, denies,
  garbles or is silent.  The stream the logs go to is left out, and so is a connection
  that breaks after a part of the request was sent.

## 3. Runs

| run | instance | shows |
| --- | --- | --- |
| `stage` | two runs with different needs, two repositories, both transports, failing copies, kills and interrupts, fair | one stager; at the test everything there and whole unless it is being, or was, copied again; no lock leaked; directories are exclusive; every run ends |
| `stage_whole` | the same without signals | *violated*: an entry is copied again under a running test |
| `overlay` | two files of two hunks, three commits, two changes by people | the four promises of the scripts |
| `overlay_revert` | one file, two commits | *violated*: an interrupted bump and a refresh revert upstream |
| `overlay_unlisted` | one file, two commits | *violated*: files that no row lists are published |
| `overlay_drop` | one file, two commits | *violated*: a file deleted from `overlay/` comes back |
| `stdlib` | two Process objects, two ids and a pipe on both platforms, no other threads; or two handles on one file, four modes | signals, statuses, ids and inheritance; whole writes, whole reads, one owner |
| `locked_wait` | three processes that read and append | *violated*: a read under the lock sees half an append |
| `pop` | about 42 000 initial states: terms on a little-endian, a big-endian and an unknown target; programs of up to three statements, in two address spaces | values, memory and types survive every order of rewrites, and the rewriter stops |
| `lowering` | constants of nested structs, arrays and unions; calls with two arguments on five targets; spaces of three blobs | bits, arguments and blobs are where they are read |
| `compiler` | two invocations of fifteen kinds, two of kernels, one failure each; sessions on COFF and ELF | the object compiler implements `ArchiveService`, cache entries and kernels are right, names are bound, calls return |
| `services` | some 3 200 machines (POSIX, macOS, Windows) with up to two files, three on macOS; two threads, three worlds, two changes; three ports and three descriptors; packages of two names; some 4 600 link lines and 2 500 lists of -Xlinker values; two commands of eighteen kinds and one kill; three processes with one operation each on a locked file | the configuration stays found and reads are explained; the RPC client lists, picks and closes; a package keeps its meaning, a link line fits its linker, outputs are whole; a lock file has one owner, none is left, every operation ends |

A run that names several components starts with one of them at work and the others
at rest; they share no state, so that no interleaving is lost, and the fairness of one
at rest asks for nothing.

**Bounds.**  Two runs are enough for one to wait, skip or clash.  `LockTimeout` is
2 or 3 in place of 600: what matters is that it is reached, and that a lock can
come free before.  The manifests of `NeedNested` differ in size, so that a stamp
can be too low for one run and enough for the other; one entry dangles.  Two hunks
let one file be merged and conflict at once; three commits let upstream add and
drop a file; two edits are the fewest that change a file on both sides of a
script.  Two ids for two objects make every id reused; exit codes are 0, 259
(STILL_ACTIVE) and one of error severity.  Files of at most 4 bytes, writes of 2
and transfers of at most 2 give every split of a write, a buffer that grows, and
an empty read.  With three processes an owner, one that waits for it and one that comes in between meet; a second operation of the same
process is like that of another, so one each is enough.  `MaxRetries` is 0, which
leaves one retry.  Widths of 2, 3 and 4 bits give casts that narrow, widen and keep,
with all signs, and every value is enumerated; there is one float format per
width.  Blobs of up to 20 bytes with a SIMD width of 2 have runs shorter and longer
than eight widths; `MaxEntries` is 3, so that a function can be
started behind as many entries as a space has blobs.
Three functions of which two are exported and share the third
are the least for which two pieces take one function; two invocations are the
least that share a cache, two kernels of the same code the least that share an
entry, and one failure can be anywhere.  Two threads race at both gates; two
changes set and unset an override around a read.  Three descriptors for three
ports make a number that is closed twice hit another port, and two windows of one age
with names of one length are a Connection that the set does not take.  Two commands share an
output path or do not; three -Xlinker values are a flag, its value and a flag that
is taken for one.  The package has a file called as it is, thunks before and after
it, imports in packages and in files.  All names are model values; symmetry is used only where no
liveness property is checked.

**Deadlock** is not checked: runs end, objects are destroyed, and operations and
edits are bounded, after which nothing is left to do.

**Fairness.**  `StageExternal` assumes weak fairness of each run's own steps: a
live bash process is scheduled, and the commands it waits for return.
`LockedFile` assumes it of each process's steps: it runs, or its 90 seconds pass.
`ObjectCompiler` and `OffloadKernels` assume it of the caller and of each task: the
work queue runs what is queued.  `PopFold` and `PopMemory` assume it of the rewriter.
`RPCClient` assumes it of invokeRPC and of each connecting thread, whose timer
fires, and of nothing a window does.  Signals, crashes, failures and people have
none.  The lock wait of a run and of a
process are bounded by counters and time, so weak fairness is enough: no property
needs a lock to be won.

## 4. Proofs

Each theorem holds for any number of runs, files, objects, handles, processes,
threads, ports or kernels, and any value of the constants that satisfies the
assumptions beside their declaration.  Nearly all of them have the same shape: the
property is not inductive, a stronger invariant is, and that one is shown to hold
at first and to be kept by each action.  The invariants were model-checked before
they were proved.

- `StageExternalProofs`.  `TypeCorrect` from `TypeInv`.  `OneStagerHolds` and
  `GivesBackLockHolds` from `LockInv`: the lock directory exists exactly for the
  places of the script between mkdir and rmdir, and `lockHeld` names it from
  `MarkHeld` to `ForgetLock`; the properties alone are not inductive, since they do not say
  what the trap will remove.  Both hold under any signals; `OneStager` excepts a run
  interrupted inside release_lock, and section 5 says why.  `RunDirExclusiveHolds` from
  `DirInv`.  `PresentAtTestHolds` from `PresentInv` and `PartialInv`: whatever a stamp
  counts is in the tree, for the manifest of the run that wrote it, and an entry that is
  there and not whole is one that some run is, or was when it ended, copying.  It needs `NestedNeeds`,
  that a manifest with no more entries of a repository than another lists none the
  other lacks, which is what comparing counts takes for granted.
- `OverlaySyncProofs`.  All four promises of the scripts, from one invariant that
  says what is true half way through each loop.  `SyncInv`: rows that sync.sh has
  applied are in the tree and the others are still the pin's, and a checkout that is
  not marked ready has no file git does not know, so that the reset really is the
  pin.  `RefreshInv`: in its loop `overlay/` has the changed files copied so far and
  nothing else.  `CheckInv`: as long as `bad` is not set, what check-overlay.sh has
  looked at is right; `LoneInv`: files beside an empty MANIFEST come from an interrupted
  refresh only, the one exception of `PublishedAppliesHolds`.  `BumpInv`: of a bump that began in line with its pin, rows to
  come are as they were then, a row that is done and did not fail is the merge of its
  file, and after the last one the overlay, then the tree, is the merge.  An interrupt
  between any two steps is one of the actions each part must survive.  `BumpIsMerge`
  needs `UpstreamText`: upstream has no conflict marker and no line of ours.
- `ChildProcessProofs`.  `IdsReleased` is inductive with `TypeInv`, which says
  where in its life an object has an id and a status.  `SignalsOnlyChildrenHolds`
  follows from it: an object without a cached status still owns its id.
  `StatusTrueHolds` rests on `DecodeMeaning`, that decoding a status word gives
  back its cause for every code and severity.  `InheritsOnlyAskedHolds` from
  `PipeInv`, assuming `~Threaded`; section 5 says why.  `PipeReleasedHolds` has no
  such condition.
- `FileIOProofs`.  `OwnDescriptorHolds` from `DescInv`; `TypeCorrect` also needs
  that a running read has room left and a running write data left.  `ReadWholeHolds`
  and `WriteAllWholeHolds` are action properties, from `SoFar`: until a call is
  disturbed, its buffer is a piece of the file from where it began, or the file has
  there the piece of the data already sent, and the offset is at the end of it.  For
  a handle that appends, `AppendedSoFar`: what has been sent is the last that the
  handle has written to the file, wherever the others' bytes are between it.
- `LockedFileProofs`.  `TypeCorrect` bounds the retries of an operation by its
  place in the loop.  `OwnersApartHolds` and `LockReturnedHolds` from `OwnInv`: a
  process that takes itself for the owner is alive, in its operation, and named by
  the lock file.
- `CompilerProofs`.  `CacheRightHolds`, `SavedAssemblyWholeHolds` and
  `ServiceKeptSafely` from `CompilerInv`.  Its core, `TasksInv`, is about the pieces
  of a module while their tasks run in any order: every exported function is in some
  piece, what the pieces that were started define has been seen, and each function
  that was seen was taken by exactly one of them; so once all are through, all that is
  exported is there once.  From the moment a failed unit's value is used
  (`undefined`) nothing is claimed.  `KernelsRightHolds` from `KernelInv`: the value of
  an entry of the shared cache is a function of its key, and what an emission has
  made is what its kernel and kind call for under the options of now, in any object format.  An id other
  than 0 belongs to one kernel (`KernelAssumption`).  `NamesBoundHolds` from
  `EngineInv`: while a session is ready its three dylibs and every archive have the
  generators, definitions and link order that `create` and `addIfAbsent` gave them
  (`SessionInv`), and what was linked so far is bound as it should be (`LinkedInv`).
  It is stated for sessions that are `Undisputed`: every COFF session, and elsewhere
  those where no needed name is both in the process and only in a library behind the
  first one (section 5).
  `BlobsRestoredHolds` is about two loops.  In the one that fills a blob, `FillInv`
  and `LoopInv`: the run of equal bytes held back ends where the loop stands, no
  pointer region lies inside it, and all before it is in memory already; `MemInv`,
  about the spaces one after the other: every place remembered for a blob is an entry
  that exists and holds that blob.
  `ArgumentsArriveHolds` keeps three walks over the arguments in step: the one that
  makes the operands at the call site, the one that makes the definition's parameters
  and the one with which its body puts the arguments together again.  After as many
  arguments they have made, and used up, as many parameters of the same types.
  `StructLayoutsAgree` is about operators: for any fields, the struct that
  POPToLLVMTypeConverter makes has each field, through the cache of indices, at KGEN's
  offset, and has KGEN's size.  `InStep` holds after each field: the conversion's
  offset, the end of what LLVM has laid out and the end of KGEN's layout are the same.
- `ServicesProofs`.  `SocketsClosedOnceHolds` from `SocketInv`: a
  Connection that has not been closed holds a number the table has for it, what is
  still in a future or in the set has not been closed, nothing is in both, what is in
  neither was closed once, and the set is in the order of `operator<`.  `PickHonouredHolds` from the order and `PickInv`.  `ReadsExplainedHolds` from `ReadInv`, with `Gates`
  (who is past a once-gate found it open) and `DebugApplied` (the overrides not changed
  at run time are the settings of MODULAR_DEBUG already made).
  `ConfigStaysFoundHolds` from `PathInv` and two facts about the search: which folders
  are searched depends on the machine and not on the folders there are
  (`SameFolders`), and the one folder that changes its place is passed over when it
  has no file (`SameSearch`).
- `MojoToolsProofs`.  `OutputsWholeHolds` from `Right`, which says of a process at
  each of its steps what is at its output path if no other process writes there, and
  which temporary files are there.  `LinkInputsRightHolds` follows the line through its
  passes, with what each keeps and adds: the archive once, and whole in a library, the
  runtime once, one C runtime and all of it, and nothing for another linker; and the two
  passes over -Xlinker values: a
  directory counts from wherever it is, and the first that has the library is taken.
  `ReferencesKeptHolds` from `CloneInv`, in which the worklist is read from its bottom:
  every open container has there, from `base` on, the operations it has not been given
  yet (all but the first `took`), with the way back to it on top of them; so what has
  been cloned of a container is the first `took` of its operations, without the imports,
  and all of them once it is closed.

**Assumptions** about constants type what is asked for (`InvocationType`,
`CompilerAssumption`, `KernelAssumption`, `PathAssumption`, `ConfigAssumption`); the
ones that say more are `NestedNeeds`, `UpstreamText`, the uniqueness of kernel ids,
that a window's name has one length (`PortsAssumption`), and `EngineAssumption`: what
an archive needs and does not define is to be had from some library or the process,
code that is not for another machine is for this one, and no name of the printf
family has a prefix by which the sanitizers and MLIR are asked.  Of the tools:
`LinkAssumption` says that a configuration names libraries and run paths, each of
these in four arguments, and at most one flavour of the C runtime;
`PackageAssumption` that the operations of a package are a tree, that a reference to
another package names one at the top that is not called by the new name, and that in
a text a path does not end with the package.  Of the lowering: `SpaceAssumption`, pointer
regions are inside their blob, in order and apart, and globals have none;
`CallAssumption`, only closures capture; `LayoutAssumption`, a register has the size of
its type, a value is no larger than its slot, and the fields of a capture record are
apart and in order; `DataLayoutAssumption`, alignments are positive.
`StructLayoutsAgree` has hypotheses instead: alignments are powers of two
(`Alignments`: of two the larger is a multiple of the smaller), KGEN asks a field for
no less alignment than LLVM and for the same size (`FieldFits`), and the struct for no
less than its fields and than aggregates have.  TLC evaluates the assumptions in the
runs, and, for every struct of `lowering`, `FieldFits`.

**Induction.**  The library's induction theorems cannot be instantiated, so a claim
about all places of a sequence is proved with `LeastNat`: a nonempty set of natural
numbers has a least element (the library's well-foundedness of `<`), hence there is no
first place where the claim fails.  The settings of MODULAR_DEBUG, the order of connections
and the first folder found are treated so.  `Inductive` says it of a set: a set of
natural numbers with 0, and with n + 1 when it has n, has all of them; the set of the
places where the claim holds is then defined on the spot.  `StepsIterate` uses it to
show that a loop that stays in a set has a sequence of states, which is what a
recursive function needs to exist before anything can be said of its value.

**Refinement.**  `ObjectCompiler` implements `ArchiveService` (`ServiceKept`): the
request is the invocation's options, the answer its result once the caller is
done, and an archive is right when it has the kind asked for, all the exported code,
once each, and marks its exports exactly for a COFF shared library.  Code that
an archive takes from a library is not asked for here.  The hits of the cache are what makes this hard.  The run checks all of it;
`ServiceKeptSafely` proves the safety part, with `CompilerInv` at each step.

**Only model-checked**

- The liveness properties (`EveryRunEnds`, `EveryOperationEnds`, `Settles`,
  `KernelsReturn`, `CollectEnds`, the liveness in `ServiceKept`), which are outside
  the prover's reach.
- `MeaningKept` and `ProgramKept` of `PopFold` and `PopMemory`, and `ImageKept` of
  `TypeLowering`: they are about terms and types of any depth, defined by RECURSIVE
  operators, and the folds use bitwise ones.  Of `ImageKept` the step for one struct
  is proved (`StructLayoutsAgree`), the nesting and the unions are not.

## 5. Where the code and what is said of it disagree

Five runs show one each:

1. `overlay_revert`: a bump interrupted after it wrote the lock
   (`bump-upstream.sh:178`), then `refresh.sh`, records upstream's old text as ours.
2. `overlay_unlisted`: a `refresh.sh` interrupted between its `rm -rf` and the writing
   of MANIFEST leaves files without rows; `check-overlay.sh:21` counts rows, skips its
   first two parts and passes, although its comment calls a file that is present and
   unlisted the worse case.
3. `overlay_drop`: `docs/upstream.md:73` says that a change drops out when its file is
   deleted from `overlay/` and `refresh.sh` is run again; `refresh.sh:31` takes it from the
   checkout again.
4. `stage_whole`: a run that needs more of a repository copies all its entries, not the
   rest (`run-on-windows.sh:303`), so that a file in use is truncated under another run's
   test; if the copy fails or is killed, the older stamp stands beside the half file.
5. `locked_wait`: a wait that succeeded (`FileSystemExtras.cpp:104`) does not own the
   lock, although the comment there says so.

The others are reachable in the models, and are why some properties and theorems
have a condition; no run states them.

- Over ssh a missing stamp ends the script (`run-on-windows.sh:328`), although the
  next line provides for it.
- An interrupt between `rmdir` and `lock_held=""` (`run-on-windows.sh:279`) makes the
  trap remove a lock another run has taken; `OneStager` excepts a repository for which
  that has happened.
- `fd_pipe` (`_fd.mojo:336`) is not private from the start on POSIX, so
  `InheritsOnlyAsked` is checked and proved without other threads.
- `FileDescriptor.write_bytes` (`file_descriptor.mojo:85`) does not loop, although
  `_fd.mojo:106` relies on every caller doing so.
- Work committed in the checkout is dropped by the next `sync.sh`; a resolution that
  keeps a line of ours conflicts again when the bump is rerun.
- `cast(cast(x : f16 to bf16) : f16)` becomes a cast of `x` to its own type
  (`POPOpsFolders.cpp:1077`): with `Floats <- TwoFormatsOfOneWidth`, `MeaningKept` fails.
- Two memrefs of one scope that reach the same blob each get a copy of it
  (`LLVMLoweringUtils.cpp:815`).
- The callback behind the units of a piece never asks whether a unit failed
  (`ObjectCompiler.cpp:1314`).  The model goes to `undefined`, and `ServiceKept`
  promises nothing from there.
- A bitcode library that fails to link keeps one of the two promises of its kernel
  (`ObjectCompiler.cpp:1896`), so emitOffloadKernels never returns; `KernelsReturn`
  excepts it.
- The process's modules are asked before the libraries named outright
  (`ExecutionEngine.cpp:71`), so `memcpy` is bound by the order of the modules.
- Off COFF a library of the command line is asked with dlsym, which goes on into what
  the library depends on (`ExecutionEngine.cpp:185`): the first one answers for the
  C library too, and hides a later library that has the same name.  `NamesBound` is
  proved, and the instance chosen, without such names.
- A Config that has read an override keeps it after unsetGlobalValue
  (`Configuration.cpp:260`); `ReadsExplained` excepts it.
- Windows of one age with different names of equal length are one element of the set
  of connections (`RPCClient.cpp:112`): the second is not listed, and its socket is
  closed when the set refuses it, which the run meets.  An index past the
  end of the list is undefined (`RPCClient.cpp:344`).

- A rendered debug name in which a module called like its package follows it has
  both names rewritten (`mojo-precompile.cpp:420`), although the comment there says
  that one preceded by `::` "names a module, not the package"; `ReferencesKept`
  leaves such texts out.
- `-Xlinker x` reaches lld-link as these two words (`mojo-build.cpp:1252`), which
  only a compiler driver takes; `LinkInputsRight` is about the rest of the line.
- The configured bindings library is a `.dll` (`Configuration.cpp:221-224`,
  `mojo-build.cpp:1088-1090`; a test has it on the line), which lld-link does not read
  as an input, as the comment at `mojo-build.cpp:1012-1017` says of the runtime;
  `LinkInputsRight` excepts it.
- A precompile that fails, or only applies fix-its, has deleted the package that was
  there before (`mojo-precompile.cpp:557`).  `--emit llvm` and `--emit asm` exit with
  success when a warning became an error (`mojo-build.cpp:587`).  A build of an object
  fails when no linker is found, although none is run (`mojo-build.cpp:947`).
- Two commands with one output path can both report success and leave a mixture, or
  nothing; `OutputsWhole` excepts them.

## 6. Plan

1. `ImageKept` by induction on the depth of a type: `StructLayoutsAgree` is the step
   for structs; the packing of unions is missing.
2. An abstract lock that `StageExternal` and `LockedFile` are shown to implement.
3. `TelemetryContext` and the signal handler: set-up and shutdown in any order.
