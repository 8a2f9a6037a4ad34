----------------------------- MODULE LockedFile -----------------------------
(***************************************************************************)
(* readFileUnderLock, writeFileUnderLock and appendFileUnderLock of        *)
(* Support/lib/FileSystemExtras.cpp: several processes operate on one file *)
(* and take LLVM's lock file for it first.                                 *)
(*                                                                         *)
(* The lock file names its owner.  LLVM gives it to whoever asks when there *)
(* is none or its owner is dead, and its wait ends when there is none, when *)
(* the owner it found has died, or when the time is up; it does not take   *)
(* the lock file.  A stream that fails ends the program (raw_fd_ostream's  *)
(* destructor), which is a crash here.                                     *)
(*                                                                         *)
(* An append reaches the file in two pieces.  A write goes to a temporary  *)
(* file that is renamed over the old one, so that whoever has the old one  *)
(* open goes on with a file nobody else will see.                          *)
(***************************************************************************)
EXTENDS Naturals

CONSTANTS
  Procs,       \* the processes
  Kinds,       \* what each process does, of {"read", "write", "append"}
  MaxRetries,  \* kLockMaxRetriesOnError
  MaxOps,      \* bound on the operations of one process
  NoProc

ASSUME BoundsAssumption ==
  /\ MaxRetries \in Nat /\ MaxOps \in Nat
  /\ Kinds \in [Procs -> SUBSET {"read", "write", "append"}]
  /\ NoProc \notin Procs

VARIABLES
  lockFile,  \* the owner the lock file names, NoProc when there is none
  content,   \* the pieces in the file, in no order
  alive,     \* the processes that have not died
  lockPc,        \* where each process is in doLockedFileOperation
  kind,      \* the operation it makes
  owned,     \* the lock file is its own
  blocker,   \* the owner it waits for
  retries,   \* retries
  attached,  \* its stream is open on the file that has the name
  ops,       \* the operations it has ended
  torn       \* history: who has read half of an append that was going on

lockVars == <<lockFile, owned, blocker, retries>>
fileVars == <<content, attached, torn>>
lockedVars     == <<lockVars, fileVars, alive, lockPc, kind, ops>>

Piece(p, part) == [by |-> p, op |-> ops[p], part |-> part]

(* The piece is the first of an append, and the second is not there.          *)
HalfAppended(piece) == piece.part = 1 /\ [piece EXCEPT !.part = 2] \notin content

Goes(p, l) == lockPc' = [lockPc EXCEPT ![p] = l]
At(p, l)   == p \in alive /\ lockPc[p] = l

-----------------------------------------------------------------------------
LockInit ==
  /\ lockFile = NoProc /\ content = {} /\ alive = Procs
  /\ lockPc = [p \in Procs |-> "idle"] /\ kind = [p \in Procs |-> "read"]
  /\ owned = [p \in Procs |-> FALSE] /\ blocker = [p \in Procs |-> NoProc]
  /\ retries = [p \in Procs |-> 0]
  /\ attached = [p \in Procs |-> FALSE]
  /\ ops = [p \in Procs |-> 0] /\ torn = {}

(* One of the three functions is called.                                     *)
Call(p, k) ==
  /\ At(p, "idle") /\ ops[p] < MaxOps
  /\ kind' = [kind EXCEPT ![p] = k]
  /\ Goes(p, "try")
  /\ UNCHANGED <<lockVars, fileVars, alive, ops>>

(* tryLock: the lock file is free, or was left by a process that died.        *)
Takeable == lockFile = NoProc \/ lockFile \notin alive

TryOwned(p) ==
  /\ At(p, "try") /\ Takeable
  /\ lockFile' = p
  /\ owned' = [owned EXCEPT ![p] = TRUE]
  /\ Goes(p, "in")
  /\ UNCHANGED <<blocker, retries, fileVars, alive, kind, ops>>

TryBusy(p) ==
  /\ At(p, "try") /\ ~Takeable
  /\ blocker' = [blocker EXCEPT ![p] = lockFile]
  /\ Goes(p, "wait")
  /\ UNCHANGED <<lockFile, owned, retries, fileVars, alive, kind, ops>>

(* The mutant of TryError: counting starts again instead of giving up.        *)
TryErrorForever(p) ==
  /\ At(p, "try")
  /\ retries' = [retries EXCEPT ![p] = IF @ > MaxRetries THEN 0 ELSE @ + 1]
  /\ UNCHANGED <<lockPc, lockFile, owned, blocker, fileVars, alive, kind, ops>>

(* tryLock fails: again, or give up; retries++ > kLockMaxRetriesOnError.       *)
TryError(p) ==
  /\ At(p, "try")
  /\ retries' = [retries EXCEPT ![p] = @ + 1]
  /\ Goes(p, IF retries[p] > MaxRetries THEN "out" ELSE "try")
  /\ UNCHANGED <<lockFile, owned, blocker, fileVars, alive, kind, ops>>

(* The mutant of WaitSuccess: the process takes the lock file for its own.     *)
WaitSuccessOwning(p) ==
  /\ At(p, "wait") /\ lockFile = NoProc
  /\ owned' = [owned EXCEPT ![p] = TRUE]
  /\ Goes(p, "in")
  /\ UNCHANGED <<lockFile, blocker, retries, fileVars, alive, kind, ops>>

(* waitForUnlockFor says Success: the lock file is gone, and the operation    *)
(* is made.                                                                   *)
WaitSuccess(p) ==
  /\ At(p, "wait") /\ lockFile = NoProc
  /\ Goes(p, "in")
  /\ UNCHANGED <<lockVars, fileVars, alive, kind, ops>>

WaitOwnerDied(p) ==
  /\ At(p, "wait") /\ lockFile # NoProc /\ blocker[p] \notin alive
  /\ Goes(p, "try")
  /\ UNCHANGED <<lockVars, fileVars, alive, kind, ops>>

(* 90 seconds have passed.                                                    *)
WaitTimeout(p) ==
  /\ At(p, "wait") /\ lockFile # NoProc
  /\ Goes(p, "out")
  /\ UNCHANGED <<lockVars, fileVars, alive, kind, ops>>

-----------------------------------------------------------------------------
(* callable()                                                                 *)

Read(p) ==
  /\ At(p, "in") /\ kind[p] = "read"
  /\ torn' = IF \E piece \in content : HalfAppended(piece) /\ piece.by \in alive
             THEN torn \cup {p} ELSE torn
  /\ Goes(p, "out")
  /\ UNCHANGED <<lockVars, content, attached, alive, kind, ops>>

(* writeToOutput: the rename that ends it.                                    *)
Write(p) ==
  /\ At(p, "in") /\ kind[p] = "write"
  /\ content' = {Piece(p, 1), Piece(p, 2)}
  /\ attached' = [q \in Procs |-> FALSE]
  /\ Goes(p, "out")
  /\ UNCHANGED <<lockVars, torn, alive, kind, ops>>

(* The file, or the temporary one, cannot be opened or renamed: an error.     *)
OperationFails(p) ==
  /\ At(p, "in")
  /\ Goes(p, "out")
  /\ UNCHANGED <<lockVars, fileVars, alive, kind, ops>>

AppendOpen(p) ==
  /\ At(p, "in") /\ kind[p] = "append"
  /\ attached' = [attached EXCEPT ![p] = TRUE]
  /\ Goes(p, "first")
  /\ UNCHANGED <<lockVars, content, torn, alive, kind, ops>>

AppendFirst(p) ==
  /\ At(p, "first")
  /\ content' = IF attached[p] THEN content \cup {Piece(p, 1)} ELSE content
  /\ Goes(p, "rest")
  /\ UNCHANGED <<lockVars, attached, torn, alive, kind, ops>>

(* The last flush, in the stream's destructor.                                *)
AppendRest(p) ==
  /\ At(p, "rest")
  /\ content' = IF attached[p] THEN content \cup {Piece(p, 2)} ELSE content
  /\ attached' = [attached EXCEPT ![p] = FALSE]
  /\ Goes(p, "out")
  /\ UNCHANGED <<lockVars, torn, alive, kind, ops>>

(* The variables of the call are gone.                                        *)
Forgets(p) ==
  /\ kind' = [kind EXCEPT ![p] = "read"]
  /\ blocker' = [blocker EXCEPT ![p] = NoProc]
  /\ retries' = [retries EXCEPT ![p] = 0]

Returns(p) ==
  /\ Forgets(p)
  /\ ops' = [ops EXCEPT ![p] = @ + 1]
  /\ Goes(p, "idle")

(* The mutant of LeaveLocked: the lock file is left.                                *)
LeaveHolding(p) ==
  /\ At(p, "out")
  /\ owned' = [owned EXCEPT ![p] = FALSE]
  /\ Returns(p)
  /\ UNCHANGED <<lockFile, fileVars, alive>>

(* The function returns; lockManager's destructor removes a lock file it owns. *)
LeaveLocked(p) ==
  /\ At(p, "out")
  /\ lockFile' = IF owned[p] THEN NoProc ELSE lockFile
  /\ owned' = [owned EXCEPT ![p] = FALSE]
  /\ Returns(p)
  /\ UNCHANGED <<fileVars, alive>>

(* The process dies.  LLVM's signal handlers remove its lock file; when they  *)
(* cannot run it stays.                                                       *)
Crash(p) ==
  /\ p \in alive /\ lockPc[p] # "idle"
  /\ alive' = alive \ {p}
  /\ lockFile' \in {lockFile, IF owned[p] THEN NoProc ELSE lockFile}
  /\ owned' = [owned EXCEPT ![p] = FALSE]
  /\ Forgets(p)
  /\ Goes(p, "dead")
  /\ UNCHANGED <<fileVars, ops>>

-----------------------------------------------------------------------------
LockStep(p) ==
  \/ TryOwned(p) \/ TryBusy(p) \/ TryError(p)
  \/ WaitSuccess(p) \/ WaitOwnerDied(p) \/ WaitTimeout(p)
  \/ Read(p) \/ Write(p) \/ OperationFails(p)
  \/ AppendOpen(p) \/ AppendFirst(p) \/ AppendRest(p)
  \/ LeaveLocked(p)

LockNext == \E p \in Procs : LockStep(p) \/ Crash(p) \/ \E k \in Kinds[p] : Call(p, k)

LockSpec == LockInit /\ [][LockNext]_lockedVars

(* A living process that can go on does: it runs, or its 90 seconds pass.     *)
LockFairness == \A p \in Procs : WF_lockedVars(LockStep(p))

-----------------------------------------------------------------------------
Inside == {"in", "first", "rest"}
Pieces == [by : Procs, op : Nat, part : {1, 2}]

(* The variables have their types.                                            *)
LockTypeOK ==
  /\ lockFile \in Procs \cup {NoProc} /\ content \subseteq Pieces /\ alive \subseteq Procs
  /\ lockPc \in [Procs -> {"idle", "try", "wait", "in", "first", "rest", "out", "dead"}]
  /\ kind \in [Procs -> {"read", "write", "append"}]
  /\ owned \in [Procs -> BOOLEAN] /\ blocker \in [Procs -> Procs \cup {NoProc}]
  /\ retries \in [Procs -> 0 .. MaxRetries + 2]
  /\ attached \in [Procs -> BOOLEAN]
  /\ ops \in [Procs -> 0 .. MaxOps] /\ torn \subseteq Procs

(* Two processes never both take themselves for the owner of the lock file,   *)
(* although dead owners are replaced and a process that only waited leaves    *)
(* beside an owner.                                                           *)
OwnersApart == \A p, q \in Procs : owned[p] /\ owned[q] => p = q

(* A lock file is that of a process in its operation, or of a dead one: no    *)
(* error path leaves it behind, for others to wait 90 seconds for.            *)
LockReturned ==
  lockFile # NoProc /\ lockFile \in alive =>
    owned[lockFile] /\ lockPc[lockFile] \in Inside \cup {"out"}

(* Every operation ends, with an error if need be: the retries are bounded,   *)
(* the wait is, and an owner can die only once.                               *)
EveryOperationEnds == \A p \in Procs : lockPc[p] # "idle" ~> lockPc[p] = "idle" \/ p \notin alive

(* What is read under the lock holds no half of an append that a living       *)
(* process is still making ("Do a file operation under an LLVM file lock",    *)
(* FileSystemExtras.cpp:59).                                                  *)
ReadsWhole == torn = {}
=============================================================================
