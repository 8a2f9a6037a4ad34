---------------------------- MODULE StageExternal ----------------------------
(***************************************************************************)
(* scripts/run-on-windows.sh: several test runs, on one or more build      *)
(* hosts, stage what they need on one Windows machine and run there.       *)
(* Files of an external repository are shared by all runs: they are copied *)
(* under a lock directory (mkdir is the test-and-set) and a stamp file     *)
(* beside the lock records how many entries were copied.  Everything else  *)
(* goes into a directory of the run's own, deleted by its EXIT trap.       *)
(*                                                                         *)
(* One process per run.  Two copies of the protocol exist in the script,   *)
(* stage_external for the wsl transport and stage_external_remote for the  *)
(* ssh one; transport says which one the runs execute.                     *)
(***************************************************************************)
EXTENDS Naturals, FiniteSets

CONSTANTS
  Runs,         \* invocations of the script
  Repos,        \* external repositories named in the runfiles manifests
  Files,        \* entries of a repository, by their path inside it
  Need,         \* Need[r][p]: the entries of p in the manifest of run r
  Dangling,     \* entries whose source does not exist on the build host
  Ids,          \* values of mojo-<pid>-<seconds>
  Transports,   \* which transports may be set up: "wsl", "ssh" or both
  Signals,      \* which signals may reach a run: a subset of {"kill", "term"}
  LockTimeout,  \* attempts before a waiter gives up (600 in the script)
  None          \* the empty string of lock_held

ASSUME NeedType      == Need \in [Runs -> [Repos -> SUBSET Files]]
ASSUME FilesFinite   == IsFiniteSet(Files)
ASSUME TransportType == Transports \subseteq {"wsl", "ssh"}
ASSUME SignalsType   == Signals \subseteq {"kill", "term"}
ASSUME TimeoutType   == LockTimeout \in Nat \ {0}
ASSUME NoneIsNoRepo  == None \notin Repos /\ None \notin Files

(* What comparing counts takes for granted: a manifest that lists no more    *)
(* entries of a repository than another lists no entry the other lacks.      *)
NestedNeeds ==
  \A r, s \in Runs : \A p \in Repos :
    Cardinality(Need[r][p]) <= Cardinality(Need[s][p]) => Need[r][p] \subseteq Need[s][p]

VARIABLES
  pc,        \* where each run is in the script
  todo,      \* repositories the for loop has not reached yet
  repo,      \* the loop variable
  have,      \* the stamp as the run last read it
  waited,    \* failed attempts at the lock of repo
  pending,   \* entries copy_external has still to look at
  writing,   \* the entry being copied
  lockHeld,  \* $lock_held: what the EXIT trap gives back
  runId,     \* $run_id
  transport, \* $transport, the same for all runs of one machine
  why,       \* why a run that did not get to its test ended
  lockDir,   \* repositories whose lock directory exists
  stamp,     \* the number in the stamp file, 0 when missing or empty
  stamped,   \* repositories whose stamp file exists
  store,     \* what is staged: an entry is absent, partial or whole
  dirs       \* run directories on the Windows side

setup    == <<runId, transport>>
runVars  == <<pc, todo, repo, have, waited, pending, writing, lockHeld, setup, why>>
hostVars == <<lockDir, stamp, stamped, store, dirs>>
vars     == <<runVars, hostVars>>

PCs == {"mkdir", "stage", "loop", "read", "check", "mark", "copy", "truncate",
        "write", "rmdir", "forget", "test", "exit", "trap", "ended", "killed"}
Reasons   == {"none", "failed", "timeout", "nostamp", "dir", "signal", "unmarked", "stale"}
EntryState == {"absent", "partial", "whole"}

(* The script is past its last command, or gone. *)
Over(r) == pc[r] \in {"ended", "killed"}

(* external_count: the entries of the repository in the run's own manifest. *)
Want(r, p) == Cardinality(Need[r][p])

(* external_repos: the repositories the run stages.  A repository is named  *)
(* when a variable about to be set points into it; the ones a run has no    *)
(* entry of are never listed.                                               *)
ExternalRepos(r) == {p \in Repos : Need[r][p] # {}}

(* Between taking the lock of repo[r] and giving it back. *)
Staging(r) == pc[r] \in {"mark", "copy", "truncate", "write", "rmdir"}

(* The run is staging p, or its EXIT trap is about to give p's lock back.    *)
Holds(r, p) ==
  /\ repo[r] = p
  /\ Staging(r) \/ (pc[r] \in {"exit", "trap"} /\ lockHeld[r] = p)

Goto(r, l) == pc' = [pc EXCEPT ![r] = l]

(* The script stops with an error under set -e, or die: the EXIT trap runs. *)
Die(r, reason) == Goto(r, "exit") /\ why' = [why EXCEPT ![r] = reason]

-----------------------------------------------------------------------------
(* A run id is the pid and the second.  On the wsl transport all runs share  *)
(* one kernel, so no two live runs share a pid; two ssh build hosts can.     *)
Init ==
  /\ pc       = [r \in Runs |-> "mkdir"]
  /\ todo     = [r \in Runs |-> ExternalRepos(r)]
  /\ repo     = [r \in Runs |-> None]
  /\ have     = [r \in Runs |-> 0]
  /\ waited   = [r \in Runs |-> 0]
  /\ pending  = [r \in Runs |-> {}]
  /\ writing  = [r \in Runs |-> None]
  /\ lockHeld = [r \in Runs |-> None]
  /\ transport \in Transports
  /\ runId \in [Runs -> Ids]
  /\ transport = "wsl" => \A r, s \in Runs : runId[r] = runId[s] => r = s
  /\ why      = [r \in Runs |-> "none"]
  /\ lockDir  = {}
  /\ stamp    = [p \in Repos |-> 0]
  /\ stamped  = {}
  /\ store    = [p \in Repos |-> [f \in Files |-> "absent"]]
  /\ dirs     = {}

(* The mutant of MakeRunDir: mkdir that accepts a directory already there.   *)
MakeRunDirShared(r) ==
  /\ pc[r] = "mkdir"
  /\ dirs' = dirs \cup {runId[r]}
  /\ Goto(r, "stage")
  /\ UNCHANGED <<todo, repo, have, waited, pending, writing, lockHeld, setup,
                 why, lockDir, stamp, stamped, store>>

(* Make the run's directory.  cmd's mkdir fails on one that exists, which    *)
(* ends the run before its trap is installed; mkdir -p does not fail.        *)
MakeRunDir(r) ==
  /\ pc[r] = "mkdir"
  /\ IF transport = "ssh" /\ runId[r] \in dirs
       THEN /\ Goto(r, "ended")
            /\ why' = [why EXCEPT ![r] = "dir"]
            /\ UNCHANGED dirs
       ELSE /\ Goto(r, "stage")
            /\ dirs' = dirs \cup {runId[r]}
            /\ UNCHANGED why
  /\ UNCHANGED <<todo, repo, have, waited, pending, writing, lockHeld, setup,
                 lockDir, stamp, stamped, store>>

(* stage_into (and scp): the run's own files go into its own directory.      *)
StageInto(r) ==
  /\ pc[r] = "stage"
  /\ Goto(r, "loop")
  /\ UNCHANGED <<todo, repo, have, waited, pending, writing, lockHeld, setup,
                 why, hostVars>>

(* A cp or scp fails, in stage_into or in copy_external, or the stamp cannot *)
(* be opened or written: set -e ends the script.                             *)
CommandFails(r) ==
  /\ pc[r] \in {"stage", "copy", "truncate", "write"}
  /\ Die(r, "failed")
  /\ UNCHANGED <<todo, repo, have, waited, pending, writing, lockHeld, setup,
                 hostVars>>

(* The head of the for loop: the next repository, or on to the test.         *)
NextRepo(r) ==
  /\ pc[r] = "loop"
  /\ \E p \in todo[r] :
       /\ repo' = [repo EXCEPT ![r] = p]
       /\ todo' = [todo EXCEPT ![r] = @ \ {p}]
  /\ waited' = [waited EXCEPT ![r] = 0]
  /\ Goto(r, "read")
  /\ UNCHANGED <<have, pending, writing, lockHeld, setup, why, hostVars>>

AllStaged(r) ==
  /\ pc[r] = "loop"
  /\ todo[r] = {}
  /\ Goto(r, "test")
  /\ UNCHANGED <<todo, repo, have, waited, pending, writing, lockHeld, setup,
                 why, hostVars>>

(* have=$(cat stamp || echo 0) on wsl.  On ssh have=$(ssh type stamp | tr):  *)
(* with pipefail the assignment fails when the stamp file does not exist,    *)
(* and set -e ends the script there.                                         *)
ReadStamp(r) ==
  /\ pc[r] = "read"
  /\ IF transport = "ssh" /\ repo[r] \notin stamped
       THEN Die(r, "nostamp") /\ UNCHANGED have
       ELSE /\ have' = [have EXCEPT ![r] = stamp[repo[r]]]
            /\ Goto(r, "check")
            /\ UNCHANGED why
  /\ UNCHANGED <<todo, repo, waited, pending, writing, lockHeld, setup, hostVars>>

(* The mutant of Enough: any stamp at all is enough.                         *)
EnoughIfStamped(r) == have[r] > 0

(* [ "$have" -ge "$want" ] *)
Enough(r) == have[r] >= Want(r, repo[r])

SkipStaged(r) ==
  /\ pc[r] = "check"
  /\ Enough(r)
  /\ Goto(r, "loop")
  /\ UNCHANGED <<todo, repo, have, waited, pending, writing, lockHeld, setup,
                 why, hostVars>>

(* The mutant of TakeLock: mkdir -p, which succeeds for every caller.        *)
TakeLockAlways(r) ==
  /\ pc[r] = "check"
  /\ ~Enough(r)
  /\ lockDir' = lockDir \cup {repo[r]}
  /\ Goto(r, "mark")
  /\ UNCHANGED <<todo, repo, have, waited, pending, writing, lockHeld, setup,
                 why, stamp, stamped, store, dirs>>

(* mkdir "$lock" succeeds: it is the caller's.  The stamp is not read again. *)
TakeLock(r) ==
  /\ pc[r] = "check"
  /\ ~Enough(r)
  /\ repo[r] \notin lockDir
  /\ lockDir' = lockDir \cup {repo[r]}
  /\ Goto(r, "mark")
  /\ UNCHANGED <<todo, repo, have, waited, pending, writing, lockHeld, setup,
                 why, stamp, stamped, store, dirs>>

(* The mutant of LockBusy: a waiter that never counts its attempts.          *)
LockBusyForever(r) ==
  /\ pc[r] = "check"
  /\ ~Enough(r)
  /\ repo[r] \in lockDir
  /\ Goto(r, "read")
  /\ UNCHANGED <<todo, repo, have, waited, pending, writing, lockHeld, setup,
                 why, hostVars>>

(* mkdir "$lock" fails: count the attempt, give up at the limit, sleep.      *)
LockBusy(r) ==
  /\ pc[r] = "check"
  /\ ~Enough(r)
  /\ repo[r] \in lockDir
  /\ waited' = [waited EXCEPT ![r] = @ + 1]
  /\ IF waited[r] + 1 < LockTimeout
       THEN Goto(r, "read") /\ UNCHANGED why
       ELSE Die(r, "timeout")
  /\ UNCHANGED <<todo, repo, have, pending, writing, lockHeld, setup, hostVars>>

(* lock_held="$lock", the command after the mkdir.                           *)
MarkHeld(r) ==
  /\ pc[r] = "mark"
  /\ lockHeld' = [lockHeld EXCEPT ![r] = repo[r]]
  /\ pending'  = [pending EXCEPT ![r] = Need[r][repo[r]]]
  /\ Goto(r, "copy")
  /\ UNCHANGED <<todo, repo, have, waited, writing, setup, why, hostVars>>

(* copy_external: every entry of the repository in this run's manifest, the  *)
(* ones already staged included.  An entry whose source is gone is skipped.  *)
SkipEntry(r) ==
  /\ pc[r] = "copy"
  /\ writing[r] = None
  /\ \E f \in pending[r] \cap Dangling :
       pending' = [pending EXCEPT ![r] = @ \ {f}]
  /\ UNCHANGED <<pc, todo, repo, have, waited, writing, lockHeld, setup, why,
                 hostVars>>

BeginCopy(r) ==
  /\ pc[r] = "copy"
  /\ writing[r] = None
  /\ \E f \in pending[r] \ Dangling :
       /\ writing' = [writing EXCEPT ![r] = f]
       /\ pending' = [pending EXCEPT ![r] = @ \ {f}]
       /\ store'   = [store EXCEPT ![repo[r]][f] = "partial"]
  /\ UNCHANGED <<pc, todo, repo, have, waited, lockHeld, setup, why, lockDir,
                 stamp, stamped, dirs>>

(* The entry is whole, unless a second stager is still writing the same one. *)
EndCopy(r) ==
  /\ pc[r] = "copy"
  /\ writing[r] # None
  /\ store'   = [store EXCEPT ![repo[r]][writing[r]] =
                    IF \E s \in Runs \ {r} : /\ pc[s] = "copy"
                                            /\ repo[s] = repo[r]
                                            /\ writing[s] = writing[r]
                      THEN "partial" ELSE "whole"]
  /\ writing' = [writing EXCEPT ![r] = None]
  /\ UNCHANGED <<pc, todo, repo, have, waited, pending, lockHeld, setup, why,
                 lockDir, stamp, stamped, dirs>>

(* The mutant of CopyDone: the stamp is written while entries are left.      *)
CopyDoneEarly(r) ==
  /\ pc[r] = "copy"
  /\ writing[r] = None
  /\ Goto(r, "truncate")
  /\ UNCHANGED <<todo, repo, have, waited, pending, writing, lockHeld, setup,
                 why, hostVars>>

CopyDone(r) ==
  /\ pc[r] = "copy"
  /\ writing[r] = None
  /\ pending[r] = {}
  /\ Goto(r, "truncate")
  /\ UNCHANGED <<todo, repo, have, waited, pending, writing, lockHeld, setup,
                 why, hostVars>>

(* >"$stamp" empties the file before printf fills it; an empty stamp reads   *)
(* as no number at all, which is not enough for anybody.                     *)
TruncateStamp(r) ==
  /\ pc[r] = "truncate"
  /\ stamp'   = [stamp EXCEPT ![repo[r]] = 0]
  /\ stamped' = stamped \cup {repo[r]}
  /\ Goto(r, "write")
  /\ UNCHANGED <<todo, repo, have, waited, pending, writing, lockHeld, setup,
                 why, lockDir, store, dirs>>

WriteStamp(r) ==
  /\ pc[r] = "write"
  /\ stamp' = [stamp EXCEPT ![repo[r]] = Want(r, repo[r])]
  /\ Goto(r, "rmdir")
  /\ UNCHANGED <<todo, repo, have, waited, pending, writing, lockHeld, setup,
                 why, lockDir, stamped, store, dirs>>

(* release_lock: rmdir first, lock_held="" after it.                         *)
RemoveLock(r) ==
  /\ pc[r] = "rmdir"
  /\ lockDir' = lockDir \ {lockHeld[r]}
  /\ Goto(r, "forget")
  /\ UNCHANGED <<todo, repo, have, waited, pending, writing, lockHeld, setup,
                 why, stamp, stamped, store, dirs>>

ForgetLock(r) ==
  /\ pc[r] = "forget"
  /\ lockHeld' = [lockHeld EXCEPT ![r] = None]
  /\ Goto(r, "loop")
  /\ UNCHANGED <<todo, repo, have, waited, pending, writing, setup, why, hostVars>>

(* The test program itself, started in the run's directory.                  *)
TestExits(r) ==
  /\ pc[r] = "test"
  /\ Goto(r, "exit")
  /\ UNCHANGED <<todo, repo, have, waited, pending, writing, lockHeld, setup,
                 why, hostVars>>

(* release_lock and the removal of the run's directory, as the trap does it. *)
ReleaseLock(r) ==
  /\ lockDir'  = lockDir \ {lockHeld[r]}
  /\ lockHeld' = [lockHeld EXCEPT ![r] = None]
  /\ UNCHANGED dirs

RemoveRunDir(r) ==
  /\ dirs' = dirs \ {runId[r]}
  /\ UNCHANGED <<lockDir, lockHeld>>

(* The EXIT trap.  On wsl it is rm -rf of the directory and then             *)
(* release_lock, on ssh release_lock and then cleanup.                       *)
ExitTrap(r) ==
  /\ pc[r] = "exit"
  /\ IF transport = "wsl" THEN RemoveRunDir(r) ELSE ReleaseLock(r)
  /\ Goto(r, "trap")
  /\ UNCHANGED <<todo, repo, have, waited, pending, writing, setup, why, stamp,
                 stamped, store>>

(* The mutant of ExitTrapEnds: the wsl trap without release_lock.            *)
ExitTrapKeepsLock(r) ==
  /\ pc[r] = "trap"
  /\ RemoveRunDir(r)
  /\ Goto(r, "ended")
  /\ UNCHANGED <<todo, repo, have, waited, pending, writing, setup, why, stamp,
                 stamped, store>>

ExitTrapEnds(r) ==
  /\ pc[r] = "trap"
  /\ IF transport = "wsl" THEN ReleaseLock(r) ELSE RemoveRunDir(r)
  /\ Goto(r, "ended")
  /\ UNCHANGED <<todo, repo, have, waited, pending, writing, setup, why, stamp,
                 stamped, store>>

(* SIGTERM or SIGINT, from bazel's timeout or a keyboard: bash runs the EXIT *)
(* trap between two commands of the script.  Before the trap is installed    *)
(* the run just ends.  Between mkdir "$lock" and lock_held="$lock" the trap  *)
(* does not know of the lock yet ("unmarked"); between rmdir "$lock_held"    *)
(* and lock_held="" it still names one that is gone ("stale").               *)
Interrupt(r) ==
  /\ "term" \in Signals
  /\ pc[r] \notin {"exit", "trap", "ended", "killed"}
  /\ Goto(r, IF pc[r] = "mkdir" THEN "ended" ELSE "exit")
  /\ why' = [why EXCEPT ![r] = IF pc[r] = "mark" THEN "unmarked"
                               ELSE IF pc[r] = "forget" THEN "stale" ELSE "signal"]
  /\ UNCHANGED <<todo, repo, have, waited, pending, writing, lockHeld, setup,
                 hostVars>>

(* SIGKILL or a power cut: nothing runs afterwards.                          *)
Kill(r) ==
  /\ "kill" \in Signals
  /\ ~Over(r)
  /\ Goto(r, "killed")
  /\ UNCHANGED <<todo, repo, have, waited, pending, writing, lockHeld, setup,
                 why, hostVars>>

(* "remove it if nothing is holding it": a person deletes a lock directory   *)
(* that a killed run left behind.                                            *)
RemoveOrphanLock(p) ==
  /\ p \in lockDir
  /\ \A r \in Runs : ~Holds(r, p)
  /\ lockDir' = lockDir \ {p}
  /\ UNCHANGED <<runVars, stamp, stamped, store, dirs>>

Step(r) ==
  \/ MakeRunDir(r) \/ StageInto(r) \/ NextRepo(r) \/ AllStaged(r)
  \/ ReadStamp(r) \/ SkipStaged(r) \/ TakeLock(r) \/ LockBusy(r) \/ MarkHeld(r)
  \/ SkipEntry(r) \/ BeginCopy(r) \/ EndCopy(r) \/ CopyDone(r)
  \/ TruncateStamp(r) \/ WriteStamp(r) \/ RemoveLock(r) \/ ForgetLock(r)
  \/ TestExits(r) \/ ExitTrap(r) \/ ExitTrapEnds(r)

Fault(r) == CommandFails(r) \/ Interrupt(r) \/ Kill(r)

Next ==
  \/ \E r \in Runs : Step(r) \/ Fault(r)
  \/ \E p \in Repos : RemoveOrphanLock(p)

Spec == Init /\ [][Next]_vars

(* A live bash process is scheduled, and every command it waits for returns. *)
(* No fairness for signals, failures or the person who removes a lock.       *)
FairSpec == Spec /\ \A r \in Runs : WF_vars(Step(r))

-----------------------------------------------------------------------------
(* The state of the runs and of the shared staging directory is well formed. *)
TypeOK ==
  /\ pc       \in [Runs -> PCs]
  /\ todo     \in [Runs -> SUBSET Repos]
  /\ repo     \in [Runs -> Repos \cup {None}]
  /\ have     \in [Runs -> Nat]
  /\ waited   \in [Runs -> Nat]
  /\ pending  \in [Runs -> SUBSET Files]
  /\ writing  \in [Runs -> Files \cup {None}]
  /\ lockHeld \in [Runs -> Repos \cup {None}]
  /\ transport \in Transports
  /\ runId    \in [Runs -> Ids]
  /\ why      \in [Runs -> Reasons]
  /\ lockDir  \subseteq Repos
  /\ stamp    \in [Repos -> Nat]
  /\ stamped  \subseteq Repos
  /\ store    \in [Repos -> [Files -> EntryState]]
  /\ dirs     \subseteq Ids

(* Some run was interrupted between rmdir "$lock_held" and lock_held="":     *)
(* its trap removes the lock of p once more, by then that of another run.    *)
StaleTrap(p) == \E r \in Runs : why[r] = "stale" /\ repo[r] = p

(* Two runs never stage the same repository at once: what the lock directory *)
(* of stage_external is for (run-on-windows.sh:197-200).  Failures, kills    *)
(* and interrupts anywhere but inside release_lock do not break it.          *)
OneStager ==
  \A r, s \in Runs :
    Staging(r) /\ Staging(s) /\ repo[r] = repo[s] => r = s \/ StaleTrap(repo[r])

(* A test starts, and runs, only when every entry its manifest lists for an  *)
(* external repository (and that exists on the build host) is in the shared  *)
(* tree, whole, by whichever run it was put there.  The one exception is an  *)
(* entry that another run is copying again, or was copying again when it     *)
(* failed or was killed: copy_external copies what is there already.         *)
PresentAtTest ==
  \A r \in Runs : pc[r] = "test" =>
    \A p \in Repos : \A f \in Need[r][p] \ Dangling :
      \/ store[p][f] = "whole"
      \/ /\ store[p][f] = "partial"
         /\ \E s \in Runs \ {r} : repo[s] = p /\ writing[s] = f

(* What the comment at run-on-windows.sh:197-203 says of two tests that want *)
(* one repository, that "the lock directory settles that" and that "a later  *)
(* test that needs more of the same repository stages the rest": a test that *)
(* found its files staged has them whole for as long as it runs.             *)
WholeAtTest ==
  \A r \in Runs : pc[r] = "test" =>
    \A p \in Repos : \A f \in Need[r][p] \ Dangling : store[p][f] = "whole"

(* From its mkdir until its directory is removed a run uses the directory.   *)
UsesDir(r) ==
  /\ pc[r] \notin {"mkdir", "ended", "killed"}
  /\ ~(pc[r] = "trap" /\ transport = "wsl")

(* While a run is using its directory the directory exists and no other live *)
(* run is using it, so no EXIT trap of another run can delete it.            *)
RunDirExclusive ==
  \A r \in Runs : UsesDir(r) =>
    /\ runId[r] \in dirs
    /\ \A s \in Runs \ {r} : UsesDir(s) => runId[s] # runId[r]

(* Every run ends, with its test done, with an error, or killed: a lock left *)
(* behind makes the others give up rather than hang for good (:284-285).     *)
EveryRunEnds == \A r \in Runs : <>Over(r)

(* A lock directory that exists is held by a run that will give it back, or  *)
(* was left by one that was killed or interrupted before lock_held was set:  *)
(* no error path of the script leaks it ("a single name is enough to         *)
(* remember what has to be given back if this exits early",                  *)
(* run-on-windows.sh:268-269).                                               *)
GivesBackLock ==
  \A p \in lockDir : \E r \in Runs :
    Holds(r, p) \/ (repo[r] = p /\ (pc[r] = "killed" \/ why[r] = "unmarked"))
=============================================================================
