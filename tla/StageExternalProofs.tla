------------------------- MODULE StageExternalProofs -------------------------
(***************************************************************************)
(* Theorems about StageExternal, for any number of runs, repositories and  *)
(* entries.                                                                *)
(***************************************************************************)
EXTENDS StageExternal, FiniteSetTheorems, TLAPS

(* What the state of a run at a given place of the script is known to be,    *)
(* beyond its type: a run inside the loop body has a repository, and         *)
(* copy_external's current entry is one of that repository.                  *)
InLoopBody(r) ==
  pc[r] \in {"read", "check", "mark", "copy", "truncate", "write", "rmdir", "forget"}

AtPlace ==
  \A r \in Runs :
    /\ InLoopBody(r) => repo[r] \in Repos
    /\ writing[r] # None => writing[r] \in Files

TypeInv == TypeOK /\ AtPlace

(* The number external_count prints is a natural number.                     *)
LEMMA WantNat ==
  ASSUME NEW r \in Runs, NEW p \in Repos
  PROVE  /\ Need[r][p] \subseteq Files
         /\ IsFiniteSet(Need[r][p])
         /\ Want(r, p) \in Nat
<1>1. Need[r][p] \subseteq Files
  BY NeedType
<1>2. IsFiniteSet(Need[r][p])
  BY <1>1, FilesFinite, FS_Subset
<1>3. Want(r, p) \in Nat
  BY <1>2, FS_CardinalityType DEF Want
<1>4. QED
  BY <1>1, <1>2, <1>3

LEMMA InitTypeInv == Init => TypeInv
BY DEF Init, TypeInv, TypeOK, AtPlace, InLoopBody, PCs, Reasons, EntryState, ExternalRepos

(* Every step keeps the type invariant.                                      *)
LEMMA NextTypeInv == TypeInv /\ [Next]_vars => TypeInv'
<1> SUFFICES ASSUME TypeInv, [Next]_vars PROVE TypeInv'
  OBVIOUS
<1> USE DEF TypeInv, TypeOK, AtPlace, InLoopBody, PCs, Reasons, EntryState, Goto, Die, runVars, hostVars, setup
<1>1. ASSUME NEW r \in Runs, MakeRunDir(r) PROVE TypeInv'
  <2>1. CASE transport = "ssh" /\ runId[r] \in dirs
    BY <1>1, <2>1 DEF MakeRunDir
  <2>2. CASE ~(transport = "ssh" /\ runId[r] \in dirs)
    BY <1>1, <2>2 DEF MakeRunDir
  <2>3. QED
    BY <2>1, <2>2
<1>2. ASSUME NEW r \in Runs, StageInto(r) PROVE TypeInv'
  BY <1>2 DEF StageInto
<1>3. ASSUME NEW r \in Runs, NextRepo(r) PROVE TypeInv'
  BY <1>3 DEF NextRepo
<1>4. ASSUME NEW r \in Runs, AllStaged(r) PROVE TypeInv'
  BY <1>4 DEF AllStaged
<1>5. ASSUME NEW r \in Runs, ReadStamp(r) PROVE TypeInv'
  <2>1. CASE transport = "ssh" /\ repo[r] \notin stamped
    BY <1>5, <2>1 DEF ReadStamp
  <2>2. CASE ~(transport = "ssh" /\ repo[r] \notin stamped)
    <3>1. stamp[repo[r]] \in Nat
      BY <1>5 DEF ReadStamp
    <3>2. QED
      BY <1>5, <2>2, <3>1 DEF ReadStamp
  <2>3. QED
    BY <2>1, <2>2
<1>6. ASSUME NEW r \in Runs, SkipStaged(r) PROVE TypeInv'
  BY <1>6 DEF SkipStaged
<1>7. ASSUME NEW r \in Runs, TakeLock(r) PROVE TypeInv'
  BY <1>7 DEF TakeLock
<1>8. ASSUME NEW r \in Runs, LockBusy(r) PROVE TypeInv'
  BY <1>8 DEF LockBusy
<1>9. ASSUME NEW r \in Runs, MarkHeld(r) PROVE TypeInv'
  <2>1. Need[r][repo[r]] \subseteq Files
    BY <1>9, WantNat DEF MarkHeld
  <2>2. QED
    BY <1>9, <2>1 DEF MarkHeld
<1>10. ASSUME NEW r \in Runs, SkipEntry(r) PROVE TypeInv'
  BY <1>10 DEF SkipEntry
<1>11. ASSUME NEW r \in Runs, BeginCopy(r) PROVE TypeInv'
  BY <1>11 DEF BeginCopy
<1>12. ASSUME NEW r \in Runs, EndCopy(r) PROVE TypeInv'
  BY <1>12 DEF EndCopy
<1>13. ASSUME NEW r \in Runs, CopyDone(r) PROVE TypeInv'
  BY <1>13 DEF CopyDone
<1>14. ASSUME NEW r \in Runs, TruncateStamp(r) PROVE TypeInv'
  BY <1>14 DEF TruncateStamp
<1>15. ASSUME NEW r \in Runs, WriteStamp(r) PROVE TypeInv'
  BY <1>15, WantNat DEF WriteStamp
<1>16. ASSUME NEW r \in Runs, RemoveLock(r) PROVE TypeInv'
  BY <1>16 DEF RemoveLock
<1>17. ASSUME NEW r \in Runs, ForgetLock(r) PROVE TypeInv'
  BY <1>17 DEF ForgetLock
<1>18. ASSUME NEW r \in Runs, TestExits(r) PROVE TypeInv'
  BY <1>18 DEF TestExits
<1>19. ASSUME NEW r \in Runs, ExitTrap(r) PROVE TypeInv'
  BY <1>19 DEF ExitTrap, ReleaseLock, RemoveRunDir
<1>26. ASSUME NEW r \in Runs, ExitTrapEnds(r) PROVE TypeInv'
  BY <1>26 DEF ExitTrapEnds, ReleaseLock, RemoveRunDir
<1>20. ASSUME NEW r \in Runs, CommandFails(r) PROVE TypeInv'
  BY <1>20 DEF CommandFails
<1>21. ASSUME NEW r \in Runs, Interrupt(r) PROVE TypeInv'
  BY <1>21 DEF Interrupt
<1>22. ASSUME NEW r \in Runs, Kill(r) PROVE TypeInv'
  BY <1>22 DEF Kill
<1>23. ASSUME NEW p \in Repos, RemoveOrphanLock(p) PROVE TypeInv'
  BY <1>23 DEF RemoveOrphanLock
<1>24. CASE UNCHANGED vars
  BY <1>24 DEF vars
<1>25. QED
  BY <1>1, <1>2, <1>3, <1>4, <1>5, <1>6, <1>7, <1>8, <1>9, <1>10, <1>11, <1>12,
     <1>13, <1>14, <1>15, <1>16, <1>17, <1>18, <1>19, <1>20, <1>21, <1>22, <1>23,
     <1>24, <1>26 DEF Next, Step, Fault

(* TypeOK holds in every reachable state, whatever the number of runs and    *)
(* whichever signals reach them.                                             *)
THEOREM TypeCorrect == Spec => []TypeOK
<1>1. TypeInv => TypeOK
  BY DEF TypeInv
<1>2. QED
  BY <1>1, InitTypeInv, NextTypeInv, PTL DEF Spec
-----------------------------------------------------------------------------
(* The lock protocol.  A run between mkdir and rmdir owns the directory; so  *)
(* does one that failed in copy_external and whose trap has not run yet.     *)
(* An interrupt between the rmdir and lock_held="" is the one thing that     *)
(* takes the directory from under its owner.                                 *)
LockExists ==
  \A p \in Repos : \A r \in Runs : Holds(r, p) => p \in lockDir \/ StaleTrap(p)

OneHolder ==
  \A p \in Repos : \A r, s \in Runs : Holds(r, p) /\ Holds(s, p) => r = s \/ StaleTrap(p)

HeldAt(r) ==
  /\ pc[r] \in {"copy", "truncate", "write", "rmdir", "forget"} => lockHeld[r] = repo[r]
  /\ pc[r] \notin {"copy", "truncate", "write", "rmdir", "forget", "exit", "trap", "killed"}
       => lockHeld[r] = None
  /\ pc[r] \in {"exit", "trap"} /\ lockHeld[r] # None => lockHeld[r] = repo[r]
  /\ pc[r] = "trap" /\ transport # "wsl" => lockHeld[r] = None

(* A run that was interrupted is at its trap or past it, so its repository   *)
(* does not change any more.                                                 *)
WhyAt(r) == why[r] # "none" => pc[r] \in {"exit", "trap", "ended", "killed"}

RunExact == \A r \in Runs : HeldAt(r) /\ WhyAt(r)

LockInv == LockExists /\ OneHolder /\ RunExact /\ GivesBackLock

LEMMA InitLockInv == Init => LockInv
BY DEF Init, LockInv, LockExists, OneHolder, RunExact, HeldAt, WhyAt, GivesBackLock,
   Holds, Staging

(* Why p's lock directory may exist although nobody is about to remove it.   *)
LeftBy(r, p) == repo[r] = p /\ (pc[r] = "killed" \/ why[r] = "unmarked")

(* What every step of run r leaves alone.                                    *)
OthersStay(r) ==
  /\ transport' = transport
  /\ \A s \in Runs : s # r => /\ pc'[s] = pc[s] /\ repo'[s] = repo[s]
                              /\ lockHeld'[s] = lockHeld[s] /\ why'[s] = why[s]

(* What a step of r may do that neither makes nor removes a lock directory:  *)
(* hold no more than before, unless it becomes stale, and account for what   *)
(* it accounted for.                                                         *)
KeepsHold(r) ==
  /\ \A p \in Repos : Holds(r, p)' => Holds(r, p) \/ (why'[r] = "stale" /\ repo'[r] = p)
  /\ \A p \in Repos : Holds(r, p) \/ LeftBy(r, p) => (Holds(r, p) \/ LeftBy(r, p))'
  /\ why[r] = "stale" => why'[r] = "stale" /\ repo'[r] = repo[r]
  /\ HeldAt(r)' /\ WhyAt(r)'

LEMMA OthersSame ==
  ASSUME NEW r \in Runs, OthersStay(r), NEW s \in Runs, s # r
  PROVE  /\ \A p \in Repos : Holds(s, p)' <=> Holds(s, p)
         /\ \A p \in Repos : LeftBy(s, p)' <=> LeftBy(s, p)
         /\ HeldAt(s)' <=> HeldAt(s)
         /\ WhyAt(s)' <=> WhyAt(s)
<1>1. /\ pc'[s] = pc[s] /\ repo'[s] = repo[s]
      /\ lockHeld'[s] = lockHeld[s] /\ why'[s] = why[s]
      /\ transport' = transport
  BY DEF OthersStay
<1>2. \A p \in Repos : Holds(s, p)' <=> Holds(s, p)
  BY <1>1 DEF Holds, Staging
<1>3. \A p \in Repos : LeftBy(s, p)' <=> LeftBy(s, p)
  BY <1>1 DEF LeftBy
<1>4. HeldAt(s)' <=> HeldAt(s)
  BY <1>1 DEF HeldAt
<1>5. WhyAt(s)' <=> WhyAt(s)
  BY <1>1 DEF WhyAt
<1>6. QED
  BY <1>2, <1>3, <1>4, <1>5

(* A stale trap stays one.                                                   *)
LEMMA StaleStays ==
  ASSUME NEW r \in Runs, OthersStay(r), NEW p \in Repos, StaleTrap(p),
         why[r] = "stale" => why'[r] = "stale" /\ repo'[r] = repo[r]
  PROVE  StaleTrap(p)'
<1>1. PICK s \in Runs : why[s] = "stale" /\ repo[s] = p
  BY DEF StaleTrap
<1>2. why'[s] = "stale" /\ repo'[s] = p
  BY <1>1 DEF OthersStay
<1>3. QED
  BY <1>2 DEF StaleTrap

(* GivesBackLock in terms of one run.                                        *)
LEMMA Accounted == GivesBackLock <=> \A p \in lockDir : \E r \in Runs : Holds(r, p) \/ LeftBy(r, p)
BY DEF GivesBackLock, LeftBy

LEMMA QuietStep ==
  ASSUME TypeInv, LockInv, NEW r \in Runs, OthersStay(r), KeepsHold(r), lockDir' = lockDir
  PROVE  LockInv'
<1>1. \A p \in Repos : StaleTrap(p) => StaleTrap(p)'
  BY StaleStays DEF KeepsHold
<1>2. \A p \in Repos, s \in Runs : Holds(s, p)' => Holds(s, p) \/ StaleTrap(p)'
  <2>1. SUFFICES ASSUME NEW p \in Repos, Holds(r, p)' PROVE Holds(r, p) \/ StaleTrap(p)'
    BY OthersSame
  <2>2. CASE why'[r] = "stale" /\ repo'[r] = p
    BY <2>2 DEF StaleTrap
  <2>3. QED
    BY <2>1, <2>2 DEF KeepsHold
<1>3. LockExists'
  BY <1>1, <1>2 DEF LockInv, LockExists
<1>4. OneHolder'
  BY <1>1, <1>2 DEF LockInv, OneHolder
<1>5. RunExact'
  BY OthersSame DEF LockInv, RunExact, KeepsHold
<1>6. \A p \in lockDir' : \E s \in Runs : (Holds(s, p) \/ LeftBy(s, p))'
  <2>1. TAKE p \in lockDir'
  <2>2. PICK s \in Runs : Holds(s, p) \/ LeftBy(s, p)
    BY Accounted DEF LockInv
  <2>3. p \in Repos
    BY DEF TypeInv, TypeOK
  <2>4. (Holds(s, p) \/ LeftBy(s, p))'
    BY <2>2, <2>3, OthersSame DEF KeepsHold
  <2>5. QED
    BY <2>4
<1>7. GivesBackLock'
  BY <1>6 DEF GivesBackLock, LeftBy
<1>8. QED
  BY <1>3, <1>4, <1>5, <1>7 DEF LockInv

(* A step of r that removes the lock lock_held names.                        *)
LEMMA ReleaseStep ==
  ASSUME TypeInv, LockInv, NEW r \in Runs, OthersStay(r), HeldAt(r)', WhyAt(r)',
         lockDir' = lockDir \ {lockHeld[r]}, repo'[r] = repo[r], why'[r] = why[r],
         pc[r] \in {"rmdir", "exit", "trap"}, \A p \in Repos : ~Holds(r, p)'
  PROVE  LockInv'
<1>1. \A p \in Repos : StaleTrap(p) => StaleTrap(p)'
  BY StaleStays
<1>2. \A p \in Repos, s \in Runs : Holds(s, p)' => s # r /\ Holds(s, p)
  BY OthersSame
<1>3. \A p \in Repos : Holds(r, p) => p = lockHeld[r]
  BY DEF LockInv, RunExact, HeldAt, Holds, Staging
<1>4. \A p \in Repos : p = lockHeld[r] => Holds(r, p)
  BY NoneIsNoRepo DEF LockInv, RunExact, HeldAt, Holds, Staging
<1>5. LockExists'
  <2>1. SUFFICES ASSUME NEW p \in Repos, NEW s \in Runs, Holds(s, p)'
                 PROVE  p \in lockDir' \/ StaleTrap(p)'
    BY DEF LockExists
  <2>2. Holds(s, p) /\ s # r
    BY <1>2, <2>1
  <2>3. CASE p = lockHeld[r]
    <3>1. Holds(r, p)
      BY <1>4, <2>3
    <3>2. StaleTrap(p)
      BY <2>2, <3>1 DEF LockInv, OneHolder
    <3>3. QED
      BY <1>1, <3>2
  <2>4. CASE p # lockHeld[r]
    BY <1>1, <2>2, <2>4 DEF LockInv, LockExists
  <2>5. QED
    BY <2>3, <2>4
<1>6. OneHolder'
  BY <1>1, <1>2 DEF LockInv, OneHolder
<1>7. RunExact'
  BY OthersSame DEF LockInv, RunExact
<1>8. \A p \in lockDir' : \E s \in Runs : (Holds(s, p) \/ LeftBy(s, p))'
  <2>1. TAKE p \in lockDir'
  <2>2. p \in lockDir /\ p # lockHeld[r] /\ p \in Repos
    BY DEF TypeInv, TypeOK
  <2>3. PICK s \in Runs : Holds(s, p) \/ LeftBy(s, p)
    BY <2>2, Accounted DEF LockInv
  <2>4. CASE s = r
    <3>1. repo[r] = p /\ why[r] = "unmarked"
      BY <1>3, <2>2, <2>3, <2>4 DEF LeftBy
    <3>2. LeftBy(r, p)'
      BY <3>1 DEF LeftBy
    <3>3. QED
      BY <3>2
  <2>5. CASE s # r
    BY <2>2, <2>3, <2>5, OthersSame
  <2>6. QED
    BY <2>4, <2>5
<1>9. GivesBackLock'
  BY <1>8 DEF GivesBackLock, LeftBy
<1>10. QED
  BY <1>5, <1>6, <1>7, <1>9 DEF LockInv

(* Every step keeps the lock invariant.                                      *)
LEMMA NextLockInv == TypeInv /\ LockInv /\ [Next]_vars => LockInv'
<1> SUFFICES ASSUME TypeInv, LockInv, [Next]_vars PROVE LockInv'
  OBVIOUS
<1>a. \A r \in Runs : /\ HeldAt(r) /\ WhyAt(r) /\ (InLoopBody(r) => repo[r] \in Repos)
                      /\ pc[r] \in PCs
  BY DEF LockInv, RunExact, TypeInv, TypeOK, AtPlace
<1>b. pc \in [Runs -> PCs] /\ repo \in [Runs -> Repos \cup {None}]
      /\ lockHeld \in [Runs -> Repos \cup {None}] /\ why \in [Runs -> Reasons]
  BY DEF TypeInv, TypeOK
<1> USE NoneIsNoRepo DEF InLoopBody, Holds, LeftBy, Staging, Goto, Die, OthersStay, KeepsHold,
    HeldAt, WhyAt, runVars, hostVars, setup
<1>1. ASSUME NEW r \in Runs, MakeRunDir(r) PROVE LockInv'
  <2>1. OthersStay(r)
    BY <1>1, <1>b DEF MakeRunDir
  <2>2. KeepsHold(r)
    BY <1>1, <1>a, <1>b DEF MakeRunDir
  <2>3. lockDir' = lockDir
    BY <1>1 DEF MakeRunDir
  <2>4. QED
    BY <2>1, <2>2, <2>3, QuietStep
<1>2. ASSUME NEW r \in Runs, StageInto(r) PROVE LockInv'
  <2>1. OthersStay(r)
    BY <1>2, <1>b DEF StageInto
  <2>2. KeepsHold(r)
    BY <1>2, <1>a, <1>b DEF StageInto
  <2>3. lockDir' = lockDir
    BY <1>2 DEF StageInto
  <2>4. QED
    BY <2>1, <2>2, <2>3, QuietStep
<1>3. ASSUME NEW r \in Runs, NextRepo(r) PROVE LockInv'
  <2>1. OthersStay(r)
    BY <1>3, <1>b DEF NextRepo
  <2>2. KeepsHold(r)
    BY <1>3, <1>a, <1>b DEF NextRepo
  <2>3. lockDir' = lockDir
    BY <1>3 DEF NextRepo
  <2>4. QED
    BY <2>1, <2>2, <2>3, QuietStep
<1>4. ASSUME NEW r \in Runs, AllStaged(r) PROVE LockInv'
  <2>1. OthersStay(r)
    BY <1>4, <1>b DEF AllStaged
  <2>2. KeepsHold(r)
    BY <1>4, <1>a, <1>b DEF AllStaged
  <2>3. lockDir' = lockDir
    BY <1>4 DEF AllStaged
  <2>4. QED
    BY <2>1, <2>2, <2>3, QuietStep
<1>5. ASSUME NEW r \in Runs, ReadStamp(r) PROVE LockInv'
  <2>1. OthersStay(r)
    BY <1>5, <1>b DEF ReadStamp
  <2>2. KeepsHold(r)
    BY <1>5, <1>a, <1>b DEF ReadStamp
  <2>3. lockDir' = lockDir
    BY <1>5 DEF ReadStamp
  <2>4. QED
    BY <2>1, <2>2, <2>3, QuietStep
<1>6. ASSUME NEW r \in Runs, SkipStaged(r) PROVE LockInv'
  <2>1. OthersStay(r)
    BY <1>6, <1>b DEF SkipStaged
  <2>2. KeepsHold(r)
    BY <1>6, <1>a, <1>b DEF SkipStaged
  <2>3. lockDir' = lockDir
    BY <1>6 DEF SkipStaged
  <2>4. QED
    BY <2>1, <2>2, <2>3, QuietStep
<1>7. ASSUME NEW r \in Runs, TakeLock(r) PROVE LockInv'
  <2>1. OthersStay(r)
    BY <1>7, <1>b DEF TakeLock
  <2>2. /\ repo[r] \in Repos /\ repo[r] \notin lockDir /\ lockDir' = lockDir \cup {repo[r]}
        /\ pc[r] = "check" /\ pc'[r] = "mark" /\ repo' = repo /\ lockHeld' = lockHeld
        /\ why' = why /\ why[r] = "none"
    BY <1>7, <1>a, <1>b DEF TakeLock
  <2>3. /\ HeldAt(r)' /\ WhyAt(r)'
        /\ \A p \in Repos : Holds(r, p)' <=> p = repo[r]
        /\ \A p \in Repos : ~Holds(r, p) /\ ~LeftBy(r, p)
    BY <2>2, <1>a, <1>b
  <2>4. \A p \in Repos : StaleTrap(p)' <=> StaleTrap(p)
    BY <2>2 DEF StaleTrap
  <2>5. LockExists'
    BY <2>1, <2>2, <2>3, <2>4, OthersSame DEF LockInv, LockExists
  <2>6. OneHolder'
    <3>1. ASSUME NEW s \in Runs, s # r, Holds(s, repo[r]) PROVE StaleTrap(repo[r])
      BY <2>2, <3>1 DEF LockInv, LockExists
    <3>2. QED
      BY <2>1, <2>2, <2>3, <2>4, <3>1, OthersSame DEF LockInv, OneHolder
  <2>7. RunExact'
    BY <2>1, <2>3, OthersSame DEF LockInv, RunExact
  <2>8. \A p \in lockDir' : \E s \in Runs : (Holds(s, p) \/ LeftBy(s, p))'
    <3>1. TAKE p \in lockDir'
    <3>2. CASE p = repo[r]
      BY <2>2, <2>3, <3>2
    <3>3. CASE p # repo[r]
      <4>1. p \in lockDir /\ p \in Repos
        BY <2>2, <3>3 DEF TypeInv, TypeOK
      <4>2. PICK s \in Runs : Holds(s, p) \/ LeftBy(s, p)
        BY <4>1, Accounted DEF LockInv
      <4>3. s # r
        BY <2>3, <4>1, <4>2
      <4>4. QED
        BY ONLY <2>1, <4>1, <4>2, <4>3, s \in Runs, r \in Runs, OthersSame
    <3>4. QED
      BY <3>2, <3>3
  <2>9. GivesBackLock'
    BY <2>8 DEF GivesBackLock
  <2>10. QED
    BY <2>5, <2>6, <2>7, <2>9 DEF LockInv
<1>8. ASSUME NEW r \in Runs, LockBusy(r) PROVE LockInv'
  <2>1. OthersStay(r)
    BY <1>8, <1>b DEF LockBusy
  <2>2. KeepsHold(r)
    BY <1>8, <1>a, <1>b DEF LockBusy
  <2>3. lockDir' = lockDir
    BY <1>8 DEF LockBusy
  <2>4. QED
    BY <2>1, <2>2, <2>3, QuietStep
<1>9. ASSUME NEW r \in Runs, MarkHeld(r) PROVE LockInv'
  <2>1. OthersStay(r)
    BY <1>9, <1>b DEF MarkHeld
  <2>2. KeepsHold(r)
    BY <1>9, <1>a, <1>b DEF MarkHeld
  <2>3. lockDir' = lockDir
    BY <1>9 DEF MarkHeld
  <2>4. QED
    BY <2>1, <2>2, <2>3, QuietStep
<1>10. ASSUME NEW r \in Runs, SkipEntry(r) PROVE LockInv'
  <2>1. OthersStay(r)
    BY <1>10, <1>b DEF SkipEntry
  <2>2. KeepsHold(r)
    BY <1>10, <1>a, <1>b DEF SkipEntry
  <2>3. lockDir' = lockDir
    BY <1>10 DEF SkipEntry
  <2>4. QED
    BY <2>1, <2>2, <2>3, QuietStep
<1>11. ASSUME NEW r \in Runs, BeginCopy(r) PROVE LockInv'
  <2>1. OthersStay(r)
    BY <1>11, <1>b DEF BeginCopy
  <2>2. KeepsHold(r)
    BY <1>11, <1>a, <1>b DEF BeginCopy
  <2>3. lockDir' = lockDir
    BY <1>11 DEF BeginCopy
  <2>4. QED
    BY <2>1, <2>2, <2>3, QuietStep
<1>12. ASSUME NEW r \in Runs, EndCopy(r) PROVE LockInv'
  <2>1. OthersStay(r)
    BY <1>12, <1>b DEF EndCopy
  <2>2. KeepsHold(r)
    BY <1>12, <1>a, <1>b DEF EndCopy
  <2>3. lockDir' = lockDir
    BY <1>12 DEF EndCopy
  <2>4. QED
    BY <2>1, <2>2, <2>3, QuietStep
<1>13. ASSUME NEW r \in Runs, CopyDone(r) PROVE LockInv'
  <2>1. OthersStay(r)
    BY <1>13, <1>b DEF CopyDone
  <2>2. KeepsHold(r)
    BY <1>13, <1>a, <1>b DEF CopyDone
  <2>3. lockDir' = lockDir
    BY <1>13 DEF CopyDone
  <2>4. QED
    BY <2>1, <2>2, <2>3, QuietStep
<1>14. ASSUME NEW r \in Runs, TruncateStamp(r) PROVE LockInv'
  <2>1. OthersStay(r)
    BY <1>14, <1>b DEF TruncateStamp
  <2>2. KeepsHold(r)
    BY <1>14, <1>a, <1>b DEF TruncateStamp
  <2>3. lockDir' = lockDir
    BY <1>14 DEF TruncateStamp
  <2>4. QED
    BY <2>1, <2>2, <2>3, QuietStep
<1>15. ASSUME NEW r \in Runs, WriteStamp(r) PROVE LockInv'
  <2>1. OthersStay(r)
    BY <1>15, <1>b DEF WriteStamp
  <2>2. KeepsHold(r)
    BY <1>15, <1>a, <1>b DEF WriteStamp
  <2>3. lockDir' = lockDir
    BY <1>15 DEF WriteStamp
  <2>4. QED
    BY <2>1, <2>2, <2>3, QuietStep
<1>16. ASSUME NEW r \in Runs, RemoveLock(r) PROVE LockInv'
  <2>1. OthersStay(r)
    BY <1>16, <1>b DEF RemoveLock
  <2>2. /\ lockDir' = lockDir \ {lockHeld[r]} /\ repo'[r] = repo[r] /\ why'[r] = why[r]
        /\ pc[r] = "rmdir" /\ pc'[r] = "forget" /\ lockHeld' = lockHeld
    BY <1>16, <1>b DEF RemoveLock
  <2>3. HeldAt(r)' /\ WhyAt(r)' /\ \A p \in Repos : ~Holds(r, p)'
    BY <2>2, <1>a
  <2>4. QED
    BY <2>1, <2>2, <2>3, ReleaseStep
<1>17. ASSUME NEW r \in Runs, ForgetLock(r) PROVE LockInv'
  <2>1. OthersStay(r)
    BY <1>17, <1>b DEF ForgetLock
  <2>2. KeepsHold(r)
    BY <1>17, <1>a, <1>b DEF ForgetLock
  <2>3. lockDir' = lockDir
    BY <1>17 DEF ForgetLock
  <2>4. QED
    BY <2>1, <2>2, <2>3, QuietStep
<1>18. ASSUME NEW r \in Runs, TestExits(r) PROVE LockInv'
  <2>1. OthersStay(r)
    BY <1>18, <1>b DEF TestExits
  <2>2. KeepsHold(r)
    BY <1>18, <1>a, <1>b DEF TestExits
  <2>3. lockDir' = lockDir
    BY <1>18 DEF TestExits
  <2>4. QED
    BY <2>1, <2>2, <2>3, QuietStep
<1>19. ASSUME NEW r \in Runs, ExitTrap(r) PROVE LockInv'
  <2>1. CASE transport # "wsl"
    <3>1. OthersStay(r)
      BY <1>19, <2>1, <1>b DEF ExitTrap, ReleaseLock
    <3>2. /\ lockDir' = lockDir \ {lockHeld[r]} /\ repo'[r] = repo[r] /\ why'[r] = why[r]
          /\ pc[r] \in {"exit", "trap"} /\ pc'[r] \in {"trap", "ended"} /\ lockHeld'[r] = None
      BY <1>19, <2>1, <1>b DEF ExitTrap, ReleaseLock
    <3>3. HeldAt(r)' /\ WhyAt(r)' /\ \A p \in Repos : ~Holds(r, p)'
      BY <3>2
    <3>4. QED
      BY <3>1, <3>2, <3>3, ReleaseStep
  <2>2. CASE transport = "wsl"
    <3>1. OthersStay(r)
      BY <1>19, <2>2, <1>b DEF ExitTrap, RemoveRunDir
    <3>2. KeepsHold(r)
      BY <1>19, <2>2, <1>a, <1>b DEF ExitTrap, RemoveRunDir
    <3>3. lockDir' = lockDir
      BY <1>19, <2>2 DEF ExitTrap, RemoveRunDir
    <3>4. QED
      BY <3>1, <3>2, <3>3, QuietStep
  <2>3. QED
    BY <2>1, <2>2
<1>26. ASSUME NEW r \in Runs, ExitTrapEnds(r) PROVE LockInv'
  <2>1. CASE transport = "wsl"
    <3>1. OthersStay(r)
      BY <1>26, <2>1, <1>b DEF ExitTrapEnds, ReleaseLock
    <3>2. /\ lockDir' = lockDir \ {lockHeld[r]} /\ repo'[r] = repo[r] /\ why'[r] = why[r]
          /\ pc[r] \in {"exit", "trap"} /\ pc'[r] \in {"trap", "ended"} /\ lockHeld'[r] = None
      BY <1>26, <2>1, <1>b DEF ExitTrapEnds, ReleaseLock
    <3>3. HeldAt(r)' /\ WhyAt(r)' /\ \A p \in Repos : ~Holds(r, p)'
      BY <3>2
    <3>4. QED
      BY <3>1, <3>2, <3>3, ReleaseStep
  <2>2. CASE transport # "wsl"
    <3>1. OthersStay(r)
      BY <1>26, <2>2, <1>b DEF ExitTrapEnds, RemoveRunDir
    <3>2. KeepsHold(r)
      BY <1>26, <2>2, <1>a, <1>b DEF ExitTrapEnds, RemoveRunDir
    <3>3. lockDir' = lockDir
      BY <1>26, <2>2 DEF ExitTrapEnds, RemoveRunDir
    <3>4. QED
      BY <3>1, <3>2, <3>3, QuietStep
  <2>3. QED
    BY <2>1, <2>2
<1>20. ASSUME NEW r \in Runs, CommandFails(r) PROVE LockInv'
  <2>1. OthersStay(r)
    BY <1>20, <1>b DEF CommandFails
  <2>2. KeepsHold(r)
    BY <1>20, <1>a, <1>b DEF CommandFails
  <2>3. lockDir' = lockDir
    BY <1>20 DEF CommandFails
  <2>4. QED
    BY <2>1, <2>2, <2>3, QuietStep
<1>21. ASSUME NEW r \in Runs, Interrupt(r) PROVE LockInv'
  <2>1. OthersStay(r)
    BY <1>21, <1>b DEF Interrupt
  <2>2. KeepsHold(r)
    BY <1>21, <1>a, <1>b DEF Interrupt
  <2>3. lockDir' = lockDir
    BY <1>21 DEF Interrupt
  <2>4. QED
    BY <2>1, <2>2, <2>3, QuietStep
<1>22. ASSUME NEW r \in Runs, Kill(r) PROVE LockInv'
  <2>1. OthersStay(r)
    BY <1>22, <1>b DEF Kill
  <2>2. KeepsHold(r)
    BY <1>22, <1>a, <1>b DEF Kill
  <2>3. lockDir' = lockDir
    BY <1>22 DEF Kill
  <2>4. QED
    BY <2>1, <2>2, <2>3, QuietStep
<1>23. ASSUME NEW p \in Repos, RemoveOrphanLock(p) PROVE LockInv'
  BY <1>23 DEF RemoveOrphanLock, LockInv, LockExists, OneHolder, RunExact, GivesBackLock, StaleTrap
<1>24. CASE UNCHANGED vars
  BY <1>24 DEF vars, LockInv, LockExists, OneHolder, RunExact, GivesBackLock, StaleTrap
<1>25. QED
  BY <1>1, <1>2, <1>3, <1>4, <1>5, <1>6, <1>7, <1>8, <1>9, <1>10, <1>11, <1>12, <1>13,
     <1>14, <1>15, <1>16, <1>17, <1>18, <1>19, <1>20, <1>21, <1>22, <1>23, <1>24, <1>26
     DEF Next, Step, Fault

(* OneStager: whatever fails, is killed or interrupted, no two runs are ever *)
(* inside the staging of one repository, unless a third was interrupted in   *)
(* release_lock, between the rmdir and lock_held="".                         *)
THEOREM OneStagerHolds == Spec => []OneStager
<1>1. TypeInv /\ LockInv => OneStager
  BY DEF TypeInv, AtPlace, InLoopBody, LockInv, OneHolder, OneStager, Holds, Staging
<1>2. QED
  BY <1>1, InitTypeInv, InitLockInv, NextTypeInv, NextLockInv, PTL DEF Spec

(* GivesBackLock: only a kill, or an interrupt between mkdir and lock_held=, *)
(* leaves a lock directory behind.                                           *)
THEOREM GivesBackLockHolds == Spec => []GivesBackLock
<1>1. LockInv => GivesBackLock
  BY DEF LockInv
<1>2. QED
  BY <1>1, InitTypeInv, InitLockInv, NextTypeInv, NextLockInv, PTL DEF Spec

-----------------------------------------------------------------------------
(* Run directories.  On wsl run ids are distinct; on ssh the mkdir that      *)
(* fails on an existing directory is what keeps two runs apart.              *)
DirInv ==
  /\ RunDirExclusive
  /\ transport = "wsl" => \A r, s \in Runs : runId[r] = runId[s] => r = s

LEMMA NextDirInv == TypeInv /\ DirInv /\ [Next]_vars => DirInv'
<1> SUFFICES ASSUME TypeInv, DirInv, [Next]_vars PROVE DirInv'
  OBVIOUS
<1> USE TransportType DEF TypeInv, TypeOK, PCs, DirInv, RunDirExclusive, UsesDir, Goto, Die, runVars, hostVars, setup
<1>1. ASSUME NEW r \in Runs, MakeRunDir(r) PROVE DirInv'
  <2>1. /\ runId' = runId /\ transport' = transport
        /\ \A s \in Runs : s # r => pc'[s] = pc[s]
    BY <1>1 DEF MakeRunDir
  <2>2. CASE transport = "ssh" /\ runId[r] \in dirs
    BY <1>1, <2>1, <2>2 DEF MakeRunDir
  <2>3. CASE ~(transport = "ssh" /\ runId[r] \in dirs)
    <3>1. dirs' = dirs \cup {runId[r]} /\ pc'[r] = "stage"
      BY <1>1, <2>3 DEF MakeRunDir
    <3>2. \A s \in Runs \ {r} :
            UsesDir(s) => runId[s] # runId[r]
      BY <2>3
    <3>3. RunDirExclusive'
      BY <2>1, <3>1, <3>2, SMTT(30)
    <3>4. QED
      BY <2>1, <3>3
  <2>4. QED
    BY <2>2, <2>3
<1>2. ASSUME NEW r \in Runs, StageInto(r) PROVE DirInv'
  BY <1>2 DEF StageInto
<1>3. ASSUME NEW r \in Runs, NextRepo(r) PROVE DirInv'
  BY <1>3 DEF NextRepo
<1>4. ASSUME NEW r \in Runs, AllStaged(r) PROVE DirInv'
  BY <1>4 DEF AllStaged
<1>5. ASSUME NEW r \in Runs, ReadStamp(r) PROVE DirInv'
  BY <1>5 DEF ReadStamp
<1>6. ASSUME NEW r \in Runs, SkipStaged(r) PROVE DirInv'
  BY <1>6 DEF SkipStaged
<1>7. ASSUME NEW r \in Runs, TakeLock(r) PROVE DirInv'
  BY <1>7 DEF TakeLock
<1>8. ASSUME NEW r \in Runs, LockBusy(r) PROVE DirInv'
  BY <1>8 DEF LockBusy
<1>9. ASSUME NEW r \in Runs, MarkHeld(r) PROVE DirInv'
  BY <1>9 DEF MarkHeld
<1>10. ASSUME NEW r \in Runs, SkipEntry(r) PROVE DirInv'
  BY <1>10 DEF SkipEntry
<1>11. ASSUME NEW r \in Runs, BeginCopy(r) PROVE DirInv'
  BY <1>11 DEF BeginCopy
<1>12. ASSUME NEW r \in Runs, EndCopy(r) PROVE DirInv'
  BY <1>12 DEF EndCopy
<1>13. ASSUME NEW r \in Runs, CopyDone(r) PROVE DirInv'
  BY <1>13 DEF CopyDone
<1>14. ASSUME NEW r \in Runs, TruncateStamp(r) PROVE DirInv'
  BY <1>14 DEF TruncateStamp
<1>15. ASSUME NEW r \in Runs, WriteStamp(r) PROVE DirInv'
  BY <1>15 DEF WriteStamp
<1>16. ASSUME NEW r \in Runs, RemoveLock(r) PROVE DirInv'
  BY <1>16 DEF RemoveLock
<1>17. ASSUME NEW r \in Runs, ForgetLock(r) PROVE DirInv'
  BY <1>17 DEF ForgetLock
<1>18. ASSUME NEW r \in Runs, TestExits(r) PROVE DirInv'
  BY <1>18 DEF TestExits
<1>19. ASSUME NEW r \in Runs, ExitTrap(r) PROVE DirInv'
  BY <1>19 DEF ExitTrap, ReleaseLock, RemoveRunDir
<1>26. ASSUME NEW r \in Runs, ExitTrapEnds(r) PROVE DirInv'
  BY <1>26 DEF ExitTrapEnds, ReleaseLock, RemoveRunDir
<1>20. ASSUME NEW r \in Runs, CommandFails(r) PROVE DirInv'
  BY <1>20 DEF CommandFails
<1>21. ASSUME NEW r \in Runs, Interrupt(r) PROVE DirInv'
  BY <1>21 DEF Interrupt
<1>22. ASSUME NEW r \in Runs, Kill(r) PROVE DirInv'
  BY <1>22 DEF Kill
<1>23. ASSUME NEW p \in Repos, RemoveOrphanLock(p) PROVE DirInv'
  BY <1>23 DEF RemoveOrphanLock
<1>24. CASE UNCHANGED vars
  BY <1>24 DEF vars
<1>25. QED
  BY <1>1, <1>2, <1>3, <1>4, <1>5, <1>6, <1>7, <1>8, <1>9, <1>10, <1>11, <1>12,
     <1>13, <1>14, <1>15, <1>16, <1>17, <1>18, <1>19, <1>20, <1>21, <1>22, <1>23, <1>24, <1>26 DEF Next, Step, Fault

(* RunDirExclusive, with all signals: a live run's directory exists and is   *)
(* its own, also when two ssh build hosts draw the same run id.              *)
THEOREM RunDirExclusiveHolds == Spec => []RunDirExclusive
<1>1. Init => DirInv
  BY DEF Init, DirInv, RunDirExclusive, UsesDir
<1>2. DirInv => RunDirExclusive
  BY DEF DirInv
<1>3. QED
  BY <1>1, <1>2, InitTypeInv, NextTypeInv, NextDirInv, PTL DEF Spec

-----------------------------------------------------------------------------
(* What the stamp means.  Nothing staged ever becomes absent again, so a     *)
(* count, once true of the shared tree, stays true; a run that trusts it     *)
(* finds what it needs when needs are nested.                                *)
Present(st, p, S) == \A f \in S \ Dangling : st[p][f] # "absent"

Covered(st, p, n) == n = 0 \/ \E s \in Runs : n = Want(s, p) /\ Present(st, p, Need[s][p])

StampTrue == \A p \in Repos : Covered(store, p, stamp[p])
HaveTrue  == \A r \in Runs : pc[r] = "check" => Covered(store, repo[r], have[r])
CopyTrue  ==
  \A r \in Runs :
    /\ pc[r] = "copy" => Present(store, repo[r], Need[r][repo[r]] \ pending[r])
    /\ pc[r] \in {"truncate", "write", "rmdir", "forget"} => Present(store, repo[r], Need[r][repo[r]])
LoopTrue  ==
  \A r \in Runs : pc[r] \notin {"exit", "trap", "ended", "killed"} =>
    \A p \in Repos \ todo[r] :
      Present(store, p, Need[r][p]) \/ (p = repo[r] /\ pc[r] \in {"read", "check", "mark", "copy"})
TestTrue  == \A r \in Runs : pc[r] = "test" => todo[r] = {}

PresentInv == StampTrue /\ HaveTrue /\ CopyTrue /\ LoopTrue /\ TestTrue

LEMMA InitPresentInv == Init => PresentInv
BY DEF Init, PresentInv, StampTrue, HaveTrue, CopyTrue, LoopTrue, TestTrue, Covered,
   Present, ExternalRepos

(* No step of any run removes an entry from the shared tree.                 *)
LEMMA StoreGrows ==
  ASSUME TypeInv, [Next]_vars, NEW p \in Repos, NEW f \in Files, store[p][f] # "absent"
  PROVE  store'[p][f] # "absent"
<1>1. CASE store' = store
  BY <1>1
<1>2. ASSUME NEW r \in Runs, BeginCopy(r) PROVE store'[p][f] # "absent"
  BY <1>2 DEF BeginCopy, TypeInv, TypeOK, AtPlace, InLoopBody
<1>3. ASSUME NEW r \in Runs, EndCopy(r) PROVE store'[p][f] # "absent"
  BY <1>3 DEF EndCopy, TypeInv, TypeOK, AtPlace, InLoopBody
<1>4. QED
  BY <1>1, <1>2, <1>3 DEF Next, Step, Fault, vars, runVars, hostVars, setup, MakeRunDir,
     StageInto, NextRepo, AllStaged, ReadStamp, SkipStaged, TakeLock, LockBusy,
     MarkHeld, SkipEntry, CopyDone, TruncateStamp, WriteStamp, RemoveLock,
     ForgetLock, TestExits, ExitTrap, ExitTrapEnds, ReleaseLock, RemoveRunDir, CommandFails, Interrupt, Kill, RemoveOrphanLock

LEMMA PresentStays ==
  ASSUME TypeInv, [Next]_vars, NEW p \in Repos, NEW S \in SUBSET Files, Present(store, p, S)
  PROVE  Present(store', p, S)
BY StoreGrows DEF Present

LEMMA CoveredStays ==
  ASSUME TypeInv, [Next]_vars, NEW p \in Repos, NEW n \in Nat, Covered(store, p, n)
  PROVE  Covered(store', p, n)
<1>1. CASE n = 0
  BY <1>1 DEF Covered
<1>2. CASE n # 0
  <2>1. PICK s \in Runs : n = Want(s, p) /\ Present(store, p, Need[s][p])
    BY <1>2 DEF Covered
  <2>2. Present(store', p, Need[s][p])
    BY <2>1, WantNat, PresentStays
  <2>3. QED
    BY <2>1, <2>2 DEF Covered, Want
<1>3. QED
  BY <1>1, <1>2

(* The run that finds the count high enough needs nothing that is missing.   *)
LEMMA EnoughIsPresent ==
  ASSUME NestedNeeds, NEW r \in Runs, NEW p \in Repos, NEW n \in Nat,
         Covered(store, p, n), n >= Want(r, p)
  PROVE  Present(store, p, Need[r][p])
<1>1. CASE n = 0
  <2>1. Cardinality(Need[r][p]) = 0
    BY <1>1, WantNat DEF Want
  <2>2. Need[r][p] = {}
    BY <2>1, WantNat, FS_EmptySet
  <2>3. QED
    BY <2>2 DEF Present
<1>2. CASE n # 0
  <2>1. PICK s \in Runs : n = Want(s, p) /\ Present(store, p, Need[s][p])
    BY <1>2 DEF Covered
  <2>2. Need[r][p] \subseteq Need[s][p]
    BY <2>1 DEF NestedNeeds, Want
  <2>3. QED
    BY <2>1, <2>2 DEF Present
<1>3. QED
  BY <1>1, <1>2

(* With nested needs every step keeps the meaning of the stamp.              *)
LEMMA NextPresentInv ==
  ASSUME NestedNeeds
  PROVE  TypeInv /\ PresentInv /\ [Next]_vars => PresentInv'
<1> SUFFICES ASSUME TypeInv, PresentInv, [Next]_vars PROVE PresentInv'
  OBVIOUS
<1>a. \A p \in Repos, S \in SUBSET Files : Present(store, p, S) => Present(store', p, S)
  BY PresentStays
<1>b. \A p \in Repos, n \in Nat : Covered(store, p, n) => Covered(store', p, n)
  BY CoveredStays
<1>c. \A r \in Runs, p \in Repos : Need[r][p] \in SUBSET Files /\ Want(r, p) \in Nat
  BY WantNat
<1> USE NoneIsNoRepo DEF TypeInv, TypeOK, AtPlace, InLoopBody, PCs, PresentInv, StampTrue,
    HaveTrue, CopyTrue, LoopTrue, TestTrue, Goto, Die, runVars, hostVars, setup
<1>1. ASSUME NEW r \in Runs, MakeRunDir(r) PROVE PresentInv'
  <2>1. \A s \in Runs : s # r => /\ pc'[s] = pc[s] /\ repo'[s] = repo[s]
                                /\ have'[s] = have[s] /\ todo'[s] = todo[s]
                                /\ pending'[s] = pending[s]
    BY <1>1 DEF MakeRunDir
  <2>2. /\ pc[r] = "mkdir" /\ (pc'[r] = "ended" \/ pc'[r] = "stage")
        /\ repo' = repo /\ todo' = todo
    BY <1>1 DEF MakeRunDir
  <2>3. StampTrue'
    BY <1>1, <2>2, <1>a, <1>b, <1>c DEF MakeRunDir
  <2>4. HaveTrue'
    BY <1>1, <2>1, <2>2, <1>a, <1>b, <1>c DEF MakeRunDir
  <2>5. CopyTrue'
    BY <1>1, <2>1, <2>2, <1>a, <1>b, <1>c DEF MakeRunDir
  <2>6. LoopTrue'
    BY <1>1, <2>1, <2>2, <1>a, <1>b, <1>c DEF MakeRunDir
  <2>7. TestTrue'
    BY <1>1, <2>1, <2>2 DEF MakeRunDir
  <2>8. QED
    BY <2>3, <2>4, <2>5, <2>6, <2>7
<1>2. ASSUME NEW r \in Runs, StageInto(r) PROVE PresentInv'
  BY <1>2, <1>a, <1>b, <1>c DEF StageInto
<1>3. ASSUME NEW r \in Runs, NextRepo(r) PROVE PresentInv'
  <2>1. \A s \in Runs : s # r => /\ pc'[s] = pc[s] /\ repo'[s] = repo[s]
                                /\ have'[s] = have[s] /\ todo'[s] = todo[s]
                                /\ pending'[s] = pending[s]
    BY <1>3 DEF NextRepo
  <2>3. StampTrue'
    BY <1>3, <1>a, <1>b, <1>c DEF NextRepo
  <2>4. HaveTrue'
    BY <1>3, <2>1, <1>a, <1>b, <1>c DEF NextRepo
  <2>5. CopyTrue'
    BY <1>3, <2>1, <1>a, <1>b, <1>c, ZenonT(30) DEF NextRepo
  <2>6. LoopTrue'
    BY <1>3, <2>1, <1>a, <1>b, <1>c DEF NextRepo
  <2>7. TestTrue'
    BY <1>3, <2>1 DEF NextRepo
  <2>8. QED
    BY <2>3, <2>4, <2>5, <2>6, <2>7
<1>4. ASSUME NEW r \in Runs, AllStaged(r) PROVE PresentInv'
  BY <1>4, <1>a, <1>b, <1>c DEF AllStaged
<1>5. ASSUME NEW r \in Runs, ReadStamp(r) PROVE PresentInv'
  <2>1. \A s \in Runs : s # r => /\ pc'[s] = pc[s] /\ repo'[s] = repo[s]
                                /\ have'[s] = have[s] /\ todo'[s] = todo[s]
                                /\ pending'[s] = pending[s]
    BY <1>5 DEF ReadStamp
  <2>2. /\ pc'[r] = "exit" \/ (pc'[r] = "check" /\ have'[r] = stamp[repo[r]])
        /\ repo'[r] = repo[r] /\ repo[r] \in Repos
    <3>1. CASE transport = "ssh" /\ repo[r] \notin stamped
      BY <1>5, <3>1 DEF ReadStamp
    <3>2. CASE ~(transport = "ssh" /\ repo[r] \notin stamped)
      BY <1>5, <3>2 DEF ReadStamp
    <3>3. QED
      BY <3>1, <3>2
  <2>3. StampTrue'
    BY <1>5, <2>2, <1>a, <1>b, <1>c DEF ReadStamp
  <2>4. HaveTrue'
    BY <1>5, <2>1, <2>2, <1>a, <1>b, <1>c DEF ReadStamp
  <2>5. CopyTrue'
    BY <1>5, <2>1, <2>2, <1>a, <1>b, <1>c DEF ReadStamp
  <2>6. LoopTrue'
    BY <1>5, <2>1, <2>2, <1>a, <1>b, <1>c DEF ReadStamp
  <2>7. TestTrue'
    BY <1>5, <2>1, <2>2 DEF ReadStamp
  <2>8. QED
    BY <2>3, <2>4, <2>5, <2>6, <2>7
<1>6. ASSUME NEW r \in Runs, SkipStaged(r) PROVE PresentInv'
  <2>1. \A s \in Runs : s # r => /\ pc'[s] = pc[s] /\ repo'[s] = repo[s]
                                /\ have'[s] = have[s] /\ todo'[s] = todo[s]
                                /\ pending'[s] = pending[s]
    BY <1>6 DEF SkipStaged
  <2>2. Present(store, repo[r], Need[r][repo[r]])
    <3>1. repo[r] \in Repos /\ have[r] \in Nat /\ have[r] >= Want(r, repo[r])
      BY <1>6 DEF SkipStaged, Enough
    <3>2. Covered(store, repo[r], have[r])
      BY <1>6 DEF SkipStaged
    <3>3. QED
      BY <3>1, <3>2, EnoughIsPresent
  <2>3. StampTrue'
    BY <1>6, <2>2, <1>a, <1>b, <1>c DEF SkipStaged
  <2>4. HaveTrue'
    BY <1>6, <2>1, <2>2, <1>a, <1>b, <1>c DEF SkipStaged
  <2>5. CopyTrue'
    BY <1>6, <2>1, <2>2, <1>a, <1>b, <1>c DEF SkipStaged
  <2>6. LoopTrue'
    BY <1>6, <2>1, <2>2, <1>a, <1>b, <1>c DEF SkipStaged
  <2>7. TestTrue'
    BY <1>6, <2>1, <2>2 DEF SkipStaged
  <2>8. QED
    BY <2>3, <2>4, <2>5, <2>6, <2>7
<1>7. ASSUME NEW r \in Runs, TakeLock(r) PROVE PresentInv'
  BY <1>7, <1>a, <1>b, <1>c DEF TakeLock
<1>8. ASSUME NEW r \in Runs, LockBusy(r) PROVE PresentInv'
  <2>1. \A s \in Runs : s # r => /\ pc'[s] = pc[s] /\ repo'[s] = repo[s]
                                /\ have'[s] = have[s] /\ todo'[s] = todo[s]
                                /\ pending'[s] = pending[s]
    BY <1>8 DEF LockBusy
  <2>2. pc'[r] = "exit" \/ pc'[r] = "read"
    BY <1>8 DEF LockBusy
  <2>3. StampTrue'
    BY <1>8, <2>2, <1>a, <1>b, <1>c DEF LockBusy
  <2>4. HaveTrue'
    BY <1>8, <2>1, <2>2, <1>a, <1>b, <1>c DEF LockBusy
  <2>5. CopyTrue'
    BY <1>8, <2>1, <2>2, <1>a, <1>b, <1>c DEF LockBusy
  <2>6. LoopTrue'
    BY <1>8, <2>1, <2>2, <1>a, <1>b, <1>c DEF LockBusy
  <2>7. TestTrue'
    BY <1>8, <2>1, <2>2 DEF LockBusy
  <2>8. QED
    BY <2>3, <2>4, <2>5, <2>6, <2>7
<1>9. ASSUME NEW r \in Runs, MarkHeld(r) PROVE PresentInv'
  <2>1. \A s \in Runs : s # r => /\ pc'[s] = pc[s] /\ repo'[s] = repo[s]
                                /\ have'[s] = have[s] /\ todo'[s] = todo[s]
                                /\ pending'[s] = pending[s]
    BY <1>9 DEF MarkHeld
  <2>3. StampTrue'
    BY <1>9, <1>a, <1>b, <1>c DEF MarkHeld
  <2>4. HaveTrue'
    BY <1>9, <2>1, <1>a, <1>b, <1>c DEF MarkHeld
  <2>5. CopyTrue'
    BY <1>9, <2>1, <1>a, <1>b, <1>c DEF MarkHeld, Present
  <2>6. LoopTrue'
    BY <1>9, <2>1, <1>a, <1>b, <1>c DEF MarkHeld
  <2>7. TestTrue'
    BY <1>9, <2>1 DEF MarkHeld
  <2>8. QED
    BY <2>3, <2>4, <2>5, <2>6, <2>7
<1>10. ASSUME NEW r \in Runs, SkipEntry(r) PROVE PresentInv'
  <2>1. \A s \in Runs : s # r => /\ pc'[s] = pc[s] /\ repo'[s] = repo[s]
                                /\ have'[s] = have[s] /\ todo'[s] = todo[s]
                                /\ pending'[s] = pending[s]
    BY <1>10 DEF SkipEntry
  <2>3. StampTrue'
    BY <1>10, <1>a, <1>b, <1>c DEF SkipEntry
  <2>4. HaveTrue'
    BY <1>10, <2>1, <1>a, <1>b, <1>c DEF SkipEntry
  <2>5. CopyTrue'
    BY <1>10, <2>1, <1>a, <1>b, <1>c DEF SkipEntry, Present
  <2>6. LoopTrue'
    BY <1>10, <2>1, <1>a, <1>b, <1>c DEF SkipEntry
  <2>7. TestTrue'
    BY <1>10, <2>1 DEF SkipEntry
  <2>8. QED
    BY <2>3, <2>4, <2>5, <2>6, <2>7
<1>11. ASSUME NEW r \in Runs, BeginCopy(r) PROVE PresentInv'
  <2>1. \A s \in Runs : s # r => /\ pc'[s] = pc[s] /\ repo'[s] = repo[s]
                                /\ have'[s] = have[s] /\ todo'[s] = todo[s]
                                /\ pending'[s] = pending[s]
    BY <1>11 DEF BeginCopy
  <2>2. Present(store', repo[r], Need[r][repo[r]] \ pending'[r])
    <3>1. PICK f \in pending[r] \ Dangling :
            /\ pending' = [pending EXCEPT ![r] = @ \ {f}]
            /\ store' = [store EXCEPT ![repo[r]][f] = "partial"]
      BY <1>11 DEF BeginCopy
    <3>2. Present(store', repo[r], Need[r][repo[r]] \ pending[r])
      <4>1. repo[r] \in Repos /\ Present(store, repo[r], Need[r][repo[r]] \ pending[r])
        BY <1>11 DEF BeginCopy
      <4>2. Need[r][repo[r]] \ pending[r] \in SUBSET Files
        BY <4>1, <1>c
      <4>3. QED
        BY <4>1, <4>2, <1>a
    <3>3. store'[repo[r]][f] = "partial"
      BY <1>11, <3>1 DEF BeginCopy
    <3>4. pending'[r] = pending[r] \ {f}
      BY <3>1
    <3>5. QED
      BY <3>2, <3>3, <3>4 DEF Present
  <2>3. StampTrue'
    BY <1>11, <2>2, <1>a, <1>b, <1>c DEF BeginCopy
  <2>4. HaveTrue'
    BY <1>11, <2>1, <2>2, <1>a, <1>b, <1>c DEF BeginCopy
  <2>5. CopyTrue'
    BY <1>11, <2>1, <2>2, <1>a, <1>b, <1>c DEF BeginCopy
  <2>6. LoopTrue'
    BY <1>11, <2>1, <2>2, <1>a, <1>b, <1>c DEF BeginCopy
  <2>7. TestTrue'
    BY <1>11, <2>1, <2>2 DEF BeginCopy
  <2>8. QED
    BY <2>3, <2>4, <2>5, <2>6, <2>7
<1>12. ASSUME NEW r \in Runs, EndCopy(r) PROVE PresentInv'
  BY <1>12, <1>a, <1>b, <1>c DEF EndCopy
<1>13. ASSUME NEW r \in Runs, CopyDone(r) PROVE PresentInv'
  <2>1. \A s \in Runs : s # r => /\ pc'[s] = pc[s] /\ repo'[s] = repo[s]
                                /\ have'[s] = have[s] /\ todo'[s] = todo[s]
                                /\ pending'[s] = pending[s]
    BY <1>13 DEF CopyDone
  <2>2. Present(store, repo[r], Need[r][repo[r]])
    BY <1>13 DEF CopyDone, Present
  <2>3. StampTrue'
    BY <1>13, <2>2, <1>a, <1>b, <1>c DEF CopyDone
  <2>4. HaveTrue'
    BY <1>13, <2>1, <2>2, <1>a, <1>b, <1>c DEF CopyDone
  <2>5. CopyTrue'
    BY <1>13, <2>1, <2>2, <1>a, <1>b, <1>c DEF CopyDone
  <2>6. LoopTrue'
    BY <1>13, <2>1, <2>2, <1>a, <1>b, <1>c DEF CopyDone
  <2>7. TestTrue'
    BY <1>13, <2>1, <2>2 DEF CopyDone
  <2>8. QED
    BY <2>3, <2>4, <2>5, <2>6, <2>7
<1>14. ASSUME NEW r \in Runs, TruncateStamp(r) PROVE PresentInv'
  <2>1. \A s \in Runs : s # r => /\ pc'[s] = pc[s] /\ repo'[s] = repo[s]
                                /\ have'[s] = have[s] /\ todo'[s] = todo[s]
                                /\ pending'[s] = pending[s]
    BY <1>14 DEF TruncateStamp
  <2>3. StampTrue'
    BY <1>14, <1>a, <1>b, <1>c DEF TruncateStamp, Covered
  <2>4. HaveTrue'
    BY <1>14, <2>1, <1>a, <1>b, <1>c DEF TruncateStamp
  <2>5. CopyTrue'
    BY <1>14, <2>1, <1>a, <1>b, <1>c DEF TruncateStamp
  <2>6. LoopTrue'
    BY <1>14, <2>1, <1>a, <1>b, <1>c DEF TruncateStamp
  <2>7. TestTrue'
    BY <1>14, <2>1 DEF TruncateStamp
  <2>8. QED
    BY <2>3, <2>4, <2>5, <2>6, <2>7
<1>15. ASSUME NEW r \in Runs, WriteStamp(r) PROVE PresentInv'
  <2>1. \A s \in Runs : s # r => /\ pc'[s] = pc[s] /\ repo'[s] = repo[s]
                                /\ have'[s] = have[s] /\ todo'[s] = todo[s]
                                /\ pending'[s] = pending[s]
    BY <1>15 DEF WriteStamp
  <2>2. Covered(store', repo[r], Want(r, repo[r]))
    BY <1>15 DEF WriteStamp, Covered
  <2>3. StampTrue'
    BY <1>15, <2>2, <1>a, <1>b, <1>c DEF WriteStamp
  <2>4. HaveTrue'
    BY <1>15, <2>1, <2>2, <1>a, <1>b, <1>c DEF WriteStamp
  <2>5. CopyTrue'
    BY <1>15, <2>1, <2>2, <1>a, <1>b, <1>c DEF WriteStamp
  <2>6. LoopTrue'
    BY <1>15, <2>1, <2>2, <1>a, <1>b, <1>c DEF WriteStamp
  <2>7. TestTrue'
    BY <1>15, <2>1, <2>2 DEF WriteStamp
  <2>8. QED
    BY <2>3, <2>4, <2>5, <2>6, <2>7
<1>16. ASSUME NEW r \in Runs, RemoveLock(r) PROVE PresentInv'
  BY <1>16, <1>a, <1>b, <1>c DEF RemoveLock
<1>17. ASSUME NEW r \in Runs, ForgetLock(r) PROVE PresentInv'
  BY <1>17, <1>a, <1>b, <1>c DEF ForgetLock
<1>18. ASSUME NEW r \in Runs, TestExits(r) PROVE PresentInv'
  BY <1>18, <1>a, <1>b, <1>c DEF TestExits
<1>19. ASSUME NEW r \in Runs, ExitTrap(r) PROVE PresentInv'
  BY <1>19, <1>a, <1>b, <1>c DEF ExitTrap, ReleaseLock, RemoveRunDir
<1>26. ASSUME NEW r \in Runs, ExitTrapEnds(r) PROVE PresentInv'
  BY <1>26, <1>a, <1>b, <1>c DEF ExitTrapEnds, ReleaseLock, RemoveRunDir
<1>20. ASSUME NEW r \in Runs, CommandFails(r) PROVE PresentInv'
  BY <1>20, <1>a, <1>b, <1>c DEF CommandFails
<1>21. ASSUME NEW r \in Runs, Interrupt(r) PROVE PresentInv'
  <2>1. \A s \in Runs : s # r => /\ pc'[s] = pc[s] /\ repo'[s] = repo[s]
                                /\ have'[s] = have[s] /\ todo'[s] = todo[s]
                                /\ pending'[s] = pending[s]
    BY <1>21 DEF Interrupt
  <2>2. pc'[r] = "exit" \/ pc'[r] = "ended"
    BY <1>21 DEF Interrupt
  <2>3. StampTrue'
    BY <1>21, <2>2, <1>a, <1>b, <1>c DEF Interrupt
  <2>4. HaveTrue'
    BY <1>21, <2>1, <2>2, <1>a, <1>b, <1>c DEF Interrupt
  <2>5. CopyTrue'
    BY <1>21, <2>1, <2>2, <1>a, <1>b, <1>c DEF Interrupt
  <2>6. LoopTrue'
    BY <1>21, <2>1, <2>2, <1>a, <1>b, <1>c DEF Interrupt
  <2>7. TestTrue'
    BY <1>21, <2>1, <2>2, SMTT(30) DEF Interrupt
  <2>8. QED
    BY <2>3, <2>4, <2>5, <2>6, <2>7
<1>22. ASSUME NEW r \in Runs, Kill(r) PROVE PresentInv'
  BY <1>22, <1>a, <1>b, <1>c DEF Kill
<1>23. ASSUME NEW p \in Repos, RemoveOrphanLock(p) PROVE PresentInv'
  BY <1>23, <1>a, <1>b, <1>c DEF RemoveOrphanLock
<1>24. CASE UNCHANGED vars
  BY <1>24, <1>a, <1>b, <1>c DEF vars
<1>25. QED
  BY <1>1, <1>2, <1>3, <1>4, <1>5, <1>6, <1>7, <1>8, <1>9, <1>10, <1>11, <1>12,
     <1>13, <1>14, <1>15, <1>16, <1>17, <1>18, <1>19, <1>20, <1>21, <1>22, <1>23, <1>24, <1>26 DEF Next, Step, Fault

(* An entry is half copied only while, or because, some run is or was in the *)
(* middle of copying it.                                                     *)
WritingAtCopy ==
  \A r \in Runs : writing[r] # None => pc[r] \in {"copy", "exit", "trap", "ended", "killed"}

PartialInv ==
  /\ WritingAtCopy
  /\ \A p \in Repos, f \in Files :
       store[p][f] = "partial" => \E s \in Runs : repo[s] = p /\ writing[s] = f

(* Every step keeps it: repo moves on only once writing is empty.            *)
LEMMA NextPartialInv == TypeInv /\ PartialInv /\ [Next]_vars => PartialInv'
<1> SUFFICES ASSUME TypeInv, PartialInv, [Next]_vars PROVE PartialInv'
  OBVIOUS
<1>b. /\ pc \in [Runs -> PCs] /\ repo \in [Runs -> Repos \cup {None}]
      /\ writing \in [Runs -> Files \cup {None}]
      /\ store \in [Repos -> [Files -> EntryState]]
  BY DEF TypeInv, TypeOK
<1> USE NoneIsNoRepo DEF Goto, Die, runVars, hostVars, setup
<1>1. ASSUME NEW r \in Runs, BeginCopy(r) PROVE PartialInv'
  <2>1. PICK f \in pending[r] \ Dangling :
          /\ writing' = [writing EXCEPT ![r] = f]
          /\ store'   = [store EXCEPT ![repo[r]][f] = "partial"]
    BY <1>1 DEF BeginCopy
  <2>2. /\ f \in Files /\ repo[r] \in Repos /\ pc' = pc /\ repo' = repo
        /\ pc[r] = "copy" /\ writing[r] = None
    BY <1>1 DEF BeginCopy, TypeInv, TypeOK, AtPlace, InLoopBody
  <2>3. WritingAtCopy'
    BY <2>1, <2>2, <1>b DEF PartialInv, WritingAtCopy
  <2>4. ASSUME NEW p \in Repos, NEW g \in Files, store'[p][g] = "partial"
        PROVE  \E s \in Runs : repo'[s] = p /\ writing'[s] = g
    <3>1. CASE p = repo[r] /\ g = f
      BY <2>1, <2>2, <3>1, <1>b
    <3>2. CASE ~(p = repo[r] /\ g = f)
      <4>1. store[p][g] = "partial"
        BY <2>1, <2>2, <2>4, <3>2, <1>b
      <4>2. PICK s \in Runs : repo[s] = p /\ writing[s] = g
        BY <4>1 DEF PartialInv
      <4>3. s # r
        BY <2>2, <4>2
      <4>4. QED
        BY <2>1, <2>2, <4>2, <4>3, <1>b
    <3>3. QED
      BY <3>1, <3>2
  <2>5. QED
    BY <2>3, <2>4 DEF PartialInv
<1>2. ASSUME NEW r \in Runs, EndCopy(r) PROVE PartialInv'
  <2>1. /\ pc' = pc /\ repo' = repo /\ pc[r] = "copy" /\ repo[r] \in Repos
        /\ writing[r] \in Files /\ writing' = [writing EXCEPT ![r] = None]
    BY <1>2 DEF EndCopy, TypeInv, AtPlace, InLoopBody
  <2>2. WritingAtCopy'
    BY <2>1, <1>b DEF PartialInv, WritingAtCopy
  <2>3. ASSUME NEW p \in Repos, NEW g \in Files, store'[p][g] = "partial"
        PROVE  \E s \in Runs : repo'[s] = p /\ writing'[s] = g
    <3>1. CASE p = repo[r] /\ g = writing[r]
      <4>1. PICK s \in Runs \ {r} : repo[s] = repo[r] /\ writing[s] = writing[r]
        BY <1>2, <2>1, <2>3, <3>1, <1>b DEF EndCopy
      <4>2. QED
        BY <2>1, <3>1, <4>1, <1>b
    <3>2. CASE ~(p = repo[r] /\ g = writing[r])
      <4>1. store[p][g] = "partial"
        BY <1>2, <2>1, <2>3, <3>2, <1>b DEF EndCopy
      <4>2. PICK s \in Runs : repo[s] = p /\ writing[s] = g
        BY <4>1 DEF PartialInv
      <4>3. s # r
        BY <3>2, <4>2
      <4>4. QED
        BY <2>1, <4>2, <4>3, <1>b
    <3>3. QED
      BY <3>1, <3>2
  <2>4. QED
    BY <2>2, <2>3 DEF PartialInv
<1>3. ASSUME store' = store, writing' = writing, WritingAtCopy',
             \A s \in Runs : writing[s] # None => repo'[s] = repo[s]
      PROVE  PartialInv'
  <2>1. ASSUME NEW p \in Repos, NEW g \in Files, store'[p][g] = "partial"
        PROVE  \E s \in Runs : repo'[s] = p /\ writing'[s] = g
    <3>1. PICK s \in Runs : repo[s] = p /\ writing[s] = g
      BY <1>3, <2>1 DEF PartialInv
    <3>2. QED
      BY <1>3, <3>1
  <2>2. QED
    BY <1>3, <2>1 DEF PartialInv
<1>4. ASSUME NEW r \in Runs, NextRepo(r) PROVE PartialInv'
  <2>1. /\ store' = store /\ writing' = writing /\ pc[r] = "loop"
        /\ \A s \in Runs : s # r => repo'[s] = repo[s] /\ pc'[s] = pc[s]
    BY <1>4, <1>b DEF NextRepo
  <2>2. writing[r] = None
    BY <2>1 DEF PartialInv, WritingAtCopy
  <2>3. WritingAtCopy'
    BY <2>1, <2>2 DEF PartialInv, WritingAtCopy
  <2>4. QED
    BY <2>1, <2>2, <2>3, <1>3
<1>5. ASSUME NEW r \in Runs, MakeRunDir(r) PROVE PartialInv'
  <2>1. store' = store /\ writing' = writing /\ repo' = repo
    BY <1>5 DEF MakeRunDir
  <2>2. WritingAtCopy'
    BY <1>5, <2>1, <1>b DEF MakeRunDir, PartialInv, WritingAtCopy
  <2>3. QED
    BY <2>1, <2>2, <1>3
<1>6. ASSUME NEW r \in Runs, StageInto(r) PROVE PartialInv'
  <2>1. store' = store /\ writing' = writing /\ repo' = repo
    BY <1>6 DEF StageInto
  <2>2. WritingAtCopy'
    BY <1>6, <2>1, <1>b DEF StageInto, PartialInv, WritingAtCopy
  <2>3. QED
    BY <2>1, <2>2, <1>3
<1>7. ASSUME NEW r \in Runs, AllStaged(r) PROVE PartialInv'
  <2>1. store' = store /\ writing' = writing /\ repo' = repo
    BY <1>7 DEF AllStaged
  <2>2. WritingAtCopy'
    BY <1>7, <2>1, <1>b DEF AllStaged, PartialInv, WritingAtCopy
  <2>3. QED
    BY <2>1, <2>2, <1>3
<1>8. ASSUME NEW r \in Runs, ReadStamp(r) PROVE PartialInv'
  <2>1. store' = store /\ writing' = writing /\ repo' = repo
    BY <1>8 DEF ReadStamp
  <2>2. WritingAtCopy'
    BY <1>8, <2>1, <1>b DEF ReadStamp, PartialInv, WritingAtCopy
  <2>3. QED
    BY <2>1, <2>2, <1>3
<1>9. ASSUME NEW r \in Runs, SkipStaged(r) PROVE PartialInv'
  <2>1. store' = store /\ writing' = writing /\ repo' = repo
    BY <1>9 DEF SkipStaged
  <2>2. WritingAtCopy'
    BY <1>9, <2>1, <1>b DEF SkipStaged, PartialInv, WritingAtCopy
  <2>3. QED
    BY <2>1, <2>2, <1>3
<1>10. ASSUME NEW r \in Runs, TakeLock(r) PROVE PartialInv'
  <2>1. store' = store /\ writing' = writing /\ repo' = repo
    BY <1>10 DEF TakeLock
  <2>2. WritingAtCopy'
    BY <1>10, <2>1, <1>b DEF TakeLock, PartialInv, WritingAtCopy
  <2>3. QED
    BY <2>1, <2>2, <1>3
<1>11. ASSUME NEW r \in Runs, LockBusy(r) PROVE PartialInv'
  <2>1. store' = store /\ writing' = writing /\ repo' = repo
    BY <1>11 DEF LockBusy
  <2>2. WritingAtCopy'
    BY <1>11, <2>1, <1>b DEF LockBusy, PartialInv, WritingAtCopy
  <2>3. QED
    BY <2>1, <2>2, <1>3
<1>12. ASSUME NEW r \in Runs, MarkHeld(r) PROVE PartialInv'
  <2>1. store' = store /\ writing' = writing /\ repo' = repo
    BY <1>12 DEF MarkHeld
  <2>2. WritingAtCopy'
    BY <1>12, <2>1, <1>b DEF MarkHeld, PartialInv, WritingAtCopy
  <2>3. QED
    BY <2>1, <2>2, <1>3
<1>13. ASSUME NEW r \in Runs, SkipEntry(r) PROVE PartialInv'
  <2>1. store' = store /\ writing' = writing /\ repo' = repo
    BY <1>13 DEF SkipEntry
  <2>2. WritingAtCopy'
    BY <1>13, <2>1, <1>b DEF SkipEntry, PartialInv, WritingAtCopy
  <2>3. QED
    BY <2>1, <2>2, <1>3
<1>14. ASSUME NEW r \in Runs, CopyDone(r) PROVE PartialInv'
  <2>1. store' = store /\ writing' = writing /\ repo' = repo
    BY <1>14 DEF CopyDone
  <2>2. WritingAtCopy'
    BY <1>14, <2>1, <1>b DEF CopyDone, PartialInv, WritingAtCopy
  <2>3. QED
    BY <2>1, <2>2, <1>3
<1>15. ASSUME NEW r \in Runs, TruncateStamp(r) PROVE PartialInv'
  <2>1. store' = store /\ writing' = writing /\ repo' = repo
    BY <1>15 DEF TruncateStamp
  <2>2. WritingAtCopy'
    BY <1>15, <2>1, <1>b DEF TruncateStamp, PartialInv, WritingAtCopy
  <2>3. QED
    BY <2>1, <2>2, <1>3
<1>16. ASSUME NEW r \in Runs, WriteStamp(r) PROVE PartialInv'
  <2>1. store' = store /\ writing' = writing /\ repo' = repo
    BY <1>16 DEF WriteStamp
  <2>2. WritingAtCopy'
    BY <1>16, <2>1, <1>b DEF WriteStamp, PartialInv, WritingAtCopy
  <2>3. QED
    BY <2>1, <2>2, <1>3
<1>17. ASSUME NEW r \in Runs, RemoveLock(r) PROVE PartialInv'
  <2>1. store' = store /\ writing' = writing /\ repo' = repo
    BY <1>17 DEF RemoveLock
  <2>2. WritingAtCopy'
    BY <1>17, <2>1, <1>b DEF RemoveLock, PartialInv, WritingAtCopy
  <2>3. QED
    BY <2>1, <2>2, <1>3
<1>18. ASSUME NEW r \in Runs, ForgetLock(r) PROVE PartialInv'
  <2>1. store' = store /\ writing' = writing /\ repo' = repo
    BY <1>18 DEF ForgetLock
  <2>2. WritingAtCopy'
    BY <1>18, <2>1, <1>b DEF ForgetLock, PartialInv, WritingAtCopy
  <2>3. QED
    BY <2>1, <2>2, <1>3
<1>19. ASSUME NEW r \in Runs, TestExits(r) PROVE PartialInv'
  <2>1. store' = store /\ writing' = writing /\ repo' = repo
    BY <1>19 DEF TestExits
  <2>2. WritingAtCopy'
    BY <1>19, <2>1, <1>b DEF TestExits, PartialInv, WritingAtCopy
  <2>3. QED
    BY <2>1, <2>2, <1>3
<1>20. ASSUME NEW r \in Runs, ExitTrap(r) PROVE PartialInv'
  <2>1. store' = store /\ writing' = writing /\ repo' = repo
    BY <1>20 DEF ExitTrap, ReleaseLock, RemoveRunDir
  <2>2. WritingAtCopy'
    BY <1>20, <2>1, <1>b DEF ExitTrap, ReleaseLock, RemoveRunDir, PartialInv, WritingAtCopy
  <2>3. QED
    BY <2>1, <2>2, <1>3
<1>21. ASSUME NEW r \in Runs, ExitTrapEnds(r) PROVE PartialInv'
  <2>1. store' = store /\ writing' = writing /\ repo' = repo
    BY <1>21 DEF ExitTrapEnds, ReleaseLock, RemoveRunDir
  <2>2. WritingAtCopy'
    BY <1>21, <2>1, <1>b DEF ExitTrapEnds, ReleaseLock, RemoveRunDir, PartialInv, WritingAtCopy
  <2>3. QED
    BY <2>1, <2>2, <1>3
<1>22. ASSUME NEW r \in Runs, CommandFails(r) PROVE PartialInv'
  <2>1. store' = store /\ writing' = writing /\ repo' = repo
    BY <1>22 DEF CommandFails
  <2>2. WritingAtCopy'
    BY <1>22, <2>1, <1>b DEF CommandFails, PartialInv, WritingAtCopy
  <2>3. QED
    BY <2>1, <2>2, <1>3
<1>23. ASSUME NEW r \in Runs, Interrupt(r) PROVE PartialInv'
  <2>1. store' = store /\ writing' = writing /\ repo' = repo
    BY <1>23 DEF Interrupt
  <2>2. WritingAtCopy'
    BY <1>23, <2>1, <1>b DEF Interrupt, PartialInv, WritingAtCopy
  <2>3. QED
    BY <2>1, <2>2, <1>3
<1>24. ASSUME NEW r \in Runs, Kill(r) PROVE PartialInv'
  <2>1. store' = store /\ writing' = writing /\ repo' = repo
    BY <1>24 DEF Kill
  <2>2. WritingAtCopy'
    BY <1>24, <2>1, <1>b DEF Kill, PartialInv, WritingAtCopy
  <2>3. QED
    BY <2>1, <2>2, <1>3
<1>25. ASSUME NEW p \in Repos, RemoveOrphanLock(p) PROVE PartialInv'
  BY <1>25, <1>3 DEF RemoveOrphanLock, PartialInv, WritingAtCopy
<1>26. CASE UNCHANGED vars
  BY <1>26, <1>3 DEF vars, PartialInv, WritingAtCopy
<1>27. QED
  BY <1>1, <1>2, <1>4, <1>5, <1>6, <1>7, <1>8, <1>9, <1>10, <1>11, <1>12, <1>13,
     <1>14, <1>15, <1>16, <1>17, <1>18, <1>19, <1>20, <1>21, <1>22, <1>23, <1>24, <1>25, <1>26
     DEF Next, Step, Fault

(* PresentAtTest: with nested needs, whatever is interrupted, killed or      *)
(* fails, a test that starts finds every entry its manifest lists, and each  *)
(* one whole but for those another run is, or died, copying again.           *)
THEOREM PresentAtTestHolds == NestedNeeds => (Spec => []PresentAtTest)
<1> SUFFICES ASSUME NestedNeeds PROVE Spec => []PresentAtTest
  OBVIOUS
<1>1. TypeInv /\ PresentInv /\ PartialInv => PresentAtTest
  <2>1. SUFFICES ASSUME TypeInv, PresentInv, PartialInv, NEW r \in Runs, pc[r] = "test",
                        NEW p \in Repos, NEW f \in Need[r][p] \ Dangling
                 PROVE  \/ store[p][f] = "whole"
                        \/ /\ store[p][f] = "partial"
                           /\ \E s \in Runs \ {r} : repo[s] = p /\ writing[s] = f
    BY DEF PresentAtTest
  <2>2. f \in Files /\ store[p][f] \in {"absent", "partial", "whole"}
    BY <2>1, WantNat DEF TypeInv, TypeOK, EntryState
  <2>3. store[p][f] # "absent"
    BY <2>1 DEF PresentInv, LoopTrue, TestTrue, Present
  <2>4. writing[r] = None
    BY <2>1 DEF PartialInv, WritingAtCopy
  <2>5. CASE store[p][f] = "partial"
    <3>1. PICK s \in Runs : repo[s] = p /\ writing[s] = f
      BY <2>1, <2>2, <2>5 DEF PartialInv
    <3>2. s # r
      BY <2>2, <2>4, <3>1, NoneIsNoRepo
    <3>3. QED
      BY <2>5, <3>1, <3>2
  <2>6. QED
    BY <2>2, <2>3, <2>5
<1>2. TypeInv /\ PresentInv /\ [Next]_vars => PresentInv'
  BY NextPresentInv
<1>3. Init => PartialInv
  BY DEF Init, PartialInv, WritingAtCopy
<1>4. QED
  BY <1>1, <1>2, <1>3, InitTypeInv, InitPresentInv, NextTypeInv, NextPartialInv, PTL DEF Spec

=============================================================================
