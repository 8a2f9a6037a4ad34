-------------------------- MODULE LockedFileProofs --------------------------
(***************************************************************************)
(* Theorems about LockedFile, for any number of processes, operations and  *)
(* retries.                                                                *)
(***************************************************************************)
EXTENDS LockedFile, TLAPS

(* A process that has not given up has retries left, and one in an operation  *)
(* has not reached the bound on operations.                                   *)
CountInv ==
  /\ \A p \in Procs : lockPc[p] \in {"try", "wait"} => retries[p] <= MaxRetries + 1
  /\ \A p \in Procs : lockPc[p] \notin {"idle", "dead"} => ops[p] < MaxOps
  /\ \A p \in Procs : lockPc[p] \in {"idle"} => retries[p] = 0

TypeInv == LockTypeOK /\ CountInv

LEMMA InitType == LockInit => TypeInv
BY BoundsAssumption DEF LockInit, TypeInv, LockTypeOK, CountInv

LEMMA NextType == TypeInv /\ [LockNext]_lockedVars => TypeInv'
<1> SUFFICES ASSUME TypeInv, [LockNext]_lockedVars PROVE TypeInv'
  OBVIOUS
<1> USE BoundsAssumption DEF TypeInv, LockTypeOK, CountInv, lockVars, fileVars, Goes, At
<1>1. ASSUME NEW p \in Procs, TryOwned(p) PROVE TypeInv'
  BY <1>1 DEF TryOwned, Takeable
<1>2. ASSUME NEW p \in Procs, TryBusy(p) PROVE TypeInv'
  BY <1>2 DEF TryBusy, Takeable
<1>3. ASSUME NEW p \in Procs, TryError(p) PROVE TypeInv'
  BY <1>3 DEF TryError
<1>4. ASSUME NEW p \in Procs, WaitSuccess(p) PROVE TypeInv'
  BY <1>4 DEF WaitSuccess
<1>5. ASSUME NEW p \in Procs, WaitOwnerDied(p) PROVE TypeInv'
  BY <1>5 DEF WaitOwnerDied
<1>6. ASSUME NEW p \in Procs, WaitTimeout(p) PROVE TypeInv'
  BY <1>6 DEF WaitTimeout
<1>7. ASSUME NEW p \in Procs, Read(p) PROVE TypeInv'
  BY <1>7 DEF Read
<1>8. ASSUME NEW p \in Procs, Write(p) PROVE TypeInv'
  <2>1. Piece(p, 1) \in Pieces /\ Piece(p, 2) \in Pieces
    BY DEF Piece, Pieces
  <2>2. content' \subseteq Pieces
    BY <1>8, <2>1 DEF Write
  <2>3. QED
    BY <1>8, <2>2 DEF Write
<1>9. ASSUME NEW p \in Procs, OperationFails(p) PROVE TypeInv'
  BY <1>9 DEF OperationFails
<1>10. ASSUME NEW p \in Procs, AppendOpen(p) PROVE TypeInv'
  BY <1>10 DEF AppendOpen
<1>11. ASSUME NEW p \in Procs, AppendFirst(p) PROVE TypeInv'
  <2>1. Piece(p, 1) \in Pieces
    BY DEF Piece, Pieces
  <2>2. content' \subseteq Pieces
    BY <1>11, <2>1 DEF AppendFirst
  <2>3. QED
    BY <1>11, <2>2 DEF AppendFirst
<1>12. ASSUME NEW p \in Procs, AppendRest(p) PROVE TypeInv'
  <2>1. Piece(p, 2) \in Pieces
    BY DEF Piece, Pieces
  <2>2. content' \subseteq Pieces
    BY <1>12, <2>1 DEF AppendRest
  <2>3. QED
    BY <1>12, <2>2 DEF AppendRest
<1>13. ASSUME NEW p \in Procs, LeaveLocked(p) PROVE TypeInv'
  <2>0. lockPc[p] = "out" /\ ops[p] \in 0 .. MaxOps
    BY <1>13 DEF LeaveLocked
  <2>a. ops[p] < MaxOps
    BY <2>0
  <2>1. ops[p] \in Nat /\ ops[p] < MaxOps
    BY <2>0, <2>a
  <2>2. ops[p] + 1 \in 0 .. MaxOps
    BY <2>1
  <2>3. ops' = [ops EXCEPT ![p] = ops[p] + 1] /\ lockPc' = [lockPc EXCEPT ![p] = "idle"] /\ retries' = [retries EXCEPT ![p] = 0]
    BY <1>13 DEF LeaveLocked, Returns, Forgets
  <2>4. ops' \in [Procs -> 0 .. MaxOps] /\ retries' \in [Procs -> 0 .. MaxRetries + 2]
    BY <2>2, <2>3
  <2>5. CountInv'
    BY <2>3
  <2>6. LockTypeOK'
    BY <1>13, <2>4 DEF LeaveLocked, Returns, Forgets
  <2>7. QED
    BY <2>5, <2>6
<1>14. ASSUME NEW p \in Procs, Crash(p) PROVE TypeInv'
  BY <1>14 DEF Crash, Forgets
<1>15. ASSUME NEW p \in Procs, NEW k \in Kinds[p], Call(p, k) PROVE TypeInv'
  BY <1>15 DEF Call
<1>16. CASE UNCHANGED lockedVars
  BY <1>16 DEF lockedVars
<1>17. QED
  BY <1>1, <1>2, <1>3, <1>4, <1>5, <1>6, <1>7, <1>8,
     <1>9, <1>10, <1>11, <1>12, <1>13, <1>14, <1>15, <1>16 DEF LockNext, LockStep

(* No counter, owner or piece leaves its range; in particular tryLock is       *)
(* asked at most kLockMaxRetriesOnError + 2 times.                             *)
THEOREM TypeCorrect == LockSpec => []LockTypeOK
<1>1. TypeInv => LockTypeOK
  BY DEF TypeInv
<1>2. QED
  BY <1>1, InitType, NextType, PTL DEF LockSpec

(* Who takes itself for the owner is alive, named by the lock file and in the  *)
(* operation; and a living process the lock file names knows it.               *)
OwnInv ==
  /\ \A p \in Procs : owned[p] =>
       lockFile = p /\ p \in alive /\ lockPc[p] \in {"in", "first", "rest", "out"}
  /\ lockFile \in alive => owned[lockFile]

LEMMA InitOwn == LockInit => OwnInv
BY BoundsAssumption DEF LockInit, OwnInv

LEMMA NextOwn == TypeInv /\ OwnInv /\ [LockNext]_lockedVars => OwnInv'
<1> SUFFICES ASSUME TypeInv, OwnInv, [LockNext]_lockedVars PROVE OwnInv'
  OBVIOUS
<1> USE BoundsAssumption DEF TypeInv, LockTypeOK, OwnInv, lockVars, Goes, At
<1>1. ASSUME NEW p \in Procs, TryOwned(p) PROVE OwnInv'
  BY <1>1 DEF TryOwned, Takeable
<1>2. ASSUME NEW p \in Procs, TryBusy(p) PROVE OwnInv'
  BY <1>2 DEF TryBusy, Takeable
<1>3. ASSUME NEW p \in Procs, TryError(p) PROVE OwnInv'
  BY <1>3 DEF TryError
<1>4. ASSUME NEW p \in Procs, WaitSuccess(p) PROVE OwnInv'
  BY <1>4 DEF WaitSuccess
<1>5. ASSUME NEW p \in Procs, WaitOwnerDied(p) PROVE OwnInv'
  BY <1>5 DEF WaitOwnerDied
<1>6. ASSUME NEW p \in Procs, WaitTimeout(p) PROVE OwnInv'
  BY <1>6 DEF WaitTimeout
<1>7. ASSUME NEW p \in Procs, Read(p) PROVE OwnInv'
  BY <1>7 DEF Read
<1>8. ASSUME NEW p \in Procs, Write(p) PROVE OwnInv'
  BY <1>8 DEF Write
<1>9. ASSUME NEW p \in Procs, OperationFails(p) PROVE OwnInv'
  BY <1>9 DEF OperationFails
<1>10. ASSUME NEW p \in Procs, AppendOpen(p) PROVE OwnInv'
  BY <1>10 DEF AppendOpen
<1>11. ASSUME NEW p \in Procs, AppendFirst(p) PROVE OwnInv'
  BY <1>11 DEF AppendFirst
<1>12. ASSUME NEW p \in Procs, AppendRest(p) PROVE OwnInv'
  BY <1>12 DEF AppendRest
<1>13. ASSUME NEW p \in Procs, LeaveLocked(p) PROVE OwnInv'
  BY <1>13 DEF LeaveLocked, Returns, Forgets
<1>14. ASSUME NEW p \in Procs, Crash(p) PROVE OwnInv'
  BY <1>14 DEF Crash, Forgets
<1>15. ASSUME NEW p \in Procs, NEW k \in Kinds[p], Call(p, k) PROVE OwnInv'
  BY <1>15 DEF Call
<1>16. CASE UNCHANGED lockedVars
  BY <1>16 DEF lockedVars
<1>17. QED
  BY <1>1, <1>2, <1>3, <1>4, <1>5, <1>6, <1>7, <1>8,
     <1>9, <1>10, <1>11, <1>12, <1>13, <1>14, <1>15, <1>16 DEF LockNext, LockStep

(* However often owners die, leave or are waited for, no two processes take    *)
(* themselves for the owner of the lock file.                                  *)
THEOREM OwnersApartHolds == LockSpec => []OwnersApart
<1>1. OwnInv => OwnersApart
  BY DEF OwnInv, OwnersApart
<1>2. QED
  BY <1>1, InitType, NextType, InitOwn, NextOwn, PTL DEF LockSpec

(* No way out of an operation, an error or a time-out included, leaves the     *)
(* lock file to a living process that has ended it.                            *)
THEOREM LockReturnedHolds == LockSpec => []LockReturned
<1>1. TypeInv /\ OwnInv => LockReturned
  BY BoundsAssumption DEF OwnInv, LockReturned, Inside, TypeInv, LockTypeOK
<1>2. QED
  BY <1>1, InitType, NextType, InitOwn, NextOwn, PTL DEF LockSpec
=============================================================================
