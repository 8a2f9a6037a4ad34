------------------------- MODULE ChildProcessProofs -------------------------
(***************************************************************************)
(* Theorems about ChildProcess, for any number of objects, ids and pipes,  *)
(* on both platforms.                                                      *)
(***************************************************************************)
EXTENDS ChildProcess, TLAPS

(* ---------------------------------------------------------------------- *)
(* Statuses                                                                *)

LEMMA SmallMod ==
  ASSUME NEW n \in Nat, NEW m \in Nat \ {0}
  PROVE  n % m \in 0 .. (m - 1)
OBVIOUS

(* A word of error severity is recognised whatever its low bits are, and one  *)
(* below is not.                                                             *)
LEMMA SeverityOf ==
  ASSUME NEW w \in 0 .. (4 * Severity - 1)
  PROVE  w \div Severity = 3 <=> w >= ErrorBase
<1> DEFINE d == w \div Severity
           m == w % Severity
<1>1. Severity \in Nat \ {0}
  BY CodesAssumption
<1>2. d \in Int /\ m \in 0 .. (Severity - 1) /\ w = Severity * d + m
  BY <1>1
<1> HIDE DEF d, m
<1>3. d >= 0 /\ d <= 3
  BY <1>1, <1>2
<1>4. d = 0 \/ d = 1 \/ d = 2 \/ d = 3
  BY <1>2, <1>3
<1>5. d = 3 <=> w >= ErrorBase
  BY <1>1, <1>2, <1>4 DEF ErrorBase
<1>6. QED
  BY <1>5 DEF d

LEMMA CauseType ==
  ASSUME NEW c \in Causes
  PROVE  c.n \in Nat /\ c.kind \in {"exit", "fault", "kill"}
<1>1. ExitCodes \subseteq Nat /\ Faults \subseteq Nat
  BY CodesAssumption
<1>2. CASE c \in [kind : {"exit"}, n : ExitCodes]
  BY <1>1, <1>2
<1>3. CASE c \in [kind : {"fault"}, n : Faults]
  BY <1>1, <1>3
<1>4. CASE c \in [kind : {"kill"}, n : {KILL}]
  BY <1>4 DEF KILL
<1>5. QED
  BY <1>2, <1>3, <1>4 DEF Causes

LEMMA WordType ==
  ASSUME NEW p \in {"posix", "windows"}, NEW c \in Causes
  PROVE  Word(p, c) \in Nat
<1>1. c.n \in Nat /\ c.kind \in {"exit", "fault", "kill"}
  BY CauseType
<1>2. Severity \in Nat \ {0}
  BY CodesAssumption
<1>3. c.n % Severity \in Nat /\ 314 % Severity \in Nat /\ c.n % 256 \in Nat
  BY <1>1, <1>2
<1>4. QED
  BY <1>1, <1>2, <1>3 DEF Word, StatusControlCExit, ErrorBase

(* Reading the word back gives what ended the child.                          *)
LEMMA DecodeMeaning ==
  ASSUME NEW p \in {"posix", "windows"}, NEW c \in Causes
  PROVE  /\ Decode(p, Word(p, c)) = Meaning(p, c)
         /\ Decode(p, Word(p, c)) \in Statuses
<1>1. c.n \in Nat /\ c.kind \in {"exit", "fault", "kill"}
  BY CauseType
<1>2. CASE p = "posix"
  <2>1. CASE c.kind = "exit"
    <3> DEFINE k == c.n % 256
    <3>1. k \in 0 .. 255
      BY <1>1
    <3>2. Word(p, c) = 256 * k
      BY <1>2, <2>1 DEF Word
    <3> HIDE DEF k
    <3>3. (256 * k) % 128 = 0 /\ ((256 * k) \div 256) % 256 = k
      BY <3>1
    <3>4. Decode(p, Word(p, c)) = Exited(k)
      BY <1>2, <3>2, <3>3 DEF Decode, CheckStatus
    <3>5. Meaning(p, c) = Exited(k)
      BY <1>2, <2>1 DEF Meaning, k
    <3>6. QED
      BY <3>1, <3>4, <3>5 DEF Exited, Statuses, None
  <2>2. CASE c.kind = "fault"
    <3>1. c.n \in 1 .. 126
      BY <2>2, CodesAssumption DEF Causes
    <3>2. Word(p, c) = 128 + c.n
      BY <1>2, <2>2 DEF Word
    <3>3. (128 + c.n) % 128 = c.n /\ c.n # 0
      BY <3>1
    <3>4. Decode(p, Word(p, c)) = Signaled(c.n)
      BY <1>2, <3>2, <3>3 DEF Decode, CheckStatus
    <3>5. Meaning(p, c) = Signaled(c.n)
      BY <1>2, <2>2 DEF Meaning
    <3>6. QED
      BY <1>1, <3>4, <3>5 DEF Signaled, Statuses, None
  <2>3. CASE c.kind = "kill"
    <3>1. c.n = 9
      BY <2>3 DEF Causes, KILL
    <3>2. Word(p, c) = 9
      BY <1>2, <2>3, <3>1 DEF Word
    <3>3. Decode(p, Word(p, c)) = Signaled(9)
      BY <1>2, <3>2 DEF Decode, CheckStatus
    <3>4. Meaning(p, c) = Signaled(9)
      BY <1>2, <2>3, <3>1 DEF Meaning
    <3>5. QED
      BY <3>3, <3>4 DEF Signaled, Statuses, None
  <2>4. QED
    BY <1>1, <2>1, <2>2, <2>3
<1>3. CASE p = "windows"
  <2>1. Severity \in Nat \ {0}
    BY CodesAssumption
  <2>2. CASE c.kind = "exit"
    <3>1. c.n \in 0 .. (4 * Severity - 1)
      BY <2>2, CodesAssumption DEF Causes, KILL
    <3>2. Word(p, c) = c.n
      BY <1>3, <2>2 DEF Word
    <3>3. c.n \div Severity = 3 <=> ~(c.n < ErrorBase)
      BY <2>1, <3>1, SeverityOf DEF ErrorBase
    <3>4. QED
      BY <1>1, <1>3, <2>2, <3>2, <3>3 DEF Decode, WindowsStatus, Meaning, Exited, Signaled, Statuses, None
  <2>3. CASE c.kind # "exit"
    <3>1. \E m \in 0 .. (Severity - 1) : Word(p, c) = ErrorBase + m
      <4>1. c.n % Severity \in 0 .. (Severity - 1) /\ 314 % Severity \in 0 .. (Severity - 1)
        BY <1>1, <2>1, SmallMod
      <4>2. QED
        BY <1>1, <1>3, <2>3, <4>1 DEF Word, StatusControlCExit
    <3>2. Word(p, c) \in 0 .. (4 * Severity - 1) /\ Word(p, c) >= ErrorBase
      BY <2>1, <3>1 DEF ErrorBase
    <3>3. Word(p, c) \div Severity = 3
      BY <3>2, SeverityOf
    <3>4. QED
      BY <1>3, <2>3, <3>2, <3>3 DEF Decode, WindowsStatus, Meaning, Signaled, Statuses, None
  <2>4. QED
    BY <2>2, <2>3
<1>4. QED
  BY <1>2, <1>3

LEMMA StatusesExited == \A s \in Statuses : HasExited(s)
BY DEF Statuses, HasExited, None

LEMMA RunningHasNot == ~ HasExited(Running)
BY DEF Running, HasExited, None

(* ---------------------------------------------------------------------- *)
(* Types                                                                   *)

(* Where the object is says what its id is, and that nothing is cached while *)
(* it waits; a child that has exited left the word of what ended it.         *)
AtPlace ==
  \A o \in Objs :
    /\ pc[o] \in {"idle", "wait", "deinit"} => child[o] \in Ids
    /\ pc[o] = "none" => child[o] = Nobody
    /\ pc[o] \in {"none", "wait", "deinit"} => status[o] = {}
    /\ life[o] = "exited" => /\ cause[o] \in Causes
                             /\ word[o] = Word(platform, cause[o])

TypeInv == ChildTypeOK /\ AtPlace

(* What a wait finds is cached exactly when the child has exited.            *)
LEMMA CacheValue ==
  ASSUME TypeInv, NEW o \in Objs
  PROVE  /\ life[o] = "exited" => /\ Cache(o) = {Meaning(platform, cause[o])}
                                  /\ Meaning(platform, cause[o]) \in Statuses
         /\ life[o] # "exited" => Cache(o) = status[o]
<1>1. platform \in {"posix", "windows"}
  BY PlatformsAssumption DEF TypeInv, ChildTypeOK
<1>2. ASSUME life[o] = "exited"
      PROVE  /\ Cache(o) = {Meaning(platform, cause[o])}
             /\ Meaning(platform, cause[o]) \in Statuses
  <2>1. cause[o] \in Causes /\ word[o] = Word(platform, cause[o])
    BY <1>2 DEF TypeInv, AtPlace
  <2>2. Result(o) = Meaning(platform, cause[o]) /\ Result(o) \in Statuses
    BY <1>1, <1>2, <2>1, DecodeMeaning DEF Result
  <2>3. QED
    BY <2>2, StatusesExited DEF Cache
<1>3. ASSUME life[o] # "exited" PROVE Cache(o) = status[o]
  BY <1>3, RunningHasNot DEF Cache, Result
<1>4. QED
  BY <1>2, <1>3

LEMMA InitTypeInv == ChildInit => TypeInv
BY DEF ChildInit, TypeInv, ChildTypeOK, AtPlace, None

LEMMA NextTypeInv == TypeInv /\ [ChildNext]_childVars => TypeInv'
<1> SUFFICES ASSUME TypeInv, [ChildNext]_childVars PROVE TypeInv'
  OBVIOUS
<1> USE DEF TypeInv, ChildTypeOK, AtPlace, kernel, object, pipes
<1>1. ASSUME NEW o \in Objs, Run(o) PROVE TypeInv'
  <2>1. Inherited(platform) \in SUBSET (Pipes \X Ends)
    BY DEF Inherited
  <2>2. QED
    BY <1>1, <2>1 DEF Run
<1>2. ASSUME NEW o \in Objs, RunFails(o) PROVE TypeInv'
  BY <1>2 DEF RunFails
<1>3. ASSUME NEW o \in Objs, Poll(o) PROVE TypeInv'
  <2>1. /\ life[o] = "exited" => Cache(o) \in SUBSET Statuses
        /\ life[o] # "exited" => Cache(o) = status[o]
    BY CacheValue
  <2>2. Cache(o) \in SUBSET Statuses
    BY <2>1
  <2>3. QED
    BY <1>3, <2>2 DEF Poll, AfterWait
<1>4. ASSUME NEW o \in Objs, WaitStart(o) PROVE TypeInv'
  BY <1>4 DEF WaitStart
<1>5. ASSUME NEW o \in Objs, WaitReturns(o) PROVE TypeInv'
  <2>1. /\ life[o] = "exited" => Cache(o) \in SUBSET Statuses
        /\ life[o] # "exited" => Cache(o) = status[o]
    BY CacheValue
  <2>2. Cache(o) \in SUBSET Statuses
    BY <2>1
  <2>3. QED
    BY <1>5, <2>2 DEF WaitReturns, AfterWait
<1>6. ASSUME NEW o \in Objs, WaitFails(o) PROVE TypeInv'
  BY <1>6 DEF WaitFails
<1>7. ASSUME NEW o \in Objs, DeinitStart(o) PROVE TypeInv'
  BY <1>7 DEF DeinitStart
<1>8. ASSUME NEW o \in Objs, DeinitReturns(o) PROVE TypeInv'
  BY <1>8 DEF DeinitReturns, CloseHandle, AfterWait
<1>9. ASSUME NEW o \in Objs, DeinitCached(o) PROVE TypeInv'
  BY <1>9 DEF DeinitCached, CloseHandle, AfterWait
<1>10. ASSUME NEW o \in Objs, DeinitFails(o) PROVE TypeInv'
  BY <1>10 DEF DeinitFails
<1>11. ASSUME NEW o \in Objs, NEW sig \in Signals, Kill(o, sig) PROVE TypeInv'
  <2>1. owner[child[o]] \in Objs \union {Stranger, Nobody}
    BY <1>11 DEF Kill
  <2>2. QED
    BY <1>11, <2>1 DEF Kill, SendTo
<1>12. ASSUME NEW o \in Objs, NEW c \in Causes, ChildEnds(o, c) PROVE TypeInv'
  <2>1. platform \in {"posix", "windows"}
    BY PlatformsAssumption
  <2>2. Word(platform, c) \in Int
    BY <2>1, WordType
  <2>3. QED
    BY <1>12, <2>2 DEF ChildEnds
<1>13. ASSUME NEW q \in Pipes, PipeInit(q) PROVE TypeInv'
  BY <1>13 DEF PipeInit, FdPipeInherits
<1>14. ASSUME NEW q \in Pipes, PipeConfigure(q) PROVE TypeInv'
  BY <1>14 DEF PipeConfigure, SetInheritable, Ends
<1>15. ASSUME NEW q \in Pipes, PipeConfigureFails(q) PROVE TypeInv'
  BY <1>15 DEF PipeConfigureFails
<1>16. ASSUME NEW q \in Pipes, PipeDeinit(q) PROVE TypeInv'
  BY <1>16 DEF PipeDeinit
<1>17. ASSUME NEW q \in Pipes, NEW e \in Ends, PipeClose(q, e) PROVE TypeInv'
  BY <1>17 DEF PipeClose
<1>18. ASSUME NEW i \in Ids, StrangerTakes(i) PROVE TypeInv'
  BY <1>18 DEF StrangerTakes
<1>19. ASSUME NEW i \in Ids, StrangerLeaves(i) PROVE TypeInv'
  BY <1>19 DEF StrangerLeaves
<1>20. CASE UNCHANGED childVars
  BY <1>20 DEF childVars
<1>21. QED
  BY <1>1, <1>2, <1>3, <1>4, <1>5, <1>6, <1>7, <1>8, <1>9, <1>10, <1>11, <1>12,
     <1>13, <1>14, <1>15, <1>16, <1>17, <1>18, <1>19, <1>20 DEF ChildNext, ObjectStep, PipeStep

(* The model is type correct.                                                *)
THEOREM TypeCorrect == ChildSpec => []ChildTypeOK
<1>1. TypeInv => ChildTypeOK
  BY DEF TypeInv
<1>2. QED
  BY <1>1, InitTypeInv, NextTypeInv, PTL DEF ChildSpec

THEOREM TypeInvariant == ChildSpec => []TypeInv
BY InitTypeInv, NextTypeInv, PTL DEF ChildSpec

(* ---------------------------------------------------------------------- *)
(* Ids: IdsReleased is inductive under the type invariant.                  *)

LEMMA InitIds == ChildInit => IdsReleased
BY NamesAssumption, ZenonT(30) DEF ChildInit, IdsReleased, Owns

LEMMA NextIds == TypeInv /\ IdsReleased /\ [ChildNext]_childVars => IdsReleased'
<1> SUFFICES ASSUME TypeInv, IdsReleased, [ChildNext]_childVars PROVE IdsReleased'
  OBVIOUS
<1> USE NamesAssumption, PlatformsAssumption DEF TypeInv, ChildTypeOK, AtPlace, IdsReleased, Owns, kernel, object, pipes
<1>1. ASSUME NEW o \in Objs, Run(o) PROVE IdsReleased'
  BY <1>1 DEF Run
<1>2. ASSUME NEW o \in Objs, RunFails(o) PROVE IdsReleased'
  BY <1>2 DEF RunFails
<1>3. ASSUME NEW o \in Objs, Poll(o) PROVE IdsReleased'
  <2> DEFINE new == Cache(o)
  <2>1. life[o] = "exited" => new # {}
    <3>1. life[o] = "exited" => new = {Meaning(platform, cause[o])}
      BY CacheValue
    <3>2. QED
      BY <3>1, Zenon
  <2>2. life[o] # "exited" => new = status[o]
    BY CacheValue
  <2>3. status' = [status EXCEPT ![o] = new]
    BY <1>3 DEF Poll
  <2> HIDE DEF new
  <2>4. CASE life[o] = "exited" /\ platform = "posix"
    <3>1. owner' = [owner EXCEPT ![child[o]] = Nobody]
      BY <1>3, <2>4 DEF Poll, AfterWait
    <3>2. QED
      BY <1>3, <2>1, <2>3, <2>4, <3>1 DEF Poll
  <2>5. CASE ~(life[o] = "exited" /\ platform = "posix")
    <3>1. owner' = owner
      BY <1>3, <2>5 DEF Poll, AfterWait
    <3>2. QED
      BY <1>3, <2>1, <2>2, <2>3, <2>5, <3>1 DEF Poll
  <2>6. QED
    BY <2>4, <2>5
<1>4. ASSUME NEW o \in Objs, WaitStart(o) PROVE IdsReleased'
  BY <1>4 DEF WaitStart
<1>5. ASSUME NEW o \in Objs, WaitReturns(o) PROVE IdsReleased'
  <2> DEFINE new == Cache(o)
  <2>1. life[o] = "exited" => new # {}
    <3>1. life[o] = "exited" => new = {Meaning(platform, cause[o])}
      BY CacheValue
    <3>2. QED
      BY <3>1, Zenon
  <2>2. life[o] # "exited" => new = status[o]
    BY CacheValue
  <2>3. status' = [status EXCEPT ![o] = new]
    BY <1>5 DEF WaitReturns
  <2> HIDE DEF new
  <2>4. CASE life[o] = "exited" /\ platform = "posix"
    <3>1. owner' = [owner EXCEPT ![child[o]] = Nobody]
      BY <1>5, <2>4 DEF WaitReturns, AfterWait
    <3>2. QED
      BY <1>5, <2>1, <2>3, <2>4, <3>1 DEF WaitReturns
  <2>5. CASE ~(life[o] = "exited" /\ platform = "posix")
    <3>1. owner' = owner
      BY <1>5, <2>5 DEF WaitReturns, AfterWait
    <3>2. QED
      BY <1>5, <2>1, <2>2, <2>3, <2>5, <3>1 DEF WaitReturns
  <2>6. QED
    BY <2>4, <2>5
<1>6. ASSUME NEW o \in Objs, WaitFails(o) PROVE IdsReleased'
  BY <1>6 DEF WaitFails
<1>7. ASSUME NEW o \in Objs, DeinitStart(o) PROVE IdsReleased'
  BY <1>7 DEF DeinitStart
<1>8. ASSUME NEW o \in Objs, DeinitReturns(o) PROVE IdsReleased'
  BY <1>8 DEF DeinitReturns, CloseHandle, AfterWait
<1>9. ASSUME NEW o \in Objs, DeinitCached(o) PROVE IdsReleased'
  BY <1>9 DEF DeinitCached, CloseHandle, AfterWait
<1>10. ASSUME NEW o \in Objs, DeinitFails(o) PROVE IdsReleased'
  BY <1>10 DEF DeinitFails
<1>11. ASSUME NEW o \in Objs, NEW sig \in Signals, Kill(o, sig) PROVE IdsReleased'
  BY <1>11 DEF Kill, SendTo
<1>12. ASSUME NEW o \in Objs, NEW c \in Causes, ChildEnds(o, c) PROVE IdsReleased'
  BY <1>12 DEF ChildEnds
<1>13. ASSUME NEW q \in Pipes, PipeInit(q) PROVE IdsReleased'
  BY <1>13 DEF PipeInit
<1>14. ASSUME NEW q \in Pipes, PipeConfigure(q) PROVE IdsReleased'
  BY <1>14 DEF PipeConfigure
<1>15. ASSUME NEW q \in Pipes, PipeConfigureFails(q) PROVE IdsReleased'
  BY <1>15 DEF PipeConfigureFails
<1>16. ASSUME NEW q \in Pipes, PipeDeinit(q) PROVE IdsReleased'
  BY <1>16 DEF PipeDeinit
<1>17. ASSUME NEW q \in Pipes, NEW e \in Ends, PipeClose(q, e) PROVE IdsReleased'
  BY <1>17 DEF PipeClose
<1>18. ASSUME NEW i \in Ids, StrangerTakes(i) PROVE IdsReleased'
  BY <1>18 DEF StrangerTakes
<1>19. ASSUME NEW i \in Ids, StrangerLeaves(i) PROVE IdsReleased'
  BY <1>19 DEF StrangerLeaves
<1>20. CASE UNCHANGED childVars
  BY <1>20 DEF childVars
<1>21. QED
  BY <1>1, <1>2, <1>3, <1>4, <1>5, <1>6, <1>7, <1>8, <1>9, <1>10, <1>11, <1>12,
     <1>13, <1>14, <1>15, <1>16, <1>17, <1>18, <1>19, <1>20 DEF ChildNext, ObjectStep, PipeStep

(* The system's ids are given back: no zombie and no open handle is left by  *)
(* an object that is gone, and no id is given back while it is needed.       *)
THEOREM IdsReleasedHolds == ChildSpec => []IdsReleased
BY InitIds, NextIds, TypeInvariant, InitTypeInv, NextTypeInv, PTL DEF ChildSpec

(* ---------------------------------------------------------------------- *)
(* Signals                                                                  *)

LEMMA NextSignals ==
  TypeInv /\ IdsReleased /\ SignalsOnlyChildren /\ [ChildNext]_childVars => SignalsOnlyChildren'
<1> SUFFICES ASSUME TypeInv, IdsReleased, SignalsOnlyChildren, [ChildNext]_childVars
             PROVE  SignalsOnlyChildren'
  OBVIOUS
<1> USE DEF SignalsOnlyChildren, kernel, object, pipes
<1>1. ASSUME NEW o \in Objs, Run(o) PROVE SignalsOnlyChildren'
  BY <1>1 DEF Run
<1>2. ASSUME NEW o \in Objs, RunFails(o) PROVE SignalsOnlyChildren'
  BY <1>2 DEF RunFails
<1>3. ASSUME NEW o \in Objs, Poll(o) PROVE SignalsOnlyChildren'
  BY <1>3 DEF Poll
<1>4. ASSUME NEW o \in Objs, WaitStart(o) PROVE SignalsOnlyChildren'
  BY <1>4 DEF WaitStart
<1>5. ASSUME NEW o \in Objs, WaitReturns(o) PROVE SignalsOnlyChildren'
  BY <1>5 DEF WaitReturns
<1>6. ASSUME NEW o \in Objs, WaitFails(o) PROVE SignalsOnlyChildren'
  BY <1>6 DEF WaitFails
<1>7. ASSUME NEW o \in Objs, DeinitStart(o) PROVE SignalsOnlyChildren'
  BY <1>7 DEF DeinitStart
<1>8. ASSUME NEW o \in Objs, DeinitReturns(o) PROVE SignalsOnlyChildren'
  BY <1>8 DEF DeinitReturns
<1>9. ASSUME NEW o \in Objs, DeinitCached(o) PROVE SignalsOnlyChildren'
  BY <1>9 DEF DeinitCached
<1>10. ASSUME NEW o \in Objs, DeinitFails(o) PROVE SignalsOnlyChildren'
  BY <1>10 DEF DeinitFails
<1>11. ASSUME NEW o \in Objs, NEW sig \in Signals, Kill(o, sig) PROVE SignalsOnlyChildren'
  <2>1. child[o] \in Ids /\ platform \in {"posix", "windows"}
    BY <1>11, PlatformsAssumption DEF Kill, TypeInv, ChildTypeOK, AtPlace
  <2>2. status[o] = {}
    BY <1>11, StatusesExited DEF Kill, CachedExit, TypeInv, ChildTypeOK
  <2>3. owner[child[o]] = o
    BY <1>11, <2>1, <2>2 DEF Kill, IdsReleased, Owns
  <2>4. QED
    BY <1>11, <2>3 DEF Kill, SendTo
<1>12. ASSUME NEW o \in Objs, NEW c \in Causes, ChildEnds(o, c) PROVE SignalsOnlyChildren'
  BY <1>12 DEF ChildEnds
<1>13. ASSUME NEW q \in Pipes, PipeInit(q) PROVE SignalsOnlyChildren'
  BY <1>13 DEF PipeInit
<1>14. ASSUME NEW q \in Pipes, PipeConfigure(q) PROVE SignalsOnlyChildren'
  BY <1>14 DEF PipeConfigure
<1>15. ASSUME NEW q \in Pipes, PipeConfigureFails(q) PROVE SignalsOnlyChildren'
  BY <1>15 DEF PipeConfigureFails
<1>16. ASSUME NEW q \in Pipes, PipeDeinit(q) PROVE SignalsOnlyChildren'
  BY <1>16 DEF PipeDeinit
<1>17. ASSUME NEW q \in Pipes, NEW e \in Ends, PipeClose(q, e) PROVE SignalsOnlyChildren'
  BY <1>17 DEF PipeClose
<1>18. ASSUME NEW i \in Ids, StrangerTakes(i) PROVE SignalsOnlyChildren'
  BY <1>18 DEF StrangerTakes
<1>19. ASSUME NEW i \in Ids, StrangerLeaves(i) PROVE SignalsOnlyChildren'
  BY <1>19 DEF StrangerLeaves
<1>20. CASE UNCHANGED childVars
  BY <1>20 DEF childVars
<1>21. QED
  BY <1>1, <1>2, <1>3, <1>4, <1>5, <1>6, <1>7, <1>8, <1>9, <1>10, <1>11, <1>12,
     <1>13, <1>14, <1>15, <1>16, <1>17, <1>18, <1>19, <1>20 DEF ChildNext, ObjectStep, PipeStep

(* A signal never reaches anything but a child: the cached status tells _kill *)
(* that the id may have been given to something else, and no id is released  *)
(* before the status is cached.                                              *)
THEOREM SignalsOnlyChildrenHolds == ChildSpec => []SignalsOnlyChildren
<1>1. ChildInit => SignalsOnlyChildren
  BY DEF ChildInit, SignalsOnlyChildren
<1>2. QED
  BY <1>1, NextSignals, TypeInvariant, IdsReleasedHolds, PTL DEF ChildSpec

(* ---------------------------------------------------------------------- *)
(* Statuses                                                                 *)

LEMMA NextStatus == TypeInv /\ StatusTrue /\ [ChildNext]_childVars => StatusTrue'
<1> SUFFICES ASSUME TypeInv, StatusTrue, [ChildNext]_childVars PROVE StatusTrue'
  OBVIOUS
<1> USE DEF StatusTrue, kernel, object, pipes
<1>0. status \in [Objs -> SUBSET Statuses] /\ life \in [Objs -> {"unborn", "running", "exited"}]
  BY DEF TypeInv, ChildTypeOK
<1>1. ASSUME NEW o \in Objs, Run(o) PROVE StatusTrue'
  <2>1. status[o] = {}
    BY <1>1 DEF Run, TypeInv, AtPlace
  <2>2. QED
    BY <1>0, <1>1, <2>1 DEF Run
<1>2. ASSUME NEW o \in Objs, RunFails(o) PROVE StatusTrue'
  BY <1>2 DEF RunFails
<1>3. ASSUME NEW o \in Objs, Poll(o) PROVE StatusTrue'
  <2>1. /\ life[o] = "exited" => Cache(o) = {Meaning(platform, cause[o])}
        /\ life[o] # "exited" => Cache(o) = status[o]
    BY CacheValue
  <2>2. QED
    BY <1>0, <1>3, <2>1 DEF Poll
<1>4. ASSUME NEW o \in Objs, WaitStart(o) PROVE StatusTrue'
  BY <1>4 DEF WaitStart
<1>5. ASSUME NEW o \in Objs, WaitReturns(o) PROVE StatusTrue'
  <2>1. /\ life[o] = "exited" => Cache(o) = {Meaning(platform, cause[o])}
        /\ life[o] # "exited" => Cache(o) = status[o]
    BY CacheValue
  <2>2. QED
    BY <1>0, <1>5, <2>1 DEF WaitReturns
<1>6. ASSUME NEW o \in Objs, WaitFails(o) PROVE StatusTrue'
  BY <1>6 DEF WaitFails
<1>7. ASSUME NEW o \in Objs, DeinitStart(o) PROVE StatusTrue'
  BY <1>7 DEF DeinitStart
<1>8. ASSUME NEW o \in Objs, DeinitReturns(o) PROVE StatusTrue'
  BY <1>8 DEF DeinitReturns
<1>9. ASSUME NEW o \in Objs, DeinitCached(o) PROVE StatusTrue'
  BY <1>9 DEF DeinitCached
<1>10. ASSUME NEW o \in Objs, DeinitFails(o) PROVE StatusTrue'
  BY <1>10 DEF DeinitFails
<1>11. ASSUME NEW o \in Objs, NEW sig \in Signals, Kill(o, sig) PROVE StatusTrue'
  BY <1>11 DEF Kill, SendTo
<1>12. ASSUME NEW o \in Objs, NEW c \in Causes, ChildEnds(o, c) PROVE StatusTrue'
  <2>1. status[o] = {}
    BY <1>0, <1>12 DEF ChildEnds
  <2>2. cause \in [Objs -> Causes \union {Unset}]
    BY DEF TypeInv, ChildTypeOK
  <2>3. QED
    BY <1>0, <1>12, <2>1, <2>2 DEF ChildEnds
<1>13. ASSUME NEW q \in Pipes, PipeInit(q) PROVE StatusTrue'
  BY <1>13 DEF PipeInit
<1>14. ASSUME NEW q \in Pipes, PipeConfigure(q) PROVE StatusTrue'
  BY <1>14 DEF PipeConfigure
<1>15. ASSUME NEW q \in Pipes, PipeConfigureFails(q) PROVE StatusTrue'
  BY <1>15 DEF PipeConfigureFails
<1>16. ASSUME NEW q \in Pipes, PipeDeinit(q) PROVE StatusTrue'
  BY <1>16 DEF PipeDeinit
<1>17. ASSUME NEW q \in Pipes, NEW e \in Ends, PipeClose(q, e) PROVE StatusTrue'
  BY <1>17 DEF PipeClose
<1>18. ASSUME NEW i \in Ids, StrangerTakes(i) PROVE StatusTrue'
  BY <1>18 DEF StrangerTakes
<1>19. ASSUME NEW i \in Ids, StrangerLeaves(i) PROVE StatusTrue'
  BY <1>19 DEF StrangerLeaves
<1>20. CASE UNCHANGED childVars
  BY <1>20 DEF childVars
<1>21. QED
  BY <1>1, <1>2, <1>3, <1>4, <1>5, <1>6, <1>7, <1>8, <1>9, <1>10, <1>11, <1>12,
     <1>13, <1>14, <1>15, <1>16, <1>17, <1>18, <1>19, <1>20 DEF ChildNext, ObjectStep, PipeStep

(* What poll and wait cache is what ended the child, for every exit code,    *)
(* signal and exception, on either platform.                                 *)
THEOREM StatusTrueHolds == ChildSpec => []StatusTrue
<1>1. ChildInit => StatusTrue
  BY DEF ChildInit, StatusTrue
<1>2. QED
  BY <1>1, NextStatus, TypeInvariant, PTL DEF ChildSpec

(* ---------------------------------------------------------------------- *)
(* Pipes                                                                    *)

(* The flags of a pipe under construction are the ones asked for, as far as  *)
(* the constructor has come.                                                 *)
Flagged ==
  \A q \in Pipes :
    /\ pipe[q] = "none" => \A o \in Objs : \A e \in Ends : <<q, e>> \notin holds[o]
    /\ pipe[q] \in {"none", "open", "gone"} => inherit[q] \subseteq asked[q]
    /\ pipe[q] \in {"made", "half"} => ends[q] = Ends
    /\ pipe[q] = "half" => ("in" \in inherit[q] => "in" \in asked[q])

PipeInv == PipeReleased /\ Flagged /\ InheritsOnlyAsked

LEMMA InitPipes == ChildInit => PipeInv
BY DEF ChildInit, PipeInv, PipeReleased, Flagged, InheritsOnlyAsked

LEMMA NextPipes == ~Threaded /\ TypeInv /\ PipeInv /\ [ChildNext]_childVars => PipeInv'
<1> SUFFICES ASSUME ~Threaded, TypeInv, PipeInv, [ChildNext]_childVars PROVE PipeInv'
  OBVIOUS
<1> USE DEF PipeInv, PipeReleased, Flagged, InheritsOnlyAsked, kernel, object, pipes
<1>0. /\ pipe \in [Pipes -> {"none", "made", "half", "open", "gone"}]
      /\ ends \in [Pipes -> SUBSET Ends] /\ inherit \in [Pipes -> SUBSET Ends]
      /\ asked \in [Pipes -> SUBSET Ends] /\ holds \in [Objs -> SUBSET (Pipes \X Ends)]
  BY DEF TypeInv, ChildTypeOK
<1>1. ASSUME NEW o \in Objs, Run(o) PROVE PipeInv'
  <2>1. \A q \in Pipes : inherit[q] \subseteq asked[q]
    BY <1>0, <1>1 DEF Run
  <2>2. \A q \in Pipes : pipe[q] = "none" => inherit[q] = {}
    BY <1>0
  <2>3. \A q \in Pipes, e \in Ends : <<q, e>> \in Inherited(platform) => e \in inherit[q]
    BY DEF Inherited
  <2>4. QED
    BY <1>0, <1>1, <2>1, <2>2, <2>3 DEF Run
<1>2. ASSUME NEW o \in Objs, RunFails(o) PROVE PipeInv'
  BY <1>2 DEF RunFails
<1>3. ASSUME NEW o \in Objs, Poll(o) PROVE PipeInv'
  BY <1>3 DEF Poll
<1>4. ASSUME NEW o \in Objs, WaitStart(o) PROVE PipeInv'
  BY <1>4 DEF WaitStart
<1>5. ASSUME NEW o \in Objs, WaitReturns(o) PROVE PipeInv'
  BY <1>5 DEF WaitReturns
<1>6. ASSUME NEW o \in Objs, WaitFails(o) PROVE PipeInv'
  BY <1>6 DEF WaitFails
<1>7. ASSUME NEW o \in Objs, DeinitStart(o) PROVE PipeInv'
  BY <1>7 DEF DeinitStart
<1>8. ASSUME NEW o \in Objs, DeinitReturns(o) PROVE PipeInv'
  BY <1>8 DEF DeinitReturns
<1>9. ASSUME NEW o \in Objs, DeinitCached(o) PROVE PipeInv'
  BY <1>9 DEF DeinitCached
<1>10. ASSUME NEW o \in Objs, DeinitFails(o) PROVE PipeInv'
  BY <1>10 DEF DeinitFails
<1>11. ASSUME NEW o \in Objs, NEW sig \in Signals, Kill(o, sig) PROVE PipeInv'
  BY <1>11 DEF Kill, SendTo
<1>12. ASSUME NEW o \in Objs, NEW c \in Causes, ChildEnds(o, c) PROVE PipeInv'
  BY <1>0, <1>12 DEF ChildEnds
<1>13. ASSUME NEW q \in Pipes, PipeInit(q) PROVE PipeInv'
  BY <1>0, <1>13 DEF PipeInit, FdPipeInherits
<1>14. ASSUME NEW q \in Pipes, PipeConfigure(q) PROVE PipeInv'
  <2>1. CASE pipe[q] = "made"
    <3>1. /\ inherit' = [inherit EXCEPT ![q] = SetInheritable(q, "in")]
          /\ pipe' = [pipe EXCEPT ![q] = "half"]
          /\ UNCHANGED <<ends, asked, holds>>
      BY <1>14, <2>1 DEF PipeConfigure
    <3>2. SetInheritable(q, "in") \subseteq inherit[q] \union {"in"} /\ ends[q] = Ends
      BY <1>0, <2>1 DEF SetInheritable
    <3>3. "in" \in SetInheritable(q, "in") => "in" \in asked[q]
      BY DEF SetInheritable
    <3>4. QED
      BY <1>0, <2>1, <3>1, <3>2, <3>3 DEF Ends
  <2>2. CASE pipe[q] = "half"
    <3>1. /\ inherit' = [inherit EXCEPT ![q] = SetInheritable(q, "out")]
          /\ pipe' = [pipe EXCEPT ![q] = "open"]
          /\ UNCHANGED <<ends, asked, holds>>
      BY <1>14, <2>2 DEF PipeConfigure
    <3>2. SetInheritable(q, "out") \subseteq asked[q]
      BY <1>0, <2>2 DEF SetInheritable, Ends
    <3>3. SetInheritable(q, "out") \subseteq ends[q]
      BY <1>0, <2>2, <3>2 DEF SetInheritable
    <3>4. QED
      BY <1>0, <2>2, <3>1, <3>2, <3>3
  <2>3. QED
    BY <1>14, <2>1, <2>2 DEF PipeConfigure
<1>15. ASSUME NEW q \in Pipes, PipeConfigureFails(q) PROVE PipeInv'
  BY <1>0, <1>15 DEF PipeConfigureFails
<1>16. ASSUME NEW q \in Pipes, PipeDeinit(q) PROVE PipeInv'
  BY <1>0, <1>16 DEF PipeDeinit
<1>17. ASSUME NEW q \in Pipes, NEW e \in Ends, PipeClose(q, e) PROVE PipeInv'
  BY <1>0, <1>17 DEF PipeClose
<1>18. ASSUME NEW i \in Ids, StrangerTakes(i) PROVE PipeInv'
  BY <1>18 DEF StrangerTakes
<1>19. ASSUME NEW i \in Ids, StrangerLeaves(i) PROVE PipeInv'
  BY <1>19 DEF StrangerLeaves
<1>20. CASE UNCHANGED childVars
  BY <1>20 DEF childVars
<1>21. QED
  BY <1>1, <1>2, <1>3, <1>4, <1>5, <1>6, <1>7, <1>8, <1>9, <1>10, <1>11, <1>12,
     <1>13, <1>14, <1>15, <1>16, <1>17, <1>18, <1>19, <1>20 DEF ChildNext, ObjectStep, PipeStep

(* In a program where nothing spawns while a pipe is being made, a child gets *)
(* no end of a pipe but the ones asked for, and pipes leave no descriptor.    *)
THEOREM InheritsOnlyAskedHolds == ~Threaded => (ChildSpec => []InheritsOnlyAsked)
<1> SUFFICES ASSUME ~Threaded PROVE ChildSpec => []InheritsOnlyAsked
  OBVIOUS
<1>1. PipeInv => InheritsOnlyAsked
  BY DEF PipeInv
<1>2. TypeInv /\ PipeInv /\ [ChildNext]_childVars => PipeInv'
  BY NextPipes
<1>3. QED
  BY <1>1, <1>2, InitPipes, TypeInvariant, PTL DEF ChildSpec
(* ---------------------------------------------------------------------- *)
(* Descriptors of pipes, whatever threads spawn meanwhile                    *)

(* Both ends of a pipe under construction are open: the two calls that set   *)
(* the flags never give an end back to inherit that has been closed.         *)
EndsOpen ==
  /\ PipeReleased
  /\ \A q \in Pipes : pipe[q] \in {"made", "half"} => ends[q] = Ends

LEMMA NextEndsOpen == TypeInv /\ EndsOpen /\ [ChildNext]_childVars => EndsOpen'
<1> SUFFICES ASSUME TypeInv, EndsOpen, [ChildNext]_childVars PROVE EndsOpen'
  OBVIOUS
<1>0. /\ pipe \in [Pipes -> {"none", "made", "half", "open", "gone"}]
      /\ ends \in [Pipes -> SUBSET Ends] /\ inherit \in [Pipes -> SUBSET Ends]
      /\ asked \in [Pipes -> SUBSET Ends]
  BY DEF TypeInv, ChildTypeOK
<1>1. CASE UNCHANGED pipes
  BY <1>1 DEF EndsOpen, PipeReleased, pipes
<1>2. ASSUME NEW o \in Objs, ObjectStep(o) PROVE UNCHANGED pipes
  BY <1>2 DEF ObjectStep, Run, RunFails, Kill, SendTo, Poll, WaitStart, WaitReturns, WaitFails,
     DeinitStart, DeinitReturns, DeinitCached, DeinitFails
<1>3. ASSUME NEW o \in Objs, NEW c \in Causes, ChildEnds(o, c) PROVE UNCHANGED pipes
  BY <1>3 DEF ChildEnds
<1>4. ASSUME NEW i \in Ids, StrangerTakes(i) \/ StrangerLeaves(i) PROVE UNCHANGED pipes
  BY <1>4 DEF StrangerTakes, StrangerLeaves
<1>5. ASSUME NEW q \in Pipes, PipeInit(q) PROVE EndsOpen'
  <2>1. FdPipeInherits(platform) \subseteq Ends
    BY DEF FdPipeInherits
  <2>2. QED
    BY <1>0, <1>5, <2>1 DEF PipeInit, EndsOpen, PipeReleased
<1>6. ASSUME NEW q \in Pipes, PipeConfigure(q) PROVE EndsOpen'
  <2>1. ends[q] = Ends /\ ends' = ends
    BY <1>6 DEF PipeConfigure, EndsOpen
  <2>2. PICK e \in Ends : inherit' = [inherit EXCEPT ![q] = SetInheritable(q, e)]
    BY <1>6 DEF PipeConfigure, Ends
  <2>3. SetInheritable(q, e) \subseteq Ends
    BY <1>0 DEF SetInheritable
  <2>4. pipe' = [pipe EXCEPT ![q] = "half"] \/ pipe' = [pipe EXCEPT ![q] = "open"]
    BY <1>6 DEF PipeConfigure
  <2>5. QED
    BY <1>0, <2>1, <2>2, <2>3, <2>4 DEF EndsOpen, PipeReleased
<1>7. ASSUME NEW q \in Pipes, PipeConfigureFails(q) \/ PipeDeinit(q) PROVE EndsOpen'
  BY <1>0, <1>7 DEF PipeConfigureFails, PipeDeinit, EndsOpen, PipeReleased
<1>8. ASSUME NEW q \in Pipes, NEW e \in Ends, PipeClose(q, e) PROVE EndsOpen'
  BY <1>0, <1>8 DEF PipeClose, EndsOpen, PipeReleased
<1>9. CASE UNCHANGED childVars
  BY <1>1, <1>9 DEF childVars, pipes
<1>10. QED
  BY <1>1, <1>2, <1>3, <1>4, <1>5, <1>6, <1>7, <1>8, <1>9 DEF ChildNext, PipeStep

(* PipeReleased: Pipe leaves no descriptor open after it is gone, on any     *)
(* path of its constructor, and only open ends can be inherited; here        *)
(* threads may spawn at any moment.                                          *)
THEOREM PipeReleasedHolds == ChildSpec => []PipeReleased
<1>1. ChildInit => EndsOpen
  BY DEF ChildInit, EndsOpen, PipeReleased
<1>2. EndsOpen => PipeReleased
  BY DEF EndsOpen
<1>3. QED
  BY <1>1, <1>2, NextEndsOpen, TypeInvariant, PTL DEF ChildSpec
=============================================================================
