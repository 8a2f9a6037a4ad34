-------------------------- MODULE OverlaySyncProofs --------------------------
(***************************************************************************)
(* Theorems about OverlaySync, for any upstream history, any set of paths  *)
(* and hunks and any number of changes by people.                          *)
(***************************************************************************)
EXTENDS OverlaySync, TLAPS

Callers == {"person", "bump", "check"}

TypeInv ==
  /\ lock \in Commits /\ overlay \in FileTree /\ manifest \in Manifests
  /\ saved \in [lock : Commits, overlay : FileTree, manifest : Manifests]
  /\ cloned \in BOOLEAN /\ ready \in BOOLEAN /\ head \in FileTree /\ work \in FileTree
  /\ pc \in PCs /\ caller \in Callers /\ rows \in SUBSET Paths /\ target \in Commits
  /\ failed \in SUBSET Paths /\ bad \in BOOLEAN /\ done \in Dones /\ edits \in Nat

(* While a script runs nothing has been reported, each step belongs to the   *)
(* scripts that can be there, and the merge loop is over rows of MANIFEST.   *)
Running ==
  /\ pc # "idle" => done = "none"
  /\ pc = "idle" => caller = "person"
  /\ pc \in {"merge", "reset"} => caller = "bump"
  /\ pc = "verdict" => caller = "check"
  /\ pc \in {"refresh", "copy"} => caller # "check"
  /\ pc = "merge" => rows \subseteq Listed(manifest)

(* sync.sh.  Before the first checkout no file is in the tree that git does  *)
(* not know.  In the loop, the rows that are done are in the tree, the rest  *)
(* of it is the pin's.                                                       *)
NoStray == ~ready => \A p \in Paths : head[p] = Absent => work[p] = Absent

HalfApplied ==
  pc = "apply" =>
    /\ ready /\ head = Tree[lock]
    /\ rows \subseteq Listed(manifest) /\ Listed(manifest) # {}
    /\ \A p \in Paths : work[p] = IF p \in Listed(manifest) \ rows THEN Applied(p)
                                  ELSE Tree[lock][p]

SyncInv == NoStray /\ HalfApplied /\ SyncedTree

(* refresh.sh.  In the loop, overlay/ holds the changed files it has copied  *)
(* and nothing else.                                                         *)
HalfCopied ==
  pc = "copy" =>
    /\ rows \subseteq Changed /\ Changed # {}
    /\ \A p \in Paths : overlay[p] = IF p \in Changed \ rows THEN work[p] ELSE Absent

RefreshInv == HalfCopied /\ RefreshRoundTrip

(* check-overlay.sh.  bad still being FALSE means what has been looked at is *)
(* right.                                                                    *)
Applies(c, o, m) ==
  Listed(m) # {} => FilesAgree(o, m) /\ InLine(c, o, m) /\ Effective(c, o, m) # Tree[c]

NotBadYet ==
  caller = "check" /\ ~bad =>
    /\ pc \in {"sync", "apply"} => ~StaticallyBad
    /\ pc = "apply" => \A p \in Listed(manifest) \ rows : ~Drifts(lock, manifest, p)
    /\ pc = "verdict" => Applies(lock, overlay, manifest)

CheckInv ==
  /\ NotBadYet
  /\ done = "checked" => pc = "idle" /\ Applies(lock, overlay, manifest)
  /\ Applies(saved.lock, saved.overlay, saved.manifest)

(* bump-upstream.sh, when it began with an overlay in line with its pin.     *)
(* Rows to come are as they were then; a row that is done and has not failed *)
(* is the merge of its file.                                                 *)
Usable(o, m, p) == m[p].state # "delete" => o[p] # Absent /\ ~Marked(o[p])

MergesTo(p, c, f) == IsMerge(Tree[pre.lock][p], pre.tree[p], Tree[c][p], f)

HalfMerged ==
  pc = "merge" =>
    /\ pre.lock = lock
    /\ \A p \in Paths \ Listed(manifest) : pre.tree[p] = Tree[lock][p]
    /\ \A p \in Listed(manifest) : ~Drifts(lock, manifest, p)
    /\ \A p \in rows : pre.tree[p] = Applied(p) /\ Usable(overlay, manifest, p)
    /\ \A p \in Listed(manifest) \ rows :
         p \notin failed => MergesTo(p, target, Applied(p)) /\ Usable(overlay, manifest, p)

AllMerged ==
  pc \in {"reset", "sync", "apply"} =>
    /\ target = lock
    /\ \A p \in Paths : MergesTo(p, lock, Effective(lock, overlay, manifest)[p])
    /\ \A p \in Listed(manifest) : Usable(overlay, manifest, p)

InTheTree ==
  pc \in {"refresh", "copy"} =>
    /\ \A p \in Paths : MergesTo(p, lock, work[p]) /\ ~Marked(work[p])
    /\ pc = "refresh" => /\ work = Effective(lock, overlay, manifest)
                         /\ Changed # {} \/ Listed(manifest) = {}

BumpInv ==
  /\ pre = Absent \/ pre \in [lock : Commits, tree : FileTree]
  /\ caller = "bump" /\ pre # Absent => HalfMerged /\ AllMerged /\ InTheTree
  /\ BumpIsMerge

(* Files without a row beside a MANIFEST that lists nothing come from one    *)
(* place: a refresh.sh between its rm -rf and its last command.              *)
Lone(o, m) == Listed(m) = {} /\ \E p \in Paths : o[p] # Absent

LoneInv ==
  /\ Lone(overlay, manifest) => cut \/ pc = "copy"
  /\ Lone(saved.overlay, saved.manifest) => cut

IInv == TypeInv /\ Running /\ SyncInv /\ RefreshInv /\ CheckInv /\ BumpInv /\ LoneInv
-----------------------------------------------------------------------------
(* What the tree operators return.                                           *)
LEMMA TreeFacts ==
  /\ Empty \in FileTree /\ Empty \in Manifests
  /\ \A c \in Commits : Tree[c] \in FileTree
  /\ Last \in Commits /\ 0 \in Commits
  /\ \A c \in Commits, o \in FileTree, m \in Manifests : Effective(c, o, m) \in FileTree
<1>1. Empty \in FileTree /\ Empty \in Manifests
  BY DEF Empty, FileTree, File, Manifests
<1>2. \A c \in Commits : Tree[c] \in FileTree
  BY TreeType DEF FileTree
<1>3. Last \in Commits /\ 0 \in Commits
  BY LastType DEF Commits
<1>4. ASSUME NEW c \in Commits, NEW o \in FileTree, NEW m \in Manifests
      PROVE  Effective(c, o, m) \in FileTree
  BY <1>2 DEF Effective, FileTree, File
<1>5. QED
  BY <1>1, <1>2, <1>3, <1>4

(* git merge-file of three texts is a text.                                  *)
LEMMA MergeType ==
  ASSUME NEW b \in Text, NEW o \in Text, NEW t \in Text
  PROVE  MergeFile(b, o, t) \in Text
<1>1. \A h \in Hunks : MergeHunk(b[h], o[h], t[h]) \in Lines
  BY LinesType DEF MergeHunk, Text
<1>2. QED
  BY <1>1 DEF MergeFile, Text

(* The rows refresh.sh writes are rows.                                      *)
LEMMA RowType ==
  ASSUME TypeInv
  PROVE  NewManifest \in Manifests /\ \A p \in Changed : RowOf(p) # Absent
<1>1. ASSUME NEW p \in Changed PROVE RowOf(p) \in Row
  <2>1. work[p] \in File /\ Tree[lock][p] \in File /\ work[p] # Tree[lock][p]
    BY TreeFacts DEF TypeInv, FileTree, Changed
  <2>2. CASE work[p] = Absent
    BY <2>1, <2>2 DEF RowOf, Row, File
  <2>3. CASE work[p] # Absent
    BY <2>1, <2>3 DEF RowOf, Row, File
  <2>4. QED
    BY <2>2, <2>3
<1>2. QED
  BY <1>1, AbsentType DEF NewManifest, Manifests

LEMMA InitTypeInv == Init => TypeInv
<1> SUFFICES ASSUME Init PROVE TypeInv
  OBVIOUS
<1>1. QED
  BY TreeFacts DEF Init, TypeInv, PCs, Callers, Dones

(* The control variables of a script that ends, or of a sync.sh that does.   *)
LEMMA EndsType ==
  ASSUME TypeInv, NEW w \in Dones, Ends(w)
  PROVE  /\ pc' \in PCs /\ caller' \in Callers /\ rows' \in SUBSET Paths /\ target' \in Commits
         /\ failed' \in SUBSET Paths /\ bad' \in BOOLEAN /\ done' \in Dones
BY TreeFacts DEF TypeInv, Ends, PCs, Callers

LEMMA SyncEndType ==
  ASSUME TypeInv, SyncDies \/ SyncReturns
  PROVE  /\ pc' \in PCs /\ caller' \in Callers /\ rows' \in SUBSET Paths /\ target' \in Commits
         /\ failed' \in SUBSET Paths /\ bad' \in BOOLEAN /\ done' \in Dones
<1>1. CASE Ends("failed") \/ Ends("sync")
  BY <1>1, EndsType DEF Dones
<1>2. CASE ~(Ends("failed") \/ Ends("sync"))
  BY <1>2 DEF SyncDies, SyncReturns, Goes, TypeInv, PCs, Callers
<1>3. QED
  BY <1>1, <1>2

(* The cases of sync.sh's end, by who started it.                            *)
LEMMA SyncEndCases ==
  ASSUME TypeInv
  PROVE  /\ SyncReturns => \/ caller = "person" /\ Ends("sync")
                           \/ caller = "bump" /\ Goes("refresh") /\ rows' = {} /\ bad' = FALSE
                           \/ caller = "check" /\ Goes("verdict") /\ rows' = {} /\ bad' = bad
         /\ SyncDies => \/ caller # "check" /\ Ends("failed")
                        \/ caller = "check" /\ Goes("verdict") /\ rows' = {} /\ bad' = TRUE
<1>1. caller \in {"person", "bump", "check"}
  BY DEF TypeInv, Callers
<1>2. CASE caller = "person"
  BY <1>2 DEF SyncReturns, SyncDies
<1>3. CASE caller = "bump"
  BY <1>3 DEF SyncReturns, SyncDies
<1>4. CASE caller = "check"
  BY <1>4 DEF SyncReturns, SyncDies
<1>5. QED
  BY <1>1, <1>2, <1>3, <1>4

(* One row of the merge loop leaves a tree of files.                         *)
LEMMA MergeKeepsType ==
  ASSUME TypeInv, NEW p \in Paths, BumpMerge(p), rows \subseteq Listed(manifest)
  PROVE  overlay' \in FileTree /\ failed' \in SUBSET Paths
<1> DEFINE lost == Lost(p) \/ (~Untouched(p) /\ overlay[p] = Absent)
<1>1. CASE lost \/ Untouched(p)
  BY <1>1 DEF BumpMerge, TypeInv
<1>2. CASE ~lost /\ ~Untouched(p)
  <2>1. manifest[p] \in Row /\ overlay[p] \in File /\ Tree[target][p] \in File
    BY TreeFacts DEF BumpMerge, TypeInv, Listed, Manifests, FileTree
  <2>2. manifest[p].state = "edit" /\ manifest[p].blob \in Text
    BY <1>2, <2>1 DEF Untouched, Row
  <2>3. overlay[p] \in Text /\ Tree[target][p] \in Text
    BY <1>2, <2>1, <2>2 DEF Lost, File
  <2>4. Merged(p) \in Text
    BY <2>2, <2>3, MergeType DEF Merged
  <2>5. overlay' = [overlay EXCEPT ![p] = Merged(p)] /\ failed' \in {failed, failed \cup {p}}
    BY <1>2 DEF BumpMerge
  <2>6. QED
    BY <2>4, <2>5 DEF TypeInv, FileTree, File
<1>3. QED
  BY <1>1, <1>2

(* Every step keeps the types and the place of the running script.           *)
LEMMA NextTypeInv == TypeInv /\ Running /\ [Next]_vars => TypeInv' /\ Running'
<1> SUFFICES ASSUME TypeInv, Running, [Next]_vars PROVE TypeInv' /\ Running'
  OBVIOUS
<1> USE TreeFacts DEF repoVars, treeVars, ctlVars, ghosts
<1> DEFINE Good == TypeInv' /\ Running'
<1>e. ASSUME NEW w \in Dones, Ends(w), UNCHANGED <<saved, edits>>, lock' \in Commits,
             overlay' \in FileTree, manifest' \in Manifests, cloned' \in BOOLEAN,
             ready' \in BOOLEAN, head' \in FileTree, work' \in FileTree
      PROVE  Good
  BY <1>e, EndsType DEF TypeInv, Running, Ends
<1>s. ASSUME SyncDies \/ SyncReturns, UNCHANGED <<repoVars, saved, edits>>, pc \in {"sync", "apply"},
             cloned' \in BOOLEAN, ready' \in BOOLEAN, head' \in FileTree, work' \in FileTree
      PROVE  Good
  <2>1. TypeInv'
    BY <1>s, SyncEndType DEF TypeInv
  <2>2. Running'
    BY <1>s, SyncEndCases DEF Running, Ends, Goes
  <2>3. QED
    BY <2>1, <2>2
<1>1. CASE SyncRefuses
  BY <1>1, <1>s DEF SyncRefuses, TypeInv
<1>2. CASE SyncCheckout
  <2>1. Tree[lock] \in FileTree
    BY DEF TypeInv
  <2>2. head' \in FileTree /\ work' \in FileTree
    BY <1>2, <2>1 DEF SyncCheckout, Reset, TypeInv, FileTree
  <2>3. CASE Listed(manifest) = {}
    BY <1>2, <1>s, <2>2, <2>3 DEF SyncCheckout, TypeInv
  <2>4. CASE Listed(manifest) # {}
    BY <1>2, <2>2, <2>4 DEF SyncCheckout, TypeInv, Goes, PCs, Listed, Running
  <2>5. QED
    BY <2>3, <2>4
<1>3. CASE SyncCommit
  <2>1. head' \in FileTree
    BY <1>3 DEF SyncCommit, TypeInv
  <2>2. SyncDies \/ SyncReturns
    BY <1>3 DEF SyncCommit
  <2>3. QED
    BY <1>3, <1>s, <2>1, <2>2 DEF SyncCommit, TypeInv
<1>4. ASSUME NEW p \in Paths, SyncApply(p) PROVE Good
  <2>1. Applied(p) \in File
    BY <1>4 DEF Applied, TypeInv, FileTree, File
  <2>2. work' \in FileTree
    BY <1>4, <2>1 DEF SyncApply, TypeInv, FileTree
  <2>3. TypeInv'
    BY <1>4, <2>2 DEF SyncApply, TypeInv
  <2>4. Running'
    BY <1>4 DEF SyncApply, Running
  <2>5. QED
    BY <2>3, <2>4
<1>5. ASSUME NEW p \in Paths, SyncMisses(p) PROVE Good
  BY <1>5, <1>s DEF SyncMisses, TypeInv
<1>6. CASE RefreshNothing
  BY <1>6, <1>e DEF RefreshNothing, TypeInv, Dones
<1>7. CASE RefreshWipe
  BY <1>7 DEF RefreshWipe, TypeInv, Running, Changed, PCs
<1>8. CASE RefreshWrite
  BY <1>8, <1>e, RowType DEF RefreshWrite, RefreshReturns, TypeInv, Dones
<1>9. ASSUME NEW p \in Paths, RefreshCopy(p) PROVE Good
  BY <1>9 DEF RefreshCopy, TypeInv, Running, FileTree
<1>10. ASSUME NEW p \in Paths, BumpMerge(p) PROVE Good
  <2>1. overlay' \in FileTree /\ failed' \in SUBSET Paths
    BY <1>10, MergeKeepsType DEF BumpMerge, Running
  <2>2. TypeInv'
    BY <1>10, <2>1 DEF BumpMerge, TypeInv
  <2>3. Running'
    BY <1>10 DEF BumpMerge, Running
  <2>4. QED
    BY <2>2, <2>3
<1>11. CASE BumpFails
  BY <1>11, <1>e DEF BumpFails, TypeInv, Dones
<1>12. CASE BumpLock
  BY <1>12 DEF BumpLock, TypeInv, Running, PCs
<1>13. CASE BumpReset
  BY <1>13 DEF BumpReset, TypeInv, Running, PCs
<1>14. CASE CheckVerdict
  BY <1>14, <1>e DEF CheckVerdict, TypeInv, Dones
<1>c. ASSUME Clone PROVE cloned' \in BOOLEAN /\ head' \in FileTree /\ work' \in FileTree
  BY <1>c DEF Clone, TypeInv
<1>15. CASE SyncStart
  BY <1>15, <1>c DEF SyncStart, TypeInv, Running, PCs, Callers, Dones
<1>16. CASE RefreshStart
  BY <1>16 DEF RefreshStart, TypeInv, Running, PCs, Callers, Dones
<1>17. CASE CheckStart
  BY <1>17, <1>c DEF CheckStart, StaticallyBad, TypeInv, Running, PCs, Callers, Dones
<1>18. ASSUME NEW c \in Commits, BumpStart(c) PROVE Good
  <2>1. CASE c \notin Pinnable \/ c = lock
    <3>1. Ends("failed") \/ Ends("pinned")
      BY <1>18, <2>1 DEF BumpStart
    <3>2. QED
      BY <1>18, <1>c, <1>e, <3>1 DEF BumpStart, TypeInv, Dones
  <2>2. CASE c \in Pinnable /\ c # lock
    BY <1>18, <1>c, <2>2 DEF BumpStart, TypeInv, Running, PCs, Callers, Dones, Listed
  <2>3. QED
    BY <2>1, <2>2
<1>d. ASSUME NEW p \in Paths, NEW f \in File, Edit(p, f) PROVE Good
  BY <1>d DEF Edit, TypeInv, Running, Dones, FileTree
<1>19. ASSUME NEW p \in Paths, EditFile(p) PROVE Good
  <2>1. PICK h \in Hunks : work[p] # Absent /\ Edit(p, [work[p] EXCEPT ![h] = Ours])
    BY <1>19 DEF EditFile
  <2>2. [work[p] EXCEPT ![h] = Ours] \in File
    BY <2>1, LinesType DEF TypeInv, FileTree, File, Text
  <2>3. QED
    BY <1>d, <2>1, <2>2
<1>20. ASSUME NEW p \in Paths, CreateFile(p) PROVE Good
  <2>1. [h \in Hunks |-> Ours] \in File
    BY LinesType DEF File, Text
  <2>2. QED
    BY <1>20, <1>d, <2>1 DEF CreateFile
<1>21. ASSUME NEW p \in Paths, DeleteFile(p) \/ RevertFile(p) PROVE Good
  <2>1. Absent \in File /\ Tree[lock][p] \in File
    BY DEF File, TypeInv, FileTree
  <2>2. QED
    BY <1>21, <1>d, <2>1 DEF DeleteFile, RevertFile
<1>22. ASSUME NEW p \in Paths, ResolveConflict(p) PROVE Good
  <2>1. Tree[target][p] \in File /\ overlay[p] \in Text
    BY <1>22 DEF ResolveConflict, Marked, TypeInv, FileTree, File
  <2>2. PICK l \in {Ours} \cup {Tree[target][p][h] : h \in {h \in Hunks : Tree[target][p] # Absent}} :
          overlay' = [overlay EXCEPT ![p] = [h \in Hunks |-> IF @[h] = Marker THEN l ELSE @[h]]]
    BY <1>22 DEF ResolveConflict
  <2>3. l \in Lines
    BY <2>1, LinesType DEF File, Text
  <2>4. overlay' \in FileTree
    BY <2>1, <2>2, <2>3 DEF TypeInv, FileTree, File, Text
  <2>5. QED
    BY <1>22, <2>4 DEF ResolveConflict, TypeInv, Running, Dones
<1>23. ASSUME NEW p \in Paths, DropFile(p) PROVE Good
  BY <1>23 DEF DropFile, TypeInv, Running, Dones, FileTree, File
<1>24. CASE CommitCheckout
  <2>1. TypeInv'
    <3>1. cloned' \in BOOLEAN /\ ready' \in BOOLEAN /\ bad' \in BOOLEAN
      BY <1>24, Zenon DEF CommitCheckout, TypeInv
    <3>2. edits' \in Nat
      BY <1>24 DEF CommitCheckout, TypeInv
    <3>3. done' \in Dones
      BY <1>24 DEF CommitCheckout, Dones
    <3>4. head' \in FileTree /\ work' \in FileTree
      BY <1>24 DEF CommitCheckout, TypeInv
    <3>5. UNCHANGED <<repoVars, saved, pc, caller, rows, target, failed>>
      BY <1>24 DEF CommitCheckout
    <3>6. QED
      BY <3>1, <3>2, <3>3, <3>4, <3>5 DEF TypeInv
  <2>2. Running'
    BY <1>24 DEF CommitCheckout, Running
  <2>3. QED
    BY <2>1, <2>2
<1>25. CASE RestoreOverlay
  BY <1>25 DEF RestoreOverlay, TypeInv, Running, Dones
<1>26. CASE DeleteCheckout
  BY <1>26 DEF DeleteCheckout, TypeInv, Running, Dones
<1>27. CASE Publish
  BY <1>27 DEF Publish, TypeInv, Running, Dones
<1>28. CASE Crash
  BY <1>28, <1>e DEF Crash, TypeInv, Dones
<1>29. CASE UNCHANGED vars
  BY <1>29 DEF vars, TypeInv, Running, Listed
<1>30. QED
  BY <1>1, <1>2, <1>3, <1>4, <1>5, <1>6, <1>7, <1>8, <1>9, <1>10, <1>11, <1>12, <1>13, <1>14,
     <1>15, <1>16, <1>17, <1>18, <1>19, <1>20, <1>21, <1>22, <1>23, <1>24, <1>25, <1>26,
     <1>27, <1>28, <1>29 DEF Next, Script, Start, Person
-----------------------------------------------------------------------------
LEMMA InitSyncInv == Init => SyncInv
BY DEF Init, SyncInv, NoStray, HalfApplied, SyncedTree, Empty

(* The checkout step leaves the pin's tree: what git does not know and would *)
(* keep is not there, as READY is missing or the tree is clean.              *)
LEMMA ResetIsPin ==
  ASSUME TypeInv, NoStray, ~(ready /\ Dirty), Reset(lock)
  PROVE  head' = Tree[lock] /\ work' = Tree[lock]
<1>1. Tree[lock] \in FileTree
  BY TreeFacts DEF TypeInv
<1>2. ASSUME NEW p \in Paths, head[p] = Absent PROVE work[p] = Absent
  BY <1>2 DEF NoStray, Dirty, TypeInv
<1>3. \A p \in Paths : work'[p] = Tree[lock][p]
  BY <1>2 DEF Reset
<1>4. QED
  BY <1>1, <1>3 DEF Reset, FileTree

(* The overlay laid over the pin, row by row, is the effective tree.         *)
LEMMA AppliedIsEffective ==
  ASSUME TypeInv,
         \A p \in Paths : work[p] = IF p \in Listed(manifest) THEN Applied(p) ELSE Tree[lock][p]
  PROVE  work = Effective(lock, overlay, manifest)
<1>1. Effective(lock, overlay, manifest) \in FileTree /\ work \in FileTree
  BY TreeFacts DEF TypeInv
<1>2. \A p \in Paths : work[p] = Effective(lock, overlay, manifest)[p]
  BY DEF Effective, Applied, Listed
<1>3. QED
  BY <1>1, <1>2 DEF FileTree

(* An overlay without rows stands for the pin itself.                        *)
LEMMA EmptyIsPin ==
  ASSUME TypeInv, Listed(manifest) = {}
  PROVE  Effective(lock, overlay, manifest) = Tree[lock]
<1>1. Effective(lock, overlay, manifest) \in FileTree /\ Tree[lock] \in FileTree
  BY TreeFacts DEF TypeInv
<1>2. \A p \in Paths : Effective(lock, overlay, manifest)[p] = Tree[lock][p]
  BY DEF Effective, Listed
<1>3. QED
  BY <1>1, <1>2 DEF FileTree

LEMMA NextSyncInv == TypeInv /\ Running /\ SyncInv /\ [Next]_vars => SyncInv'
<1> SUFFICES ASSUME TypeInv, Running, SyncInv, [Next]_vars PROVE SyncInv'
  OBVIOUS
<1> USE DEF repoVars, treeVars, ctlVars, ghosts
<1>q. ASSUME NoStray', pc' # "apply", done' # "sync" PROVE SyncInv'
  BY <1>q DEF SyncInv, HalfApplied, SyncedTree
<1>e. ASSUME NEW w \in Dones \ {"sync"}, Ends(w), UNCHANGED <<ready, head, work>> PROVE SyncInv'
  BY <1>e, <1>q DEF Ends, SyncInv, NoStray
<1>f. ASSUME SyncDies, UNCHANGED <<ready, work>>, head' = head \/ head' = work,
             pc \in {"sync", "apply"}
      PROVE  SyncInv'
  <2>1. pc' # "apply" /\ done' # "sync"
    BY <1>f, SyncEndCases DEF Ends, Goes, Running
  <2>2. QED
    BY <1>f, <1>q, <2>1 DEF SyncInv, NoStray
<1>1. CASE SyncRefuses
  BY <1>1, <1>f DEF SyncRefuses
<1>2. CASE SyncCheckout
  <2>1. head' = Tree[lock] /\ work' = Tree[lock] /\ ready' = TRUE
    BY <1>2, ResetIsPin DEF SyncCheckout, SyncInv
  <2>2. lock' = lock /\ overlay' = overlay /\ manifest' = manifest
    BY <1>2 DEF SyncCheckout
  <2>3. CASE Listed(manifest) = {}
    <3>1. pc' # "apply"
      BY <1>2, <2>3, SyncEndCases DEF SyncCheckout, Ends, Goes
    <3>2. SyncedTree'
      BY <2>1, <2>2, <2>3, EmptyIsPin DEF SyncedTree
    <3>3. QED
      BY <2>1, <3>1, <3>2 DEF SyncInv, NoStray, HalfApplied
  <2>4. CASE Listed(manifest) # {}
    <3>1. rows' = Listed(manifest) /\ done' = "none"
      BY <1>2, <2>4 DEF SyncCheckout, Goes, Running
    <3>2. HalfApplied'
      BY <2>1, <2>2, <2>4, <3>1 DEF HalfApplied
    <3>3. QED
      BY <2>1, <3>1, <3>2 DEF SyncInv, NoStray, SyncedTree
  <2>5. QED
    BY <2>3, <2>4
<1>3. CASE SyncCommit
  <2>1. CASE ~Dirty
    BY <1>3, <1>f, <2>1 DEF SyncCommit
  <2>2. CASE Dirty
    <3>1. head' = work /\ work' = work /\ lock' = lock /\ overlay' = overlay /\ manifest' = manifest
      BY <1>3, <2>2 DEF SyncCommit
    <3>2. work = Effective(lock, overlay, manifest)
      BY <1>3, AppliedIsEffective DEF SyncCommit, SyncInv, HalfApplied
    <3>3. pc' # "apply"
      BY <1>3, <2>2, SyncEndCases DEF SyncCommit, Ends, Goes
    <3>4. QED
      BY <3>1, <3>2, <3>3 DEF SyncInv, NoStray, HalfApplied, SyncedTree
  <2>3. QED
    BY <2>1, <2>2
<1>4. ASSUME NEW p \in Paths, SyncApply(p) PROVE SyncInv'
  <2>1. ready' = ready /\ ready /\ done' = "none"
    BY <1>4 DEF SyncApply, SyncInv, HalfApplied, Running
  <2>2. HalfApplied'
    <3>1. p \in Listed(manifest) /\ rows' = rows \ {p} /\ work' = [work EXCEPT ![p] = Applied(p)]
      BY <1>4 DEF SyncApply, SyncInv, HalfApplied
    <3>2. lock' = lock /\ overlay' = overlay /\ manifest' = manifest /\ head' = head
      BY <1>4 DEF SyncApply
    <3>3. \A q \in Paths : Applied(q)' = Applied(q)
      BY <3>2 DEF Applied
    <3>4. ASSUME NEW q \in Paths
          PROVE  work'[q] = IF q \in Listed(manifest) \ rows' THEN Applied(q) ELSE Tree[lock][q]
      BY <1>4, <3>1 DEF SyncApply, SyncInv, HalfApplied, TypeInv, FileTree
    <3>5. ready /\ head = Tree[lock] /\ rows \subseteq Listed(manifest) /\ Listed(manifest) # {}
      BY <1>4 DEF SyncApply, SyncInv, HalfApplied
    <3>6. QED
      BY <2>1, <3>1, <3>2, <3>3, <3>4, <3>5 DEF HalfApplied
  <2>3. QED
    BY <2>1, <2>2 DEF SyncInv, NoStray, SyncedTree
<1>5. ASSUME NEW p \in Paths, SyncMisses(p) PROVE SyncInv'
  BY <1>5, <1>f DEF SyncMisses
<1>6. CASE RefreshNothing
  BY <1>6, <1>e DEF RefreshNothing, Dones
<1>7. CASE RefreshWipe
  BY <1>7, <1>q DEF RefreshWipe, SyncInv, NoStray, Running
<1>8. CASE RefreshWrite
  BY <1>8, <1>e DEF RefreshWrite, RefreshReturns, Dones
<1>9. ASSUME NEW p \in Paths, RefreshCopy(p) PROVE SyncInv'
  BY <1>9, <1>q DEF RefreshCopy, SyncInv, NoStray, Running
<1>10. ASSUME NEW p \in Paths, BumpMerge(p) PROVE SyncInv'
  <2>1. pc = "merge" /\ UNCHANGED <<treeVars, pc, done>>
    BY <1>10 DEF BumpMerge
  <2>2. QED
    BY <1>q, <2>1 DEF SyncInv, NoStray, Running
<1>11. CASE BumpFails
  BY <1>11, <1>e DEF BumpFails, Dones
<1>12. CASE BumpLock
  BY <1>12, <1>q DEF BumpLock, SyncInv, NoStray, Running
<1>13. CASE BumpReset
  BY <1>13, <1>q DEF BumpReset, NoStray, Running
<1>14. CASE CheckVerdict
  BY <1>14, <1>e DEF CheckVerdict, Dones
<1>c. ASSUME Clone, ready' = ready \/ ready' = (cloned /\ ready) PROVE NoStray'
  BY <1>c, TreeFacts DEF Clone, SyncInv, NoStray, Empty, TypeInv
<1>15. CASE SyncStart
  BY <1>15, <1>c, <1>q DEF SyncStart
<1>16. CASE RefreshStart
  BY <1>16, <1>q DEF RefreshStart, SyncInv, NoStray
<1>17. CASE CheckStart
  BY <1>17, <1>c, <1>q DEF CheckStart
<1>18. ASSUME NEW c \in Commits, BumpStart(c) PROVE SyncInv'
  <2>1. NoStray'
    BY <1>18, <1>c DEF BumpStart
  <2>2. pc' # "apply" /\ done' # "sync"
    BY <1>18 DEF BumpStart, Ends
  <2>3. QED
    BY <1>q, <2>1, <2>2
<1>d. ASSUME NEW p \in Paths, NEW f, Edit(p, f) PROVE SyncInv'
  BY <1>d, <1>q DEF Edit, NoStray
<1>19. ASSUME NEW p \in Paths, EditFile(p) \/ CreateFile(p) \/ DeleteFile(p) \/ RevertFile(p)
       PROVE  SyncInv'
  BY <1>19, <1>d DEF EditFile, CreateFile, DeleteFile, RevertFile
<1>20. ASSUME NEW p \in Paths, ResolveConflict(p) \/ DropFile(p) PROVE SyncInv'
  BY <1>20, <1>q DEF ResolveConflict, DropFile, SyncInv, NoStray
<1>21. CASE CommitCheckout
  BY <1>21, <1>q DEF CommitCheckout, NoStray
<1>22. CASE RestoreOverlay
  BY <1>22, <1>q DEF RestoreOverlay, SyncInv, NoStray
<1>23. CASE DeleteCheckout
  BY <1>23, <1>q DEF DeleteCheckout, NoStray
<1>24. CASE Publish
  BY <1>24, <1>q DEF Publish, SyncInv, NoStray
<1>25. CASE Crash
  BY <1>25, <1>e DEF Crash, Dones
<1>26. CASE UNCHANGED vars
  BY <1>26 DEF vars, SyncInv, NoStray, HalfApplied, SyncedTree, Applied, Listed
<1>27. QED
  BY <1>1, <1>2, <1>3, <1>4, <1>5, <1>6, <1>7, <1>8, <1>9, <1>10, <1>11, <1>12, <1>13, <1>14,
     <1>15, <1>16, <1>17, <1>18, <1>19, <1>20, <1>21, <1>22, <1>23, <1>24, <1>25, <1>26
  DEF Next, Script, Start, Person
-----------------------------------------------------------------------------
LEMMA InitRefreshInv == Init => RefreshInv
BY DEF Init, RefreshInv, HalfCopied, RefreshRoundTrip

(* What refresh.sh has written stands for the tree it was taken from, has no *)
(* drift, and has every file its rows need.                                  *)
LEMMA WrittenOverlay ==
  ASSUME TypeInv, HalfCopied, pc = "copy", rows = {}
  PROVE  /\ work = Effective(lock, overlay, NewManifest)
         /\ \A p \in Listed(NewManifest) :
              /\ ~Drifts(lock, NewManifest, p)
              /\ NewManifest[p].state # "delete" => overlay[p] = work[p] /\ overlay[p] # Absent
<1>1. \A p \in Paths : overlay[p] = IF p \in Changed THEN work[p] ELSE Absent
  BY DEF HalfCopied
<1>2. NewManifest \in Manifests /\ Effective(lock, overlay, NewManifest) \in FileTree
  BY RowType, TreeFacts DEF TypeInv
<1>3. ASSUME NEW p \in Changed
      PROVE  /\ p \in Paths /\ NewManifest[p] = RowOf(p) /\ RowOf(p) # Absent
             /\ (RowOf(p).state = "delete") = (work[p] = Absent)
             /\ RowOf(p).state = "new" => Tree[lock][p] = Absent
             /\ RowOf(p).state # "new" => RowOf(p).blob = Tree[lock][p]
  <2>1. p \in Paths /\ NewManifest[p] = RowOf(p) /\ work[p] # Tree[lock][p]
    BY DEF Changed, NewManifest
  <2>2. work[p] \in File /\ Tree[lock][p] \in File
    BY <2>1, TreeFacts DEF TypeInv, FileTree
  <2>3. RowOf(p) \in Row
    BY <2>1, <2>2 DEF RowOf, Row, File
  <2>4. QED
    BY <2>1, <2>3, AbsentType DEF RowOf
<1>4. ASSUME NEW p \in Paths \ Changed
      PROVE  NewManifest[p] = Absent /\ work[p] = Tree[lock][p]
  BY DEF Changed, NewManifest
<1>5. \A p \in Paths : work[p] = Effective(lock, overlay, NewManifest)[p]
  BY <1>1, <1>3, <1>4 DEF Effective
<1>6. work = Effective(lock, overlay, NewManifest)
  BY <1>2, <1>5 DEF TypeInv, FileTree
<1>7. Listed(NewManifest) \subseteq Changed
  BY <1>4 DEF Listed
<1>8. QED
  BY <1>1, <1>3, <1>6, <1>7 DEF Drifts

LEMMA NextRefreshInv == TypeInv /\ Running /\ RefreshInv /\ [Next]_vars => RefreshInv'
<1> SUFFICES ASSUME TypeInv, Running, RefreshInv, [Next]_vars PROVE RefreshInv'
  OBVIOUS
<1> USE DEF repoVars, treeVars, ctlVars, ghosts
<1>q. ASSUME pc' # "copy", done' # "refresh" PROVE RefreshInv'
  BY <1>q DEF RefreshInv, HalfCopied, RefreshRoundTrip
<1>e. ASSUME NEW w \in Dones \ {"refresh"}, Ends(w) PROVE RefreshInv'
  BY <1>e, <1>q DEF Ends
<1>s. ASSUME SyncDies \/ SyncReturns, pc \in {"sync", "apply"} PROVE RefreshInv'
  BY <1>s, <1>q, SyncEndCases DEF Ends, Goes, Running
<1>1. CASE SyncRefuses
  BY <1>1, <1>s DEF SyncRefuses
<1>2. CASE SyncCheckout
  BY <1>2, <1>s, <1>q DEF SyncCheckout, Goes, Running
<1>3. CASE SyncCommit
  BY <1>3, <1>s DEF SyncCommit
<1>4. ASSUME NEW p \in Paths, SyncApply(p) PROVE RefreshInv'
  BY <1>4, <1>q DEF SyncApply, Running
<1>5. ASSUME NEW p \in Paths, SyncMisses(p) PROVE RefreshInv'
  BY <1>5, <1>s DEF SyncMisses
<1>6. CASE RefreshNothing
  BY <1>6, <1>e DEF RefreshNothing, Dones
<1>7. CASE RefreshWipe
  <2>1. overlay' = Empty /\ rows' = Changed /\ Changed # {} /\ work' = work /\ lock' = lock
    BY <1>7 DEF RefreshWipe
  <2>2. Changed' = Changed
    BY <2>1 DEF Changed
  <2>3. done' # "refresh"
    BY <1>7 DEF RefreshWipe, Running
  <2>4. QED
    BY <2>1, <2>2, <2>3 DEF RefreshInv, HalfCopied, RefreshRoundTrip, Empty
<1>8. CASE RefreshWrite
  <2>1. work' = Effective(lock', overlay', manifest')
    BY <1>8, WrittenOverlay DEF RefreshWrite, RefreshInv
  <2>2. \A p \in Listed(manifest') : ~Drifts(lock', manifest', p)
    BY <1>8, WrittenOverlay DEF RefreshWrite, RefreshInv
  <2>3. pc' # "copy"
    BY <1>8 DEF RefreshWrite, RefreshReturns, Ends
  <2>4. QED
    BY <2>1, <2>2, <2>3 DEF RefreshInv, HalfCopied, RefreshRoundTrip
<1>9. ASSUME NEW p \in Paths, RefreshCopy(p) PROVE RefreshInv'
  <2>1. /\ p \in rows /\ rows' = rows \ {p} /\ overlay' = [overlay EXCEPT ![p] = work[p]]
        /\ work' = work /\ lock' = lock /\ pc = "copy"
    BY <1>9 DEF RefreshCopy
  <2>2. Changed' = Changed
    BY <2>1 DEF Changed
  <2>3. done' # "refresh"
    BY <1>9 DEF RefreshCopy, Running
  <2>4. HalfCopied'
    BY <2>1, <2>2 DEF RefreshInv, HalfCopied, TypeInv, FileTree
  <2>5. QED
    BY <2>3, <2>4 DEF RefreshInv, RefreshRoundTrip
<1>10. ASSUME NEW p \in Paths, BumpMerge(p) PROVE RefreshInv'
  <2>1. pc = "merge" /\ UNCHANGED <<pc, done>>
    BY <1>10 DEF BumpMerge
  <2>2. QED
    BY <1>q, <2>1 DEF Running
<1>11. CASE BumpFails
  BY <1>11, <1>e DEF BumpFails, Dones
<1>12. CASE BumpLock \/ BumpReset
  BY <1>12, <1>q DEF BumpLock, BumpReset, Running
<1>13. CASE CheckVerdict
  BY <1>13, <1>e DEF CheckVerdict, Dones
<1>14. CASE SyncStart \/ RefreshStart \/ CheckStart
  BY <1>14, <1>q DEF SyncStart, RefreshStart, CheckStart
<1>15. ASSUME NEW c \in Commits, BumpStart(c) PROVE RefreshInv'
  <2>1. pc' # "copy" /\ done' # "refresh"
    BY <1>15 DEF BumpStart, Ends
  <2>2. QED
    BY <1>q, <2>1
<1>16. ASSUME NEW p \in Paths, EditFile(p) \/ CreateFile(p) \/ DeleteFile(p) \/ RevertFile(p)
       PROVE  RefreshInv'
  BY <1>16, <1>q DEF EditFile, CreateFile, DeleteFile, RevertFile, Edit
<1>17. ASSUME NEW p \in Paths, ResolveConflict(p) \/ DropFile(p) PROVE RefreshInv'
  BY <1>17, <1>q DEF ResolveConflict, DropFile
<1>18. CASE CommitCheckout \/ RestoreOverlay \/ DeleteCheckout
  BY <1>18, <1>q DEF CommitCheckout, RestoreOverlay, DeleteCheckout
<1>19. CASE Publish
  BY <1>19, <1>q DEF Publish
<1>20. CASE Crash
  BY <1>20, <1>e DEF Crash, Dones
<1>21. CASE UNCHANGED vars
  BY <1>21 DEF vars, RefreshInv, HalfCopied, RefreshRoundTrip, Changed
<1>22. QED
  BY <1>1, <1>2, <1>3, <1>4, <1>5, <1>6, <1>7, <1>8, <1>9, <1>10, <1>11, <1>12, <1>13,
     <1>14, <1>15, <1>16, <1>17, <1>18, <1>19, <1>20, <1>21
  DEF Next, Script, Start, Person
-----------------------------------------------------------------------------
LEMMA InitCheckInv == Init => CheckInv
BY DEF Init, CheckInv, NotBadYet, Applies, Listed, Empty

(* What check-overlay.sh looked at, with something for sync.sh to commit, is *)
(* an overlay that applies.                                                  *)
LEMMA CheckedApplies ==
  ASSUME TypeInv, ~StaticallyBad, \A p \in Listed(manifest) : ~Drifts(lock, manifest, p),
         Effective(lock, overlay, manifest) # Tree[lock]
  PROVE  Applies(lock, overlay, manifest)
<1> SUFFICES ASSUME Listed(manifest) # {}
             PROVE  FilesAgree(overlay, manifest) /\ InLine(lock, overlay, manifest)
  BY DEF Applies
<1>1. FilesAgree(overlay, manifest) /\ \A p \in Paths : ~Marked(overlay[p])
  BY DEF StaticallyBad
<1>2. QED
  BY <1>1 DEF FilesAgree, InLine, Listed

LEMMA NextCheckInv == TypeInv /\ Running /\ SyncInv /\ CheckInv /\ [Next]_vars => CheckInv'
<1> SUFFICES ASSUME TypeInv, Running, SyncInv, CheckInv, [Next]_vars PROVE CheckInv'
  OBVIOUS
<1> USE DEF repoVars, treeVars, ctlVars, ghosts
<1>q. ASSUME saved' = saved, done' # "checked", NotBadYet' PROVE CheckInv'
  BY <1>q DEF CheckInv
<1>p. ASSUME saved' = saved, done' # "checked", caller' # "check" \/ pc' = "idle" PROVE CheckInv'
  BY <1>p, <1>q DEF NotBadYet
<1>e. ASSUME NEW w \in Dones \ {"checked"}, Ends(w), saved' = saved PROVE CheckInv'
  BY <1>e, <1>p DEF Ends
<1>f. ASSUME SyncDies, pc \in {"sync", "apply"}, saved' = saved PROVE CheckInv'
  <2>1. CASE Ends("failed")
    BY <1>f, <1>e, <2>1 DEF Dones
  <2>2. CASE Goes("verdict") /\ bad' = TRUE
    BY <1>f, <1>q, <2>2 DEF NotBadYet, Goes, Running
  <2>3. QED
    BY <1>f, <2>1, <2>2, SyncEndCases
<1>r. ASSUME SyncReturns, pc \in {"sync", "apply"}, UNCHANGED <<repoVars, saved>>,
             caller = "check" /\ ~bad => Applies(lock, overlay, manifest)
      PROVE  CheckInv'
  <2>1. CASE Ends("sync")
    BY <1>r, <1>e, <2>1 DEF Dones
  <2>2. CASE Goes("refresh") /\ caller = "bump"
    BY <1>r, <1>p, <2>2 DEF Goes, Running
  <2>3. CASE Goes("verdict") /\ caller = "check" /\ bad' = bad
    <3>1. pc' = "verdict" /\ done' # "checked" /\ caller' = caller
      BY <1>r, <2>3 DEF Goes, Running
    <3>2. NotBadYet'
      BY <1>r, <2>3, <3>1 DEF NotBadYet
    <3>3. QED
      BY <1>r, <1>q, <3>1, <3>2
  <2>4. QED
    BY <1>r, <2>1, <2>2, <2>3, SyncEndCases
<1>1. CASE SyncRefuses
  BY <1>1, <1>f DEF SyncRefuses
<1>2. CASE SyncCheckout
  <2>1. CASE Listed(manifest) = {}
    BY <1>2, <1>r, <2>1 DEF SyncCheckout, Applies
  <2>2. CASE Listed(manifest) # {}
    <3>1. /\ pc' = "apply" /\ rows' = Listed(manifest) /\ bad' = bad /\ caller' = caller
          /\ saved' = saved /\ done' # "checked" /\ pc = "sync"
          /\ lock' = lock /\ overlay' = overlay /\ manifest' = manifest
      BY <1>2, <2>2 DEF SyncCheckout, Goes, Running
    <3>2. StaticallyBad' <=> StaticallyBad
      BY <3>1 DEF StaticallyBad
    <3>3. NotBadYet'
      BY <3>1, <3>2 DEF CheckInv, NotBadYet
    <3>4. QED
      BY <1>q, <3>1, <3>3
  <2>3. QED
    BY <2>1, <2>2
<1>3. CASE SyncCommit
  <2>1. CASE ~Dirty
    BY <1>3, <1>f, <2>1 DEF SyncCommit
  <2>2. CASE Dirty
    <3>1. pc = "apply" /\ rows = {} /\ head = Tree[lock] /\ work # head
      BY <1>3, <2>2 DEF SyncCommit, SyncInv, HalfApplied, Dirty
    <3>2. work = Effective(lock, overlay, manifest)
      BY <3>1, AppliedIsEffective DEF SyncInv, HalfApplied
    <3>3. caller = "check" /\ ~bad => Applies(lock, overlay, manifest)
      BY <3>1, <3>2, CheckedApplies DEF CheckInv, NotBadYet
    <3>4. QED
      BY <1>3, <1>r, <2>2, <3>1, <3>3 DEF SyncCommit
  <2>3. QED
    BY <2>1, <2>2
<1>4. ASSUME NEW p \in Paths, SyncApply(p) PROVE CheckInv'
  <2>1. /\ pc' = pc /\ pc = "apply" /\ rows' = rows \ {p} /\ caller' = caller
        /\ saved' = saved /\ done' # "checked"
        /\ lock' = lock /\ overlay' = overlay /\ manifest' = manifest
        /\ bad' = (bad \/ Drifts(lock, manifest, p))
    BY <1>4 DEF SyncApply, Running
  <2>2. StaticallyBad' <=> StaticallyBad
    BY <2>1 DEF StaticallyBad
  <2>3. NotBadYet'
    <3>1. SUFFICES ASSUME caller = "check", ~bad'
                   PROVE  /\ ~StaticallyBad
                          /\ \A q \in Listed(manifest) \ rows' : ~Drifts(lock, manifest, q)
      BY <2>1, <2>2 DEF NotBadYet
    <3>2. ~bad /\ ~Drifts(lock, manifest, p)
      BY <2>1, <3>1
    <3>3. ~StaticallyBad /\ \A q \in Listed(manifest) \ rows : ~Drifts(lock, manifest, q)
      BY <2>1, <3>1, <3>2 DEF CheckInv, NotBadYet
    <3>4. QED
      BY <2>1, <3>2, <3>3
  <2>4. QED
    BY <1>q, <2>1, <2>3
<1>5. ASSUME NEW p \in Paths, SyncMisses(p) PROVE CheckInv'
  BY <1>5, <1>f DEF SyncMisses
<1>6. CASE RefreshNothing \/ RefreshWrite
  BY <1>6, <1>e DEF RefreshNothing, RefreshWrite, RefreshReturns, Dones
<1>7. CASE RefreshWipe \/ \E p \in Paths : RefreshCopy(p)
  BY <1>7, <1>p DEF RefreshWipe, RefreshCopy, Running
<1>8. ASSUME NEW p \in Paths, BumpMerge(p) PROVE CheckInv'
  <2>1. pc = "merge" /\ UNCHANGED <<saved, pc, caller, done>>
    BY <1>8 DEF BumpMerge
  <2>2. QED
    BY <1>p, <2>1 DEF Running
<1>9. CASE BumpFails
  BY <1>9, <1>e DEF BumpFails, Dones
<1>10. CASE BumpLock \/ BumpReset
  BY <1>10, <1>p DEF BumpLock, BumpReset, Running
<1>11. CASE CheckVerdict
  <2>1. CASE bad
    BY <1>11, <1>e, <2>1 DEF CheckVerdict, Dones
  <2>2. CASE ~bad
    <3>1. Ends("checked") /\ UNCHANGED <<repoVars, saved>> /\ pc = "verdict"
      BY <1>11, <2>2 DEF CheckVerdict
    <3>2. Applies(lock, overlay, manifest)
      BY <2>2, <3>1 DEF CheckInv, NotBadYet, Running
    <3>3. NotBadYet' /\ pc' = "idle"
      BY <3>1 DEF NotBadYet, Ends
    <3>4. QED
      BY <3>1, <3>2, <3>3 DEF CheckInv
  <2>3. QED
    BY <2>1, <2>2
<1>12. CASE SyncStart \/ RefreshStart
  BY <1>12, <1>p DEF SyncStart, RefreshStart
<1>13. CASE CheckStart
  <2>1. StaticallyBad' <=> StaticallyBad
    BY <1>13 DEF CheckStart, StaticallyBad
  <2>2. QED
    BY <1>13, <1>q, <2>1 DEF CheckStart, NotBadYet
<1>14. ASSUME NEW c \in Commits, BumpStart(c) PROVE CheckInv'
  <2>1. caller' # "check" /\ done' # "checked" /\ saved' = saved
    BY <1>14 DEF BumpStart, Ends
  <2>2. QED
    BY <1>p, <2>1
<1>15. ASSUME NEW p \in Paths, EditFile(p) \/ CreateFile(p) \/ DeleteFile(p) \/ RevertFile(p)
       PROVE  CheckInv'
  BY <1>15, <1>p DEF EditFile, CreateFile, DeleteFile, RevertFile, Edit
<1>16. ASSUME NEW p \in Paths, ResolveConflict(p) \/ DropFile(p) PROVE CheckInv'
  BY <1>16, <1>p DEF ResolveConflict, DropFile
<1>17. CASE CommitCheckout \/ RestoreOverlay \/ DeleteCheckout
  BY <1>17, <1>p DEF CommitCheckout, RestoreOverlay, DeleteCheckout
<1>18. CASE Publish
  <2>1. pc' = "idle" /\ UNCHANGED repoVars /\ Applies(lock, overlay, manifest)
    BY <1>18 DEF Publish, CheckInv
  <2>2. saved'.lock = lock /\ saved'.overlay = overlay /\ saved'.manifest = manifest
    BY <1>18 DEF Publish
  <2>3. QED
    BY <2>1, <2>2 DEF CheckInv, NotBadYet
<1>19. CASE Crash
  BY <1>19, <1>e DEF Crash, Dones
<1>20. CASE UNCHANGED vars
  <2>1. StaticallyBad' <=> StaticallyBad
    BY <1>20 DEF vars, StaticallyBad
  <2>2. QED
    BY <1>20, <2>1 DEF vars, CheckInv, NotBadYet
<1>21. QED
  BY <1>1, <1>2, <1>3, <1>4, <1>5, <1>6, <1>7, <1>8, <1>9, <1>10, <1>11, <1>12, <1>13, <1>14,
     <1>15, <1>16, <1>17, <1>18, <1>19, <1>20
  DEF Next, Script, Start, Person
-----------------------------------------------------------------------------
LEMMA InitBumpInv == Init => BumpInv
BY DEF Init, BumpInv, BumpIsMerge

(* Upstream never wrote a conflict marker.                                   *)
LEMMA UpstreamUnmarked ==
  ASSUME NEW c \in Commits, NEW p \in Paths PROVE ~Marked(Tree[c][p])
BY UpstreamText DEF Marked

(* A file git merge-file left no marker in is a merge of the three.          *)
LEMMA CleanMerge ==
  ASSUME NEW b \in Text, NEW o \in Text, NEW t \in Text, t # b,
         ~Marked(MergeFile(b, o, t))
  PROVE  IsMerge(b, o, t, MergeFile(b, o, t))
<1> DEFINE f == MergeFile(b, o, t)
<1>1. f \in Text /\ f # Absent
  BY MergeType, AbsentType
<1>2. ASSUME NEW h \in Hunks
      PROVE  /\ f[h] # Marker /\ f[h] = MergeHunk(b[h], o[h], t[h])
             /\ o[h] = b[h] => f[h] = t[h]
             /\ o[h] # b[h] => f[h] = o[h] /\ t[h] \in {b[h], o[h]}
  <2>1. f[h] = MergeHunk(b[h], o[h], t[h]) /\ f[h] # Marker
    BY <1>1 DEF MergeFile, Marked
  <2>2. QED
    BY <2>1 DEF MergeHunk
<1>3. CASE o = b
  <2>1. \A h \in Hunks : f[h] = t[h]
    BY <1>2, <1>3
  <2>2. f = t
    BY <1>1, <2>1 DEF Text
  <2>3. QED
    BY <1>3, <2>2 DEF IsMerge
<1>4. CASE o # b
  <2>1. o # Absent
    BY AbsentType
  <2>2. QED
    BY <1>2, <1>4, <2>1 DEF IsMerge
<1>5. QED
  BY <1>3, <1>4

(* One row of bump-upstream.sh's loop that does not fail is merged.          *)
LEMMA RowMerged ==
  ASSUME TypeInv, Running, NEW p \in Paths, BumpMerge(p), p \notin failed',
         ~Drifts(lock, manifest, p), Usable(overlay, manifest, p)
  PROVE  /\ IsMerge(Tree[lock][p], Applied(p), Tree[target][p], Applied(p)')
         /\ Usable(overlay', manifest, p)
<1>1. p \in Listed(manifest) /\ manifest' = manifest
  BY DEF BumpMerge, Running
<1>2. manifest[p] \in Row /\ overlay[p] \in File /\ Tree[target][p] \in File /\ Tree[lock][p] \in File
  BY <1>1, TreeFacts DEF TypeInv, Listed, Manifests, FileTree
<1>3. ~Lost(p) /\ ~(~Untouched(p) /\ overlay[p] = Absent)
  BY DEF BumpMerge
<1>4. CASE Untouched(p)
  <2>1. overlay' = overlay
    BY <1>3, <1>4 DEF BumpMerge
  <2>2. Applied(p)' = Applied(p) /\ Usable(overlay', manifest, p)
    BY <1>1, <2>1 DEF Applied
  <2>3. CASE manifest[p].state = "new"
    <3>1. Tree[target][p] = Absent /\ Tree[lock][p] = Absent
      BY <1>3, <2>3 DEF Lost, Drifts
    <3>2. QED
      BY <2>2, <3>1 DEF IsMerge
  <2>4. CASE manifest[p].state = "delete"
    <3>1. Applied(p) = Absent /\ manifest[p].blob \in Text /\ Tree[lock][p] = manifest[p].blob
      BY <1>2, <2>4 DEF Applied, Row, Drifts
    <3>2. QED
      BY <2>2, <3>1, AbsentType DEF IsMerge
  <2>5. CASE manifest[p].state = "edit"
    <3>1. Tree[lock][p] = manifest[p].blob /\ Tree[target][p] = manifest[p].blob
      BY <1>4, <2>5 DEF Drifts, Untouched
    <3>2. QED
      BY <2>2, <3>1 DEF IsMerge
  <2>6. QED
    BY <1>2, <2>3, <2>4, <2>5 DEF Row
<1>5. CASE ~Untouched(p)
  <2>1. manifest[p].state = "edit" /\ manifest[p].blob \in Text
    BY <1>2, <1>5 DEF Untouched, Row
  <2>2. Tree[lock][p] = manifest[p].blob /\ Tree[target][p] # manifest[p].blob
    BY <1>5, <2>1 DEF Drifts, Untouched
  <2>3. overlay[p] \in Text /\ Tree[target][p] \in Text
    BY <1>2, <1>3, <1>5, <2>1 DEF Lost, File
  <2>4. overlay' = [overlay EXCEPT ![p] = Merged(p)] /\ ~Marked(Merged(p))
    BY <1>3, <1>5 DEF BumpMerge
  <2>5. overlay'[p] = Merged(p)
    BY <2>4 DEF TypeInv, FileTree
  <2>6. Merged(p) \in Text /\ Merged(p) # Absent
    BY <2>1, <2>3, MergeType, AbsentType DEF Merged
  <2>7. Applied(p) = overlay[p] /\ Applied(p)' = Merged(p)
    BY <1>1, <2>1, <2>5 DEF Applied
  <2>8. IsMerge(manifest[p].blob, overlay[p], Tree[target][p], Merged(p))
    BY <2>1, <2>2, <2>3, <2>4, CleanMerge DEF Merged
  <2>9. QED
    BY <2>2, <2>4, <2>5, <2>6, <2>7, <2>8 DEF Usable
<1>6. QED
  BY <1>4, <1>5

(* The tree of an overlay whose files are usable has no conflict marker.     *)
LEMMA UsableUnmarked ==
  ASSUME NEW c \in Commits, NEW o, NEW m, \A p \in Listed(m) : Usable(o, m, p)
  PROVE  \A p \in Paths : ~Marked(Effective(c, o, m)[p])
<1> SUFFICES ASSUME NEW p \in Paths PROVE ~Marked(Effective(c, o, m)[p])
  OBVIOUS
<1>1. CASE m[p] = Absent
  BY <1>1, UpstreamUnmarked DEF Effective
<1>2. CASE m[p] # Absent
  BY <1>2 DEF Effective, Listed, Usable, Marked
<1>3. QED
  BY <1>1, <1>2

LEMMA NextBumpInv ==
  TypeInv /\ Running /\ SyncInv /\ RefreshInv /\ BumpInv /\ [Next]_vars => BumpInv'
<1> SUFFICES ASSUME TypeInv, Running, SyncInv, RefreshInv, BumpInv, [Next]_vars PROVE BumpInv'
  OBVIOUS
<1> USE DEF repoVars, treeVars, ctlVars, ghosts
<1> DEFINE Bumping == caller = "bump" /\ pre # Absent
           Inside  == HalfMerged /\ AllMerged /\ InTheTree
<1>q. ASSUME pre' = pre, done' # "bump", Bumping' => Inside' PROVE BumpInv'
  BY <1>q DEF BumpInv, BumpIsMerge
<1>p. ASSUME pre' = pre, done' # "bump", caller' # "bump" PROVE BumpInv'
  BY <1>p, <1>q
<1>a. ASSUME pre' = Absent PROVE BumpInv'
  BY <1>a DEF BumpInv, BumpIsMerge
<1>e. ASSUME NEW w \in Dones \ {"bump"}, Ends(w) PROVE BumpInv'
  BY <1>e, <1>a DEF Ends
<1>f. ASSUME SyncDies, pc \in {"sync", "apply"} PROVE BumpInv'
  BY <1>f, <1>e, <1>p, SyncEndCases DEF Goes, Dones, Running
<1>r. ASSUME SyncReturns, pc \in {"sync", "apply"}, UNCHANGED repoVars,
             work' = Effective(lock, overlay, manifest),
             work' # Tree[lock] \/ Listed(manifest) = {}
      PROVE  BumpInv'
  <2>1. CASE caller # "bump"
    BY <1>r, <1>e, <1>p, <2>1, SyncEndCases DEF Goes, Dones, Running
  <2>2. CASE caller = "bump"
    <3>1. pc' = "refresh" /\ pre' = pre /\ done' # "bump"
      BY <1>r, <2>2, SyncEndCases DEF Goes, Running
    <3>2. ASSUME Bumping PROVE InTheTree'
      <4>1. /\ \A p \in Paths : MergesTo(p, lock, Effective(lock, overlay, manifest)[p])
            /\ \A p \in Listed(manifest) : Usable(overlay, manifest, p)
        BY <1>r, <3>2 DEF BumpInv, AllMerged
      <4>2. \A p \in Paths : ~Marked(Effective(lock, overlay, manifest)[p])
        BY <4>1, UsableUnmarked DEF TypeInv
      <4>3. Changed' # {} \/ Listed(manifest) = {}
        <5>1. Effective(lock, overlay, manifest) \in FileTree /\ Tree[lock] \in FileTree
          BY TreeFacts DEF TypeInv
        <5>2. work' # Tree[lock] => \E p \in Paths : work'[p] # Tree[lock][p]
          BY <1>r, <5>1 DEF FileTree
        <5>3. QED
          BY <1>r, <5>2 DEF Changed
      <4>4. \A p \in Paths : (MergesTo(p, lock, work[p]))'
        BY <1>r, <3>1, <4>1 DEF MergesTo
      <4>5. QED
        BY <1>r, <4>2, <4>3, <4>4 DEF InTheTree
    <3>3. HalfMerged' /\ AllMerged'
      BY <3>1 DEF HalfMerged, AllMerged
    <3>4. Bumping' => Bumping
      BY <2>2, <3>1
    <3>5. QED
      BY <1>q, <3>1, <3>2, <3>3, <3>4
  <2>3. QED
    BY <2>1, <2>2
(* A step of the nested sync.sh that goes on leaves the merge as it is.      *)
<1>g. ASSUME pc \in {"sync", "apply", "reset"}, pc' \in {"sync", "apply"},
             UNCHANGED <<repoVars, caller, target, done, pre>>
      PROVE  BumpInv'
  <2>1. HalfMerged' /\ InTheTree'
    BY <1>g DEF HalfMerged, InTheTree
  <2>2. ASSUME Bumping PROVE AllMerged'
    <3>1. AllMerged
      BY <2>2 DEF BumpInv
    <3>2. QED
      BY <1>g, <3>1 DEF AllMerged, MergesTo
  <2>3. QED
    BY <1>g, <1>q, <2>1, <2>2 DEF Running
<1>1. CASE SyncRefuses
  BY <1>1, <1>f DEF SyncRefuses
<1>2. CASE SyncCheckout
  <2>1. work' = Tree[lock] /\ pc = "sync"
    BY <1>2, ResetIsPin DEF SyncCheckout, SyncInv
  <2>2. CASE Listed(manifest) = {}
    BY <1>2, <1>r, <2>1, <2>2, EmptyIsPin DEF SyncCheckout
  <2>3. CASE Listed(manifest) # {}
    BY <1>2, <1>g, <2>3 DEF SyncCheckout, Goes
  <2>4. QED
    BY <2>2, <2>3
<1>3. CASE SyncCommit
  <2>1. CASE ~Dirty
    BY <1>3, <1>f, <2>1 DEF SyncCommit
  <2>2. CASE Dirty
    <3>1. work = Effective(lock, overlay, manifest) /\ head = Tree[lock]
      BY <1>3, AppliedIsEffective DEF SyncCommit, SyncInv, HalfApplied
    <3>2. QED
      BY <1>3, <1>r, <2>2, <3>1 DEF SyncCommit, Dirty
  <2>3. QED
    BY <2>1, <2>2
<1>4. ASSUME NEW p \in Paths, SyncApply(p) PROVE BumpInv'
  BY <1>4, <1>g DEF SyncApply
<1>5. ASSUME NEW p \in Paths, SyncMisses(p) PROVE BumpInv'
  BY <1>5, <1>f DEF SyncMisses
<1>6. CASE RefreshNothing
  <2>1. CASE caller # "bump"
    BY <1>6, <1>e, <2>1 DEF RefreshNothing, Dones
  <2>2. CASE caller = "bump"
    <3>1. caller' # "bump" /\ pre' = pre /\ UNCHANGED repoVars /\ pc = "refresh" /\ Changed = {}
      BY <1>6, <2>2 DEF RefreshNothing, Ends
    <3>2. ASSUME pre # Absent PROVE BumpIsMerge'
      <4>1. /\ \A p \in Paths : MergesTo(p, lock, work[p])
            /\ work = Effective(lock, overlay, manifest) /\ Listed(manifest) = {}
        BY <2>2, <3>1, <3>2 DEF BumpInv, InTheTree
      <4>2. \A p \in Paths : IsMerge(Tree[pre.lock][p], pre.tree[p], Tree[lock][p],
                                    Effective(lock, overlay, manifest)[p])
        BY <4>1 DEF MergesTo
      <4>3. InLine(lock, overlay, manifest)
        BY <4>1 DEF InLine
      <4>4. QED
        BY <3>1, <4>2, <4>3 DEF BumpIsMerge
    <3>3. pre = Absent => BumpInv'
      BY <1>a, <3>1
    <3>4. QED
      BY <3>1, <3>2, <3>3 DEF BumpInv
  <2>3. QED
    BY <2>1, <2>2
<1>7. CASE RefreshWipe
  <2>1. /\ pc' = "copy" /\ pc = "refresh" /\ pre' = pre /\ done' # "bump"
        /\ caller' = caller /\ work' = work /\ lock' = lock
    BY <1>7 DEF RefreshWipe, Running
  <2>2. ASSUME Bumping PROVE Inside'
    BY <2>1, <2>2 DEF BumpInv, HalfMerged, AllMerged, InTheTree, MergesTo
  <2>3. QED
    BY <1>q, <2>1, <2>2
<1>8. CASE RefreshWrite
  <2>1. CASE caller # "bump"
    BY <1>8, <1>e, <2>1 DEF RefreshWrite, RefreshReturns, Dones
  <2>2. CASE caller = "bump"
    <3>1. /\ caller' # "bump" /\ pre' = pre /\ lock' = lock /\ overlay' = overlay
          /\ manifest' = NewManifest /\ pc = "copy" /\ rows = {}
      BY <1>8, <2>2 DEF RefreshWrite, RefreshReturns, Ends
    <3>2. ASSUME pre # Absent PROVE BumpIsMerge'
      <4>1. \A p \in Paths : MergesTo(p, lock, work[p]) /\ ~Marked(work[p])
        BY <2>2, <3>1, <3>2 DEF BumpInv, InTheTree
      <4>2. work = Effective(lock, overlay, NewManifest)
        BY <3>1, WrittenOverlay DEF RefreshInv
      <4>3. InLine(lock, overlay, NewManifest)
        BY <3>1, <4>1, WrittenOverlay DEF RefreshInv, InLine, Listed
      <4>4. \A p \in Paths : IsMerge(Tree[pre.lock][p], pre.tree[p], Tree[lock][p],
                                    Effective(lock, overlay, NewManifest)[p])
        BY <4>1, <4>2 DEF MergesTo
      <4>5. QED
        BY <3>1, <4>3, <4>4 DEF BumpIsMerge
    <3>3. pre = Absent => BumpInv'
      BY <1>a, <3>1
    <3>4. QED
      BY <3>1, <3>2, <3>3 DEF BumpInv
  <2>3. QED
    BY <2>1, <2>2
<1>9. ASSUME NEW p \in Paths, RefreshCopy(p) PROVE BumpInv'
  <2>1. pc = "copy" /\ UNCHANGED <<pc, pre, caller, work, lock, done>>
    BY <1>9 DEF RefreshCopy
  <2>2. ASSUME Bumping PROVE Inside'
    BY <2>1, <2>2 DEF BumpInv, HalfMerged, AllMerged, InTheTree, MergesTo
  <2>3. QED
    BY <1>q, <2>1, <2>2 DEF Running
<1>10. ASSUME NEW p \in Paths, BumpMerge(p) PROVE BumpInv'
  <2>1. /\ pc = "merge" /\ p \in rows /\ rows' = rows \ {p}
        /\ UNCHANGED <<lock, manifest, pc, caller, target, done, pre>>
    BY <1>10 DEF BumpMerge
  <2>2. /\ failed \subseteq failed'
        /\ \A q \in Paths \ {p} : overlay'[q] = overlay[q]
    <3>1. \/ overlay' = overlay /\ failed' \in {failed, failed \cup {p}}
          \/ overlay' = [overlay EXCEPT ![p] = Merged(p)] /\ failed' \in {failed, failed \cup {p}}
      BY <1>10 DEF BumpMerge
    <3>2. QED
      BY <3>1 DEF TypeInv, FileTree
  <2>3. ASSUME Bumping PROVE HalfMerged'
    <3>1. HalfMerged
      BY <2>3 DEF BumpInv
    <3>2. /\ pre.lock = lock /\ rows \subseteq Listed(manifest)
          /\ pre.tree[p] = Applied(p) /\ Usable(overlay, manifest, p)
          /\ ~Drifts(lock, manifest, p)
      BY <2>1, <3>1 DEF HalfMerged, Running
    <3>3. p \notin failed' => /\ (MergesTo(p, target, Applied(p)))'
                              /\ Usable(overlay', manifest, p)
      BY <1>10, <2>1, <3>2, RowMerged DEF MergesTo
    <3>4. ASSUME NEW q \in Listed(manifest), q # p
          PROVE  /\ Applied(q)' = Applied(q)
                 /\ Usable(overlay', manifest, q) <=> Usable(overlay, manifest, q)
      BY <2>1, <2>2, <3>4 DEF Applied, Usable, Listed
    <3>5. \A q \in rows' : pre'.tree[q] = Applied(q)' /\ Usable(overlay', manifest', q)
      BY <2>1, <3>1, <3>2, <3>4 DEF HalfMerged
    <3>6. ASSUME NEW q \in Listed(manifest) \ rows', q \notin failed'
          PROVE  (MergesTo(q, target, Applied(q)))' /\ Usable(overlay', manifest', q)
      <4>1. CASE q = p
        BY <2>1, <3>3, <3>6, <4>1
      <4>2. CASE q # p
        <5>1. MergesTo(q, target, Applied(q)) /\ Usable(overlay, manifest, q)
          BY <2>1, <2>2, <3>1, <3>6, <4>2 DEF HalfMerged
        <5>2. QED
          BY <2>1, <3>4, <4>2, <5>1 DEF MergesTo
      <4>3. QED
        BY <4>1, <4>2
    <3>7. QED
      BY <2>1, <3>1, <3>5, <3>6 DEF HalfMerged
  <2>4. AllMerged' /\ InTheTree'
    BY <2>1 DEF AllMerged, InTheTree
  <2>5. QED
    BY <1>q, <2>1, <2>3, <2>4 DEF Running
<1>11. CASE BumpFails
  BY <1>11, <1>e DEF BumpFails, Dones
<1>12. CASE BumpLock
  <2>1. /\ pc = "merge" /\ rows = {} /\ failed = {} /\ lock' = target /\ pc' = "reset"
        /\ UNCHANGED <<overlay, manifest, target, caller, done, pre>>
    BY <1>12 DEF BumpLock
  <2>2. ASSUME Bumping PROVE AllMerged'
    <3>1. HalfMerged
      BY <2>2 DEF BumpInv
    <3>2. ASSUME NEW p \in Paths
          PROVE  MergesTo(p, target, Effective(target, overlay, manifest)[p])
      <4>1. CASE p \in Listed(manifest)
        <5>1. Effective(target, overlay, manifest)[p] = Applied(p)
          BY <4>1 DEF Effective, Applied, Listed
        <5>2. QED
          BY <2>1, <3>1, <4>1, <5>1 DEF HalfMerged
      <4>2. CASE p \notin Listed(manifest)
        <5>1. Effective(target, overlay, manifest)[p] = Tree[target][p]
          BY <4>2 DEF Effective, Listed
        <5>2. pre.tree[p] = Tree[pre.lock][p]
          BY <2>1, <3>1, <4>2 DEF HalfMerged
        <5>3. QED
          BY <5>1, <5>2 DEF MergesTo, IsMerge
      <4>3. QED
        BY <4>1, <4>2
    <3>3. \A p \in Listed(manifest) : Usable(overlay, manifest, p)
      BY <2>1, <3>1 DEF HalfMerged
    <3>4. QED
      BY <2>1, <3>2, <3>3 DEF AllMerged, MergesTo
  <2>3. HalfMerged' /\ InTheTree'
    BY <2>1 DEF HalfMerged, InTheTree
  <2>4. QED
    BY <1>q, <2>1, <2>2, <2>3 DEF Running
<1>13. CASE BumpReset
  BY <1>13, <1>g DEF BumpReset
<1>14. CASE CheckVerdict
  BY <1>14, <1>e DEF CheckVerdict, Dones
<1>15. CASE SyncStart \/ RefreshStart \/ CheckStart
  BY <1>15, <1>a DEF SyncStart, RefreshStart, CheckStart
<1>16. ASSUME NEW c \in Commits, BumpStart(c) PROVE BumpInv'
  <2>1. CASE c \notin Pinnable \/ c = lock
    <3>1. Ends("failed") \/ Ends("pinned")
      BY <1>16, <2>1 DEF BumpStart
    <3>2. QED
      BY <1>e, <3>1 DEF Dones
  <2>2. CASE c \in Pinnable /\ c # lock
    <3>1. /\ pc' = "merge" /\ done' = "none" /\ rows' = Listed(manifest) /\ UNCHANGED repoVars
          /\ pre' = IF InLine(lock, overlay, manifest)
                    THEN [lock |-> lock, tree |-> Effective(lock, overlay, manifest)]
                    ELSE Absent
      BY <1>16, <2>2 DEF BumpStart
    <3>2. CASE ~InLine(lock, overlay, manifest)
      BY <1>a, <3>1, <3>2
    <3>3. CASE InLine(lock, overlay, manifest)
      <4>1. pre' = [lock |-> lock, tree |-> Effective(lock, overlay, manifest)]
        BY <3>1, <3>3
      <4>2. pre'.lock = lock /\ pre'.tree = Effective(lock, overlay, manifest)
        BY <4>1
      <4>3. pre' \in [lock : Commits, tree : FileTree]
        BY <4>1, TreeFacts DEF TypeInv
      <4>4. HalfMerged'
        <5>1. \A p \in Paths \ Listed(manifest) : pre'.tree[p] = Tree[lock][p]
          BY <4>2 DEF Effective, Listed
        <5>2. \A p \in Listed(manifest) : pre'.tree[p] = Applied(p)
          BY <4>2 DEF Effective, Listed, Applied
        <5>3. \A p \in Listed(manifest) : ~Drifts(lock, manifest, p) /\ Usable(overlay, manifest, p)
          BY <3>3 DEF InLine, Usable
        <5>4. \A p \in Paths : Applied(p)' = Applied(p)
          BY <3>1 DEF Applied
        <5>5. Listed(manifest) \subseteq Paths
          BY DEF Listed
        <5>6. QED
          BY <3>1, <4>2, <5>1, <5>2, <5>3, <5>4, <5>5 DEF HalfMerged
      <4>5. AllMerged' /\ InTheTree'
        BY <3>1 DEF AllMerged, InTheTree
      <4>6. QED
        BY <3>1, <4>3, <4>4, <4>5 DEF BumpInv, BumpIsMerge
    <3>4. QED
      BY <3>2, <3>3
  <2>3. QED
    BY <2>1, <2>2
<1>17. ASSUME NEW p \in Paths, EditFile(p) \/ CreateFile(p) \/ DeleteFile(p) \/ RevertFile(p)
       PROVE  BumpInv'
  BY <1>17, <1>p DEF EditFile, CreateFile, DeleteFile, RevertFile, Edit, Running
<1>18. ASSUME NEW p \in Paths, ResolveConflict(p) \/ DropFile(p) PROVE BumpInv'
  BY <1>18, <1>p DEF ResolveConflict, DropFile, Running
<1>19. CASE CommitCheckout \/ RestoreOverlay \/ DeleteCheckout
  BY <1>19, <1>p DEF CommitCheckout, RestoreOverlay, DeleteCheckout, Running
<1>20. CASE Publish
  BY <1>20, <1>p DEF Publish, Running
<1>21. CASE Crash
  BY <1>21, <1>e DEF Crash, Dones
<1>22. CASE UNCHANGED vars
  <2>1. BumpIsMerge'
    BY <1>22 DEF vars, BumpInv, BumpIsMerge
  <2>2. Inside => Inside'
    BY <1>22 DEF vars, HalfMerged, AllMerged, InTheTree, MergesTo, Applied, Listed, Changed
  <2>3. QED
    BY <1>22, <2>1, <2>2 DEF vars, BumpInv
<1>23. QED
  BY <1>1, <1>2, <1>3, <1>4, <1>5, <1>6, <1>7, <1>8, <1>9, <1>10, <1>11, <1>12, <1>13, <1>14,
     <1>15, <1>16, <1>17, <1>18, <1>19, <1>20, <1>21, <1>22
  DEF Next, Script, Start, Person
-----------------------------------------------------------------------------
LEMMA NextLoneInv == TypeInv /\ Running /\ RefreshInv /\ LoneInv /\ [Next]_vars => LoneInv'
<1> SUFFICES ASSUME TypeInv, Running, RefreshInv, LoneInv, [Next]_vars PROVE LoneInv'
  OBVIOUS
<1> USE DEF repoVars, treeVars, ctlVars, ghosts
<1>q. ASSUME UNCHANGED <<overlay, manifest, saved, cut>>, pc # "copy" PROVE LoneInv'
  BY <1>q DEF LoneInv, Lone
<1>1. CASE SyncRefuses \/ SyncCheckout \/ SyncCommit \/ \E p \in Paths : SyncApply(p) \/ SyncMisses(p)
  <2>1. /\ UNCHANGED <<overlay, manifest, saved>> /\ pc # "copy"
    BY <1>1 DEF SyncRefuses, SyncCheckout, SyncCommit, SyncApply, SyncMisses
  <2>2. cut' = cut
    BY <1>1 DEF SyncRefuses, SyncCheckout, SyncCommit, SyncApply, SyncMisses
  <2>3. QED
    BY <1>q, <2>1, <2>2
<1>2. CASE RefreshNothing \/ BumpFails \/ BumpLock \/ BumpReset \/ CheckVerdict
  BY <1>2, <1>q DEF RefreshNothing, BumpFails, BumpLock, BumpReset, CheckVerdict
<1>3. CASE RefreshWipe \/ \E p \in Paths : RefreshCopy(p)
  <2>1. pc' = "copy" /\ UNCHANGED <<saved, cut>>
    BY <1>3 DEF RefreshWipe, RefreshCopy
  <2>2. QED
    BY <2>1 DEF LoneInv
<1>4. CASE RefreshWrite
  <2>1. manifest' = NewManifest /\ Changed # {} /\ UNCHANGED <<saved, cut>>
    BY <1>4 DEF RefreshWrite, RefreshInv, HalfCopied
  <2>2. \A p \in Changed : RowOf(p) # Absent
    BY RowType
  <2>3. Listed(manifest') # {}
    BY <2>1, <2>2 DEF Listed, NewManifest, Changed
  <2>4. QED
    BY <2>1, <2>3 DEF LoneInv, Lone
<1>5. ASSUME NEW p \in Paths, BumpMerge(p) PROVE LoneInv'
  <2>1. p \in Listed(manifest) /\ UNCHANGED <<manifest, saved, cut>>
    BY <1>5 DEF BumpMerge, Running
  <2>2. QED
    BY <2>1 DEF LoneInv, Lone
<1>6. CASE SyncStart \/ RefreshStart \/ CheckStart \/ \E c \in Commits : BumpStart(c)
  BY <1>6, <1>q DEF SyncStart, RefreshStart, CheckStart, BumpStart
<1>7. ASSUME NEW p \in Paths, EditFile(p) \/ CreateFile(p) \/ DeleteFile(p) \/ RevertFile(p)
      PROVE  LoneInv'
  BY <1>7, <1>q DEF EditFile, CreateFile, DeleteFile, RevertFile, Edit
<1>8. ASSUME NEW p \in Paths, ResolveConflict(p) PROVE LoneInv'
  <2>1. /\ overlay[p] # Absent /\ UNCHANGED <<manifest, saved, cut>> /\ pc = "idle"
    BY <1>8 DEF ResolveConflict, Marked
  <2>2. QED
    BY <2>1 DEF LoneInv, Lone
<1>9. ASSUME NEW p \in Paths, DropFile(p) PROVE LoneInv'
  <2>1. /\ overlay[p] # Absent /\ UNCHANGED <<manifest, saved, cut>> /\ pc = "idle"
    BY <1>9 DEF DropFile
  <2>2. QED
    BY <2>1 DEF LoneInv, Lone
<1>10. CASE RestoreOverlay
  BY <1>10 DEF RestoreOverlay, LoneInv, Lone
<1>11. CASE CommitCheckout \/ DeleteCheckout
  BY <1>11, <1>q DEF CommitCheckout, DeleteCheckout
<1>12. CASE Publish
  <2>1. saved'.overlay = overlay /\ saved'.manifest = manifest /\ pc = "idle"
    BY <1>12 DEF Publish
  <2>2. UNCHANGED <<overlay, manifest, cut>>
    BY <1>12 DEF Publish
  <2>3. QED
    BY <2>1, <2>2 DEF LoneInv, Lone
<1>13. CASE Crash
  BY <1>13 DEF Crash, LoneInv, Lone
<1>14. CASE UNCHANGED vars
  BY <1>14 DEF vars, LoneInv, Lone
<1>15. QED
  BY <1>1, <1>2, <1>3, <1>4, <1>5, <1>6, <1>7, <1>8, <1>9, <1>10, <1>11, <1>12, <1>13, <1>14
  DEF Next, Script, Start, Person
-----------------------------------------------------------------------------
LEMMA InitIInv == Init => IInv
BY InitTypeInv, InitSyncInv, InitRefreshInv, InitCheckInv, InitBumpInv
   DEF IInv, Init, Running, LoneInv, Lone, Empty

LEMMA NextIInv == IInv /\ [Next]_vars => IInv'
BY NextTypeInv, NextSyncInv, NextRefreshInv, NextCheckInv, NextBumpInv, NextLoneInv DEF IInv

(* The variables keep their types, whatever upstream, the scripts and the    *)
(* people do.                                                                *)
THEOREM TypeCorrect == Spec => []TypeInv
<1>1. IInv => TypeInv
  BY DEF IInv
<1>2. QED
  BY <1>1, InitIInv, NextIInv, PTL DEF Spec

(* SyncedTree: whatever was interrupted before, sync.sh that ends well leaves *)
(* a clean checkout that is the pin with the overlay laid over it.           *)
THEOREM SyncedTreeHolds == Spec => []SyncedTree
<1>1. IInv => SyncedTree
  BY DEF IInv, SyncInv
<1>2. QED
  BY <1>1, InitIInv, NextIInv, PTL DEF Spec

(* RefreshRoundTrip: refresh.sh and sync.sh are inverse.                     *)
THEOREM RefreshRoundTripHolds == Spec => []RefreshRoundTrip
<1>1. IInv => RefreshRoundTrip
  BY DEF IInv, RefreshInv
<1>2. QED
  BY <1>1, InitIInv, NextIInv, PTL DEF Spec

(* BumpIsMerge: a bump that ends well, from an overlay in line with its pin, *)
(* has lost no change of ours and none of upstream's.                        *)
THEOREM BumpIsMergeHolds == Spec => []BumpIsMerge
<1>1. IInv => BumpIsMerge
  BY DEF IInv, BumpInv
<1>2. QED
  BY <1>1, InitIInv, NextIInv, PTL DEF Spec

(* PublishedApplies: what check-overlay.sh let through applies to its pin,   *)
(* and every file in it has its row unless a refresh.sh was interrupted      *)
(* between its rm -rf and its last command.                                  *)
THEOREM PublishedAppliesHolds == Spec => []PublishedApplies
<1>1. IInv => PublishedApplies
  <2> SUFFICES ASSUME IInv PROVE PublishedApplies
    OBVIOUS
  <2> DEFINE m == saved.manifest
             o == saved.overlay
  <2>1. CASE Listed(m) = {}
    <3>1. InLine(saved.lock, o, m)
      BY <2>1 DEF InLine
    <3>2. FilesAgree(o, m) \/ cut
      BY <2>1 DEF IInv, LoneInv, Lone, FilesAgree, Listed
    <3>3. QED
      BY <2>1, <3>1, <3>2 DEF PublishedApplies
  <2>2. CASE Listed(m) # {}
    BY <2>2 DEF IInv, CheckInv, Applies, PublishedApplies
  <2>3. QED
    BY <2>1, <2>2
<1>2. QED
  BY <1>1, InitIInv, NextIInv, PTL DEF Spec
=============================================================================
