----------------------------- MODULE OverlaySync -----------------------------
(***************************************************************************)
(* scripts/common.sh, sync.sh, refresh.sh, bump-upstream.sh and            *)
(* check-overlay.sh: a pinned upstream commit (upstream.lock), the files   *)
(* this project owns (overlay/ and its MANIFEST), and a checkout of        *)
(* upstream with the overlay committed on top, in which people work.       *)
(*                                                                         *)
(* The scripts are run one at a time by one person (or by the workflow),   *)
(* step by step, and may be interrupted between any two steps.  A file is  *)
(* a function from its hunks to lines; its blob is its content.            *)
(***************************************************************************)
EXTENDS Naturals, FiniteSets

CONSTANTS
  Paths,      \* paths of the upstream tree
  Hunks,      \* the places of a file a merge decides separately
  Last,       \* upstream's commits are 0 .. Last
  Tree,       \* Tree[c][p]: upstream's file p at commit c, or Absent
  Lines,      \* what a hunk can hold
  Ours,       \* the line people of this project write
  Marker,     \* a hunk with conflict markers in it
  Pinnable,   \* commits with all of REQUIRED_UPSTREAM_PATHS
  MaxEdits,   \* bound on the changes people make in the checkout
  Absent      \* no file, no row, the dash of a new file

Commits == 0 .. Last
Text    == [Hunks -> Lines]
File    == Text \cup {Absent}
Row     == [state : {"edit", "delete"}, blob : Text] \cup [state : {"new"}, blob : {Absent}]

ASSUME LastType     == Last \in Nat
ASSUME TreeType     == Tree \in [Commits -> [Paths -> File]]
ASSUME LinesType    == Ours \in Lines /\ Marker \in Lines /\ Ours # Marker
ASSUME PinnableType == Pinnable \subseteq Commits
ASSUME EditsType    == MaxEdits \in Nat
ASSUME AbsentType   == Absent \notin Text /\ Absent \notin Row
ASSUME UpstreamText == \A c \in Commits : \A p \in Paths : Tree[c][p] # Absent =>
                         \A h \in Hunks : Tree[c][p][h] \notin {Ours, Marker}

VARIABLES
  lock,      \* the commit in upstream.lock
  overlay,   \* the files under overlay/
  manifest,  \* overlay/MANIFEST: a row per path, Absent when it has none
  saved,     \* the repository's last commit: lock, overlay and manifest
  cloned,    \* $CHECKOUT/.git exists
  ready,     \* .checkout-ready exists
  head,      \* the tree of HEAD in the checkout
  work,      \* the working tree of the checkout
  pc,        \* the running script's next step, "idle" when none runs
  caller,    \* who started sync.sh: a person, bump-upstream.sh or check-overlay.sh
  rows,      \* the paths the running loop has not reached
  target,    \* NEW_COMMIT of the last bump
  failed,    \* conflicts, gone and collisions of the running bump
  bad,       \* check-overlay.sh: fail=1; sync.sh: drift=1
  done,      \* what the last script to end did, "none" once anything changed
  edits,     \* how often people changed the checkout
  pre,       \* history: the pin and the effective tree when a bump began
  cut        \* history: a refresh.sh was interrupted between rm -rf and MANIFEST

repoVars == <<lock, overlay, manifest>>
treeVars == <<cloned, ready, head, work>>
ctlVars  == <<pc, caller, rows, target, failed, bad>>
ghosts   == <<edits, pre, cut>>
vars     == <<repoVars, saved, treeVars, ctlVars, done, ghosts>>

Empty == [p \in Paths |-> Absent]

(* overlay_paths: the paths manifest_rows lists. *)
Listed(m) == {p \in Paths : m[p] # Absent}

(* The tree an overlay stands for: what sync.sh makes of a pin.              *)
Effective(c, o, m) ==
  [p \in Paths |-> IF m[p] = Absent THEN Tree[c][p]
                   ELSE IF m[p].state = "delete" THEN Absent ELSE o[p]]

(* sync.sh's drift test of one row against a pin.                            *)
Drifts(c, m, p) ==
  IF m[p].state = "new" THEN Tree[c][p] # Absent ELSE Tree[c][p] # m[p].blob

(* refresh.sh: what differs from the pin, and the rows that record it.       *)
Changed == {p \in Paths : work[p] # Tree[lock][p]}

RowOf(p) ==
  IF work[p] = Absent THEN [state |-> "delete", blob |-> Tree[lock][p]]
  ELSE IF Tree[lock][p] = Absent THEN [state |-> "new", blob |-> Absent]
  ELSE [state |-> "edit", blob |-> Tree[lock][p]]

(* git merge-file, one hunk.                                                 *)
MergeHunk(base, ours, theirs) ==
  CASE ours = base   -> theirs
    [] theirs = base -> ours
    [] ours = theirs -> ours
    [] OTHER         -> Marker

MergeFile(base, ours, theirs) ==
  [h \in Hunks |-> MergeHunk(base[h], ours[h], theirs[h])]

Marked(f) == f # Absent /\ \E h \in Hunks : f[h] = Marker

-----------------------------------------------------------------------------
Init ==
  /\ lock = 0 /\ overlay = Empty /\ manifest = Empty
  /\ saved = [lock |-> 0, overlay |-> Empty, manifest |-> Empty]
  /\ cloned = FALSE /\ ready = FALSE /\ head = Empty /\ work = Empty
  /\ pc = "idle" /\ caller = "person" /\ rows = {} /\ target = 0 /\ failed = {}
  /\ bad = FALSE /\ done = "none"
  /\ edits = 0 /\ pre = Absent /\ cut = FALSE

(* A script ends, with an error or not: its variables are gone.              *)
Ends(what) ==
  /\ pc' = "idle" /\ done' = what
  /\ caller' = "person" /\ rows' = {} /\ failed' = {} /\ bad' = FALSE
  /\ target' = IF what = "hands" THEN target ELSE 0
  /\ pre' = IF what = "bump" THEN pre ELSE Absent

(* A script goes on to the step at l.                                        *)
Goes(l) == pc' = l /\ UNCHANGED <<caller, failed, target, done, pre>>

-----------------------------------------------------------------------------
(* git clone --no-checkout: HEAD is upstream's tip, nothing in the tree.      *)
Clone ==
  /\ cloned' = TRUE
  /\ head' = IF cloned THEN head ELSE Tree[Last]
  /\ work' = IF cloned THEN work ELSE Empty

(* sync.sh up to the dirty check: it removes READY before it clones.          *)
SyncStart ==
  /\ pc = "idle"
  /\ Clone
  /\ ready' = (cloned /\ ready)
  /\ pc' = "sync" /\ caller' = "person" /\ bad' = FALSE /\ done' = "none" /\ pre' = Absent
  /\ UNCHANGED <<repoVars, saved, rows, target, failed, edits, cut>>

(* git status --porcelain: anything that differs from HEAD.                   *)
Dirty == work # head

(* sync.sh stops: bump-upstream.sh stops with it, check-overlay.sh notes it.  *)
SyncDies ==
  IF caller = "check" THEN Goes("verdict") /\ bad' = TRUE /\ rows' = {} ELSE Ends("failed")

(* sync.sh ends well: back to whoever started it.                             *)
SyncReturns ==
  CASE caller = "person" -> Ends("sync")
    [] caller = "bump"   -> Goes("refresh") /\ rows' = {} /\ bad' = FALSE
    [] caller = "check"  -> Goes("verdict") /\ rows' = {} /\ UNCHANGED bad

SyncRefuses ==
  /\ pc = "sync"
  /\ ready /\ Dirty
  /\ SyncDies
  /\ UNCHANGED <<repoVars, saved, treeVars, edits, cut>>

(* The mutant of Reset: a checkout that keeps what people changed.            *)
ResetKeeps(c) ==
  /\ head' = Tree[c]
  /\ work' = [p \in Paths |-> IF work[p] = head[p] THEN Tree[c][p] ELSE work[p]]

(* git checkout --force --detach: tracked files become the commit's, files    *)
(* git does not know stay.                                                    *)
Reset(c) ==
  /\ head' = Tree[c]
  /\ work' = [p \in Paths |-> IF head[p] = Absent /\ Tree[c][p] = Absent
                              THEN work[p] ELSE Tree[c][p]]

SyncCheckout ==
  /\ pc = "sync"
  /\ ~(ready /\ Dirty)
  /\ Reset(lock)
  /\ ready' = TRUE
  /\ IF Listed(manifest) = {}
       THEN SyncReturns
       ELSE Goes("apply") /\ rows' = Listed(manifest) /\ UNCHANGED bad
  /\ UNCHANGED <<repoVars, saved, cloned, edits, cut>>

(* What one row leaves in the tree: a copy, or nothing.                       *)
Applied(p) == IF manifest[p].state = "delete" THEN Absent ELSE overlay[p]

SyncApply(p) ==
  /\ pc = "apply" /\ p \in rows
  /\ manifest[p].state = "delete" \/ overlay[p] # Absent
  /\ work' = [work EXCEPT ![p] = Applied(p)]
  /\ rows' = rows \ {p}
  /\ bad'  = (bad \/ Drifts(lock, manifest, p))
  /\ UNCHANGED <<repoVars, saved, cloned, ready, head, pc, caller, target, failed, done, ghosts>>

(* MANIFEST lists a file overlay/ does not have.                              *)
SyncMisses(p) ==
  /\ pc = "apply" /\ p \in rows
  /\ manifest[p].state # "delete" /\ overlay[p] = Absent
  /\ SyncDies
  /\ UNCHANGED <<repoVars, saved, treeVars, edits, cut>>

(* git add -A and commit, which fails when there is nothing to commit.        *)
SyncCommit ==
  /\ pc = "apply" /\ rows = {}
  /\ IF Dirty THEN head' = work /\ SyncReturns
              ELSE SyncDies /\ UNCHANGED head
  /\ UNCHANGED <<repoVars, saved, cloned, ready, work, edits, cut>>

-----------------------------------------------------------------------------
(* refresh.sh, started by a person.                                           *)
RefreshStart ==
  /\ pc = "idle" /\ cloned
  /\ pc' = "refresh" /\ caller' = "person" /\ done' = "none" /\ pre' = Absent
  /\ UNCHANGED <<repoVars, saved, treeVars, rows, target, failed, bad, edits, cut>>

(* The last step of a refresh, and of a bump.                                 *)
RefreshReturns == Ends(IF caller = "bump" THEN "bump" ELSE "refresh")

(* Nothing differs from the pin: overlay left alone.                          *)
RefreshNothing ==
  /\ pc = "refresh" /\ Changed = {}
  /\ Ends(IF caller = "bump" THEN "bump" ELSE "alone")
  /\ UNCHANGED <<repoVars, saved, treeVars, edits, cut>>

(* rm -rf overlay, MANIFEST included.                                         *)
RefreshWipe ==
  /\ pc = "refresh" /\ Changed # {}
  /\ overlay' = Empty /\ manifest' = Empty
  /\ rows' = Changed
  /\ pc' = "copy"
  /\ UNCHANGED <<lock, saved, treeVars, caller, target, failed, bad, done, edits, pre, cut>>

RefreshCopy(p) ==
  /\ pc = "copy" /\ p \in rows
  /\ overlay' = [overlay EXCEPT ![p] = work[p]]
  /\ rows' = rows \ {p}
  /\ UNCHANGED <<lock, manifest, saved, treeVars, pc, caller, target, failed, bad, done, ghosts>>

(* The mutant of NewManifest: deletions leave no row.                         *)
NewManifestNoDelete ==
  [p \in Paths |-> IF p \in Changed /\ work[p] # Absent THEN RowOf(p) ELSE Absent]

NewManifest == [p \in Paths |-> IF p \in Changed THEN RowOf(p) ELSE Absent]

RefreshWrite ==
  /\ pc = "copy" /\ rows = {}
  /\ manifest' = NewManifest
  /\ RefreshReturns
  /\ UNCHANGED <<lock, overlay, saved, treeVars, edits, cut>>

-----------------------------------------------------------------------------
(* The overlay is in line with the pin: no drift, no file missing, no marker. *)
InLine(c, o, m) ==
  \A p \in Listed(m) :
    /\ ~Drifts(c, m, p)
    /\ m[p].state # "delete" => o[p] # Absent /\ ~Marked(o[p])

(* bump-upstream.sh: clone (READY stays), fetch, pick c, assert_pinnable,     *)
(* then the already-pinned check.  The bound c >= lock keeps the pin moving   *)
(* forward; the script takes any commit.                                      *)
BumpStart(c) ==
  /\ pc = "idle" /\ c >= lock
  /\ Clone
  /\ IF c \notin Pinnable THEN Ends("failed")
     ELSE IF c = lock     THEN Ends("pinned")
     ELSE /\ pc' = "merge" /\ caller' = "bump" /\ done' = "none"
          /\ rows' = Listed(manifest) /\ target' = c /\ failed' = {} /\ bad' = FALSE
          /\ pre' = IF InLine(lock, overlay, manifest)
                    THEN [lock |-> lock, tree |-> Effective(lock, overlay, manifest)]
                    ELSE Absent
  /\ UNCHANGED <<repoVars, saved, ready, edits, cut>>

(* A new file upstream has now too, or a file of ours upstream has dropped.   *)
Lost(p) == (manifest[p].state = "new") = (Tree[target][p] # Absent)

(* Upstream did not move the file, or we delete it anyway.                    *)
Untouched(p) ==
  manifest[p].state \in {"new", "delete"} \/ Tree[target][p] = manifest[p].blob

(* The mutant of Merged: the base and our side in each other's place.       *)
MergedSwapped(p) == MergeFile(overlay[p], manifest[p].blob, Tree[target][p])

Merged(p) == MergeFile(manifest[p].blob, overlay[p], Tree[target][p])

(* One row of the merge loop.  The merge rewrites the file in overlay/.       *)
BumpMerge(p) ==
  /\ pc = "merge" /\ p \in rows
  /\ rows' = rows \ {p}
  /\ IF Lost(p) \/ (~Untouched(p) /\ overlay[p] = Absent)
       THEN failed' = failed \cup {p} /\ UNCHANGED overlay
     ELSE IF Untouched(p)
       THEN UNCHANGED <<failed, overlay>>
     ELSE /\ overlay' = [overlay EXCEPT ![p] = Merged(p)]
          /\ failed' = IF Marked(Merged(p)) THEN failed \cup {p} ELSE failed
  /\ UNCHANGED <<lock, manifest, saved, treeVars, pc, caller, target, bad, done, ghosts>>

(* "The bump needs hands. upstream.lock has not been changed."                *)
BumpFails ==
  /\ pc = "merge" /\ rows = {} /\ failed # {}
  /\ Ends("hands")
  /\ UNCHANGED <<repoVars, saved, treeVars, edits, cut>>

BumpLock ==
  /\ pc = "merge" /\ rows = {} /\ failed = {}
  /\ lock' = target
  /\ pc' = "reset"
  /\ UNCHANGED <<overlay, manifest, saved, treeVars, caller, rows, target, failed, bad, done, ghosts>>

(* git checkout --force NEW_COMMIT, git clean -qfd, then sync.sh as a child.  *)
BumpReset ==
  /\ pc = "reset"
  /\ head' = Tree[target] /\ work' = Tree[target]
  /\ pc' = "sync" /\ bad' = FALSE
  /\ UNCHANGED <<repoVars, saved, cloned, ready, caller, rows, target, failed, done, ghosts>>

-----------------------------------------------------------------------------
(* check-overlay.sh, part 1: a file is there exactly when a row says so.      *)
FilesAgree(o, m) ==
  \A p \in Paths : (m[p] # Absent /\ m[p].state # "delete") <=> o[p] # Absent

(* The mutant of StaticallyBad: no grep for conflict markers.                 *)
StaticallyBadFiles == Listed(manifest) # {} /\ ~FilesAgree(overlay, manifest)

(* Parts 1 and 2; an empty manifest skips both.                               *)
StaticallyBad ==
  Listed(manifest) # {} /\ (~FilesAgree(overlay, manifest) \/ \E p \in Paths : Marked(overlay[p]))

(* Part 3 starts sync.sh.                                                     *)
CheckStart ==
  /\ pc = "idle"
  /\ bad' = StaticallyBad
  /\ Clone
  /\ ready' = (cloned /\ ready)
  /\ pc' = "sync" /\ caller' = "check" /\ done' = "none" /\ pre' = Absent
  /\ UNCHANGED <<repoVars, saved, rows, target, failed, edits, cut>>

CheckVerdict ==
  /\ pc = "verdict"
  /\ Ends(IF bad THEN "failed" ELSE "checked")
  /\ UNCHANGED <<repoVars, saved, treeVars, edits, cut>>

-----------------------------------------------------------------------------
(* People.  They edit, create, delete and revert files of the checkout and    *)
(* commit there; resolve conflicts in overlay/; throw a half merged overlay   *)
(* away; delete the checkout; and merge what check-overlay.sh passed.  They   *)
(* work in a checkout sync.sh has populated.                                  *)
Edit(p, f) ==
  /\ pc = "idle" /\ cloned /\ ready /\ edits < MaxEdits
  /\ f # work[p]
  /\ work' = [work EXCEPT ![p] = f]
  /\ edits' = edits + 1
  /\ done' = "none"
  /\ UNCHANGED <<repoVars, saved, cloned, ready, head, ctlVars, pre, cut>>

EditFile(p) ==
  \E h \in Hunks : work[p] # Absent /\ Edit(p, [work[p] EXCEPT ![h] = Ours])
CreateFile(p) == work[p] = Absent /\ Edit(p, [h \in Hunks |-> Ours])
DeleteFile(p) == Edit(p, Absent)
RevertFile(p) == Edit(p, Tree[lock][p])

CommitCheckout ==
  /\ pc = "idle" /\ cloned /\ Dirty /\ edits < MaxEdits
  /\ head' = work
  /\ edits' = edits + 1
  /\ done' = "none"
  /\ UNCHANGED <<repoVars, saved, cloned, ready, work, ctlVars, pre, cut>>

ResolveConflict(p) ==
  /\ pc = "idle" /\ target # 0 /\ Marked(overlay[p])
  /\ \E l \in {Ours} \cup {Tree[target][p][h] : h \in {h \in Hunks : Tree[target][p] # Absent}} :
       overlay' = [overlay EXCEPT ![p] = [h \in Hunks |-> IF @[h] = Marker THEN l ELSE @[h]]]
  /\ done' = "none"
  /\ UNCHANGED <<lock, manifest, saved, treeVars, ctlVars, edits, pre, cut>>

(* "Changes drop out by deleting a file from overlay/ and rerunning           *)
(* refresh.sh" (docs/upstream.md:73): the first half of that advice.          *)
DropFile(p) ==
  /\ pc = "idle" /\ overlay[p] # Absent /\ edits < MaxEdits
  /\ overlay' = [overlay EXCEPT ![p] = Absent]
  /\ edits' = edits + 1
  /\ done' = "none"
  /\ UNCHANGED <<lock, manifest, saved, treeVars, ctlVars, pre, cut>>

(* git checkout -- overlay/, as the failed bump suggests.                     *)
RestoreOverlay ==
  /\ pc = "idle" /\ done = "hands"
  /\ overlay' = saved.overlay /\ manifest' = saved.manifest
  /\ done' = "none"
  /\ UNCHANGED <<lock, saved, treeVars, ctlVars, edits, pre, cut>>

(* rm -rf .upstream, or only .upstream/modular, which leaves READY.           *)
DeleteCheckout ==
  /\ pc = "idle" /\ cloned
  /\ cloned' = FALSE /\ ready' \in {ready, FALSE}
  /\ head' = Empty /\ work' = Empty
  /\ done' = "none"
  /\ UNCHANGED <<repoVars, saved, ctlVars, ghosts>>

(* A pull request CI passed is merged.                                        *)
Publish ==
  /\ pc = "idle" /\ done = "checked"
  /\ saved' = [lock |-> lock, overlay |-> overlay, manifest |-> manifest]
  /\ UNCHANGED <<repoVars, treeVars, ctlVars, done, ghosts>>

(* The running script is interrupted, or loses the network.                   *)
Crash ==
  /\ pc # "idle"
  /\ Ends("crash")
  /\ cut' = (cut \/ pc = "copy")
  /\ UNCHANGED <<repoVars, saved, treeVars, edits>>

Script ==
  \/ SyncRefuses \/ SyncCheckout \/ SyncCommit
  \/ \E p \in Paths : SyncApply(p) \/ SyncMisses(p)
  \/ RefreshNothing \/ RefreshWipe \/ RefreshWrite
  \/ \E p \in Paths : RefreshCopy(p)
  \/ \E p \in Paths : BumpMerge(p)
  \/ BumpFails \/ BumpLock \/ BumpReset
  \/ CheckVerdict

Start == SyncStart \/ RefreshStart \/ CheckStart \/ \E c \in Commits : BumpStart(c)

Person ==
  \/ \E p \in Paths : EditFile(p) \/ CreateFile(p) \/ DeleteFile(p) \/ RevertFile(p)
  \/ \E p \in Paths : ResolveConflict(p) \/ DropFile(p)
  \/ CommitCheckout \/ RestoreOverlay \/ DeleteCheckout \/ Publish

Next == Script \/ Start \/ Person \/ Crash

Spec == Init /\ [][Next]_vars

-----------------------------------------------------------------------------
PCs   == {"idle", "sync", "apply", "refresh", "copy", "merge", "reset", "verdict"}
Dones == {"none", "sync", "refresh", "alone", "bump", "pinned", "hands", "checked",
          "failed", "crash"}
FileTree == [Paths -> File]
Manifests == [Paths -> Row \cup {Absent}]

(* When sync.sh says "done", the checkout is clean and is the pin with the    *)
(* overlay laid over it, whatever was interrupted before (sync.sh:8-10).      *)
SyncedTree ==
  done = "sync" => work = head /\ work = Effective(lock, overlay, manifest)

(* When refresh.sh has written the overlay, laying it over the pin again      *)
(* gives the tree it was taken from, and sync.sh will report no drift: the    *)
(* two scripts are inverse (refresh.sh:2-12, docs/upstream.md:59-61).  A file *)
(* deleted from overlay/ but not from the checkout is taken again with the    *)
(* rest, which is not what docs/upstream.md:73 says: see DropsOut.            *)
RefreshRoundTrip ==
  done = "refresh" => /\ work = Effective(lock, overlay, manifest)
                      /\ \A p \in Listed(manifest) : ~Drifts(lock, manifest, p)

(* What a bump should make of one file: upstream's where we did not change    *)
(* it, ours where upstream did not, nothing where we delete it; and where     *)
(* both changed it, the same rule for each hunk, both having agreed otherwise. *)
IsMerge(base, ours, theirs, f) ==
  IF ours = base THEN f = theirs
  ELSE IF theirs = base \/ ours = Absent THEN f = ours
  ELSE \A h \in Hunks : /\ ours[h] = base[h] => f[h] = theirs[h]
                        /\ ours[h] # base[h] => f[h] = ours[h] /\ theirs[h] \in {base[h], ours[h]}

(* A bump that started from an overlay in line with its pin and ended well    *)
(* has merged every file: no change of ours and none of upstream's is lost,   *)
(* through the merge, the nested sync.sh and the nested refresh.sh            *)
(* (bump-upstream.sh:16-22).                                                  *)
BumpIsMerge ==
  done = "bump" /\ pre # Absent =>
    /\ \A p \in Paths : IsMerge(Tree[pre.lock][p], pre.tree[p], Tree[lock][p],
                               Effective(lock, overlay, manifest)[p])
    /\ InLine(lock, overlay, manifest)

(* What check-overlay.sh let through applies to its pin: every row has its    *)
(* file, no drift, no conflict marker, and when there are rows there is       *)
(* something to commit, so that sync.sh succeeds in a fresh clone; and every  *)
(* file has its row (check-overlay.sh:2-4).  The one exception is an overlay  *)
(* whose MANIFEST lists nothing, left by a refresh.sh that was interrupted    *)
(* between its rm -rf and its last command: check-overlay.sh skips its first  *)
(* part for that one.                                                         *)
PublishedApplies ==
  LET m == saved.manifest  o == saved.overlay  c == saved.lock IN
  /\ InLine(c, o, m)
  /\ Listed(m) # {} => Effective(c, o, m) # Tree[c]
  /\ FilesAgree(o, m) \/ (cut /\ Listed(m) = {})

(* What check-overlay.sh:18-20 says its first part stops: "a file present but *)
(* unlisted is worse, because it looks like it is being applied and is not".  *)
EveryFileListed == \A p \in Paths : saved.overlay[p] # Absent => saved.manifest[p] # Absent

(* "Changes drop out by deleting a file from overlay/ and rerunning           *)
(* refresh.sh" (docs/upstream.md:73): a file MANIFEST lists and overlay/ does *)
(* not have any more is not among those refresh.sh goes on to write.          *)
Dropped(p) == manifest[p] # Absent /\ manifest[p].state # "delete" /\ overlay[p] = Absent

DropsOut ==
  [][\A p \in Paths :
       pc = "refresh" /\ pc' = "copy" /\ caller = "person" /\ Dropped(p) => p \notin rows']_vars

(* Nothing published puts back a line upstream has replaced ("silently        *)
(* reverts whatever upstream did to a file we also changed, and nothing tells *)
(* you", common.sh:46-47).                                                    *)
NoRevert ==
  LET t == Effective(saved.lock, saved.overlay, saved.manifest) IN
  \A p \in Paths, c \in Commits : c < saved.lock =>
    \A h \in Hunks :
      t[p] # Absent /\ Tree[saved.lock][p] # Absent /\ Tree[c][p] # Absent
        /\ t[p][h] # Tree[saved.lock][p][h] => t[p][h] # Tree[c][p][h]
=============================================================================
