--------------------------- MODULE MojoToolsProofs ---------------------------
(***************************************************************************)
(* Theorems about the tools: MojoTools, for any number of processes and     *)
(* output paths and whatever each process is asked for; LinkOutput, for any *)
(* link and any list of -Xlinker arguments; PackageBuild, for any package.  *)
(***************************************************************************)
EXTENDS MojoTools, LinkOutput, PackageBuild, FiniteSetTheorems, NaturalsInduction,
        WellFoundedInduction, TLAPS

Steps == {"args", "open", "parse", "package", "pipeline", "emit", "archive", "execute", "link",
          "temporaries", "linker", "ended", "killed"}

Images == {Absent, Old, Mixed} \cup {Half(p) : p \in Tools} \cup {Whole(p) : p \in Tools}

TypeInv ==
  /\ asked \in [Tools -> Invocations]
  /\ step \in [Tools -> Steps]
  /\ disk \in [Paths -> Images]
  /\ temps \subseteq Tools \X {"archive", "manifest"}
  /\ code \in [Tools -> {0, 1}]

(* Which command can be at which step, and what it has found out by then.    *)
Place(p) ==
  /\ step[p] \notin {"args", "ended", "killed"} => ~asked[p].tells
  /\ step[p] \notin {"args", "parse", "ended", "killed"} /\ ~(step[p] = "open" /\ asked[p].cmd = "precompile")
       => ~asked[p].fixit
  /\ step[p] \in {"open", "emit"} =>
       asked[p].cmd = "precompile" \/ (asked[p].cmd = "build" /\ Textual(p))
  /\ step[p] = "package" => asked[p].cmd = "precompile"
  /\ step[p] \in {"pipeline", "archive"} => asked[p].cmd # "precompile"
  /\ step[p] = "archive" => ~(asked[p].cmd = "build" /\ Textual(p))
  /\ step[p] = "execute" => asked[p].cmd = "run"
  /\ step[p] \in {"link", "temporaries", "linker"} => asked[p].cmd = "build" /\ ~Textual(p)

Archived(p) == {Temp(p, "archive")}

(* The temporary files a process has, by the step it is at.                  *)
TempsRight(p) ==
  /\ step[p] \notin {"temporaries", "linker", "killed"} => Mine(p) = {}
  /\ step[p] = "temporaries" => Mine(p) = Archived(p)
  /\ step[p] = "linker" =>
       Mine(p) = Archived(p) \cup (IF NeedsManifest(p) THEN {Temp(p, "manifest")} ELSE {})

(* A half-written output belongs to a process that has it open, or was       *)
(* killed.                                                                   *)
HalfOpen(p) ==
  \A f \in Paths : disk[f] = Half(p) => f = Out(p) /\ (Opened(p) \/ step[p] = "killed")

(* The output path of a process that shares it with nobody.                  *)
Outcome(p) ==
  /\ code[p] = 0 /\ Makes(p) => disk[Out(p)] = Whole(p)
  /\ code[p] = 1 /\ asked[p].cmd = "build" /\ ~Textual(p) /\ ~asked[p].dsym => disk[Out(p)] \in {Old, Absent}
  /\ code[p] = 1 /\ ~asked[p].werror /\ asked[p].cmd = "precompile" => disk[Out(p)] \in {Old, Absent}
  /\ asked[p].cmd = "run" \/ asked[p].tells => disk[Out(p)] = Old

Private(p) ==
  ~Shares(p) =>
    /\ Opened(p) => disk[Out(p)] = Half(p)
    /\ ~Opened(p) /\ step[p] \notin {"ended", "killed"} => disk[Out(p)] = Old
    /\ step[p] = "ended" => Outcome(p)

Right(p) == Place(p) /\ TempsRight(p) /\ HalfOpen(p) /\ Private(p)
IInv == TypeInv /\ \A p \in Tools : Right(p)
-----------------------------------------------------------------------------
Act(q) ==
  \/ ParseArgs(q) \/ OpenOutput(q) \/ Parse(q) \/ Package(q) \/ Pipeline(q) \/ Emit(q) \/ Archive(q)
  \/ Execute(q) \/ LinkStep(q) \/ WriteManifest(q) \/ RunTheLinker(q) \/ Kill(q)

(* The contents a file can have are told apart.                              *)
LEMMA ImagesDiffer ==
  /\ \A p, q : /\ Half(p) = Half(q) => p = q
               /\ Half(p) # Whole(q) /\ Half(p) # Absent /\ Half(p) # Old /\ Half(p) # Mixed
               /\ Whole(p) # Absent /\ Whole(p) # Old /\ Whole(p) # Mixed
  /\ Absent # Old /\ Absent # Mixed /\ Old # Mixed
<1>1. ASSUME NEW p, NEW q
      PROVE  /\ Half(p) = Half(q) => p = q
             /\ Half(p) # Whole(q) /\ Half(p) # Absent /\ Half(p) # Old /\ Half(p) # Mixed
             /\ Whole(p) # Absent /\ Whole(p) # Old /\ Whole(p) # Mixed
  <2>1. Half(p)[1] = "half" /\ Half(p)[2] = p /\ Half(q)[2] = q /\ Whole(q)[1] = "whole" /\ Whole(p)[1] = "whole"
    BY DEF Half, Whole
  <2>2. Absent[1] = "absent" /\ Old[1] = "old" /\ Mixed[1] = "mixed"
    BY DEF Absent, Old, Mixed
  <2>3. QED
    BY <2>1, <2>2
<1>2. Absent # Old /\ Absent # Mixed /\ Old # Mixed
  BY DEF Absent, Old, Mixed
<1>3. QED
  BY <1>1, <1>2

(* What an invocation is.                                                    *)
LEMMA AskedType ==
  ASSUME TypeInv, NEW p \in Tools
  PROVE  /\ asked[p].cmd \in {"build", "precompile", "run"} /\ Out(p) \in Paths
         /\ asked[p].tells \in BOOLEAN /\ asked[p].fixit \in BOOLEAN
         /\ asked[p].werror \in BOOLEAN /\ asked[p].dsym \in BOOLEAN
BY InvocationType DEF TypeInv, Out

(* The step of q leaves p alone.                                             *)
LeavesAlone(p, q) ==
  /\ step'[p] = step[p] /\ code'[p] = code[p] /\ Mine(p)' = Mine(p)
  /\ \A f \in Paths : f # Out(q) => disk'[f] = disk[f]
  /\ disk' # disk => Touches(q)
  /\ \A f \in Paths : disk'[f] = Half(p) => disk[f] = Half(p)

(* A process that ends changes nothing of another.                           *)
LEMMA EndsAlone ==
  ASSUME TypeInv, NEW q \in Tools, Place(q), NEW c \in {0, 1}, Ends(q, c)
  PROVE  TypeInv' /\ asked' = asked /\ \A p \in Tools : p # q => LeavesAlone(p, q)
<1>1. TypeInv'
  BY AskedType DEF TypeInv, Ends, Images, Steps
<1>2. Opened(q) => Touches(q)
  BY AskedType DEF Opened, Touches, Place
<1>3. ASSUME NEW p \in Tools, p # q PROVE LeavesAlone(p, q)
  <2>1. step'[p] = step[p] /\ code'[p] = code[p]
    BY <1>3 DEF TypeInv, Ends
  <2>2. Mine(p)' = Mine(p)
    BY <1>3 DEF Ends, Mine
  <2>3. CASE Opened(q)
    BY <1>2, <2>1, <2>2, <2>3, ImagesDiffer DEF Ends, TypeInv, LeavesAlone
  <2>4. CASE ~Opened(q)
    BY <2>1, <2>2, <2>4 DEF Ends, LeavesAlone
  <2>5. QED
    BY <2>3, <2>4
<1>4. QED
  BY <1>1, <1>3 DEF Ends

(* Nor does one that ends and leaves something at its output path.           *)
LEMMA LeavesOutputAlone ==
  ASSUME TypeInv, NEW q \in Tools, Touches(q), NEW c \in {0, 1},
         NEW i \in {Whole(q), Absent, Mixed}, Leaves(q, i, c)
  PROVE  TypeInv' /\ asked' = asked /\ \A p \in Tools : p # q => LeavesAlone(p, q)
<1>1. TypeInv'
  BY AskedType DEF TypeInv, Leaves, Images, Steps
<1>2. ASSUME NEW p \in Tools, p # q PROVE LeavesAlone(p, q)
  <2>1. step'[p] = step[p] /\ code'[p] = code[p]
    BY <1>2 DEF TypeInv, Leaves
  <2>2. Mine(p)' = Mine(p)
    BY <1>2 DEF Leaves, Mine
  <2>3. QED
    BY <2>1, <2>2, ImagesDiffer DEF Leaves, TypeInv, LeavesAlone
<1>3. QED
  BY <1>1, <1>2 DEF Leaves

(* Nor does one that goes on.                                                *)
LEMMA GoesOnAlone ==
  ASSUME TypeInv, NEW q \in Tools, NEW s \in Steps, Proceed(q, s),
         disk' = disk \/ (Touches(q) /\ disk' = [disk EXCEPT ![Out(q)] = Half(q)]),
         NEW t \in SUBSET {Temp(q, "archive"), Temp(q, "manifest")}, temps' = temps \cup t
  PROVE  TypeInv' /\ asked' = asked /\ \A p \in Tools : p # q => LeavesAlone(p, q)
<1>1. TypeInv'
  <2>1. disk' \in [Paths -> Images]
    BY AskedType DEF TypeInv, Images
  <2>2. temps' \subseteq Tools \X {"archive", "manifest"}
    BY DEF TypeInv, Temp
  <2>3. QED
    BY <2>1, <2>2 DEF TypeInv, Proceed
<1>2. ASSUME NEW p \in Tools, p # q PROVE LeavesAlone(p, q)
  <2>1. step'[p] = step[p] /\ code'[p] = code[p]
    BY <1>2 DEF TypeInv, Proceed
  <2>2. Mine(p)' = Mine(p)
    BY <1>2 DEF Mine, Temp
  <2>3. QED
    BY <1>2, <2>1, <2>2, ImagesDiffer DEF TypeInv, LeavesAlone
<1>3. QED
  BY <1>1, <1>2 DEF Proceed

(* A process that is left alone stays right.                                 *)
LEMMA AloneStaysRight ==
  ASSUME TypeInv, NEW p \in Tools, NEW q \in Tools, p # q, LeavesAlone(p, q), asked' = asked, Right(p)
  PROVE  Right(p)'
<1>1. /\ Out(p)' = Out(p) /\ (Textual(p) <=> Textual(p)') /\ (Opened(p) <=> Opened(p)')
      /\ (Shares(p) <=> Shares(p)') /\ (Makes(p) <=> Makes(p)') /\ (NeedsManifest(p) <=> NeedsManifest(p)')
  BY DEF LeavesAlone, Out, Textual, Opened, Shares, Touches, Makes, NeedsManifest
<1>2. Place(p)'
  BY <1>1 DEF LeavesAlone, Right, Place
<1>3. TempsRight(p)'
  BY <1>1 DEF LeavesAlone, Right, TempsRight, Archived, Temp
<1>4. HalfOpen(p)'
  BY <1>1 DEF LeavesAlone, Right, HalfOpen
<1>5. ASSUME ~Shares(p) PROVE disk'[Out(p)] = disk[Out(p)]
  <2>1. CASE disk' = disk
    BY <2>1
  <2>2. CASE disk' # disk
    <3>1. Out(q) # Out(p)
      BY <1>5, <2>2 DEF LeavesAlone, Shares
    <3>2. QED
      BY <3>1, AskedType DEF LeavesAlone
  <2>3. QED
    BY <2>1, <2>2
<1>6. Private(p)'
  BY <1>1, <1>5 DEF LeavesAlone, Right, Private, Outcome
<1>7. QED
  BY <1>2, <1>3, <1>4, <1>6 DEF Right
-----------------------------------------------------------------------------
(* A step changes nothing about what any process was asked for.              *)
LEMMA AskedStays ==
  ASSUME asked' = asked, NEW p
  PROVE  /\ Out(p)' = Out(p) /\ (Textual(p) <=> Textual(p)')
         /\ (Shares(p) <=> Shares(p)') /\ (Touches(p) <=> Touches(p)')
         /\ (Makes(p) <=> Makes(p)') /\ (NeedsManifest(p) <=> NeedsManifest(p)')
BY DEF Out, Textual, Shares, Touches, Makes, NeedsManifest

(* A command that returns without output: it failed, or it had none to make. *)
LEMMA EndsRight ==
  ASSUME TypeInv, NEW q \in Tools, Right(q), step[q] \notin {"ended", "killed"},
         NEW c \in {0, 1}, Ends(q, c), c = 0 => ~Makes(q)
  PROVE  Right(q)'
<1>1. asked' = asked /\ step'[q] = "ended" /\ code'[q] = c /\ Mine(q)' = {} /\ Out(q) \in Paths
  BY AskedType DEF Ends, TypeInv, Mine
<1>2. ~Opened(q)'
  BY <1>1 DEF Opened
<1>3. Opened(q) => asked[q].cmd # "run" /\ ~asked[q].tells
  BY AskedType DEF Right, Place, Opened
<1>4. Place(q)' /\ TempsRight(q)'
  BY <1>1 DEF Place, TempsRight
<1>5. HalfOpen(q)'
  <2>1. \A f \in Paths : disk'[f] # Half(q)
    BY <1>1, ImagesDiffer DEF Ends, Right, HalfOpen, TypeInv
  <2>2. QED
    BY <2>1 DEF HalfOpen
<1>6. Private(q)'
  <2>1. SUFFICES ASSUME ~Shares(q) PROVE Outcome(q)'
    BY <1>1, <1>2, AskedStays DEF Private
  <2>2. disk'[Out(q)] = IF Opened(q) THEN Absent ELSE Old
    BY <1>1, <2>1 DEF Ends, Right, Private, TypeInv
  <2>3. QED
    BY <1>1, <1>3, <2>2, AskedStays DEF Outcome
<1>7. QED
  BY <1>4, <1>5, <1>6 DEF Right

(* A command that puts its output in place.                                  *)
LEMMA LeavesRight ==
  ASSUME TypeInv, NEW q \in Tools, Right(q), Touches(q), NEW c \in {0, 1},
         NEW i \in {Whole(q), Absent, Mixed}, Leaves(q, i, c),
         ~Shares(q) /\ c = 0 /\ Makes(q) => i = Whole(q),
         c = 1 /\ asked[q].cmd = "build" /\ ~Textual(q) /\ ~asked[q].dsym => i = Absent,
         ~(c = 1 /\ ~asked[q].werror /\ asked[q].cmd = "precompile")
  PROVE  Right(q)'
<1>1. /\ asked' = asked /\ step'[q] = "ended" /\ code'[q] = c /\ Mine(q)' = {} /\ Out(q) \in Paths
      /\ disk'[Out(q)] = i
  BY AskedType DEF Leaves, TypeInv, Mine
<1>2. ~Opened(q)'
  BY <1>1 DEF Opened
<1>3. Place(q)' /\ TempsRight(q)'
  BY <1>1 DEF Place, TempsRight
<1>4. HalfOpen(q)'
  <2>1. \A f \in Paths : disk'[f] # Half(q)
    BY <1>1, ImagesDiffer DEF Leaves, Right, HalfOpen, TypeInv
  <2>2. QED
    BY <2>1 DEF HalfOpen
<1>5. Private(q)'
  <2>1. SUFFICES ASSUME ~Shares(q) PROVE Outcome(q)'
    BY <1>1, <1>2, AskedStays DEF Private
  <2>2. QED
    BY <1>1, <2>1, AskedStays DEF Outcome, Touches
<1>6. QED
  BY <1>3, <1>4, <1>5 DEF Right

(* A command that goes on without touching a file.                           *)
LEMMA GoesOnRight ==
  ASSUME TypeInv, NEW q \in Tools, Right(q), step[q] \notin {"ended", "killed", "temporaries", "linker"},
         NEW s \in Steps \ {"ended", "killed", "temporaries", "linker"}, Proceed(q, s), UNCHANGED <<disk, temps>>,
         Place(q)', Opened(q)' <=> Opened(q)
  PROVE  Right(q)'
<1>1. asked' = asked /\ step'[q] = s /\ Mine(q)' = Mine(q)
  BY DEF Proceed, TypeInv, Mine
<1>2. TempsRight(q)'
  BY <1>1 DEF Right, TempsRight
<1>3. HalfOpen(q)'
  BY <1>1, AskedStays DEF Right, HalfOpen
<1>4. Private(q)'
  BY <1>1, AskedStays DEF Right, Private
<1>5. QED
  BY <1>2, <1>3, <1>4 DEF Right

(* What every step does: the acting process stays right, the others are left *)
(* alone.                                                                    *)
LEMMA ActRight ==
  ASSUME TypeInv, NEW q \in Tools, Right(q), Act(q)
  PROVE  /\ TypeInv' /\ asked' = asked /\ Right(q)'
         /\ \A p \in Tools : p # q => LeavesAlone(p, q)
<1> DEFINE Fine == /\ TypeInv' /\ asked' = asked /\ Right(q)'
                   /\ \A p \in Tools : p # q => LeavesAlone(p, q)
<1>t. Place(q) /\ step[q] \in Steps /\ Out(q) \in Paths /\ asked[q].cmd \in {"build", "precompile", "run"}
  BY AskedType DEF Right, TypeInv
<1>e. ASSUME NEW c \in {0, 1}, Ends(q, c), step[q] \notin {"ended", "killed"}, c = 0 => ~Makes(q)
      PROVE  Fine
  BY <1>e, <1>t, EndsAlone, EndsRight
<1>g. ASSUME NEW s \in Steps \ {"ended", "killed", "temporaries", "linker"}, Proceed(q, s), UNCHANGED <<disk, temps>>,
             step[q] \notin {"ended", "killed", "temporaries", "linker"},
             Place(q)', Opened(q)' <=> Opened(q)
      PROVE  Fine
  <2>1. temps' = temps \cup {} /\ {} \in SUBSET {Temp(q, "archive"), Temp(q, "manifest")}
    BY <1>g
  <2>2. TypeInv' /\ asked' = asked /\ \A p \in Tools : p # q => LeavesAlone(p, q)
    BY <1>g, <2>1, GoesOnAlone
  <2>3. QED
    BY <1>g, <2>2, GoesOnRight
<1>n. ASSUME NEW s \in Steps, Proceed(q, s) PROVE asked' = asked /\ step'[q] = s
  BY <1>n DEF Proceed, TypeInv
<1>1. CASE ParseArgs(q)
  <2>1. CASE Fails(q)
    BY <1>1, <1>e, <2>1 DEF ParseArgs, Fails
  <2>2. CASE asked[q].tells /\ Ends(q, 0)
    BY <1>1, <1>e, <2>2 DEF ParseArgs, Makes, Touches
  <2>3. CASE ~asked[q].tells /\ Proceed(q, "open") /\ asked[q].cmd = "precompile" /\ UNCHANGED <<disk, temps>>
    <3>1. Place(q)' /\ (Opened(q)' <=> Opened(q))
      BY <1>1, <1>n, <2>3 DEF ParseArgs, Place, Opened, Textual, Steps
    <3>2. QED
      BY <1>1, <1>g, <2>3, <3>1 DEF ParseArgs, Steps
  <2>4. CASE ~asked[q].tells /\ Proceed(q, "parse") /\ asked[q].cmd # "precompile" /\ UNCHANGED <<disk, temps>>
    <3>1. Place(q)' /\ (Opened(q)' <=> Opened(q))
      BY <1>1, <1>n, <2>4 DEF ParseArgs, Place, Opened, Textual, Steps
    <3>2. QED
      BY <1>1, <1>g, <2>4, <3>1 DEF ParseArgs, Steps
  <2>5. QED
    BY <1>1, <2>1, <2>2, <2>3, <2>4 DEF ParseArgs
<1>2. CASE OpenOutput(q)
  <2>1. CASE Fails(q)
    BY <1>2, <1>e, <2>1 DEF OpenOutput, Fails
  <2>2. CASE ~Fails(q)
    <3>1. PICK s \in {"parse", "emit"} :
            /\ Proceed(q, s) /\ (s = "parse" <=> asked[q].cmd = "precompile")
            /\ disk' = [disk EXCEPT ![Out(q)] = Half(q)] /\ UNCHANGED temps
      BY <1>2, <2>2 DEF OpenOutput
    <3>2. Touches(q)
      BY <1>2, <1>t DEF OpenOutput, Place, Touches
    <3>3. temps' = temps \cup {} /\ {} \in SUBSET {Temp(q, "archive"), Temp(q, "manifest")} /\ s \in Steps
      BY <3>1 DEF Steps
    <3>4. TypeInv' /\ asked' = asked /\ \A p \in Tools : p # q => LeavesAlone(p, q)
      BY <3>1, <3>2, <3>3, GoesOnAlone
    <3>5. step'[q] = s
      BY <1>n, <3>1, <3>3
    <3>6. Place(q)' /\ Opened(q)'
      BY <1>2, <1>t, <3>1, <3>4, <3>5 DEF OpenOutput, Place, Opened, Textual
    <3>7. TempsRight(q)'
      BY <1>2, <3>1, <3>5 DEF OpenOutput, Right, TempsRight, Mine
    <3>8. HalfOpen(q)'
      BY <1>2, <1>t, <3>1, <3>4, <3>6, AskedStays DEF OpenOutput, Right, HalfOpen, TypeInv
    <3>9. Private(q)'
      BY <1>t, <3>1, <3>4, <3>5, <3>6, AskedStays DEF Private, TypeInv
    <3>10. QED
      BY <3>4, <3>6, <3>7, <3>8, <3>9 DEF Right
  <2>3. QED
    BY <2>1, <2>2
<1>3. CASE Parse(q)
  <2>1. CASE Fails(q)
    BY <1>3, <1>e, <2>1 DEF Parse, Fails
  <2>2. CASE asked[q].fixit /\ Ends(q, 0)
    BY <1>3, <1>e, <2>2 DEF Parse, Makes
  <2>3. CASE ~asked[q].fixit /\ Proceed(q, "package") /\ asked[q].cmd = "precompile" /\ UNCHANGED <<disk, temps>>
    <3>1. Place(q)' /\ (Opened(q)' <=> Opened(q))
      BY <1>3, <1>n, <1>t, <2>3 DEF Parse, Place, Opened, Textual, Steps
    <3>2. QED
      BY <1>3, <1>g, <2>3, <3>1 DEF Parse, Steps
  <2>4. CASE ~asked[q].fixit /\ Proceed(q, "pipeline") /\ asked[q].cmd # "precompile" /\ UNCHANGED <<disk, temps>>
    <3>1. Place(q)' /\ (Opened(q)' <=> Opened(q))
      BY <1>3, <1>n, <1>t, <2>4 DEF Parse, Place, Opened, Textual, Steps
    <3>2. QED
      BY <1>3, <1>g, <2>4, <3>1 DEF Parse, Steps
  <2>5. QED
    BY <1>3, <2>1, <2>2, <2>3, <2>4 DEF Parse
<1>4. CASE Package(q)
  <2>1. CASE Fails(q)
    BY <1>4, <1>e, <2>1 DEF Package, Fails
  <2>2. CASE ~Fails(q)
    <3>1. Place(q)' /\ (Opened(q)' <=> Opened(q))
      BY <1>4, <1>n, <1>t, <2>2 DEF Package, Place, Opened, Textual, Steps
    <3>2. QED
      BY <1>4, <1>g, <2>2, <3>1 DEF Package, Steps
  <2>3. QED
    BY <2>1, <2>2
<1>5. CASE Pipeline(q)
  <2>1. CASE Fails(q)
    BY <1>5, <1>e, <2>1 DEF Pipeline, Fails
  <2>2. CASE ~Fails(q)
    <3>1. PICK s \in {"open", "archive"} :
            Proceed(q, s) /\ (s = "open" <=> asked[q].cmd = "build" /\ Textual(q)) /\ UNCHANGED <<disk, temps>>
      BY <1>5, <2>2 DEF Pipeline
    <3>2. step'[q] = s /\ asked' = asked
      BY <1>n, <3>1 DEF Steps
    <3>3. Place(q)' /\ (Opened(q)' <=> Opened(q))
      BY <1>5, <1>t, <3>1, <3>2 DEF Pipeline, Place, Opened, Textual
    <3>4. QED
      BY <1>5, <1>g, <3>1, <3>3 DEF Pipeline, Steps
  <2>3. QED
    BY <2>1, <2>2
<1>l. ASSUME NEW c \in {0, 1}, NEW i \in {Whole(q), Absent, Mixed}, Leaves(q, i, c), Touches(q),
             ~Shares(q) /\ c = 0 /\ Makes(q) => i = Whole(q),
             c = 1 /\ asked[q].cmd = "build" /\ ~Textual(q) /\ ~asked[q].dsym => i = Absent,
             ~(c = 1 /\ ~asked[q].werror /\ asked[q].cmd = "precompile")
      PROVE  Fine
  BY <1>l, LeavesOutputAlone, LeavesRight
<1>6. CASE Emit(q)
  <2>1. CASE Fails(q)
    BY <1>6, <1>e, <2>1 DEF Emit, Fails
  <2>2. CASE ~Fails(q)
    <3>1. step[q] = "emit" /\ Leaves(q, Kept(q), IF asked[q].cmd = "precompile" /\ asked[q].werror THEN 1 ELSE 0)
      BY <1>6, <2>2 DEF Emit
    <3>2. Touches(q) /\ Opened(q)
      BY <1>t, <3>1 DEF Place, Touches, Opened
    <3>3. Kept(q) \in {Whole(q), Absent, Mixed}
      BY DEF Kept
    <3>4. ~Shares(q) => Kept(q) = Whole(q)
      BY <3>2, ImagesDiffer DEF Right, Private, Kept
    <3>5. QED
      BY <1>l, <3>1, <3>2, <3>3, <3>4
  <2>3. QED
    BY <2>1, <2>2
<1>7. CASE Archive(q)
  <2>1. CASE Fails(q)
    BY <1>7, <1>e, <2>1 DEF Archive, Fails
  <2>2. CASE ~Fails(q)
    <3>1. PICK s \in {"link", "execute"} :
            Proceed(q, s) /\ asked[q].cmd = (IF s = "link" THEN "build" ELSE "run") /\ UNCHANGED <<disk, temps>>
      BY <1>7, <2>2 DEF Archive
    <3>2. step'[q] = s /\ asked' = asked
      BY <1>n, <3>1 DEF Steps
    <3>3. Place(q)' /\ (Opened(q)' <=> Opened(q))
      BY <1>7, <1>t, <3>1, <3>2 DEF Archive, Place, Opened, Textual
    <3>4. QED
      BY <1>7, <1>g, <3>1, <3>3 DEF Archive, Steps
  <2>3. QED
    BY <2>1, <2>2
<1>8. CASE Execute(q)
  <2>1. ~Makes(q)
    BY <1>8, <1>t DEF Execute, Place, Makes, Touches
  <2>2. QED
    BY <1>8, <1>e, <2>1 DEF Execute, Fails
(* The linker's temporary files: the archive, then perhaps the manifest.     *)
<1>m. ASSUME NEW s \in {"temporaries", "linker"}, Proceed(q, s), UNCHANGED disk,
             step[q] \in {"link", "temporaries"},
             NEW t \in SUBSET {Temp(q, "archive"), Temp(q, "manifest")}, temps' = temps \cup t,
             Mine(q) \cup t = Archived(q) \cup (IF s = "linker" /\ NeedsManifest(q) THEN {Temp(q, "manifest")} ELSE {})
      PROVE  Fine
  <2>1. TypeInv' /\ asked' = asked /\ \A p \in Tools : p # q => LeavesAlone(p, q)
    BY <1>m, GoesOnAlone DEF Steps
  <2>2. step'[q] = s
    BY <1>m, <1>n DEF Steps
  <2>3. Mine(q)' = Mine(q) \cup t
    BY <1>m DEF Mine, Temp
  <2>4. TempsRight(q)'
    BY <1>m, <2>1, <2>2, <2>3, AskedStays DEF TempsRight, Archived
  <2>5. Place(q)' /\ ~Opened(q) /\ ~Opened(q)'
    BY <1>m, <1>t, <2>1, <2>2 DEF Place, Opened, Textual
  <2>6. HalfOpen(q)'
    BY <1>m, <2>5, AskedStays DEF Right, HalfOpen
  <2>7. Private(q)'
    BY <1>m, <2>1, <2>2, <2>5, AskedStays DEF Right, Private
  <2>8. QED
    BY <2>1, <2>4, <2>5, <2>6, <2>7 DEF Right
<1>9. CASE LinkStep(q)
  <2>1. CASE Fails(q)
    BY <1>9, <1>e, <2>1 DEF LinkStep, Fails
  <2>2. CASE asked[q].emit = "object" /\ Leaves(q, Whole(q), 0)
    BY <1>9, <1>l, <1>t, <2>2 DEF LinkStep, Place, Touches
  <2>3. CASE Proceed(q, "temporaries") /\ temps' = temps \cup {Temp(q, "archive")} /\ UNCHANGED disk
    <3>1. Mine(q) = {} /\ step[q] = "link"
      BY <1>9 DEF LinkStep, Right, TempsRight
    <3>2. QED
      BY <1>m, <2>3, <3>1 DEF Archived
  <2>4. QED
    BY <1>9, <2>1, <2>2, <2>3 DEF LinkStep
<1>10. CASE WriteManifest(q)
  <2>1. CASE Fails(q)
    BY <1>10, <1>e, <2>1 DEF WriteManifest, Fails
  <2>2. CASE ~Fails(q)
    <3>1. Mine(q) = Archived(q) /\ step[q] = "temporaries"
      BY <1>10 DEF WriteManifest, Right, TempsRight
    <3>2. Proceed(q, "linker") /\ UNCHANGED disk /\
          temps' = temps \cup (IF NeedsManifest(q) THEN {Temp(q, "manifest")} ELSE {})
      BY <1>10, <2>2 DEF WriteManifest
    <3>3. QED
      BY <1>m, <3>1, <3>2
  <2>3. QED
    BY <2>1, <2>2
<1>11. CASE RunTheLinker(q)
  <2>1. step[q] = "linker" /\ Touches(q) /\ asked[q].cmd = "build" /\ ~Textual(q)
    BY <1>11, <1>t DEF RunTheLinker, Place, Touches
  <2>2. CASE Fails(q)
    BY <1>e, <2>1, <2>2 DEF Fails
  <2>3. CASE Leaves(q, Absent, 1)
    BY <1>l, <2>1, <2>3
  <2>4. CASE Leaves(q, Whole(q), 0)
    BY <1>l, <2>1, <2>4
  <2>5. CASE asked[q].dsym /\ Leaves(q, Whole(q), 1)
    BY <1>l, <2>1, <2>5
  <2>6. QED
    BY <1>11, <2>2, <2>3, <2>4, <2>5 DEF RunTheLinker
<1>12. CASE Kill(q)
  <2>1. asked' = asked /\ UNCHANGED <<disk, temps, code>> /\ step' = [step EXCEPT ![q] = "killed"]
    BY <1>12 DEF Kill
  <2>2. step'[q] = "killed" /\ \A p \in Tools : p # q => step'[p] = step[p]
    BY <2>1 DEF TypeInv
  <2>3. TypeInv'
    BY <2>1 DEF TypeInv, Steps
  <2>4. \A p \in Tools : p # q => LeavesAlone(p, q)
    BY <2>1, <2>2 DEF LeavesAlone, Mine
  <2>5. Place(q)' /\ TempsRight(q)' /\ ~Opened(q)'
    BY <2>2 DEF Place, TempsRight, Opened
  <2>6. HalfOpen(q)' /\ Private(q)'
    BY <2>1, <2>2, <2>5, AskedStays DEF Right, HalfOpen, Private
  <2>7. QED
    BY <2>1, <2>3, <2>4, <2>5, <2>6 DEF Right
<1>13. QED
  BY <1>1, <1>2, <1>3, <1>4, <1>5, <1>6, <1>7, <1>8, <1>9, <1>10, <1>11, <1>12 DEF Act
-----------------------------------------------------------------------------
(* The invariant holds before any tool has begun,                            *)
LEMMA InitIInv == ToolInit => IInv
<1> SUFFICES ASSUME ToolInit PROVE IInv
  OBVIOUS
<1>1. TypeInv
  BY DEF ToolInit, TypeInv, Steps, Images
<1>2. ASSUME NEW p \in Tools PROVE Right(p)
  <2>1. Place(p) /\ TempsRight(p) /\ ~Opened(p)
    BY DEF ToolInit, Place, TempsRight, Mine, Opened
  <2>2. Out(p) \in Paths /\ \A f \in Paths : disk[f] = Old
    BY <1>1, AskedType DEF ToolInit
  <2>3. HalfOpen(p) /\ Private(p)
    BY <2>1, <2>2, ImagesDiffer DEF ToolInit, HalfOpen, Private
  <2>4. QED
    BY <2>1, <2>3 DEF Right
<1>3. QED
  BY <1>1, <1>2 DEF IInv

(* and every step keeps it.                                                  *)
LEMMA NextIInv == IInv /\ [ToolNext]_toolVars => IInv'
<1> SUFFICES ASSUME IInv, [ToolNext]_toolVars PROVE IInv'
  OBVIOUS
<1>1. ASSUME NEW q \in Tools, Act(q) PROVE IInv'
  <2>1. /\ TypeInv' /\ asked' = asked /\ Right(q)'
        /\ \A p \in Tools : p # q => LeavesAlone(p, q)
    BY <1>1, ActRight DEF IInv
  <2>2. ASSUME NEW p \in Tools, p # q PROVE Right(p)'
    BY <1>1, <2>1, <2>2, AloneStaysRight DEF IInv
  <2>3. QED
    BY <2>1, <2>2 DEF IInv
<1>2. CASE UNCHANGED toolVars
  BY <1>2 DEF toolVars, IInv, TypeInv, Right, Place, TempsRight, HalfOpen, Private, Outcome, Out, Textual,
     Opened, Shares, Touches, Makes, Mine, NeedsManifest, Archived, Temp
<1>3. QED
  BY <1>1, <1>2 DEF ToolNext, Act

(* The variables of the processes keep their types.                          *)
THEOREM TypeCorrect == ToolSpec => []TypeInv
<1>1. IInv => TypeInv
  BY DEF IInv
<1>2. QED
  BY <1>1, InitIInv, NextIInv, PTL DEF ToolSpec

(* OutputsWhole: any number of processes, each of which may fail at any call *)
(* or be killed, leave whole outputs or none, and no temporary file behind.  *)
THEOREM OutputsWholeHolds == ToolSpec => []OutputsWhole
<1>1. IInv => OutputsWhole
  <2> SUFFICES ASSUME IInv, NEW p \in Tools
               PROVE  /\ step[p] = "ended" => Mine(p) = {} /\ disk[Out(p)] # Half(p)
                      /\ step[p] = "linker" =>
                           Mine(p) = {Temp(p, w) : w \in {"archive"} \cup IF NeedsManifest(p) THEN {"manifest"} ELSE {}}
                      /\ step[p] = "ended" /\ ~Shares(p) => Outcome(p)
    BY DEF OutputsWhole, Outcome
  <2>1. Right(p) /\ Out(p) \in Paths
    BY AskedType DEF IInv
  <2>2. step[p] = "ended" => Mine(p) = {} /\ disk[Out(p)] # Half(p)
    BY <2>1 DEF Right, TempsRight, HalfOpen, Opened
  <2>3. {Temp(p, w) : w \in {"archive"} \cup IF NeedsManifest(p) THEN {"manifest"} ELSE {}}
          = Archived(p) \cup (IF NeedsManifest(p) THEN {Temp(p, "manifest")} ELSE {})
    BY DEF Archived
  <2>4. QED
    BY <2>1, <2>2, <2>3 DEF Right, TempsRight, Private
<1>2. QED
  BY <1>1, InitIInv, NextIInv, PTL DEF ToolSpec
-----------------------------------------------------------------------------
(* Sequences, and induction: a set of naturals that has 0 and is closed     *)
(* under successor is Nat, as every set of naturals has a least element.    *)

(* The least of some numbers.                                                *)
LEMMA LeastNat ==
  ASSUME NEW T \in SUBSET Nat, T # {}
  PROVE  \E x \in T : \A y \in T : x <= y
<1> DEFINE R == {ss \in Nat \X Nat : ss[1] < ss[2]}
<1>1. IsWellFoundedOn(R, Nat)
  BY NatLessThanWellFounded DEF OpToRel
<1>2. PICK x \in T : \A y \in T : <<y, x>> \notin R
  <2> HIDE DEF R
  <2>1. QED
    BY <1>1, WFMin
<1>3. \A y \in T : ~(y < x)
  BY <1>2
<1>4. QED
  BY <1>3

(* Induction over the natural numbers, for a set of them.                    *)
LEMMA Inductive ==
  ASSUME NEW T \in SUBSET Nat, 0 \in T, \A n \in T : n + 1 \in T
  PROVE  T = Nat
<1> SUFFICES ASSUME Nat \ T # {} PROVE FALSE
  OBVIOUS
<1>1. PICK x \in Nat \ T : \A y \in Nat \ T : x <= y
  BY LeastNat
<1>2. x # 0 /\ x - 1 \in Nat /\ x - 1 \in T
  BY <1>1
<1>3. (x - 1) + 1 = x
  BY <1>2
<1>4. QED
  BY <1>1, <1>2, <1>3

(* The places and the elements of two sequences put together.                *)
LEMMA ConcatIs ==
  ASSUME NEW T, NEW s \in Seq(T), NEW t \in Seq(T)
  PROVE  /\ s \o t \in Seq(T) /\ Len(s \o t) = Len(s) + Len(t) /\ Len(s) \in Nat /\ Len(t) \in Nat
         /\ \A i \in 1 .. Len(s) : (s \o t)[i] = s[i]
         /\ \A i \in 1 .. Len(t) : (s \o t)[Len(s) + i] = t[i]
OBVIOUS
(* The elements of a sequence.                                               *)
LEMMA RangeIs ==
  ASSUME NEW T, NEW s \in Seq(T)
  PROVE  Len(s) \in Nat /\ DOMAIN s = 1 .. Len(s) /\ Range(s) = {s[i] : i \in 1 .. Len(s)} /\ Range(s) \subseteq T
<1>1. Len(s) \in Nat /\ DOMAIN s = 1 .. Len(s) /\ \A i \in 1 .. Len(s) : s[i] \in T
  OBVIOUS
<1>2. QED
  BY <1>1 DEF Range
(* The elements of two sequences put together.                               *)
LEMMA RangeConcat ==
  ASSUME NEW T, NEW s \in Seq(T), NEW t \in Seq(T)
  PROVE  s \o t \in Seq(T) /\ Range(s \o t) = Range(s) \cup Range(t)
<1>1. PICK u : u = s \o t
  OBVIOUS
<1>2. /\ u \in Seq(T) /\ Len(u) = Len(s) + Len(t) /\ Len(s) \in Nat /\ Len(t) \in Nat
      /\ \A i \in 1 .. Len(s) : u[i] = s[i]
      /\ \A i \in 1 .. Len(t) : u[Len(s) + i] = t[i]
  BY <1>1, ConcatIs
<1>3. Range(u) = {u[i] : i \in 1 .. Len(u)} /\ Range(s) = {s[i] : i \in 1 .. Len(s)} /\ Range(t) = {t[i] : i \in 1 .. Len(t)}
  BY <1>2, RangeIs
<1>4. \A i \in 1 .. Len(u) : u[i] \in Range(s) \cup Range(t)
  <2> TAKE i \in 1 .. Len(u)
  <2>1. CASE i \in 1 .. Len(s)
    BY <1>2, <1>3, <2>1
  <2>2. CASE i \notin 1 .. Len(s)
    <3>1. PICK j \in 1 .. Len(t) : i = Len(s) + j
      <4>1. i - Len(s) \in 1 .. Len(t) /\ i = Len(s) + (i - Len(s))
        BY <1>2, <2>2
      <4>2. QED
        BY <4>1
    <3>2. QED
      BY <1>2, <1>3, <3>1
  <2>3. QED
    BY <2>1, <2>2
<1>5. \A i \in 1 .. Len(s) : s[i] \in Range(u)
  <2> TAKE i \in 1 .. Len(s)
  <2>1. i \in 1 .. Len(u) /\ u[i] = s[i]
    BY <1>2
  <2>2. QED
    BY <1>3, <2>1
<1>6. \A i \in 1 .. Len(t) : t[i] \in Range(u)
  <2> TAKE i \in 1 .. Len(t)
  <2>1. Len(s) + i \in 1 .. Len(u) /\ u[Len(s) + i] = t[i]
    BY <1>2
  <2>2. QED
    BY <1>3, <2>1
<1>7. Range(u) \subseteq Range(s) \cup Range(t)
  BY <1>3, <1>4
<1>8. Range(s) \subseteq Range(u) /\ Range(t) \subseteq Range(u)
  BY <1>3, <1>5, <1>6
<1>9. QED
  BY <1>1, <1>2, <1>7, <1>8

(* How often an argument is in two lists put together.                       *)
LEMMA OccurrencesFinite ==
  ASSUME NEW T, NEW s \in Seq(T), NEW x
  PROVE  /\ IsFiniteSet({i \in 1 .. Len(s) : s[i] = x}) /\ Occurrences(s, x) \in Nat
         /\ x \notin Range(s) => Occurrences(s, x) = 0
<1>1. Len(s) \in Nat /\ Range(s) = {s[i] : i \in 1 .. Len(s)}
  BY RangeIs
<1>2. IsFiniteSet(1 .. Len(s))
  BY <1>1, FS_Interval
<1>3. IsFiniteSet({i \in 1 .. Len(s) : s[i] = x})
  BY <1>2, FS_Subset
<1>4. Occurrences(s, x) \in Nat
  BY <1>3, FS_CardinalityType DEF Occurrences
<1>5. ASSUME x \notin Range(s) PROVE Occurrences(s, x) = 0
  <2>1. {i \in 1 .. Len(s) : s[i] = x} = {}
    BY <1>1, <1>5
  <2>2. QED
    BY <2>1, FS_EmptySet DEF Occurrences
<1>6. QED
  BY <1>3, <1>4, <1>5

(* The places of an element in two sequences put together.                   *)
LEMMA OccurrencesConcat ==
  ASSUME NEW T, NEW s \in Seq(T), NEW t \in Seq(T), NEW x
  PROVE  Occurrences(s \o t, x) = Occurrences(s, x) + Occurrences(t, x)
<1>1. PICK u : u = s \o t
  OBVIOUS
<1>2. /\ u \in Seq(T) /\ Len(u) = Len(s) + Len(t) /\ Len(s) \in Nat /\ Len(t) \in Nat
      /\ \A i \in 1 .. Len(s) : u[i] = s[i]
      /\ \A i \in 1 .. Len(t) : u[Len(s) + i] = t[i]
  BY <1>1, ConcatIs
<1>3. PICK A : A = {i \in 1 .. Len(s) : s[i] = x}
  OBVIOUS
<1>4. PICK B : B = {i \in 1 .. Len(t) : t[i] = x}
  OBVIOUS
<1>5. PICK C : C = {i \in (Len(s) + 1) .. Len(u) : u[i] = x}
  OBVIOUS
<1>6. PICK f : f = [i \in B |-> Len(s) + i]
  OBVIOUS
<1>7. f \in Bijection(B, C)
  <2>1. \A i \in B : f[i] \in C
    BY <1>2, <1>4, <1>5, <1>6
  <2>2. \A i, j \in B : f[i] = f[j] => i = j
    BY <1>2, <1>4, <1>6
  <2>3. \A c \in C : \E i \in B : f[i] = c
    <3> TAKE c \in C
    <3>1. c - Len(s) \in 1 .. Len(t) /\ Len(s) + (c - Len(s)) = c /\ u[c] = x
      BY <1>2, <1>5
    <3>2. c - Len(s) \in B
      BY <1>2, <1>4, <3>1
    <3>3. QED
      BY <1>6, <3>1, <3>2
  <2>4. QED
    BY <1>6, <2>1, <2>2, <2>3 DEF Bijection, Injection, Surjection, IsInjective
<1>8. IsFiniteSet(A) /\ IsFiniteSet(B)
  BY <1>3, <1>4, OccurrencesFinite
<1>9. IsFiniteSet(C) /\ Cardinality(C) = Cardinality(B)
  BY <1>7, <1>8, FS_Bijection DEF ExistsBijection
<1>10. {i \in 1 .. Len(u) : u[i] = x} = A \cup C /\ A \cap C = {}
  BY <1>2, <1>3, <1>5
<1>11. Cardinality(A \cup C) = Cardinality(A) + Cardinality(C)
  <2>1. Cardinality(A \cup C) = Cardinality(A) + Cardinality(C) - Cardinality(A \cap C)
    BY <1>8, <1>9, FS_Union
  <2>2. Cardinality(A \cap C) = 0 /\ Cardinality(A) \in Nat /\ Cardinality(C) \in Nat
    BY <1>8, <1>9, <1>10, FS_EmptySet, FS_CardinalityType
  <2>3. QED
    BY <2>1, <2>2
<1>12. QED
  BY <1>1, <1>3, <1>4, <1>9, <1>10, <1>11 DEF Occurrences
(* The loop of DropRpath runs as it is written.                              *)
LEMMA DropRpathIs ==
  ASSUME NEW l, NEW n \in Nat, n = Len(Shared(l))
  PROVE  \E F : /\ F[0] = NothingKept /\ \A i \in 1 .. n : F[i] = DropStep(l, F[i - 1], i)
               /\ DropRpath(l) = F[n].kept
<1> DEFINE T == {m \in Nat : \E F : F = [i \in 0 .. m |-> F[i]] /\ F[0] = NothingKept /\ \A i \in 1 .. m : F[i] = DropStep(l, F[i - 1], i)}
<1> HIDE DEF T
<1>1. 0 \in T
  <2>1. PICK G : G = [i \in 0 .. 0 |-> NothingKept]
    OBVIOUS
  <2>2. G = [i \in 0 .. 0 |-> G[i]] /\ G[0] = NothingKept /\ \A i \in 1 .. 0 : G[i] = DropStep(l, G[i - 1], i)
    BY <2>1
  <2>3. QED
    BY <2>2 DEF T
<1>2. ASSUME NEW m \in T PROVE m + 1 \in T
  <2>1. PICK F : F = [i \in 0 .. m |-> F[i]] /\ F[0] = NothingKept /\ \A i \in 1 .. m : F[i] = DropStep(l, F[i - 1], i)
    BY <1>2 DEF T
  <2> m \in Nat
    BY <1>2 DEF T
  <2>2. PICK x : x = DropStep(l, F[m], m + 1)
    OBVIOUS
  <2>3. PICK G : G = [i \in 0 .. (m + 1) |-> IF i = m + 1 THEN x ELSE F[i]]
    OBVIOUS
  <2>4. ASSUME NEW i \in 1 .. (m + 1) PROVE G[i] = DropStep(l, G[i - 1], i)
    <3>1. CASE i = m + 1
      <4>1. G[i - 1] = F[m] /\ G[i] = x
        BY <2>3, <3>1
      <4>2. QED
        BY <2>2, <3>1, <4>1
    <3>2. CASE i \in 1 .. m
      <4>1. G[i] = F[i] /\ G[i - 1] = F[i - 1]
        BY <2>3, <3>2
      <4>2. QED
        BY <2>1, <3>2, <4>1
    <3>3. i = m + 1 \/ i \in 1 .. m
      OBVIOUS
    <3>4. QED
      BY <3>1, <3>2, <3>3
  <2>5. G[0] = NothingKept /\ G = [i \in 0 .. (m + 1) |-> G[i]]
    BY <2>1, <2>3
  <2>6. \E H : H = [i \in 0 .. (m + 1) |-> H[i]] /\ H[0] = NothingKept /\ \A i \in 1 .. (m + 1) : H[i] = DropStep(l, H[i - 1], i)
    BY <2>4, <2>5
  <2>7. m + 1 \in Nat
    OBVIOUS
  <2>8. QED
    BY <2>6, <2>7, Zenon DEF T
<1>3. T = Nat
  <2>1. T \in SUBSET Nat
    BY DEF T
  <2>2. QED
    BY <1>1, <1>2, <2>1, Inductive
<1>4. PICK G : G = [i \in 0 .. n |-> G[i]] /\ G[0] = NothingKept /\ \A i \in 1 .. n : G[i] = DropStep(l, G[i - 1], i)
  BY <1>3 DEF T
<1>5. \A i \in 0 .. n : G[i] = IF i = 0 THEN NothingKept ELSE DropStep(l, G[i - 1], i)
  <2> TAKE i \in 0 .. n
  <2>1. i = 0 \/ (i # 0 /\ i \in 1 .. n)
    OBVIOUS
  <2>2. QED
    BY <1>4, <2>1
<1>6. \E F : F = [i \in 0 .. n |-> IF i = 0 THEN NothingKept ELSE DropStep(l, F[i - 1], i)]
  <2>1. G = [i \in 0 .. n |-> IF i = 0 THEN NothingKept ELSE DropStep(l, G[i - 1], i)]
    BY <1>4, <1>5
  <2>2. QED
    BY <2>1
<1> DEFINE loop[i \in 0 .. n] == IF i = 0 THEN NothingKept ELSE DropStep(l, loop[i - 1], i)
<1>7. loop = [i \in 0 .. n |-> IF i = 0 THEN NothingKept ELSE DropStep(l, loop[i - 1], i)]
  BY <1>6
<1>8. DropRpath(l) = loop[n].kept
  BY DEF DropRpath
<1> HIDE DEF loop
<1>9. loop[0] = NothingKept /\ \A i \in 1 .. n : loop[i] = DropStep(l, loop[i - 1], i)
  <2>1. loop[0] = NothingKept
    BY <1>7
  <2>2. ASSUME NEW i \in 1 .. n PROVE loop[i] = DropStep(l, loop[i - 1], i)
    <3>1. i \in 0 .. n /\ i # 0
      OBVIOUS
    <3>2. QED
      BY <1>7, <3>1
  <2>3. QED
    BY <2>1, <2>2
<1>10. QED
  BY <1>8, <1>9

\* The steps of the two loops of resolveXlinkerLibraries.
PassRuns(args, fs, F) ==
  /\ F[0] = NothingYet /\ \A i \in 1 .. Len(args) : F[i] = XlinkerStep(fs, F[i - 1], args[i])
  /\ XlinkerPass(args, fs) = F[Len(args)]
\* The same for the names that are looked up at the end.
DeferredRuns(names, dirs, fs, F) ==
  /\ F[0] = <<>> /\ \A i \in 1 .. Len(names) : F[i] = F[i - 1] \o findLibraryByName(names[i], dirs, fs)
  /\ DeferredLibs(names, dirs, fs) = F[Len(names)]

(* The pass over the values runs as it is written.                           *)
LEMMA XlinkerPassIs ==
  ASSUME NEW args, NEW files, Len(args) \in Nat
  PROVE  \E F : PassRuns(args, files, F)
<1>0. PICK n \in Nat : n = Len(args)
  OBVIOUS
<1> DEFINE T == {m \in Nat : \E F : F = [i \in 0 .. m |-> F[i]] /\ F[0] = NothingYet /\ \A i \in 1 .. m : F[i] = XlinkerStep(files, F[i - 1], args[i])}
<1> HIDE DEF T
<1>1. 0 \in T
  <2>1. PICK G : G = [i \in 0 .. 0 |-> NothingYet]
    OBVIOUS
  <2>2. G = [i \in 0 .. 0 |-> G[i]] /\ G[0] = NothingYet /\ \A i \in 1 .. 0 : G[i] = XlinkerStep(files, G[i - 1], args[i])
    BY <2>1
  <2>3. QED
    BY <2>2 DEF T
<1>2. ASSUME NEW m \in T PROVE m + 1 \in T
  <2>1. PICK F : F = [i \in 0 .. m |-> F[i]] /\ F[0] = NothingYet /\ \A i \in 1 .. m : F[i] = XlinkerStep(files, F[i - 1], args[i])
    BY <1>2 DEF T
  <2> m \in Nat
    BY <1>2 DEF T
  <2>2. PICK x : x = XlinkerStep(files, F[m], args[m + 1])
    OBVIOUS
  <2>3. PICK G : G = [i \in 0 .. (m + 1) |-> IF i = m + 1 THEN x ELSE F[i]]
    OBVIOUS
  <2>4. ASSUME NEW i \in 1 .. (m + 1) PROVE G[i] = XlinkerStep(files, G[i - 1], args[i])
    <3>1. CASE i = m + 1
      <4>1. G[i - 1] = F[m] /\ G[i] = x
        BY <2>3, <3>1
      <4>2. QED
        BY <2>2, <3>1, <4>1
    <3>2. CASE i \in 1 .. m
      <4>1. G[i] = F[i] /\ G[i - 1] = F[i - 1]
        BY <2>3, <3>2
      <4>2. QED
        BY <2>1, <3>2, <4>1
    <3>3. i = m + 1 \/ i \in 1 .. m
      OBVIOUS
    <3>4. QED
      BY <3>1, <3>2, <3>3
  <2>5. G[0] = NothingYet /\ G = [i \in 0 .. (m + 1) |-> G[i]]
    BY <2>1, <2>3
  <2>6. \E H : H = [i \in 0 .. (m + 1) |-> H[i]] /\ H[0] = NothingYet /\ \A i \in 1 .. (m + 1) : H[i] = XlinkerStep(files, H[i - 1], args[i])
    BY <2>4, <2>5
  <2>7. m + 1 \in Nat
    OBVIOUS
  <2>8. QED
    BY <2>6, <2>7, Zenon DEF T
<1>3. T = Nat
  <2>1. T \in SUBSET Nat
    BY DEF T
  <2>2. QED
    BY <1>1, <1>2, <2>1, Inductive
<1>4. PICK G : G = [i \in 0 .. n |-> G[i]] /\ G[0] = NothingYet /\ \A i \in 1 .. n : G[i] = XlinkerStep(files, G[i - 1], args[i])
  BY <1>3 DEF T
<1>5. \A i \in 0 .. n : G[i] = IF i = 0 THEN NothingYet ELSE XlinkerStep(files, G[i - 1], args[i])
  <2> TAKE i \in 0 .. n
  <2>1. i = 0 \/ (i # 0 /\ i \in 1 .. n)
    OBVIOUS
  <2>2. QED
    BY <1>4, <2>1
<1>6. \E F : F = [i \in 0 .. n |-> IF i = 0 THEN NothingYet ELSE XlinkerStep(files, F[i - 1], args[i])]
  <2>1. G = [i \in 0 .. n |-> IF i = 0 THEN NothingYet ELSE XlinkerStep(files, G[i - 1], args[i])]
    BY <1>4, <1>5
  <2>2. QED
    BY <2>1
<1> DEFINE loop[i \in 0 .. n] == IF i = 0 THEN NothingYet ELSE XlinkerStep(files, loop[i - 1], args[i])
<1>7. loop = [i \in 0 .. n |-> IF i = 0 THEN NothingYet ELSE XlinkerStep(files, loop[i - 1], args[i])]
  BY <1>6
<1>8. XlinkerPass(args, files) = loop[n]
  BY <1>0 DEF XlinkerPass
<1> HIDE DEF loop
<1>9. loop[0] = NothingYet /\ \A i \in 1 .. n : loop[i] = XlinkerStep(files, loop[i - 1], args[i])
  <2>1. loop[0] = NothingYet
    BY <1>7
  <2>2. ASSUME NEW i \in 1 .. n PROVE loop[i] = XlinkerStep(files, loop[i - 1], args[i])
    <3>1. i \in 0 .. n /\ i # 0
      OBVIOUS
    <3>2. QED
      BY <1>7, <3>1
  <2>3. QED
    BY <2>1, <2>2
<1>10. PassRuns(args, files, loop)
  BY <1>0, <1>8, <1>9 DEF PassRuns
<1>11. QED
  BY <1>10

(* The names that were deferred, one after the other.                        *)
LEMMA DeferredLibsIs ==
  ASSUME NEW names, NEW dirs, NEW fs, Len(names) \in Nat
  PROVE  \E F : DeferredRuns(names, dirs, fs, F)
<1>0. PICK n \in Nat : n = Len(names)
  OBVIOUS
<1> DEFINE T == {m \in Nat : \E F : F = [i \in 0 .. m |-> F[i]] /\ F[0] = <<>> /\ \A i \in 1 .. m : F[i] = F[i - 1] \o findLibraryByName(names[i], dirs, fs)}
<1> HIDE DEF T
<1>1. 0 \in T
  <2>1. PICK G : G = [i \in 0 .. 0 |-> <<>>]
    OBVIOUS
  <2>2. G = [i \in 0 .. 0 |-> G[i]] /\ G[0] = <<>> /\ \A i \in 1 .. 0 : G[i] = G[i - 1] \o findLibraryByName(names[i], dirs, fs)
    BY <2>1
  <2>3. QED
    BY <2>2 DEF T
<1>2. ASSUME NEW m \in T PROVE m + 1 \in T
  <2>1. PICK F : F = [i \in 0 .. m |-> F[i]] /\ F[0] = <<>> /\ \A i \in 1 .. m : F[i] = F[i - 1] \o findLibraryByName(names[i], dirs, fs)
    BY <1>2 DEF T
  <2> m \in Nat
    BY <1>2 DEF T
  <2>2. PICK x : x = F[m] \o findLibraryByName(names[m + 1], dirs, fs)
    OBVIOUS
  <2>3. PICK G : G = [i \in 0 .. (m + 1) |-> IF i = m + 1 THEN x ELSE F[i]]
    OBVIOUS
  <2>4. ASSUME NEW i \in 1 .. (m + 1) PROVE G[i] = G[i - 1] \o findLibraryByName(names[i], dirs, fs)
    <3>1. CASE i = m + 1
      <4>1. G[i - 1] = F[m] /\ G[i] = x
        BY <2>3, <3>1
      <4>2. QED
        BY <2>2, <3>1, <4>1
    <3>2. CASE i \in 1 .. m
      <4>1. G[i] = F[i] /\ G[i - 1] = F[i - 1]
        BY <2>3, <3>2
      <4>2. QED
        BY <2>1, <3>2, <4>1
    <3>3. i = m + 1 \/ i \in 1 .. m
      OBVIOUS
    <3>4. QED
      BY <3>1, <3>2, <3>3
  <2>5. G[0] = <<>> /\ G = [i \in 0 .. (m + 1) |-> G[i]]
    BY <2>1, <2>3
  <2>6. \E H : H = [i \in 0 .. (m + 1) |-> H[i]] /\ H[0] = <<>> /\ \A i \in 1 .. (m + 1) : H[i] = H[i - 1] \o findLibraryByName(names[i], dirs, fs)
    BY <2>4, <2>5
  <2>7. m + 1 \in Nat
    OBVIOUS
  <2>8. QED
    BY <2>6, <2>7, Zenon DEF T
<1>3. T = Nat
  <2>1. T \in SUBSET Nat
    BY DEF T
  <2>2. QED
    BY <1>1, <1>2, <2>1, Inductive
<1>4. PICK G : G = [i \in 0 .. n |-> G[i]] /\ G[0] = <<>> /\ \A i \in 1 .. n : G[i] = G[i - 1] \o findLibraryByName(names[i], dirs, fs)
  BY <1>3 DEF T
<1>5. \A i \in 0 .. n : G[i] = IF i = 0 THEN <<>> ELSE G[i - 1] \o findLibraryByName(names[i], dirs, fs)
  <2> TAKE i \in 0 .. n
  <2>1. i = 0 \/ (i # 0 /\ i \in 1 .. n)
    OBVIOUS
  <2>2. QED
    BY <1>4, <2>1
<1>6. \E F : F = [i \in 0 .. n |-> IF i = 0 THEN <<>> ELSE F[i - 1] \o findLibraryByName(names[i], dirs, fs)]
  <2>1. G = [i \in 0 .. n |-> IF i = 0 THEN <<>> ELSE G[i - 1] \o findLibraryByName(names[i], dirs, fs)]
    BY <1>4, <1>5
  <2>2. QED
    BY <2>1
<1> DEFINE loop[i \in 0 .. n] == IF i = 0 THEN <<>> ELSE loop[i - 1] \o findLibraryByName(names[i], dirs, fs)
<1>7. loop = [i \in 0 .. n |-> IF i = 0 THEN <<>> ELSE loop[i - 1] \o findLibraryByName(names[i], dirs, fs)]
  BY <1>6
<1>8. DeferredLibs(names, dirs, fs) = loop[n]
  BY <1>0 DEF DeferredLibs
<1> HIDE DEF loop
<1>9. loop[0] = <<>> /\ \A i \in 1 .. n : loop[i] = loop[i - 1] \o findLibraryByName(names[i], dirs, fs)
  <2>1. loop[0] = <<>>
    BY <1>7
  <2>2. ASSUME NEW i \in 1 .. n PROVE loop[i] = loop[i - 1] \o findLibraryByName(names[i], dirs, fs)
    <3>1. i \in 0 .. n /\ i # 0
      OBVIOUS
    <3>2. QED
      BY <1>7, <3>1
  <2>3. QED
    BY <2>1, <2>2
<1>10. DeferredRuns(names, dirs, fs, loop)
  BY <1>0, <1>8, <1>9 DEF DeferredRuns
<1>11. QED
  BY <1>10
(* A sequence of one element, and so on to four.                             *)
LEMMA OneRange ==
  ASSUME NEW T, NEW a \in T
  PROVE  <<a>> \in Seq(T) /\ Range(<<a>>) = {a} /\ Len(<<a>>) = 1 /\ <<a>>[1] = a
<1>1. <<a>> \in Seq(T) /\ Len(<<a>>) = 1 /\ <<a>>[1] = a
  OBVIOUS
<1>2. QED
  BY <1>1 DEF Range

(* The empty sequence.                                                       *)
LEMMA NoneRange ==
  ASSUME NEW T
  PROVE  <<>> \in Seq(T) /\ Range(<<>>) = {}
BY DEF Range

(* An argument given or not.                                                 *)
LEMMA WhenIs ==
  ASSUME NEW T, NEW c, NEW x \in T, NEW g, g = When(c, <<x>>)
  PROVE  g \in Seq(T) /\ Range(g) \subseteq {x} /\ (c => Range(g) = {x}) /\ (~c => Range(g) = {})
<1>1. <<>> \in Seq(T) /\ Range(<<>>) = {} /\ <<x>> \in Seq(T) /\ Range(<<x>>) = {x}
  BY NoneRange, OneRange
<1>2. CASE c
  BY <1>1, <1>2 DEF When
<1>3. CASE ~c
  BY <1>1, <1>3 DEF When
<1>4. QED
  BY <1>2, <1>3

(* A sequence over a set is one over a larger set.                           *)
LEMMA SeqWider ==
  ASSUME NEW A, NEW B, A \subseteq B, NEW s \in Seq(A)
  PROVE  s \in Seq(B)
OBVIOUS

(* ---------------------------------------------------------------------- *)
(* LinkOutput: the arguments for shared libraries                          *)

\* What stands for the configured libraries.
SharedArgs(l) ==
  IF ForWindows(l) THEN {"configured.lib", "bindings.dll"} ELSE {"configured.lib", "bindings.so", "-Xlinker", "-rpath", "libdir"}

\* Libraries by one of the names L, and rpaths that start at rs.
RpathsAt(s, L, rs) ==
  /\ \A b \in rs : b + 3 <= Len(s) /\ s[b] = "-Xlinker" /\ s[b + 1] = "-rpath" /\ s[b + 2] = "-Xlinker" /\ s[b + 3] = "libdir"
  /\ \A b, c \in rs : b < c => b + 3 < c
  /\ \A i \in 1 .. Len(s) : s[i] \in L \/ \E b \in rs : i \in b .. b + 3

(* What MojoConfig appends is libraries and rpaths, made up or configured.   *)
LEMMA SharedIs ==
  ASSUME NEW l \in Links
  PROVE  \E T : Shared(l) \in Seq(T) /\ \E rs \in SUBSET (1 .. Len(Shared(l))) : RpathsAt(Shared(l), {"configured.lib", Bindings(l)}, rs)
<1>1. PICK L, s, t : /\ L = {"configured.lib", Bindings(l)} /\ t = When(l.config.bindings, <<Bindings(l)>>)
                     /\ s = IF l.config.shared # <<>> THEN l.config.shared ELSE <<"-Xlinker", "-rpath", "-Xlinker", "libdir">>
  OBVIOUS
<1>2. PICK T, rs : s \in Seq(T) /\ rs \in SUBSET (1 .. Len(s)) /\ RpathsAt(s, {"configured.lib"}, rs)
  <2>1. CASE l.config.shared # <<>>
    <3>1. s = l.config.shared /\ LibrariesAndRpaths(s)
      BY <1>1, <2>1, LinkAssumption
    <3>2. QED
      BY <3>1 DEF LibrariesAndRpaths, RpathsAt
  <2>2. CASE l.config.shared = <<>>
    <3>1. s = <<"-Xlinker", "-rpath", "-Xlinker", "libdir">>
      BY <1>1, <2>2
    <3>2. s \in Seq({"-Xlinker", "-rpath", "libdir"}) /\ Len(s) = 4 /\ s[1] = "-Xlinker" /\ s[2] = "-rpath" /\ s[3] = "-Xlinker" /\ s[4] = "libdir"
      BY <3>1
    <3>3. RpathsAt(s, {"configured.lib"}, {1})
      BY <3>2 DEF RpathsAt
    <3>4. {1} \in SUBSET (1 .. Len(s))
      BY <3>2
    <3>5. QED
      BY <3>2, <3>3, <3>4
  <2>3. QED
    BY <2>1, <2>2
<1>3. PICK U : U = T \cup L
  OBVIOUS
<1>4. t \in Seq(L) /\ Range(t) \subseteq L
  BY <1>1, WhenIs
<1>5. s \in Seq(U) /\ t \in Seq(U)
  BY <1>2, <1>3, <1>4, SeqWider
<1>6. PICK w : w = s \o t
  OBVIOUS
<1>7. /\ w \in Seq(U) /\ Len(w) = Len(s) + Len(t) /\ Len(s) \in Nat /\ Len(t) \in Nat
      /\ \A i \in 1 .. Len(s) : w[i] = s[i]
      /\ \A i \in 1 .. Len(t) : w[Len(s) + i] = t[i]
  BY <1>5, <1>6, ConcatIs
<1>8. rs \in SUBSET (1 .. Len(w))
  BY <1>2, <1>7
<1>9. ASSUME NEW b \in rs
      PROVE  b + 3 <= Len(w) /\ w[b] = "-Xlinker" /\ w[b + 1] = "-rpath" /\ w[b + 2] = "-Xlinker" /\ w[b + 3] = "libdir"
  <2>1. b \in Nat /\ b >= 1 /\ b + 3 <= Len(s) /\ s[b] = "-Xlinker" /\ s[b + 1] = "-rpath" /\ s[b + 2] = "-Xlinker" /\ s[b + 3] = "libdir"
    BY <1>2, <1>7 DEF RpathsAt
  <2>2. b \in 1 .. Len(s) /\ b + 1 \in 1 .. Len(s) /\ b + 2 \in 1 .. Len(s) /\ b + 3 \in 1 .. Len(s)
    BY <1>7, <2>1
  <2>3. QED
    BY <1>7, <2>1, <2>2
<1>10. ASSUME NEW i \in 1 .. Len(w) PROVE w[i] \in L \/ \E b \in rs : i \in b .. b + 3
  <2>1. CASE i \in 1 .. Len(s)
    <3>1. w[i] = s[i] /\ (s[i] \in {"configured.lib"} \/ \E b \in rs : i \in b .. b + 3)
      BY <1>2, <1>7, <2>1 DEF RpathsAt
    <3>2. QED
      BY <1>1, <3>1
  <2>2. CASE i \notin 1 .. Len(s)
    <3>1. PICK j \in 1 .. Len(t) : i = Len(s) + j
      <4>1. i - Len(s) \in 1 .. Len(t) /\ i = Len(s) + (i - Len(s))
        BY <1>7, <2>2
      <4>2. QED
        BY <4>1
    <3>2. w[i] = t[j] /\ t[j] \in L
      BY <1>4, <1>7, <3>1
    <3>3. QED
      BY <3>2
  <2>3. QED
    BY <2>1, <2>2
<1>11. \A b, c \in rs : b < c => b + 3 < c
  BY <1>2 DEF RpathsAt
<1>12. RpathsAt(w, L, rs)
  BY <1>9, <1>10, <1>11 DEF RpathsAt
<1>13. Shared(l) = w
  BY <1>1, <1>6 DEF Shared, appendSharedLibraryLinkArgs
<1>14. QED
  BY <1>1, <1>7, <1>8, <1>12, <1>13

\* While the four arguments that start at b are passed over, the place behind
\* the last one passed is known; between them the loop is at no place of them.
DropInv(l, rs, acc, i) ==
  /\ acc \in [kept : Seq(SharedArgs(l)), skip : 0 .. 3]
  /\ acc.skip > 0 => ForWindows(l) /\ \E b \in rs : i = b + (3 - acc.skip)
  /\ acc.skip = 0 => \A b \in rs : ~(ForWindows(l) /\ b <= i /\ i < b + 3)

(* Only libraries are left for Windows, and everything elsewhere.            *)
LEMMA SharedKept ==
  ASSUME NEW l \in Links
  PROVE  DropRpath(l) \in Seq(SharedArgs(l))
<1>1. PICK s : s = Shared(l)
  OBVIOUS
<1>2. PICK U : s \in Seq(U) /\ \E rs \in SUBSET (1 .. Len(s)) : RpathsAt(s, {"configured.lib", Bindings(l)}, rs)
  BY <1>1, SharedIs
<1>3. PICK n \in Nat : n = Len(s)
  BY <1>2
<1>4. PICK rs \in SUBSET (1 .. n) :
        /\ \A b \in rs : b + 3 <= n /\ s[b] = "-Xlinker" /\ s[b + 1] = "-rpath" /\ s[b + 2] = "-Xlinker" /\ s[b + 3] = "libdir"
        /\ \A b, c \in rs : b < c => b + 3 < c
        /\ \A i \in 1 .. n : s[i] \in {"configured.lib", Bindings(l)} \/ \E b \in rs : i \in b .. b + 3
  BY <1>2, <1>3 DEF RpathsAt
<1>5. PICK F : /\ F[0] = NothingKept /\ \A i \in 1 .. n : F[i] = DropStep(l, F[i - 1], i)
               /\ DropRpath(l) = F[n].kept
  BY <1>1, <1>3, DropRpathIs
<1> DEFINE T == {i \in Nat : i <= n => DropInv(l, rs, F[i], i)}
<1> HIDE DEF T
<1>6. 0 \in T
  <2>1. F[0] \in [kept : Seq(SharedArgs(l)), skip : 0 .. 3] /\ F[0].skip = 0
    BY <1>5 DEF NothingKept
  <2>2. \A b \in rs : ~(b <= 0)
    BY <1>4
  <2>3. QED
    BY <2>1, <2>2 DEF T, DropInv
<1>7. ASSUME NEW i \in T PROVE i + 1 \in T
  <2> SUFFICES ASSUME i \in Nat, i + 1 <= n PROVE DropInv(l, rs, F[i + 1], i + 1)
    BY <1>7 DEF T
  <2>1. DropInv(l, rs, F[i], i)
    BY <1>7 DEF T
  <2>2. PICK acc \in [kept : Seq(SharedArgs(l)), skip : 0 .. 3] : acc = F[i]
    BY <2>1 DEF DropInv
  <2>3. i + 1 \in 1 .. n /\ (i + 1) - 1 = i
    OBVIOUS
  <2>4. F[i + 1] = DropStep(l, acc, i + 1)
    BY <1>5, <2>2, <2>3
  <2>5. CASE acc.skip > 0
    <3>1. F[i + 1] = [acc EXCEPT !.skip = @ - 1]
      BY <2>4, <2>5 DEF DropStep
    <3>2. F[i + 1] \in [kept : Seq(SharedArgs(l)), skip : 0 .. 3] /\ F[i + 1].skip = acc.skip - 1
      BY <2>5, <3>1
    <3>3. PICK b \in rs : i = b + (3 - acc.skip) /\ ForWindows(l)
      BY <2>1, <2>2, <2>5 DEF DropInv
    <3>4. acc.skip \in 1 .. 3 /\ b \in Nat /\ i + 1 = b + (3 - (acc.skip - 1))
      BY <1>4, <2>5, <3>3
    <3>5. ASSUME acc.skip = 1, NEW c \in rs PROVE ~(c <= i + 1 /\ i + 1 < c + 3)
      <4>1. i + 1 = b + 3 /\ c \in Nat
        BY <1>4, <3>4, <3>5
      <4>2. c < b \/ c = b \/ b < c
        BY <3>4, <4>1
      <4>3. c < b => c + 3 < b
        BY <1>4, <3>5
      <4>4. b < c => b + 3 < c
        BY <1>4, <3>5
      <4>5. QED
        BY <3>4, <4>1, <4>2, <4>3, <4>4
    <3>6. QED
      BY <3>2, <3>3, <3>4, <3>5 DEF DropInv
  <2>6. CASE acc.skip = 0 /\ StartsRpath(l, s, i + 1)
    <3>1. F[i + 1] = [acc EXCEPT !.skip = 3]
      BY <1>1, <2>4, <2>6 DEF DropStep
    <3>2. F[i + 1] \in [kept : Seq(SharedArgs(l)), skip : 0 .. 3] /\ F[i + 1].skip = 3
      BY <3>1
    <3>3. ForWindows(l) /\ s[i + 1] = "-Xlinker" /\ s[i + 1] \notin {"configured.lib", Bindings(l)}
      BY <2>6 DEF StartsRpath, Bindings
    <3>4. PICK b \in rs : i + 1 \in b .. b + 3
      BY <1>4, <2>3, <3>3
    <3>5. ~(b <= i /\ i < b + 3)
      BY <2>1, <2>2, <2>6, <3>3 DEF DropInv
    <3>6. i + 1 = b /\ b \in Nat
      BY <1>4, <3>4, <3>5
    <3>7. QED
      BY <3>2, <3>3, <3>6 DEF DropInv
  <2>7. CASE acc.skip = 0 /\ ~StartsRpath(l, s, i + 1)
    <3>1. F[i + 1] = [acc EXCEPT !.kept = Append(@, s[i + 1])]
      BY <1>1, <2>4, <2>7 DEF DropStep
    <3>2. ForWindows(l) => \A b \in rs : i + 1 \notin b .. b + 3
      <4> SUFFICES ASSUME ForWindows(l), NEW b \in rs, i + 1 \in b .. b + 3 PROVE FALSE
        OBVIOUS
      <4>1. ~(b <= i /\ i < b + 3)
        BY <2>1, <2>2, <2>7 DEF DropInv
      <4>2. i + 1 = b
        BY <1>4, <4>1
      <4>3. i + 1 < n /\ s[i + 1] = "-Xlinker" /\ s[i + 2] = "-rpath" /\ i + 2 = (i + 1) + 1
        BY <1>4, <4>2
      <4>4. StartsRpath(l, s, i + 1)
        BY <1>3, <4>3 DEF StartsRpath
      <4>5. QED
        BY <2>7, <4>4
    <3>3. s[i + 1] \in SharedArgs(l)
      <4>1. s[i + 1] \in {"configured.lib", Bindings(l)} \/ \E b \in rs : i + 1 \in b .. b + 3
        BY <1>4, <2>3
      <4>2. CASE ForWindows(l)
        BY <3>2, <4>1, <4>2 DEF SharedArgs, Bindings
      <4>3. CASE ~ForWindows(l) /\ \E b \in rs : i + 1 \in b .. b + 3
        <5>1. PICK b \in rs : i + 1 \in b .. b + 3
          BY <4>3
        <5>2. i + 1 = b \/ i + 1 = b + 1 \/ i + 1 = b + 2 \/ i + 1 = b + 3
          BY <1>4, <5>1
        <5>3. s[i + 1] \in {"-Xlinker", "-rpath", "libdir"}
          BY <1>4, <5>2
        <5>4. QED
          BY <4>3, <5>3 DEF SharedArgs
      <4>4. QED
        BY <4>1, <4>2, <4>3 DEF SharedArgs, Bindings
    <3>4. F[i + 1] \in [kept : Seq(SharedArgs(l)), skip : 0 .. 3] /\ F[i + 1].skip = 0
      <4>1. PICK k \in Seq(SharedArgs(l)) : k = acc.kept
        OBVIOUS
      <4>2. Append(k, s[i + 1]) \in Seq(SharedArgs(l))
        BY <3>3
      <4>3. QED
        BY <2>7, <3>1, <4>1, <4>2
    <3>5. \A b \in rs : ~(ForWindows(l) /\ b <= i + 1 /\ i + 1 < b + 3)
      BY <1>4, <3>2
    <3>6. ~(F[i + 1].skip > 0)
      BY <3>4
    <3>7. QED
      BY <3>4, <3>5, <3>6 DEF DropInv
  <2>8. QED
    BY <2>2, <2>5, <2>6, <2>7
<1>8. T = Nat
  <2>1. T \in SUBSET Nat
    BY DEF T
  <2>2. QED
    BY <1>6, <1>7, <2>1, Inductive
<1>9. DropInv(l, rs, F[n], n)
  BY <1>8 DEF T
<1>10. QED
  BY <1>5, <1>9 DEF DropInv

(* ---------------------------------------------------------------------- *)
(* LinkOutput: the line of the linker                                      *)

LEMMA TwoRange ==
  ASSUME NEW T, NEW a \in T, NEW b \in T
  PROVE  <<a, b>> \in Seq(T) /\ Range(<<a, b>>) = {a, b}
BY DEF Range
LEMMA ThreeRange ==
  ASSUME NEW T, NEW a \in T, NEW b \in T, NEW c \in T
  PROVE  <<a, b, c>> \in Seq(T) /\ Range(<<a, b, c>>) = {a, b, c}
BY DEF Range
LEMMA FourRange ==
  ASSUME NEW T, NEW a \in T, NEW b \in T, NEW c \in T, NEW d \in T
  PROVE  <<a, b, c, d>> \in Seq(T) /\ Range(<<a, b, c, d>>) = {a, b, c, d}
BY DEF Range

(* An argument that heads a list and is not in it again.                     *)
LEMMA OccursFirst ==
  ASSUME NEW a, NEW b, NEW c, a # b, a # c
  PROVE  Occurrences(<<a, b>>, a) = 1 /\ Occurrences(<<a, b, c>>, a) = 1
<1>1. {i \in 1 .. Len(<<a, b>>) : <<a, b>>[i] = a} = {1}
  OBVIOUS
<1>2. {i \in 1 .. Len(<<a, b, c>>) : <<a, b, c>>[i] = a} = {1}
  OBVIOUS
<1>3. QED
  BY <1>1, <1>2, FS_Singleton DEF Occurrences

\* The arguments a line begins with, on Windows and elsewhere.
CoffFirst == {"/DLL", "/WHOLEARCHIVE:archive", "archive", "importlib"}
UnixFirst == {"-shared", "-Wl,-force_load", "archive", "-Wl,--whole-archive", "-Wl,--no-whole-archive", "runtime"}
(* An element at one place only.                                             *)
LEMMA OccursOnce ==
  ASSUME NEW T, NEW s \in Seq(T), NEW x, NEW k \in 1 .. Len(s), s[k] = x, \A i \in 1 .. Len(s) : s[i] = x => i = k
  PROVE  Occurrences(s, x) = 1
<1>1. {i \in 1 .. Len(s) : s[i] = x} = {k}
  OBVIOUS
<1>2. QED
  BY <1>1, FS_Singleton DEF Occurrences

\* Arguments that begin a line: x is the archive, y the runtime.
TwoOf(T, x, y, a) ==
  /\ x \in T /\ y \in T
  /\ x # y
  /\ a = <<x>> \o <<y>>
(* Two, four and five arguments: the archive and the runtime once each.      *)
LEMMA TwoOnce ==
  ASSUME NEW T, NEW x, NEW y, NEW a, TwoOf(T, x, y, a)
  PROVE  /\ a \in Seq(T) /\ Len(a) = 2 /\ a[1] = x /\ a[2] = y
         /\ Occurrences(a, x) = 1 /\ Occurrences(a, y) = 1
<1> x \in T /\ y \in T /\ x # y
  BY DEF TwoOf
<1>0. PICK p, q : p = <<x>> /\ q = <<y>>
  OBVIOUS
<1>1. p = <<x>> /\ q = <<y>> /\ p \in Seq(T) /\ q \in Seq(T) /\ a = p \o q
  BY <1>0 DEF TwoOf
<1>2. Len(p) = 1 /\ Len(q) = 1 /\ p[1] = x /\ q[1] = y
  BY <1>1
<1>3. a \in Seq(T) /\ Len(a) = Len(p) + Len(q) /\ (\A i \in 1 .. Len(p) : a[i] = p[i]) /\ \A i \in 1 .. Len(q) : a[Len(p) + i] = q[i]
  BY <1>1, ConcatIs
<1>4. Len(a) = 2 /\ a[1] = x /\ a[2] = y
  BY <1>2, <1>3
<1>5. PICK k \in 1 .. Len(a) : a[k] = x /\ \A i \in 1 .. Len(a) : a[i] = x => i = k
  <2>1. 1 \in 1 .. Len(a) /\ a[1] = x /\ \A i \in 1 .. Len(a) : a[i] = x => i = 1
    BY <1>4
  <2>2. QED
    BY <2>1
<1>6. PICK m \in 1 .. Len(a) : a[m] = y /\ \A i \in 1 .. Len(a) : a[i] = y => i = m
  <2>1. 2 \in 1 .. Len(a) /\ a[2] = y /\ \A i \in 1 .. Len(a) : a[i] = y => i = 2
    BY <1>4
  <2>2. QED
    BY <2>1
<1>7. Occurrences(a, x) = 1
  BY <1>3, <1>5, OccursOnce
<1>8. Occurrences(a, y) = 1
  BY <1>3, <1>6, OccursOnce
<1>9. QED
  BY <1>3, <1>4, <1>7, <1>8
FourOf(T, u, v, x, y, a) ==
  /\ u \in T /\ v \in T /\ x \in T /\ y \in T
  /\ x # u /\ x # v /\ x # y /\ y # u /\ y # v
  /\ a = <<u, v, x>> \o <<y>>
(* The same of four arguments.                                               *)
LEMMA FourOnce ==
  ASSUME NEW T, NEW u, NEW v, NEW x, NEW y, NEW a, FourOf(T, u, v, x, y, a)
  PROVE  /\ a \in Seq(T) /\ Len(a) = 4 /\ a[1] = u /\ a[2] = v /\ a[3] = x /\ a[4] = y
         /\ Occurrences(a, x) = 1 /\ Occurrences(a, y) = 1
<1> u \in T /\ v \in T /\ x \in T /\ y \in T /\ x # u /\ x # v /\ x # y /\ y # u /\ y # v
  BY DEF FourOf
<1>0. PICK p, q : p = <<u, v, x>> /\ q = <<y>>
  OBVIOUS
<1>1. p = <<u, v, x>> /\ q = <<y>> /\ p \in Seq(T) /\ q \in Seq(T) /\ a = p \o q
  BY <1>0 DEF FourOf
<1>2. Len(p) = 3 /\ Len(q) = 1 /\ p[1] = u /\ p[2] = v /\ p[3] = x /\ q[1] = y
  BY <1>1
<1>3. a \in Seq(T) /\ Len(a) = Len(p) + Len(q) /\ (\A i \in 1 .. Len(p) : a[i] = p[i]) /\ \A i \in 1 .. Len(q) : a[Len(p) + i] = q[i]
  BY <1>1, ConcatIs
<1>4. Len(a) = 4 /\ a[1] = u /\ a[2] = v /\ a[3] = x /\ a[4] = y
  BY <1>2, <1>3
<1>5. PICK k \in 1 .. Len(a) : a[k] = x /\ \A i \in 1 .. Len(a) : a[i] = x => i = k
  <2>1. 3 \in 1 .. Len(a) /\ a[3] = x /\ \A i \in 1 .. Len(a) : a[i] = x => i = 3
    BY <1>4
  <2>2. QED
    BY <2>1
<1>6. PICK m \in 1 .. Len(a) : a[m] = y /\ \A i \in 1 .. Len(a) : a[i] = y => i = m
  <2>1. 4 \in 1 .. Len(a) /\ a[4] = y /\ \A i \in 1 .. Len(a) : a[i] = y => i = 4
    BY <1>4
  <2>2. QED
    BY <2>1
<1>7. Occurrences(a, x) = 1
  BY <1>3, <1>5, OccursOnce
<1>8. Occurrences(a, y) = 1
  BY <1>3, <1>6, OccursOnce
<1>9. QED
  BY <1>3, <1>4, <1>7, <1>8
FiveOf(T, u, v, x, z, y, a) ==
  /\ u \in T /\ v \in T /\ x \in T /\ z \in T /\ y \in T
  /\ x # u /\ x # v /\ x # z /\ x # y /\ y # u /\ y # v /\ y # z
  /\ a = <<u, v, x, z>> \o <<y>>
(* The same of five arguments.                                               *)
LEMMA FiveOnce ==
  ASSUME NEW T, NEW u, NEW v, NEW x, NEW z, NEW y, NEW a, FiveOf(T, u, v, x, z, y, a)
  PROVE  /\ a \in Seq(T) /\ Len(a) = 5 /\ a[1] = u /\ a[2] = v /\ a[3] = x /\ a[4] = z /\ a[5] = y
         /\ Occurrences(a, x) = 1 /\ Occurrences(a, y) = 1
<1> u \in T /\ v \in T /\ x \in T /\ z \in T /\ y \in T /\ x # u /\ x # v /\ x # z /\ x # y /\ y # u /\ y # v /\ y # z
  BY DEF FiveOf
<1>0. PICK p, q : p = <<u, v, x, z>> /\ q = <<y>>
  OBVIOUS
<1>1. p = <<u, v, x, z>> /\ q = <<y>> /\ p \in Seq(T) /\ q \in Seq(T) /\ a = p \o q
  BY <1>0 DEF FiveOf
<1>2. Len(p) = 4 /\ Len(q) = 1 /\ p[1] = u /\ p[2] = v /\ p[3] = x /\ p[4] = z /\ q[1] = y
  BY <1>1
<1>3. a \in Seq(T) /\ Len(a) = Len(p) + Len(q) /\ (\A i \in 1 .. Len(p) : a[i] = p[i]) /\ \A i \in 1 .. Len(q) : a[Len(p) + i] = q[i]
  BY <1>1, ConcatIs
<1>4. Len(a) = 5 /\ a[1] = u /\ a[2] = v /\ a[3] = x /\ a[4] = z /\ a[5] = y
  BY <1>2, <1>3
<1>5. PICK k \in 1 .. Len(a) : a[k] = x /\ \A i \in 1 .. Len(a) : a[i] = x => i = k
  <2>1. 3 \in 1 .. Len(a) /\ a[3] = x /\ \A i \in 1 .. Len(a) : a[i] = x => i = 3
    BY <1>4
  <2>2. QED
    BY <2>1
<1>6. PICK m \in 1 .. Len(a) : a[m] = y /\ \A i \in 1 .. Len(a) : a[i] = y => i = m
  <2>1. 5 \in 1 .. Len(a) /\ a[5] = y /\ \A i \in 1 .. Len(a) : a[i] = y => i = 5
    BY <1>4
  <2>2. QED
    BY <2>1
<1>7. Occurrences(a, x) = 1
  BY <1>3, <1>5, OccursOnce
<1>8. Occurrences(a, y) = 1
  BY <1>3, <1>6, OccursOnce
<1>9. QED
  BY <1>3, <1>4, <1>7, <1>8

(* What the line begins with: the archive once, kept whole for a library,    *)
(* and the runtime once.                                                     *)
LEMMA FirstInputsAre ==
  ASSUME NEW l \in Links
  PROVE  /\ FirstInputs(l) \in Seq(IF ForWindows(l) THEN CoffFirst ELSE UnixFirst)
         /\ Occurrences(FirstInputs(l), "archive") = 1 /\ Occurrences(FirstInputs(l), CompilerRT(l)) = 1
         /\ l.out = "shared" => KeptWhole(l, FirstInputs(l))
<1>0. PICK a : a = FirstInputs(l)
  OBVIOUS
<1>1. l.out = "exe" \/ (l.out = "shared" /\ l.out # "exe")
  BY LinkAssumption
<1>2. CASE ForWindows(l) /\ l.out = "exe"
  <2>1. PICK x \in CoffFirst, y \in CoffFirst : x = "archive" /\ y = "importlib"
    BY DEF CoffFirst
  <2>2. x # y
    BY <2>1
  <2>3. a = <<x>> \o <<y>>
    BY <1>0, <1>1, <1>2, <2>1 DEF FirstInputs, CompilerRT, ForWindows, Darwin
  <2>4. a \in Seq(CoffFirst) /\ Len(a) = 2 /\ a[1] = x /\ a[2] = y /\ Occurrences(a, x) = 1 /\ Occurrences(a, y) = 1
    <3>1. TwoOf(CoffFirst, x, y, a)
      BY <2>2, <2>3 DEF TwoOf
    <3>2. QED
      BY <3>1, TwoOnce
  <2>5. QED
    BY <1>0, <1>1, <1>2, <2>1, <2>4 DEF CompilerRT
<1>3. CASE ForWindows(l) /\ l.out = "shared"
  <2>1. PICK u \in CoffFirst, v \in CoffFirst, x \in CoffFirst, y \in CoffFirst : u = "/DLL" /\ v = "/WHOLEARCHIVE:archive" /\ x = "archive" /\ y = "importlib"
    BY DEF CoffFirst
  <2>2. x # u /\ x # v /\ x # y /\ y # u /\ y # v
    BY <2>1
  <2>3. a = <<u, v, x>> \o <<y>>
    BY <1>0, <1>1, <1>3, <2>1 DEF FirstInputs, CompilerRT, ForWindows, Darwin
  <2>4. a \in Seq(CoffFirst) /\ Len(a) = 4 /\ a[1] = u /\ a[2] = v /\ a[3] = x /\ a[4] = y /\ Occurrences(a, x) = 1 /\ Occurrences(a, y) = 1
    <3>1. FourOf(CoffFirst, u, v, x, y, a)
      BY <2>2, <2>3 DEF FourOf
    <3>2. QED
      BY <3>1, FourOnce
  <2>5. u \in Range(a) /\ v \in Range(a)
    <3>1. 1 \in 1 .. Len(a) /\ 2 \in 1 .. Len(a) /\ Range(a) = {a[i] : i \in 1 .. Len(a)}
      BY <2>4, RangeIs
    <3>2. QED
      BY <2>4, <3>1
  <2>6. KeptWhole(l, a)
    BY <1>3, <2>1, <2>5 DEF KeptWhole, ForWindows, Darwin
  <2>7. QED
    BY <1>0, <1>3, <2>1, <2>4, <2>6 DEF CompilerRT
<1>4. CASE ~ForWindows(l) /\ l.out = "exe"
  <2>1. PICK x \in UnixFirst, y \in UnixFirst : x = "archive" /\ y = "runtime"
    BY DEF UnixFirst
  <2>2. x # y
    BY <2>1
  <2>3. a = <<x>> \o <<y>>
    BY <1>0, <1>1, <1>4, <2>1 DEF FirstInputs, CompilerRT, ForWindows, Darwin
  <2>4. a \in Seq(UnixFirst) /\ Len(a) = 2 /\ a[1] = x /\ a[2] = y /\ Occurrences(a, x) = 1 /\ Occurrences(a, y) = 1
    <3>1. TwoOf(UnixFirst, x, y, a)
      BY <2>2, <2>3 DEF TwoOf
    <3>2. QED
      BY <3>1, TwoOnce
  <2>5. QED
    BY <1>0, <1>1, <1>4, <2>1, <2>4 DEF CompilerRT
<1>5. CASE ~ForWindows(l) /\ l.out = "shared" /\ Darwin(l)
  <2>1. PICK u \in UnixFirst, v \in UnixFirst, x \in UnixFirst, y \in UnixFirst : u = "-shared" /\ v = "-Wl,-force_load" /\ x = "archive" /\ y = "runtime"
    BY DEF UnixFirst
  <2>2. x # u /\ x # v /\ x # y /\ y # u /\ y # v
    BY <2>1
  <2>3. a = <<u, v, x>> \o <<y>>
    BY <1>0, <1>1, <1>5, <2>1 DEF FirstInputs, CompilerRT, ForWindows, Darwin
  <2>4. a \in Seq(UnixFirst) /\ Len(a) = 4 /\ a[1] = u /\ a[2] = v /\ a[3] = x /\ a[4] = y /\ Occurrences(a, x) = 1 /\ Occurrences(a, y) = 1
    <3>1. FourOf(UnixFirst, u, v, x, y, a)
      BY <2>2, <2>3 DEF FourOf
    <3>2. QED
      BY <3>1, FourOnce
  <2>5. 3 \in 2 .. Len(a) /\ a[3 - 1] = v /\ a[3] = x
    BY <2>4
  <2>6. KeptWhole(l, a)
    BY <1>5, <2>1, <2>5 DEF KeptWhole
  <2>7. QED
    BY <1>0, <1>5, <2>1, <2>4, <2>6 DEF CompilerRT
<1>6. CASE ~ForWindows(l) /\ l.out = "shared" /\ ~Darwin(l)
  <2>1. PICK u \in UnixFirst, v \in UnixFirst, x \in UnixFirst, z \in UnixFirst, y \in UnixFirst : u = "-shared" /\ v = "-Wl,--whole-archive" /\ x = "archive" /\ z = "-Wl,--no-whole-archive" /\ y = "runtime"
    BY DEF UnixFirst
  <2>2. x # u /\ x # v /\ x # z /\ x # y /\ y # u /\ y # v /\ y # z
    BY <2>1
  <2>3. a = <<u, v, x, z>> \o <<y>>
    BY <1>0, <1>1, <1>6, <2>1 DEF FirstInputs, CompilerRT, ForWindows, Darwin
  <2>4. a \in Seq(UnixFirst) /\ Len(a) = 5 /\ a[1] = u /\ a[2] = v /\ a[3] = x /\ a[4] = z /\ a[5] = y /\ Occurrences(a, x) = 1 /\ Occurrences(a, y) = 1
    <3>1. FiveOf(UnixFirst, u, v, x, z, y, a)
      BY <2>2, <2>3 DEF FiveOf
    <3>2. QED
      BY <3>1, FiveOnce
  <2>5. 3 \in 2 .. Len(a) - 2 /\ a[3 - 1] = v /\ a[3] = x /\ a[3 + 1] = z /\ a[3 + 2] = y
    BY <2>4
  <2>6. KeptWhole(l, a)
    BY <1>6, <2>1, <2>5 DEF KeptWhole
  <2>7. QED
    BY <1>0, <1>6, <2>1, <2>4, <2>6 DEF CompilerRT
<1>7. QED
  BY <1>1, <1>2, <1>3, <1>4, <1>5, <1>6

(* An archive kept whole stays so, whatever follows.                         *)
LEMMA WholeStays ==
  ASSUME NEW T, NEW l, NEW a \in Seq(T), NEW r \in Seq(T), NEW w, w = a \o r, KeptWhole(l, a)
  PROVE  KeptWhole(l, w)
<1>1. /\ w \in Seq(T) /\ Len(w) = Len(a) + Len(r) /\ Len(a) \in Nat /\ Len(r) \in Nat
      /\ \A i \in 1 .. Len(a) : w[i] = a[i]
  BY ConcatIs
<1>2. Range(a) \subseteq Range(w)
  BY RangeConcat
<1>3. CASE ForWindows(l)
  <2>1. ~Darwin(l)
    BY <1>3 DEF ForWindows, Darwin
  <2>2. {"/DLL", "/WHOLEARCHIVE:archive"} \subseteq Range(a)
    BY <1>3, <2>1 DEF KeptWhole
  <2>3. {"/DLL", "/WHOLEARCHIVE:archive"} \subseteq Range(w)
    BY <1>2, <2>2
  <2>4. QED
    BY <1>3, <2>1, <2>3 DEF KeptWhole
<1>4. CASE ~ForWindows(l) /\ Darwin(l)
  <2>1. PICK i \in 2 .. Len(a) : a[i - 1] = "-Wl,-force_load" /\ a[i] = "archive"
    BY <1>4 DEF KeptWhole
  <2>2. i \in 1 .. Len(a) /\ i - 1 \in 1 .. Len(a) /\ i \in 2 .. Len(w)
    BY <1>1
  <2>3. w[i - 1] = "-Wl,-force_load" /\ w[i] = "archive"
    BY <1>1, <2>1, <2>2
  <2>4. QED
    BY <1>4, <2>2, <2>3 DEF KeptWhole
<1>5. CASE ~ForWindows(l) /\ ~Darwin(l)
  <2>1. PICK i \in 2 .. Len(a) - 2 : /\ a[i - 1] = "-Wl,--whole-archive" /\ a[i] = "archive" /\ a[i + 1] = "-Wl,--no-whole-archive"
                                    /\ a[i + 2] = "runtime"
    BY <1>5 DEF KeptWhole
  <2>2. i \in 1 .. Len(a) /\ i - 1 \in 1 .. Len(a) /\ i + 1 \in 1 .. Len(a) /\ i + 2 \in 1 .. Len(a) /\ i \in 2 .. Len(w) - 2
    BY <1>1
  <2>3. w[i - 1] = "-Wl,--whole-archive" /\ w[i] = "archive" /\ w[i + 1] = "-Wl,--no-whole-archive" /\ w[i + 2] = "runtime"
    BY <1>1, <2>1, <2>2
  <2>4. QED
    BY <1>5, <2>2, <2>3 DEF KeptWhole
<1>6. QED
  BY <1>3, <1>4, <1>5

\* Five lists put together.
FivePartsOf(T, a, b, c, d, e, w) ==
  /\ a \in Seq(T) /\ b \in Seq(T) /\ c \in Seq(T) /\ d \in Seq(T) /\ e \in Seq(T)
  /\ w = a \o b \o c \o d \o e
(* A sequence put together from five.                                        *)
LEMMA FiveParts ==
  ASSUME NEW T, NEW a, NEW b, NEW c, NEW d, NEW e, NEW w, FivePartsOf(T, a, b, c, d, e, w)
  PROVE  /\ w \in Seq(T) /\ \A l : KeptWhole(l, a) => KeptWhole(l, w)
         /\ Range(w) = Range(a) \cup Range(b) \cup Range(c) \cup Range(d) \cup Range(e)
         /\ \A x : Occurrences(w, x)
                    = Occurrences(a, x) + Occurrences(b, x) + Occurrences(c, x) + Occurrences(d, x) + Occurrences(e, x)
<1> a \in Seq(T) /\ b \in Seq(T) /\ c \in Seq(T) /\ d \in Seq(T) /\ e \in Seq(T)
  BY DEF FivePartsOf
<1>1. PICK p : p = a \o b
  OBVIOUS
<1>2. p \in Seq(T) /\ Range(p) = Range(a) \cup Range(b) /\ \A x : Occurrences(p, x) = Occurrences(a, x) + Occurrences(b, x)
  BY <1>1, RangeConcat, OccurrencesConcat
<1>3. PICK q : q = p \o c
  OBVIOUS
<1>4. q \in Seq(T) /\ Range(q) = Range(p) \cup Range(c) /\ \A x : Occurrences(q, x) = Occurrences(p, x) + Occurrences(c, x)
  BY <1>2, <1>3, RangeConcat, OccurrencesConcat
<1>5. PICK r : r = q \o d
  OBVIOUS
<1>6. r \in Seq(T) /\ Range(r) = Range(q) \cup Range(d) /\ \A x : Occurrences(r, x) = Occurrences(q, x) + Occurrences(d, x)
  BY <1>4, <1>5, RangeConcat, OccurrencesConcat
<1>7. w = r \o e
  BY <1>1, <1>3, <1>5 DEF FivePartsOf
<1>8. w \in Seq(T) /\ Range(w) = Range(r) \cup Range(e) /\ \A x : Occurrences(w, x) = Occurrences(r, x) + Occurrences(e, x)
  BY <1>6, <1>7, RangeConcat, OccurrencesConcat
<1>10. Range(w) = Range(a) \cup Range(b) \cup Range(c) \cup Range(d) \cup Range(e)
  BY <1>2, <1>4, <1>6, <1>8
<1>11. \A x : Occurrences(w, x) = Occurrences(a, x) + Occurrences(b, x) + Occurrences(c, x) + Occurrences(d, x) + Occurrences(e, x)
  BY <1>2, <1>4, <1>6, <1>8
<1>12. \A l : KeptWhole(l, a) => KeptWhole(l, w)
  <2>1. \A l : (KeptWhole(l, a) => KeptWhole(l, p)) /\ (KeptWhole(l, p) => KeptWhole(l, q))
    BY <1>1, <1>2, <1>3, WholeStays
  <2>2. \A l : (KeptWhole(l, q) => KeptWhole(l, r)) /\ (KeptWhole(l, r) => KeptWhole(l, w))
    BY <1>4, <1>5, <1>6, <1>7, WholeStays
  <2>3. QED
    BY <2>1, <2>2
<1>13. QED
  BY <1>8, <1>10, <1>11, <1>12

\* The runtime libraries by the names they have on the line.
CoffRuntime == {"libcmt.lib", "libvcruntime.lib", "libucrt.lib", "oldnames.lib"}
(* The four libraries of the C runtime, unless the configuration has one.    *)
LEMMA CRTIs ==
  ASSUME NEW l
  PROVE  CRT(l) \in Seq(CoffRuntime) /\ Range(CRT(l)) = IF HaveCRT(l) THEN {} ELSE CoffRuntime
<1>1. PICK a \in CoffRuntime, b \in CoffRuntime, c \in CoffRuntime, d \in CoffRuntime :
         a = "libcmt.lib" /\ b = "libvcruntime.lib" /\ c = "libucrt.lib" /\ d = "oldnames.lib"
  BY DEF CoffRuntime
<1>2. CoffRuntime = {a, b, c, d}
  BY <1>1 DEF CoffRuntime
<1>3. CRT(l) = IF HaveCRT(l) THEN <<>> ELSE <<a, b, c, d>>
  BY <1>1 DEF CRT, When
<1>4. <<>> \in Seq(CoffRuntime) /\ Range(<<>>) = {} /\ <<a, b, c, d>> \in Seq(CoffRuntime) /\ Range(<<a, b, c, d>>) = {a, b, c, d}
  BY NoneRange, FourRange
<1>5. QED
  BY <1>2, <1>3, <1>4

(* What the line for lld-link gets: one output, a manifest for a program     *)
(* only, and the static C runtime if the configuration names none.           *)
LEMMA WindowsArgsAre ==
  ASSUME NEW l
  PROVE  /\ WindowsArgs(l) \in Seq(CoffArgs)
         /\ Occurrences(WindowsArgs(l), "/out") = 1
         /\ ("manifest" \in Range(WindowsArgs(l))) <=> (l.out = "exe")
         /\ Range(WindowsArgs(l)) \cap kWindowsCRTLibs = IF HaveCRT(l) THEN {} ELSE {"libcmt.lib"}
         /\ ~HaveCRT(l) => CoffRuntime \subseteq Range(WindowsArgs(l))
         /\ "archive" \notin Range(WindowsArgs(l)) /\ "importlib" \notin Range(WindowsArgs(l))
<1>1. PICK a \in CoffArgs, b \in CoffArgs, c \in CoffArgs, m \in CoffArgs, i \in CoffArgs, x \in CoffArgs, g \in CoffArgs :
         a = "/out" /\ b = "/nologo" /\ c = "/SUBSYSTEM:CONSOLE" /\ m = "manifest" /\ i = "/IGNORE:4001" /\ x = "/machine:X64" /\ g = "/DEBUG"
  BY DEF CoffArgs, CoffOnly
<1>2. PICK p1, p2, p3, p4, p5, p6 :
        /\ p1 = <<a, b, c>> /\ p2 = When(l.out = "exe", <<m>>) /\ p3 = <<i>> /\ p4 = CRT(l) /\ p5 = <<x>>
        /\ p6 = When(l.debug, <<g>>)
  OBVIOUS
<1>3. p1 \in Seq(CoffArgs) /\ Range(p1) = {a, b, c} /\ Occurrences(p1, a) = 1
  <2>1. <<a, b, c>> \in Seq(CoffArgs) /\ Range(<<a, b, c>>) = {a, b, c}
    BY ThreeRange
  <2>2. a # b /\ a # c
    BY <1>1
  <2>3. Occurrences(<<a, b, c>>, a) = 1
    BY <2>2, OccursFirst
  <2>4. QED
    BY <1>2, <2>1, <2>3
<1>4. p2 \in Seq(CoffArgs) /\ Range(p2) \subseteq {m} /\ (l.out = "exe" => Range(p2) = {m}) /\ (l.out # "exe" => Range(p2) = {})
  <2>1. <<>> \in Seq(CoffArgs) /\ Range(<<>>) = {} /\ <<m>> \in Seq(CoffArgs) /\ Range(<<m>>) = {m}
    BY NoneRange, OneRange
  <2>2. (l.out = "exe" => p2 = <<m>>) /\ (l.out # "exe" => p2 = <<>>)
    BY <1>2 DEF When
  <2>3. QED
    BY <2>1, <2>2
<1>5. p3 \in Seq(CoffArgs) /\ Range(p3) = {i} /\ p5 \in Seq(CoffArgs) /\ Range(p5) = {x}
  BY <1>2, OneRange
<1>6. p4 \in Seq(CoffArgs) /\ Range(p4) = IF HaveCRT(l) THEN {} ELSE CoffRuntime
  <2>1. CoffRuntime \subseteq CoffArgs
    BY DEF CoffRuntime, CoffArgs, CoffOnly, kWindowsCRTLibs
  <2>2. QED
    BY <1>2, <2>1, CRTIs, SeqWider
<1>7. p6 \in Seq(CoffArgs) /\ Range(p6) \subseteq {g}
  BY <1>2, WhenIs
<1>8. PICK q : q = p1 \o p2 \o p3 \o p4 \o p5
  OBVIOUS
<1>9. /\ q \in Seq(CoffArgs) /\ Range(q) = Range(p1) \cup Range(p2) \cup Range(p3) \cup Range(p4) \cup Range(p5)
      /\ Occurrences(q, a) = Occurrences(p1, a) + Occurrences(p2, a) + Occurrences(p3, a) + Occurrences(p4, a) + Occurrences(p5, a)
  <2>1. p1 \in Seq(CoffArgs) /\ p2 \in Seq(CoffArgs) /\ p3 \in Seq(CoffArgs) /\ p4 \in Seq(CoffArgs) /\ p5 \in Seq(CoffArgs)
    BY <1>3, <1>4, <1>5, <1>6
  <2>2. QED
    <3>1. FivePartsOf(CoffArgs, p1, p2, p3, p4, p5, q)
      BY <1>8, <2>1 DEF FivePartsOf
    <3>2. QED
      BY <3>1, FiveParts
<1>10. PICK w : w = q \o p6
  OBVIOUS
<1>11. w \in Seq(CoffArgs) /\ Range(w) = Range(q) \cup Range(p6) /\ Occurrences(w, a) = Occurrences(q, a) + Occurrences(p6, a)
  BY <1>7, <1>9, <1>10, RangeConcat, OccurrencesConcat
<1>12. WindowsArgs(l) = w
  BY <1>1, <1>2, <1>8, <1>10 DEF WindowsArgs
<1>13. a \notin Range(p2) /\ a \notin Range(p3) /\ a \notin Range(p4) /\ a \notin Range(p5) /\ a \notin Range(p6)
  <2>1. a # m /\ a # i /\ a # x /\ a # g /\ a \notin CoffRuntime
    BY <1>1 DEF CoffRuntime
  <2>2. QED
    BY <1>4, <1>5, <1>6, <1>7, <2>1
<1>14. Occurrences(w, a) = 1
  <2>1. Occurrences(p2, a) = 0 /\ Occurrences(p3, a) = 0 /\ Occurrences(p4, a) = 0 /\ Occurrences(p5, a) = 0 /\ Occurrences(p6, a) = 0
    BY <1>4, <1>5, <1>6, <1>7, <1>13, OccurrencesFinite
  <2>2. QED
    BY <1>3, <1>9, <1>11, <2>1
<1>15. Range(w) = {a, b, c} \cup Range(p2) \cup {i} \cup Range(p4) \cup {x} \cup Range(p6)
  BY <1>3, <1>5, <1>9, <1>11
<1>16. (m \in Range(w)) <=> (l.out = "exe")
  <2>1. m \notin {a, b, c} /\ m # i /\ m # x /\ m # g /\ m \notin CoffRuntime
    BY <1>1 DEF CoffRuntime
  <2>2. m \notin Range(p4) /\ m \notin Range(p6)
    BY <1>6, <1>7, <2>1
  <2>3. m \in Range(p2) <=> l.out = "exe"
    BY <1>4
  <2>4. QED
    BY <1>15, <2>1, <2>2, <2>3
<1>17. Range(w) \cap kWindowsCRTLibs = IF HaveCRT(l) THEN {} ELSE {"libcmt.lib"}
  <2>1. {a, b, c, m, i, x, g} \cap kWindowsCRTLibs = {} /\ CoffRuntime \cap kWindowsCRTLibs = {"libcmt.lib"}
    BY <1>1 DEF CoffRuntime, kWindowsCRTLibs
  <2>2. Range(w) \cap kWindowsCRTLibs = Range(p4) \cap kWindowsCRTLibs
    BY <1>4, <1>7, <1>15, <2>1
  <2>3. QED
    BY <1>6, <2>1, <2>2
<1>18. ~HaveCRT(l) => CoffRuntime \subseteq Range(w)
  BY <1>6, <1>15
<1>19. "archive" \notin Range(w) /\ "importlib" \notin Range(w)
  <2>1. {"archive", "importlib"} \cap ({a, b, c, m, i, x, g} \cup CoffRuntime) = {}
    BY <1>1 DEF CoffRuntime
  <2>2. Range(w) \subseteq {a, b, c, m, i, x, g} \cup CoffRuntime
    BY <1>4, <1>6, <1>7, <1>15
  <2>3. QED
    BY <2>1, <2>2
<1>20. QED
  BY <1>1, <1>11, <1>12, <1>14, <1>16, <1>17, <1>18, <1>19

\* The arguments of a Unix line behind the libraries.
UnixArgNames == {"-o", "output", "libasan", "-fsanitize=address", "-shared-libasan", "-fsanitize=thread"}
(* The arguments a Unix line has of its own.                                 *)
LEMMA UnixArgsAre ==
  ASSUME NEW l
  PROVE  UnixArgs(l) \in Seq(UnixArgNames) /\ Occurrences(UnixArgs(l), "-o") = 1
<1>1. PICK a \in UnixArgNames, b \in UnixArgNames, x \in UnixArgNames, f \in UnixArgNames, h \in UnixArgNames, t \in UnixArgNames :
         a = "-o" /\ b = "output" /\ x = "libasan" /\ f = "-fsanitize=address" /\ h = "-shared-libasan" /\ t = "-fsanitize=thread"
  BY DEF UnixArgNames
<1> DEFINE N == UnixArgNames \ {a}
<1> HIDE DEF N
<1>2. b \in N /\ x \in N /\ f \in N /\ h \in N /\ t \in N /\ N \subseteq UnixArgNames /\ a \notin N
  BY <1>1 DEF N
<1>3. PICK p, q : p = AsanArgs(l) /\ q = When("thread" \in l.san, <<t>>)
  OBVIOUS
<1>4. q \in Seq(N)
  BY <1>2, <1>3, WhenIs
<1>5. p \in Seq(N)
  <2>1. PICK g : g = When("shared" \in l.san, <<h>>)
    OBVIOUS
  <2>2. g \in Seq(N) /\ <<>> \in Seq(N) /\ <<x>> \in Seq(N) /\ <<f>> \in Seq(N)
    BY <1>2, <2>1, WhenIs, NoneRange, OneRange
  <2>3. <<f>> \o g \in Seq(N)
    BY <2>2, ConcatIs
  <2>4. p = <<>> \/ p = <<x>> \/ p = <<f>> \o g
    BY <1>1, <1>3, <2>1 DEF AsanArgs
  <2>5. QED
    BY <2>2, <2>3, <2>4
<1>6. PICK r : r = <<a, b>> \o p
  OBVIOUS
<1>7. UnixArgs(l) = r \o q
  BY <1>1, <1>3, <1>6 DEF UnixArgs
<1>8. <<a, b>> \in Seq(UnixArgNames) /\ p \in Seq(UnixArgNames) /\ q \in Seq(UnixArgNames) /\ Range(p) \subseteq N /\ Range(q) \subseteq N
  BY <1>2, <1>4, <1>5, SeqWider, RangeIs, TwoRange
<1>9. r \in Seq(UnixArgNames) /\ Occurrences(r, a) = Occurrences(<<a, b>>, a) + Occurrences(p, a)
  BY <1>6, <1>8, RangeConcat, OccurrencesConcat
<1>10. r \o q \in Seq(UnixArgNames) /\ Occurrences(r \o q, a) = Occurrences(r, a) + Occurrences(q, a)
  BY <1>8, <1>9, RangeConcat, OccurrencesConcat
<1>11. Occurrences(p, a) = 0 /\ Occurrences(q, a) = 0
  BY <1>2, <1>8, OccurrencesFinite
<1>12. Occurrences(<<a, b>>, a) = 1
  <2>1. a # b
    BY <1>2
  <2>2. QED
    BY <2>1, OccursFirst
<1>13. QED
  BY <1>1, <1>7, <1>9, <1>10, <1>11, <1>12

\* The libraries every Windows program is linked with.
SystemArgs == {"configured.lib"} \cup kWindowsCRTLibs
\* The line without the user's arguments.
OwnArgs(l) ==
  FirstInputs(l) \o DropRpath(l) \o (IF ForWindows(l) THEN WindowsArgs(l) ELSE UnixArgs(l)) \o StripArgs(l) \o l.config.system

(* The user's arguments, taken off again.                                    *)
LEMMA WithoutExtra ==
  ASSUME NEW T, NEW a \in Seq(T), NEW m \in Nat, NEW f, f = [i \in 1 .. m |-> f[i]]
  PROVE  SubSeq(a \o f, 1, Len(a \o f) - m) = a
<1>1. PICK U : U = T \cup {f[i] : i \in 1 .. m}
  OBVIOUS
<1>2. f \in Seq(U) /\ Len(f) = m
  BY <1>1
<1>3. a \in Seq(U)
  BY <1>1
<1>4. PICK w : w = a \o f
  OBVIOUS
<1>5. w \in Seq(U) /\ Len(w) = Len(a) + m /\ Len(a) \in Nat /\ \A i \in 1 .. Len(a) : w[i] = a[i]
  BY <1>2, <1>3, <1>4, ConcatIs
<1>6. Len(w) - m = Len(a)
  BY <1>5
<1>7. SubSeq(w, 1, Len(a)) = a
  BY <1>3, <1>5
<1>8. QED
  BY <1>4, <1>6, <1>7

\* What a line for lld-link has, the bindings by a name that it cannot read.
CoffLine == CoffArgs \cup {"bindings.dll"}
(* The line for lld-link.                                                    *)
LEMMA WindowsLine ==
  ASSUME NEW l \in Links, ForWindows(l), NEW own, own = OwnArgs(l)
  PROVE  /\ own \in Seq(CoffLine)
         /\ Occurrences(own, "archive") = 1 /\ Occurrences(own, "importlib") = 1 /\ Occurrences(own, "runtime") = 0
         /\ l.out = "shared" => KeptWhole(l, own)
         /\ Occurrences(own, "/out") = 1 /\ Occurrences(own, "-o") = 0
         /\ Cardinality(Range(own) \cap kWindowsCRTLibs) = 1
         /\ ~HaveCRT(l) => CoffRuntime \subseteq Range(own)
         /\ ("manifest" \in Range(own)) <=> (l.out = "exe")
<1>1. PICK a, b, w, d, e : a = FirstInputs(l) /\ b = DropRpath(l) /\ w = WindowsArgs(l) /\ d = StripArgs(l) /\ e = l.config.system
  OBVIOUS
<1>2. /\ a \in Seq(CoffFirst) /\ Range(a) \subseteq CoffFirst /\ Occurrences(a, "archive") = 1 /\ Occurrences(a, "importlib") = 1
      /\ l.out = "shared" => KeptWhole(l, a)
  BY <1>1, FirstInputsAre, RangeIs DEF CompilerRT
<1>3. b \in Seq({"configured.lib", "bindings.dll"}) /\ Range(b) \subseteq {"configured.lib", "bindings.dll"}
  BY <1>1, SharedKept, RangeIs DEF SharedArgs
<1>4. d = <<"/OPT:REF">>
  BY <1>1 DEF StripArgs, ForWindows, Darwin
<1>5. d \in Seq({"/OPT:REF"}) /\ Range(d) \subseteq {"/OPT:REF"}
  BY <1>4, OneRange
<1>6. e \in Seq(SystemArgs) /\ Range(e) \subseteq SystemArgs /\ Range(e) = {e[i] : i \in 1 .. Len(e)}
  <2>1. e \in Seq(SystemArgs)
    BY <1>1, LinkAssumption DEF SystemArgs
  <2>2. QED
    BY <2>1, RangeIs
<1>7. /\ w \in Seq(CoffArgs) /\ Occurrences(w, "/out") = 1 /\ Range(w) \subseteq CoffArgs
      /\ ("manifest" \in Range(w)) <=> (l.out = "exe")
      /\ Range(w) \cap kWindowsCRTLibs = IF HaveCRT(l) THEN {} ELSE {"libcmt.lib"}
      /\ ~HaveCRT(l) => CoffRuntime \subseteq Range(w)
      /\ "archive" \notin Range(w) /\ "importlib" \notin Range(w)
  BY <1>1, WindowsArgsAre, RangeIs
<1>8. FivePartsOf(CoffLine, a, b, w, d, e, own)
  <2>1. CoffFirst \subseteq CoffLine /\ SystemArgs \subseteq CoffLine /\ CoffArgs \subseteq CoffLine
    BY DEF CoffFirst, SystemArgs, CoffArgs, CoffOnly, CoffLine
  <2>2. {"configured.lib", "bindings.dll"} \subseteq CoffLine /\ {"/OPT:REF"} \subseteq CoffLine
    BY DEF CoffArgs, CoffOnly, CoffLine
  <2>3. a \in Seq(CoffLine) /\ e \in Seq(CoffLine) /\ b \in Seq(CoffLine) /\ d \in Seq(CoffLine) /\ w \in Seq(CoffLine)
    BY <1>2, <1>3, <1>5, <1>6, <1>7, <2>1, <2>2, SeqWider
  <2>4. own = a \o b \o w \o d \o e
    BY <1>1 DEF OwnArgs
  <2>5. QED
    BY <2>3, <2>4 DEF FivePartsOf
<1>9. /\ own \in Seq(CoffLine) /\ (KeptWhole(l, a) => KeptWhole(l, own))
      /\ Range(own) = Range(a) \cup Range(b) \cup Range(w) \cup Range(d) \cup Range(e)
      /\ \A x : Occurrences(own, x)
           = Occurrences(a, x) + Occurrences(b, x) + Occurrences(w, x) + Occurrences(d, x) + Occurrences(e, x)
  BY <1>8, FiveParts
<1>10. Occurrences(own, "/out") = 1
  <2>1. "/out" \notin Range(a) /\ "/out" \notin Range(b) /\ "/out" \notin Range(d) /\ "/out" \notin Range(e)
    BY <1>2, <1>3, <1>5, <1>6 DEF CoffFirst, SystemArgs, kWindowsCRTLibs
  <2>2. Occurrences(a, "/out") = 0 /\ Occurrences(b, "/out") = 0 /\ Occurrences(d, "/out") = 0 /\ Occurrences(e, "/out") = 0
    BY <1>2, <1>3, <1>5, <1>6, <2>1, OccurrencesFinite
  <2>3. QED
    BY <1>7, <1>9, <2>2
<1>11. Occurrences(own, "-o") = 0
  <2>1. Range(own) \subseteq CoffLine
    BY <1>9, RangeIs
  <2>2. "-o" \notin Range(own)
    BY <2>1 DEF CoffLine, CoffArgs, CoffOnly, kWindowsCRTLibs
  <2>3. QED
    BY <1>9, <2>2, OccurrencesFinite
<1>12. ("manifest" \in Range(own)) <=> (l.out = "exe")
  <2>1. "manifest" \notin Range(a) /\ "manifest" \notin Range(b) /\ "manifest" \notin Range(d) /\ "manifest" \notin Range(e)
    BY <1>2, <1>3, <1>5, <1>6 DEF CoffFirst, SystemArgs, kWindowsCRTLibs
  <2>2. QED
    BY <1>7, <1>9, <2>1
<1>13. Cardinality(Range(own) \cap kWindowsCRTLibs) = 1
  <2>1. CoffFirst \cap kWindowsCRTLibs = {} /\ {"configured.lib", "bindings.dll"} \cap kWindowsCRTLibs = {} /\ "/OPT:REF" \notin kWindowsCRTLibs
    BY DEF CoffFirst, kWindowsCRTLibs
  <2>2. Range(own) \cap kWindowsCRTLibs = (Range(w) \cap kWindowsCRTLibs) \cup (Range(e) \cap kWindowsCRTLibs)
    BY <1>2, <1>3, <1>5, <1>9, <2>1
  <2>3. CASE HaveCRT(l)
    <3>1. PICK i \in 1 .. Len(e) : e[i] \in kWindowsCRTLibs
      BY <1>1, <2>3 DEF HaveCRT
    <3>2. PICK x : x = e[i]
      OBVIOUS
    <3>3. \A j \in 1 .. Len(e) : e[j] \in kWindowsCRTLibs => e[j] = x
      <4> SUFFICES ASSUME NEW j \in 1 .. Len(e), e[j] \in kWindowsCRTLibs PROVE e[j] = x
        OBVIOUS
      <4>1. {e[i], e[j]} \subseteq kWindowsCRTLibs
        BY <3>1
      <4>2. \A p, q \in 1 .. Len(e) : {e[p], e[q]} \subseteq kWindowsCRTLibs => e[p] = e[q]
        BY <1>1, LinkAssumption
      <4>3. QED
        BY <3>2, <4>1, <4>2
    <3>4. Range(e) \cap kWindowsCRTLibs = {x}
      BY <1>6, <3>1, <3>2, <3>3
    <3>5. Range(own) \cap kWindowsCRTLibs = {x}
      BY <1>7, <2>2, <2>3, <3>4
    <3>6. QED
      BY <3>5, FS_Singleton
  <2>4. CASE ~HaveCRT(l)
    <3>1. Range(e) \cap kWindowsCRTLibs = {}
      BY <1>1, <1>6, <2>4 DEF HaveCRT
    <3>2. Range(own) \cap kWindowsCRTLibs = {"libcmt.lib"}
      BY <1>7, <2>2, <2>4, <3>1
    <3>3. QED
      BY <3>2, FS_Singleton
  <2>5. QED
    BY <2>3, <2>4
<1>14. Occurrences(own, "archive") = 1 /\ Occurrences(own, "importlib") = 1
  <2>1. ASSUME NEW x \in {"archive", "importlib"} PROVE Occurrences(own, x) = 1
    <3>1. x \notin Range(b) /\ x \notin Range(w) /\ x \notin Range(d) /\ x \notin Range(e) /\ Occurrences(a, x) = 1
      BY <1>2, <1>3, <1>5, <1>6, <1>7 DEF SystemArgs, kWindowsCRTLibs
    <3>2. Occurrences(b, x) = 0 /\ Occurrences(w, x) = 0 /\ Occurrences(d, x) = 0 /\ Occurrences(e, x) = 0
      BY <1>3, <1>5, <1>6, <1>7, <3>1, OccurrencesFinite
    <3>3. QED
      BY <1>9, <3>1, <3>2
  <2>2. QED
    BY <2>1
<1>15. Occurrences(own, "runtime") = 0
  <2>1. Range(own) \subseteq CoffLine
    BY <1>9, RangeIs
  <2>2. "runtime" \notin Range(own)
    BY <2>1 DEF CoffLine, CoffArgs, CoffOnly, kWindowsCRTLibs
  <2>3. QED
    BY <1>9, <2>2, OccurrencesFinite
<1>16. ~HaveCRT(l) => CoffRuntime \subseteq Range(own)
  BY <1>7, <1>9
<1>17. QED
  BY <1>2, <1>9, <1>10, <1>11, <1>12, <1>13, <1>14, <1>15, <1>16

\* The arguments at the end of a Unix line, and all a line can have.
UnixStrip == {"-Wl,-dead_strip", "-Wl,--gc-sections", "-lm"}
UnixLineArgs == UnixFirst \cup {"configured.lib", "bindings.so", "-Xlinker", "-rpath", "libdir"} \cup UnixArgNames \cup UnixStrip \cup SystemArgs
(* The line for the C compiler.                                              *)
LEMMA UnixLine ==
  ASSUME NEW l \in Links, ~ForWindows(l), NEW own, own = OwnArgs(l)
  PROVE  /\ own \in Seq(UnixLineArgs)
         /\ Occurrences(own, "/out") = 0 /\ Occurrences(own, "-o") = 1
         /\ Occurrences(own, "archive") = 1 /\ Occurrences(own, "importlib") = 0 /\ Occurrences(own, "runtime") = 1
         /\ l.out = "shared" => KeptWhole(l, own)
         /\ CoffOnly \cap Range(own) = {} /\ (Darwin(l) \/ "-lm" \in Range(own))
<1> DEFINE shared == {"configured.lib", "bindings.so", "-Xlinker", "-rpath", "libdir"}
<1>1. PICK a, b, w, d, e : a = FirstInputs(l) /\ b = DropRpath(l) /\ w = UnixArgs(l) /\ d = StripArgs(l) /\ e = l.config.system
  OBVIOUS
<1>2. /\ a \in Seq(UnixFirst) /\ Range(a) \subseteq UnixFirst /\ Occurrences(a, "archive") = 1 /\ Occurrences(a, "runtime") = 1
      /\ l.out = "shared" => KeptWhole(l, a)
  BY <1>1, FirstInputsAre, RangeIs DEF CompilerRT
<1>3. b \in Seq(shared) /\ Range(b) \subseteq shared
  BY <1>1, SharedKept, RangeIs DEF SharedArgs
<1>4. d \in Seq(UnixStrip) /\ Range(d) \subseteq UnixStrip /\ (Darwin(l) \/ "-lm" \in Range(d))
  <2>1. PICK s \in UnixStrip, g \in UnixStrip, m \in UnixStrip : s = "-Wl,-dead_strip" /\ g = "-Wl,--gc-sections" /\ m = "-lm"
    BY DEF UnixStrip
  <2>2. <<s>> \in Seq(UnixStrip) /\ <<g, m>> \in Seq(UnixStrip) /\ Range(<<g, m>>) = {g, m}
    BY OneRange, TwoRange
  <2>3. (Darwin(l) /\ d = <<s>>) \/ d = <<g, m>>
    BY <1>1, <2>1 DEF StripArgs
  <2>4. QED
    BY <2>1, <2>2, <2>3, RangeIs
<1>5. e \in Seq(SystemArgs) /\ Range(e) \subseteq SystemArgs
  BY <1>1, LinkAssumption, RangeIs DEF SystemArgs
<1>6. w \in Seq(UnixArgNames) /\ Occurrences(w, "-o") = 1 /\ Range(w) \subseteq UnixArgNames
  BY <1>1, UnixArgsAre, RangeIs
<1>7. FivePartsOf(UnixLineArgs, a, b, w, d, e, own)
  <2>1. UnixFirst \subseteq UnixLineArgs /\ shared \subseteq UnixLineArgs /\ UnixArgNames \subseteq UnixLineArgs
        /\ UnixStrip \subseteq UnixLineArgs /\ SystemArgs \subseteq UnixLineArgs
    BY DEF UnixLineArgs
  <2>2. a \in Seq(UnixLineArgs) /\ b \in Seq(UnixLineArgs) /\ w \in Seq(UnixLineArgs) /\ d \in Seq(UnixLineArgs) /\ e \in Seq(UnixLineArgs)
    <3> HIDE DEF shared
    <3>1. QED
      BY <1>2, <1>3, <1>4, <1>5, <1>6, <2>1, SeqWider
  <2>3. own = a \o b \o w \o d \o e
    BY <1>1 DEF OwnArgs
  <2>4. QED
    BY <2>2, <2>3 DEF FivePartsOf
<1>8. /\ own \in Seq(UnixLineArgs) /\ (KeptWhole(l, a) => KeptWhole(l, own))
      /\ Range(own) = Range(a) \cup Range(b) \cup Range(w) \cup Range(d) \cup Range(e)
      /\ \A x : Occurrences(own, x)
           = Occurrences(a, x) + Occurrences(b, x) + Occurrences(w, x) + Occurrences(d, x) + Occurrences(e, x)
  BY <1>7, FiveParts
<1>9. Occurrences(own, "-o") = 1
  <2>1. "-o" \notin Range(a) /\ "-o" \notin Range(b) /\ "-o" \notin Range(d) /\ "-o" \notin Range(e)
    <3>1. "-o" \notin UnixFirst /\ "-o" \notin UnixStrip /\ "-o" \notin shared
      BY DEF UnixFirst, UnixStrip
    <3>2. "-o" \notin SystemArgs
      BY DEF SystemArgs, kWindowsCRTLibs
    <3>3. QED
      BY <1>2, <1>3, <1>4, <1>5, <3>1, <3>2
  <2>2. Occurrences(a, "-o") = 0 /\ Occurrences(b, "-o") = 0 /\ Occurrences(d, "-o") = 0 /\ Occurrences(e, "-o") = 0
    BY <1>2, <1>3, <1>4, <1>5, <2>1, OccurrencesFinite
  <2>3. QED
    BY <1>6, <1>8, <2>2
<1>10. CoffOnly \cap UnixLineArgs = {}
  BY DEF CoffOnly, UnixLineArgs, UnixFirst, UnixArgNames, UnixStrip, SystemArgs, kWindowsCRTLibs
<1>11. Range(own) \subseteq UnixLineArgs
  BY <1>8, RangeIs
<1>12. CoffOnly \cap Range(own) = {} /\ "/out" \notin Range(own) /\ "importlib" \notin Range(own)
  BY <1>10, <1>11 DEF CoffOnly
<1>13. Occurrences(own, "/out") = 0 /\ Occurrences(own, "importlib") = 0
  BY <1>8, <1>12, OccurrencesFinite
<1>14. Occurrences(own, "archive") = 1 /\ Occurrences(own, "runtime") = 1
  <2>1. ASSUME NEW x \in {"archive", "runtime"} PROVE Occurrences(own, x) = 1
    <3>1. x \notin shared /\ x \notin UnixArgNames /\ x \notin UnixStrip /\ x \notin SystemArgs
      BY DEF UnixArgNames, UnixStrip, SystemArgs, kWindowsCRTLibs
    <3>2. x \notin Range(b) /\ x \notin Range(w) /\ x \notin Range(d) /\ x \notin Range(e) /\ Occurrences(a, x) = 1
      BY <1>2, <1>3, <1>4, <1>5, <1>6, <3>1
    <3>3. Occurrences(b, x) = 0 /\ Occurrences(w, x) = 0 /\ Occurrences(d, x) = 0 /\ Occurrences(e, x) = 0
      BY <1>3, <1>4, <1>5, <1>6, <3>2, OccurrencesFinite
    <3>4. QED
      BY <1>8, <3>2, <3>3
  <2>2. QED
    BY <2>1
<1>15. Darwin(l) \/ "-lm" \in Range(own)
  BY <1>4, <1>8
<1>16. QED
  BY <1>2, <1>8, <1>9, <1>12, <1>13, <1>14, <1>15

\* What LinkInputsRight says of the line.
LineRight ==
  linker.state = "ran" =>
    LET own == Own(link)
    IN  /\ Occurrences(own, "/out") + Occurrences(own, "-o") = 1
        /\ Occurrences(own, "archive") = 1 /\ (link.out = "shared" => KeptWhole(link, own))
        /\ Occurrences(own, "importlib") = (IF ForWindows(link) THEN 1 ELSE 0)
        /\ Occurrences(own, "runtime") = (IF ForWindows(link) THEN 0 ELSE 1)
        /\ ForWindows(link) =>
             /\ Range(own) \ {"bindings.dll"} \subseteq CoffArgs
             /\ Cardinality(Range(own) \cap kWindowsCRTLibs) = 1
             /\ HaveCRT(link) \/ {"libcmt.lib", "libvcruntime.lib", "libucrt.lib", "oldnames.lib"} \subseteq Range(own)
             /\ (link.out = "exe") = Contains(own, "manifest")
        /\ ~ForWindows(link) =>
             /\ CoffOnly \cap Range(own) = {}
             /\ Darwin(link) \/ "-lm" \in Range(own)

(* Every line that is put together is right.                                 *)
LEMMA LineIsRight ==
  ASSUME link \in Links, linker.state = "ran" => linker.args = LinkerArgs(link)
  PROVE  LineRight
<1> SUFFICES ASSUME linker.state = "ran" PROVE LineRight
  BY DEF LineRight
<1>1. PICK own, f, m : /\ own = OwnArgs(link) /\ m = 2 * Len(link.extra)
                       /\ f = [i \in 1 .. m |-> IF i % 2 = 1 THEN "-Xlinker" ELSE link.extra[i \div 2]]
  OBVIOUS
<1>2. m \in Nat
  BY <1>1, LinkAssumption
<1>3. linker.args = own \o f
  BY <1>1 DEF LinkerArgs, OwnArgs
<1>4. PICK T : own \in Seq(T)
  <2>1. ForWindows(link) => own \in Seq(CoffLine)
    BY <1>1, WindowsLine
  <2>2. ~ForWindows(link) => own \in Seq(UnixLineArgs)
    BY <1>1, UnixLine
  <2>3. QED
    BY <2>1, <2>2
<1>5. f = [i \in 1 .. m |-> f[i]]
  BY <1>1
<1>6. Own(link) = own
  <2>1. SubSeq(own \o f, 1, Len(own \o f) - m) = own
    BY <1>2, <1>4, <1>5, WithoutExtra
  <2>2. QED
    BY <1>1, <1>3, <2>1 DEF Own
<1>7. CASE ForWindows(link)
  <2>1. /\ own \in Seq(CoffLine)
        /\ Occurrences(own, "archive") = 1 /\ Occurrences(own, "importlib") = 1 /\ Occurrences(own, "runtime") = 0
        /\ link.out = "shared" => KeptWhole(link, own)
        /\ Occurrences(own, "/out") = 1 /\ Occurrences(own, "-o") = 0
        /\ Cardinality(Range(own) \cap kWindowsCRTLibs) = 1
        /\ ~HaveCRT(link) => CoffRuntime \subseteq Range(own)
        /\ ("manifest" \in Range(own)) <=> (link.out = "exe")
    BY <1>1, <1>7, WindowsLine
  <2>2. Range(own) \subseteq CoffLine /\ Range(own) = {own[i] : i \in 1 .. Len(own)}
    BY <2>1, RangeIs
  <2>3. Range(own) \ {"bindings.dll"} \subseteq CoffArgs
    BY <2>2 DEF CoffLine
  <2>4. Contains(own, "manifest") <=> "manifest" \in Range(own)
    BY <2>2 DEF Contains
  <2>5. (link.out = "exe") = Contains(own, "manifest")
    BY <2>1, <2>4 DEF Contains
  <2>6. HaveCRT(link) \/ {"libcmt.lib", "libvcruntime.lib", "libucrt.lib", "oldnames.lib"} \subseteq Range(own)
    BY <2>1 DEF CoffRuntime
  <2>7. QED
    BY <1>6, <1>7, <2>1, <2>3, <2>5, <2>6 DEF LineRight
<1>8. CASE ~ForWindows(link)
  <2>1. /\ Occurrences(own, "/out") = 0 /\ Occurrences(own, "-o") = 1
        /\ Occurrences(own, "archive") = 1 /\ Occurrences(own, "importlib") = 0 /\ Occurrences(own, "runtime") = 1
        /\ link.out = "shared" => KeptWhole(link, own)
        /\ CoffOnly \cap Range(own) = {} /\ (Darwin(link) \/ "-lm" \in Range(own))
    BY <1>1, <1>8, UnixLine
  <2>2. QED
    BY <1>6, <1>8, <2>1 DEF LineRight
<1>9. QED
  BY <1>7, <1>8

(* ---------------------------------------------------------------------- *)
(* LinkOutput: the libraries of mojo run                                   *)

(* The first argument is nobody's value.                                     *)
LEMMA FirstIsNoValue == ASSUME NEW args PROVE ~IsValue(args, 1)
BY DEF IsValue

(* An argument is a value exactly if the one before it is a flag that wants  *)
(* one, and is not itself a value.                                           *)
LEMMA ValueFollowsFlag ==
  ASSUME NEW args, NEW m \in Nat, m >= 1
  PROVE  IsValue(args, m + 1) <=> TakesNext(args[m]) /\ ~IsValue(args, m)
<1>1. ASSUME IsValue(args, m + 1) PROVE TakesNext(args[m]) /\ ~IsValue(args, m)
  <2>1. PICK k \in 1 .. m : /\ k % 2 = 1 /\ \A j \in (m + 1) - k .. m : TakesNext(args[j])
                            /\ k = m \/ ~TakesNext(args[m - k])
    <3>1. (m + 1) - 1 = m
      OBVIOUS
    <3>2. PICK k \in 1 .. (m + 1) - 1 : /\ k % 2 = 1 /\ \A j \in (m + 1) - k .. (m + 1) - 1 : TakesNext(args[j])
                                        /\ k = (m + 1) - 1 \/ ~TakesNext(args[(m + 1) - k - 1])
      BY <1>1 DEF IsValue
    <3>3. (m + 1) - k - 1 = m - k
      BY <3>2
    <3>4. QED
      BY <3>1, <3>2, <3>3
  <2>2. TakesNext(args[m])
    <3>1. m \in (m + 1) - k .. m
      OBVIOUS
    <3>2. QED
      BY <2>1, <3>1
  <2>3. ASSUME IsValue(args, m) PROVE FALSE
    <3>1. PICK h \in 1 .. m - 1 : /\ h % 2 = 1 /\ \A j \in m - h .. m - 1 : TakesNext(args[j])
                                  /\ h = m - 1 \/ ~TakesNext(args[m - h - 1])
      BY <2>3 DEF IsValue
    <3>2. CASE m - h < (m + 1) - k
      <4>1. m - k \in m - h .. m - 1 /\ k # m
        BY <3>1, <3>2
      <4>2. QED
        BY <2>1, <3>1, <4>1
    <3>3. CASE (m + 1) - k < m - h
      <4>1. m - h - 1 \in (m + 1) - k .. m /\ h # m - 1
        BY <3>1, <3>3
      <4>2. QED
        BY <2>1, <3>1, <4>1
    <3>4. CASE m - h = (m + 1) - k
      <4>1. k = h + 1
        BY <3>4
      <4>2. QED
        BY <2>1, <3>1, <4>1
    <3>5. QED
      BY <3>2, <3>3, <3>4
  <2>4. QED
    BY <2>2, <2>3
<1>2. ASSUME TakesNext(args[m]), ~IsValue(args, m) PROVE IsValue(args, m + 1)
  <2>1. PICK S : S = {s \in 1 .. m : \A j \in s .. m : TakesNext(args[j])}
    OBVIOUS
  <2>2. m \in S
    BY <1>2, <2>1
  <2>3. PICK s \in S : \A y \in S : s <= y
    <3>1. S \in SUBSET Nat
      BY <2>1
    <3>2. QED
      BY <2>2, <3>1, LeastNat
  <2>4. s \in 1 .. m /\ \A j \in s .. m : TakesNext(args[j])
    BY <2>1, <2>3
  <2>5. s = 1 \/ ~TakesNext(args[s - 1])
    <3> SUFFICES ASSUME s # 1, TakesNext(args[s - 1]) PROVE FALSE
      OBVIOUS
    <3>1. s - 1 \in 1 .. m
      BY <2>4
    <3>2. \A j \in s - 1 .. m : j = s - 1 \/ j \in s .. m
      BY <2>4
    <3>3. s - 1 \in S
      BY <2>1, <2>4, <3>1, <3>2
    <3>4. QED
      BY <2>3, <2>4, <3>3
  <2>6. PICK k : k = (m + 1) - s
    OBVIOUS
  <2>7. k \in 1 .. m /\ (m + 1) - k = s /\ (m + 1) - k - 1 = s - 1
    BY <2>4, <2>6
  <2>8. CASE k % 2 = 1
    <3>1. k \in 1 .. (m + 1) - 1 /\ (k = (m + 1) - 1 \/ ~TakesNext(args[(m + 1) - k - 1]))
      BY <2>4, <2>5, <2>7
    <3>2. \A j \in (m + 1) - k .. (m + 1) - 1 : TakesNext(args[j])
      BY <2>4, <2>7
    <3>3. QED
      BY <2>8, <3>1, <3>2 DEF IsValue
  <2>9. CASE k % 2 = 0
    <3>1. PICK h : h = k - 1
      OBVIOUS
    <3>2. h % 2 = 1 /\ h \in 1 .. m - 1 /\ m - h = s /\ m - h - 1 = s - 1
      BY <2>4, <2>7, <2>9, <3>1
    <3>3. \A j \in m - h .. m - 1 : TakesNext(args[j])
      BY <2>4, <3>2
    <3>4. h = m - 1 \/ ~TakesNext(args[m - h - 1])
      BY <2>4, <2>5, <3>2
    <3>5. IsValue(args, m)
      BY <3>2, <3>3, <3>4 DEF IsValue
    <3>6. QED
      BY <1>2, <3>5
  <2>10. k % 2 = 0 \/ k % 2 = 1
    BY <2>7
  <2>11. QED
    BY <2>8, <2>9, <2>10
<1>3. QED
  BY <1>1, <1>2

(* What a flag that takes the next argument can be.                          *)
LEMMA FlagKinds ==
  ASSUME NEW a, TakesNext(a)
  PROVE  AsDir(a) \/ a.f = "-l"
BY Zenon DEF TakesNext, AsDir, DirFlags

\* The directories are the values of the flags in D, in the order of the flags.
Listed(args, dirs, D) ==
  \E g \in [1 .. Len(dirs) -> D] :
    /\ \A p, q \in 1 .. Len(dirs) : p < q => g[p] < g[q]
    /\ \A i \in D : \E p \in 1 .. Len(dirs) : g[p] = i
    /\ \A p \in 1 .. Len(dirs) : dirs[p] = ValueAt(args, g[p])

(* One more directory at the end of the list.                                *)
LEMMA ListedAppend ==
  ASSUME NEW args, NEW V, NEW dirs \in Seq(V), NEW D \in SUBSET Nat, Listed(args, dirs, D), NEW i \in Nat,
         \A j \in D : j < i, NEW v \in V, v = ValueAt(args, i)
  PROVE  Append(dirs, v) \in Seq(V) /\ Listed(args, Append(dirs, v), D \cup {i})
<1>1. PICK n \in Nat : n = Len(dirs)
  OBVIOUS
<1>2. PICK e : e = Append(dirs, v)
  OBVIOUS
<1>3. e \in Seq(V) /\ Len(e) = n + 1 /\ e[n + 1] = v /\ \A p \in 1 .. n : e[p] = dirs[p]
  BY <1>1, <1>2
<1>4. PICK g \in [1 .. n -> D] :
        /\ \A p, q \in 1 .. n : p < q => g[p] < g[q]
        /\ \A j \in D : \E p \in 1 .. n : g[p] = j
        /\ \A p \in 1 .. n : dirs[p] = ValueAt(args, g[p])
  BY <1>1 DEF Listed
<1>5. PICK h : h = [p \in 1 .. (n + 1) |-> IF p = n + 1 THEN i ELSE g[p]]
  OBVIOUS
<1>6. h[n + 1] = i /\ \A p \in 1 .. n : h[p] = g[p]
  BY <1>5
<1>7. h \in [1 .. (n + 1) -> D \cup {i}]
  <2>1. \A p \in 1 .. (n + 1) : p = n + 1 \/ p \in 1 .. n
    OBVIOUS
  <2>2. \A p \in 1 .. (n + 1) : h[p] \in D \cup {i}
    BY <1>4, <1>6, <2>1
  <2>3. QED
    BY <1>5, <2>2
<1>8. \A p, q \in 1 .. (n + 1) : p < q => h[p] < h[q]
  <2> SUFFICES ASSUME NEW p \in 1 .. (n + 1), NEW q \in 1 .. (n + 1), p < q PROVE h[p] < h[q]
    OBVIOUS
  <2>1. p \in 1 .. n /\ h[p] = g[p] /\ g[p] \in D
    BY <1>4, <1>6
  <2>2. CASE q = n + 1
    BY <1>6, <2>1, <2>2
  <2>3. CASE q \in 1 .. n
    BY <1>4, <1>6, <2>1, <2>3
  <2>4. q = n + 1 \/ q \in 1 .. n
    OBVIOUS
  <2>5. QED
    BY <2>2, <2>3, <2>4
<1>9. \A j \in D \cup {i} : \E p \in 1 .. (n + 1) : h[p] = j
  <2> SUFFICES ASSUME NEW j \in D \cup {i} PROVE \E p \in 1 .. (n + 1) : h[p] = j
    OBVIOUS
  <2>1. CASE j = i
    BY <1>6, <2>1
  <2>2. CASE j \in D
    <3>1. PICK p \in 1 .. n : g[p] = j
      BY <1>4, <2>2
    <3>2. p \in 1 .. (n + 1) /\ h[p] = j
      BY <1>6, <3>1
    <3>3. QED
      BY <3>2
  <2>3. QED
    BY <2>1, <2>2
<1>10. \A p \in 1 .. (n + 1) : e[p] = ValueAt(args, h[p])
  <2> SUFFICES ASSUME NEW p \in 1 .. (n + 1) PROVE e[p] = ValueAt(args, h[p])
    OBVIOUS
  <2>1. p = n + 1 \/ p \in 1 .. n
    OBVIOUS
  <2>2. QED
    BY <1>3, <1>4, <1>6, <2>1
<1>11. Listed(args, e, D \cup {i})
  <2>1. /\ h \in [1 .. Len(e) -> D \cup {i}]
        /\ \A p, q \in 1 .. Len(e) : p < q => h[p] < h[q]
        /\ \A j \in D \cup {i} : \E p \in 1 .. Len(e) : h[p] = j
        /\ \A p \in 1 .. Len(e) : e[p] = ValueAt(args, h[p])
    BY <1>3, <1>7, <1>8, <1>9, <1>10
  <2>2. QED
    BY <2>1, Zenon DEF Listed
<1>12. QED
  BY <1>2, <1>3, <1>11

\* The flags whose value the pass has seen after m arguments.
DirsBy(args, m) == {i \in 1 .. m : AsDir(args[i]) /\ ~IsValue(args, i) /\ (TakesNext(args[i]) => i < m)}
NamesBy(args, m) == {i \in 1 .. m : args[i].f = "-l" /\ ~IsValue(args, i) /\ (TakesNext(args[i]) => i < m)}
Texts(args) == {args[i].raw : i \in 1 .. Len(args)} \cup {args[i].v : i \in 1 .. Len(args)}

\* The pass after m arguments.
PassInv(args, fs, acc, m) ==
  /\ acc \in [dirs : Seq(Texts(args)), libs : Seq(fs), names : Seq(Texts(args)), want : {"none", "dir", "name"}]
  /\ acc.want # "none" <=> IsValue(args, m + 1)
  /\ acc.want = "dir" => AsDir(args[m])
  /\ acc.want = "name" => args[m].f = "-l"
  /\ Listed(args, acc.dirs, DirsBy(args, m))
  /\ \A i \in NamesBy(args, m) : \E p \in 1 .. Len(acc.names) : acc.names[p] = ValueAt(args, i)

\* What one argument adds to the flags seen: the flag before it, if this is its
\* value, or the argument itself, if it is a flag that has its value.
LEMMA SeenNext ==
  ASSUME NEW args, NEW m \in Nat
  PROVE  /\ IsValue(args, m + 1) => m >= 1 /\ TakesNext(args[m]) /\ ~IsValue(args, m) /\ ~IsValue(args, m + 2)
         /\ ~IsValue(args, m + 1) => (IsValue(args, m + 2) <=> TakesNext(args[m + 1]))
         /\ IsValue(args, m + 1) => /\ DirsBy(args, m + 1) = DirsBy(args, m) \cup (IF AsDir(args[m]) THEN {m} ELSE {})
                                    /\ NamesBy(args, m + 1) = NamesBy(args, m) \cup (IF args[m].f = "-l" THEN {m} ELSE {})
                                    /\ \A i \in DirsBy(args, m) : i < m
         /\ ~IsValue(args, m + 1) /\ TakesNext(args[m + 1]) =>
              DirsBy(args, m + 1) = DirsBy(args, m) /\ NamesBy(args, m + 1) = NamesBy(args, m)
         /\ ~IsValue(args, m + 1) /\ ~TakesNext(args[m + 1]) =>
              /\ DirsBy(args, m + 1) = DirsBy(args, m) \cup (IF AsDir(args[m + 1]) THEN {m + 1} ELSE {})
              /\ NamesBy(args, m + 1) = NamesBy(args, m) \cup (IF args[m + 1].f = "-l" THEN {m + 1} ELSE {})
         /\ \A i \in DirsBy(args, m) : i < m + 1
<1>1. (m + 1) + 1 = m + 2 /\ m + 1 >= 1
  OBVIOUS
<1>2. IsValue(args, m + 2) <=> TakesNext(args[m + 1]) /\ ~IsValue(args, m + 1)
  <2>1. IsValue(args, (m + 1) + 1) <=> TakesNext(args[m + 1]) /\ ~IsValue(args, m + 1)
    BY <1>1, ValueFollowsFlag
  <2>2. QED
    BY <1>1, <2>1
<1>3. IsValue(args, m + 1) <=> m >= 1 /\ TakesNext(args[m]) /\ ~IsValue(args, m)
  <2>1. CASE m = 0
    <3>1. m + 1 = 1
      BY <2>1
    <3>2. QED
      BY <2>1, <3>1, FirstIsNoValue
  <2>2. CASE m # 0
    <3>1. m >= 1
      BY <2>2
    <3>2. QED
      BY <3>1, ValueFollowsFlag
  <2>3. QED
    BY <2>1, <2>2
<1>4. \A i : i \in 1 .. m + 1 <=> i \in 1 .. m \/ i = m + 1
  OBVIOUS
<1>5. \A i \in 1 .. m : i < m + 1 /\ (i < m \/ i = m)
  OBVIOUS
<1>6. ASSUME NEW i \in 1 .. m + 1
      PROVE  /\ IsValue(args, m + 1) =>
                  (i \in DirsBy(args, m + 1) <=> i \in DirsBy(args, m) \/ (i = m /\ AsDir(args[m])))
             /\ IsValue(args, m + 1) =>
                  (i \in NamesBy(args, m + 1) <=> i \in NamesBy(args, m) \/ (i = m /\ args[m].f = "-l"))
             /\ ~IsValue(args, m + 1) =>
                  (i \in DirsBy(args, m + 1) <=> i \in DirsBy(args, m) \/ (i = m + 1 /\ AsDir(args[m + 1]) /\ ~TakesNext(args[m + 1])))
             /\ ~IsValue(args, m + 1) =>
                  (i \in NamesBy(args, m + 1) <=> i \in NamesBy(args, m) \/ (i = m + 1 /\ args[m + 1].f = "-l" /\ ~TakesNext(args[m + 1])))
  <2>1. CASE i = m + 1
    <3>1. i \notin 1 .. m /\ ~(i < m + 1) /\ i # m
      BY <2>1
    <3>2. QED
      BY <2>1, <3>1 DEF DirsBy, NamesBy
  <2>2. CASE i = m /\ i \in 1 .. m
    <3>1. i < m + 1 /\ ~(i < m) /\ i # m + 1 /\ i >= 1
      BY <2>2
    <3>2. QED
      BY <1>3, <2>2, <3>1 DEF DirsBy, NamesBy
  <2>3. CASE i # m /\ i \in 1 .. m
    <3>1. i < m + 1 /\ i < m /\ i # m + 1
      BY <2>3
    <3>2. QED
      BY <2>3, <3>1 DEF DirsBy, NamesBy
  <2>4. QED
    BY <1>4, <2>1, <2>2, <2>3
<1>7. DirsBy(args, m) \subseteq 1 .. m + 1 /\ NamesBy(args, m) \subseteq 1 .. m + 1 /\ DirsBy(args, m + 1) \subseteq 1 .. m + 1
      /\ NamesBy(args, m + 1) \subseteq 1 .. m + 1
  BY <1>4 DEF DirsBy, NamesBy
<1>8. ASSUME IsValue(args, m + 1)
      PROVE  /\ DirsBy(args, m + 1) = DirsBy(args, m) \cup (IF AsDir(args[m]) THEN {m} ELSE {})
             /\ NamesBy(args, m + 1) = NamesBy(args, m) \cup (IF args[m].f = "-l" THEN {m} ELSE {})
             /\ \A i \in DirsBy(args, m) : i < m
  <2>1. m \in 1 .. m + 1 /\ TakesNext(args[m])
    BY <1>3, <1>8
  <2>2. \A i \in DirsBy(args, m) : i < m
    BY <1>5, <2>1 DEF DirsBy
  <2>3. QED
    BY <1>6, <1>7, <1>8, <2>1, <2>2
<1>9. m + 1 \in 1 .. m + 1
  OBVIOUS
<1>10. ASSUME ~IsValue(args, m + 1), TakesNext(args[m + 1])
       PROVE  DirsBy(args, m + 1) = DirsBy(args, m) /\ NamesBy(args, m + 1) = NamesBy(args, m)
  BY <1>6, <1>7, <1>10
<1>11. ASSUME ~IsValue(args, m + 1), ~TakesNext(args[m + 1])
       PROVE  /\ DirsBy(args, m + 1) = DirsBy(args, m) \cup (IF AsDir(args[m + 1]) THEN {m + 1} ELSE {})
              /\ NamesBy(args, m + 1) = NamesBy(args, m) \cup (IF args[m + 1].f = "-l" THEN {m + 1} ELSE {})
  BY <1>6, <1>7, <1>9, <1>11
<1>12. \A i \in DirsBy(args, m) : i < m + 1
  BY <1>5 DEF DirsBy
<1>13. QED
  BY <1>2, <1>3, <1>8, <1>10, <1>11, <1>12

(* One more library name at the end of the list.                             *)
LEMMA NamesAppend ==
  ASSUME NEW args, NEW V, NEW ns \in Seq(V), NEW I, \A i \in I : \E p \in 1 .. Len(ns) : ns[p] = ValueAt(args, i), NEW v \in V
  PROVE  /\ Append(ns, v) \in Seq(V) /\ \E p \in 1 .. Len(Append(ns, v)) : Append(ns, v)[p] = v
         /\ \A i \in I : \E p \in 1 .. Len(Append(ns, v)) : Append(ns, v)[p] = ValueAt(args, i)
<1>1. PICK N : N = Append(ns, v)
  OBVIOUS
<1>2. /\ N \in Seq(V) /\ Len(N) = Len(ns) + 1 /\ Len(ns) \in Nat /\ N[Len(ns) + 1] = v /\ \A p \in 1 .. Len(ns) : N[p] = ns[p]
  BY <1>1
<1>3. Len(ns) + 1 \in 1 .. Len(N) /\ \A p \in 1 .. Len(ns) : p \in 1 .. Len(N)
  BY <1>2
<1>4. ASSUME NEW i \in I PROVE \E p \in 1 .. Len(N) : N[p] = ValueAt(args, i)
  BY <1>2, <1>3
<1>5. QED
  BY <1>1, <1>2, <1>3, <1>4

(* One argument of the pass.                                                 *)
LEMMA PassStep ==
  ASSUME NEW args, NEW fs, NEW m \in Nat, Len(args) \in Nat, m + 1 <= Len(args), NEW acc, PassInv(args, fs, acc, m)
  PROVE  PassInv(args, fs, XlinkerStep(fs, acc, args[m + 1]), m + 1)
<1>1. PICK a, new, V : a = args[m + 1] /\ new = XlinkerStep(fs, acc, a) /\ V = Texts(args)
  OBVIOUS
<1>2. acc \in [dirs : Seq(V), libs : Seq(fs), names : Seq(V), want : {"none", "dir", "name"}]
  BY <1>1 DEF PassInv
<1>3. m + 1 \in 1 .. Len(args) /\ (m + 1) + 1 = m + 2
  OBVIOUS
<1>4. a.raw \in V /\ a.v \in V
  BY <1>1, <1>3 DEF Texts
<1>5. DirsBy(args, m) \in SUBSET Nat
  BY DEF DirsBy
<1>6. PICK ds \in Seq(V), ns \in Seq(V), ls \in Seq(fs) : ds = acc.dirs /\ ns = acc.names /\ ls = acc.libs
  BY <1>2
<1>7. /\ Listed(args, ds, DirsBy(args, m)) /\ \A i \in NamesBy(args, m) : \E p \in 1 .. Len(ns) : ns[p] = ValueAt(args, i)
      /\ acc.want # "none" <=> IsValue(args, m + 1)
      /\ acc.want = "dir" => AsDir(args[m])
      /\ acc.want = "name" => args[m].f = "-l"
  BY <1>6 DEF PassInv
<1>9. \A b : AsDir(b) => b.f # "-l" /\ ~hasSharedLibraryExtension(b)
  BY DEF AsDir, DirFlags, hasSharedLibraryExtension
<1>10. CASE IsValue(args, m + 1)
  <2>1. acc.want \in {"dir", "name"}
    BY <1>2, <1>7, <1>10
  <2>2. /\ m >= 1 /\ TakesNext(args[m]) /\ ~IsValue(args, m) /\ ~IsValue(args, m + 2)
        /\ DirsBy(args, m + 1) = DirsBy(args, m) \cup (IF AsDir(args[m]) THEN {m} ELSE {})
        /\ NamesBy(args, m + 1) = NamesBy(args, m) \cup (IF args[m].f = "-l" THEN {m} ELSE {})
        /\ \A i \in DirsBy(args, m) : i < m
    BY <1>10, SeenNext
  <2>3. ValueAt(args, m) = a.raw
    BY <1>1, <2>2 DEF ValueAt
  <2>4. new = [Put(acc, acc.want, a.raw) EXCEPT !.want = "none"]
    BY <1>1, <2>1 DEF XlinkerStep
  <2>5. CASE acc.want = "dir"
    <3>1. new = [acc EXCEPT !.dirs = Append(ds, a.raw), !.want = "none"]
      BY <1>2, <1>6, <2>4, <2>5 DEF Put
    <3>2. Append(ds, a.raw) \in Seq(V) /\ Listed(args, Append(ds, a.raw), DirsBy(args, m) \cup {m})
      BY <1>4, <1>5, <1>7, <2>2, <2>3, ListedAppend
    <3>3. DirsBy(args, m + 1) = DirsBy(args, m) \cup {m} /\ NamesBy(args, m + 1) = NamesBy(args, m)
      BY <1>7, <1>9, <2>2, <2>5
    <3>4. /\ new \in [dirs : Seq(V), libs : Seq(fs), names : Seq(V), want : {"none", "dir", "name"}]
          /\ new.dirs = Append(ds, a.raw) /\ new.names = ns /\ new.want = "none"
      BY <1>2, <1>6, <3>1, <3>2
    <3>5. QED
      BY <1>1, <1>3, <1>7, <2>2, <3>2, <3>3, <3>4 DEF PassInv
  <2>6. CASE acc.want = "name"
    <3>1. new = [acc EXCEPT !.names = Append(ns, a.raw), !.want = "none"]
      BY <1>2, <1>6, <2>4, <2>6 DEF Put
    <3>2. PICK N : N = Append(ns, a.raw)
      OBVIOUS
    <3>3. /\ N \in Seq(V) /\ \E p \in 1 .. Len(N) : N[p] = ValueAt(args, m)
          /\ \A j \in NamesBy(args, m) : \E p \in 1 .. Len(N) : N[p] = ValueAt(args, j)
      <4>1. N \in Seq(V) /\ (\E p \in 1 .. Len(N) : N[p] = a.raw) /\ \A j \in NamesBy(args, m) : \E p \in 1 .. Len(N) : N[p] = ValueAt(args, j)
        BY <1>4, <1>7, <3>2, NamesAppend
      <4>2. QED
        BY <2>3, <4>1
    <3>4. DirsBy(args, m + 1) = DirsBy(args, m) /\ NamesBy(args, m + 1) = NamesBy(args, m) \cup {m}
      BY <1>7, <1>9, <2>2, <2>6
    <3>5. /\ new \in [dirs : Seq(V), libs : Seq(fs), names : Seq(V), want : {"none", "dir", "name"}]
          /\ new.dirs = ds /\ new.names = N /\ new.want = "none"
      BY <1>2, <1>6, <3>1, <3>2, <3>3
    <3>6. \A j \in NamesBy(args, m + 1) : \E p \in 1 .. Len(N) : N[p] = ValueAt(args, j)
      BY <3>3, <3>4
    <3>7. QED
      BY <1>1, <1>3, <1>7, <2>2, <3>4, <3>5, <3>6 DEF PassInv
  <2>7. QED
    BY <2>1, <2>5, <2>6
<1>11. CASE ~IsValue(args, m + 1) /\ TakesNext(a)
  <2>1. acc.want = "none"
    BY <1>7, <1>11
  <2>2. IsValue(args, m + 2) /\ DirsBy(args, m + 1) = DirsBy(args, m) /\ NamesBy(args, m + 1) = NamesBy(args, m)
    BY <1>1, <1>11, SeenNext
  <2>3. new = [acc EXCEPT !.want = IF AsDir(a) THEN "dir" ELSE "name"]
    BY <1>1, <1>11, <2>1 DEF XlinkerStep, Kind
  <2>4. AsDir(a) \/ a.f = "-l"
    BY <1>11, FlagKinds
  <2>5. /\ new \in [dirs : Seq(V), libs : Seq(fs), names : Seq(V), want : {"none", "dir", "name"}]
        /\ new.dirs = ds /\ new.names = ns /\ new.want # "none" /\ (new.want = "dir" => AsDir(a)) /\ (new.want = "name" => a.f = "-l")
    BY <1>2, <1>6, <2>3, <2>4
  <2>6. QED
    BY <1>1, <1>3, <1>7, <2>2, <2>5 DEF PassInv
<1>12. CASE ~IsValue(args, m + 1) /\ ~TakesNext(a)
  <2>1. acc.want = "none"
    BY <1>7, <1>12
  <2>2. /\ ~IsValue(args, m + 2)
        /\ DirsBy(args, m + 1) = DirsBy(args, m) \cup (IF AsDir(a) THEN {m + 1} ELSE {})
        /\ NamesBy(args, m + 1) = NamesBy(args, m) \cup (IF a.f = "-l" THEN {m + 1} ELSE {})
        /\ \A i \in DirsBy(args, m) : i < m + 1
    BY <1>1, <1>12, SeenNext
  <2>3. ValueAt(args, m + 1) = a.v
    BY <1>1, <1>12 DEF ValueAt
  <2>4. CASE AsDir(a)
    <3>1. new = [acc EXCEPT !.dirs = Append(ds, a.v)]
      <4>1. new = Put(acc, Kind(a), a.v)
        BY <1>1, <1>12, <2>1, <2>4 DEF XlinkerStep
      <4>2. QED
        BY <1>6, <2>4, <4>1 DEF Put, Kind
    <3>2. Append(ds, a.v) \in Seq(V) /\ Listed(args, Append(ds, a.v), DirsBy(args, m) \cup {m + 1})
      <4>1. m + 1 \in Nat /\ a.v \in V /\ ds \in Seq(V) /\ DirsBy(args, m) \in SUBSET Nat /\ Listed(args, ds, DirsBy(args, m))
        BY <1>4, <1>5, <1>7
      <4>2. QED
        BY <2>2, <2>3, <4>1, ListedAppend
    <3>3. DirsBy(args, m + 1) = DirsBy(args, m) \cup {m + 1} /\ NamesBy(args, m + 1) = NamesBy(args, m)
      BY <1>9, <2>2, <2>4
    <3>4. /\ new \in [dirs : Seq(V), libs : Seq(fs), names : Seq(V), want : {"none", "dir", "name"}]
          /\ new.dirs = Append(ds, a.v) /\ new.names = ns /\ new.want = "none"
      BY <1>2, <1>6, <2>1, <3>1, <3>2
    <3>5. QED
      BY <1>1, <1>3, <1>7, <2>2, <3>2, <3>3, <3>4 DEF PassInv
  <2>5. CASE ~AsDir(a) /\ a.f = "-l"
    <3>1. new = [acc EXCEPT !.names = Append(ns, a.v)]
      <4>1. new = Put(acc, Kind(a), a.v)
        BY <1>1, <1>12, <2>1, <2>5 DEF XlinkerStep
      <4>2. QED
        BY <1>6, <2>5, <4>1 DEF Put, Kind
    <3>2. PICK N : N = Append(ns, a.v)
      OBVIOUS
    <3>3. /\ N \in Seq(V) /\ \E p \in 1 .. Len(N) : N[p] = ValueAt(args, m + 1)
          /\ \A j \in NamesBy(args, m) : \E p \in 1 .. Len(N) : N[p] = ValueAt(args, j)
      <4>1. N \in Seq(V) /\ (\E p \in 1 .. Len(N) : N[p] = a.v) /\ \A j \in NamesBy(args, m) : \E p \in 1 .. Len(N) : N[p] = ValueAt(args, j)
        BY <1>4, <1>7, <3>2, NamesAppend
      <4>2. QED
        BY <2>3, <4>1
    <3>4. DirsBy(args, m + 1) = DirsBy(args, m) /\ NamesBy(args, m + 1) = NamesBy(args, m) \cup {m + 1}
      BY <2>2, <2>5
    <3>5. /\ new \in [dirs : Seq(V), libs : Seq(fs), names : Seq(V), want : {"none", "dir", "name"}]
          /\ new.dirs = ds /\ new.names = N /\ new.want = "none"
      BY <1>2, <1>6, <2>1, <3>1, <3>2, <3>3
    <3>6. \A j \in NamesBy(args, m + 1) : \E p \in 1 .. Len(N) : N[p] = ValueAt(args, j)
      BY <3>3, <3>4
    <3>7. QED
      BY <1>1, <1>3, <1>7, <2>2, <3>4, <3>5, <3>6 DEF PassInv
  <2>6. CASE ~AsDir(a) /\ a.f # "-l"
    <3>1. DirsBy(args, m + 1) = DirsBy(args, m) /\ NamesBy(args, m + 1) = NamesBy(args, m)
      BY <2>2, <2>6
    <3>2. new = acc \/ (<<"direct", a.raw>> \in fs /\ new = [acc EXCEPT !.libs = Append(ls, <<"direct", a.raw>>)])
      BY <1>1, <1>6, <1>12, <2>1, <2>6 DEF XlinkerStep
    <3>3. /\ new \in [dirs : Seq(V), libs : Seq(fs), names : Seq(V), want : {"none", "dir", "name"}]
          /\ new.dirs = ds /\ new.names = ns /\ new.want = "none"
      <4>1. CASE new = acc
        BY <1>2, <1>6, <2>1, <4>1
      <4>2. CASE <<"direct", a.raw>> \in fs /\ new = [acc EXCEPT !.libs = Append(ls, <<"direct", a.raw>>)]
        <5>1. PICK lib \in fs : lib = <<"direct", a.raw>>
          BY <4>2
        <5>2. Append(ls, lib) \in Seq(fs) /\ new = [acc EXCEPT !.libs = Append(ls, lib)]
          BY <4>2, <5>1
        <5>3. QED
          BY <1>2, <1>6, <2>1, <5>2
      <4>3. QED
        BY <3>2, <4>1, <4>2
    <3>4. QED
      BY <1>1, <1>3, <1>7, <2>2, <3>1, <3>3 DEF PassInv
  <2>7. QED
    BY <2>4, <2>5, <2>6
<1>13. QED
  BY <1>10, <1>11, <1>12

(* The whole pass.                                                           *)
LEMMA PassDone ==
  ASSUME NEW args, args \in Seq(Range(args)), NEW fs
  PROVE  PassInv(args, fs, XlinkerPass(args, fs), Len(args))
<1>1. PICK n \in Nat : n = Len(args)
  OBVIOUS
<1>2. PICK F : /\ F[0] = NothingYet /\ \A i \in 1 .. n : F[i] = XlinkerStep(fs, F[i - 1], args[i])
               /\ XlinkerPass(args, fs) = F[n]
  <2>1. Len(args) \in Nat
    BY <1>1
  <2>2. \E F : PassRuns(args, fs, F)
    BY <2>1, XlinkerPassIs
  <2>3. QED
    BY <1>1, <2>2 DEF PassRuns
<1> DEFINE T == {m \in Nat : m <= n => PassInv(args, fs, F[m], m)}
<1> HIDE DEF T
<1>3. 0 \in T
  <2>1. NothingYet \in [dirs : Seq(Texts(args)), libs : Seq(fs), names : Seq(Texts(args)), want : {"none", "dir", "name"}]
    BY DEF NothingYet
  <2>2. ~IsValue(args, 0 + 1)
    <3>1. 0 + 1 = 1
      OBVIOUS
    <3>2. QED
      BY <3>1, FirstIsNoValue
  <2>3. DirsBy(args, 0) = {} /\ NamesBy(args, 0) = {}
    BY DEF DirsBy, NamesBy
  <2>4. Listed(args, <<>>, {})
    <3>1. PICK g : g = [p \in 1 .. 0 |-> 0]
      OBVIOUS
    <3>2. 1 .. 0 = {} /\ Len(<<>>) = 0
      OBVIOUS
    <3>3. g \in [1 .. Len(<<>>) -> {}]
      BY <3>1, <3>2
    <3>4. \A p \in 1 .. Len(<<>>) : FALSE
      BY <3>2
    <3>5. QED
      BY <3>3, <3>4, Zenon DEF Listed
  <2>5. NothingYet.dirs = <<>> /\ NothingYet.names = <<>> /\ NothingYet.want = "none"
    BY DEF NothingYet
  <2>6. PassInv(args, fs, NothingYet, 0)
    BY <2>1, <2>2, <2>3, <2>4, <2>5 DEF PassInv
  <2>7. QED
    BY <1>2, <2>6 DEF T
<1>4. ASSUME NEW m \in T PROVE m + 1 \in T
  <2> SUFFICES ASSUME m \in Nat, m + 1 <= n PROVE PassInv(args, fs, F[m + 1], m + 1)
    BY <1>4 DEF T
  <2>1. PassInv(args, fs, F[m], m)
    BY <1>4 DEF T
  <2>2. m + 1 \in 1 .. n /\ (m + 1) - 1 = m
    OBVIOUS
  <2>3. F[m + 1] = XlinkerStep(fs, F[m], args[m + 1])
    BY <1>2, <2>2
  <2>4. PassInv(args, fs, XlinkerStep(fs, F[m], args[m + 1]), m + 1)
    BY <1>1, <2>1, PassStep
  <2>5. QED
    BY <2>3, <2>4
<1>5. T = Nat
  <2>1. T \in SUBSET Nat
    BY DEF T
  <2>2. QED
    BY <1>3, <1>4, <2>1, Inductive
<1>6. PassInv(args, fs, F[n], n)
  BY <1>5 DEF T
<1>7. QED
  BY <1>1, <1>2, <1>6

(* A name is looked up in every directory, the first one that has it wins.   *)
LEMMA FoundFirst ==
  ASSUME NEW args, NEW V, NEW dirs \in Seq(V), NEW D \in SUBSET Nat, Listed(args, dirs, D), NEW fs, NEW n,
         NEW H, H = {i \in D : <<ValueAt(args, i), n>> \in fs}
  PROVE  /\ findLibraryByName(n, dirs, fs) \in Seq(fs)
         /\ H # {} => <<ValueAt(args, Min(H)), n>> \in Range(findLibraryByName(n, dirs, fs))
<1>1. PICK has : has = {i \in 1 .. Len(dirs) : <<dirs[i], n>> \in fs}
  OBVIOUS
<1>2. PICK g \in [1 .. Len(dirs) -> D] :
        /\ \A p, q \in 1 .. Len(dirs) : p < q => g[p] < g[q]
        /\ \A i \in D : \E p \in 1 .. Len(dirs) : g[p] = i
        /\ \A p \in 1 .. Len(dirs) : dirs[p] = ValueAt(args, g[p])
  BY DEF Listed
<1>3. CASE has = {}
  <2>1. findLibraryByName(n, dirs, fs) = <<>>
    BY <1>1, <1>3 DEF findLibraryByName
  <2>2. H = {}
    BY <1>1, <1>2, <1>3
  <2>3. <<>> \in Seq(fs)
    OBVIOUS
  <2>4. QED
    BY <2>1, <2>2, <2>3
<1>4. CASE has # {}
  <2>1. PICK i : i = Min(has)
    OBVIOUS
  <2>2. i \in has /\ \A j \in has : i <= j
    <3>1. has \in SUBSET Nat
      BY <1>1
    <3>2. \E k \in has : \A j \in has : k <= j
      BY <1>4, <3>1, LeastNat
    <3>3. QED
      BY <2>1, <3>2 DEF Min
  <2>3. PICK lib : lib = <<dirs[i], n>>
    OBVIOUS
  <2>4. findLibraryByName(n, dirs, fs) = <<lib>> /\ lib \in fs
    BY <1>1, <1>4, <2>1, <2>2, <2>3 DEF findLibraryByName
  <2>5. <<lib>> \in Seq(fs) /\ Range(<<lib>>) = {lib}
    BY <2>4, OneRange
  <2>6. i \in 1 .. Len(dirs) /\ g[i] \in D /\ dirs[i] = ValueAt(args, g[i])
    BY <1>1, <1>2, <2>2
  <2>7. g[i] \in H
    BY <2>3, <2>4, <2>6
  <2>8. \A j \in H : g[i] <= j
    <3> SUFFICES ASSUME NEW j \in H PROVE g[i] <= j
      OBVIOUS
    <3>1. PICK p \in 1 .. Len(dirs) : g[p] = j
      BY <1>2
    <3>2. p \in has
      BY <1>1, <1>2, <3>1
    <3>3. i <= p /\ i \in Int /\ p \in Int
      BY <2>2, <2>6, <3>2
    <3>4. g[i] \in Nat /\ g[p] \in Nat
      BY <1>2, <2>6
    <3>5. i = p \/ i < p
      BY <3>3
    <3>6. QED
      BY <1>2, <2>6, <3>1, <3>4, <3>5
  <2>9. (Min(H)) = g[i]
    <3>1. PICK c : c = Min(H)
      OBVIOUS
    <3>2. c \in H /\ \A j \in H : c <= j
      BY <2>7, <2>8, <3>1 DEF Min
    <3>3. c <= g[i] /\ g[i] <= c /\ c \in Nat /\ g[i] \in Nat
      BY <2>7, <2>8, <3>2
    <3>4. QED
      BY <3>1, <3>3
  <2>10. <<ValueAt(args, Min(H)), n>> = lib
    BY <2>3, <2>6, <2>9
  <2>11. QED
    BY <2>4, <2>5, <2>10
<1>5. QED
  BY <1>3, <1>4

(* What is found for a name stays in the list of libraries.                  *)
LEMMA DeferredKept ==
  ASSUME NEW names, NEW dirs, NEW fs, NEW V, names \in Seq(V), \A n : findLibraryByName(n, dirs, fs) \in Seq(fs)
  PROVE  /\ DeferredLibs(names, dirs, fs) \in Seq(fs)
         /\ \A i \in 1 .. Len(names) : Range(findLibraryByName(names[i], dirs, fs)) \subseteq Range(DeferredLibs(names, dirs, fs))
<1>1. PICK n \in Nat : n = Len(names)
  OBVIOUS
<1>2. PICK F : /\ F[0] = <<>> /\ \A i \in 1 .. n : F[i] = F[i - 1] \o findLibraryByName(names[i], dirs, fs)
               /\ DeferredLibs(names, dirs, fs) = F[n]
  <2>1. Len(names) \in Nat
    BY <1>1
  <2>2. \E F : DeferredRuns(names, dirs, fs, F)
    BY <2>1, DeferredLibsIs
  <2>3. QED
    BY <1>1, <2>2 DEF DeferredRuns
<1> DEFINE T == {m \in Nat : m <= n => /\ F[m] \in Seq(fs)
                                       /\ \A i \in 1 .. m : Range(findLibraryByName(names[i], dirs, fs)) \subseteq Range(F[m])}
<1> HIDE DEF T
<1>3. 0 \in T
  <2>1. F[0] \in Seq(fs) /\ 1 .. 0 = {}
    BY <1>2
  <2>2. QED
    BY <2>1 DEF T
<1>4. ASSUME NEW m \in T PROVE m + 1 \in T
  <2> SUFFICES ASSUME m \in Nat, m + 1 <= n
               PROVE  /\ F[m + 1] \in Seq(fs)
                      /\ \A i \in 1 .. m + 1 : Range(findLibraryByName(names[i], dirs, fs)) \subseteq Range(F[m + 1])
    BY <1>4 DEF T
  <2>1. F[m] \in Seq(fs) /\ \A i \in 1 .. m : Range(findLibraryByName(names[i], dirs, fs)) \subseteq Range(F[m])
    BY <1>4 DEF T
  <2>2. m + 1 \in 1 .. n /\ (m + 1) - 1 = m
    OBVIOUS
  <2>3. PICK f \in Seq(fs) : f = findLibraryByName(names[m + 1], dirs, fs)
    OBVIOUS
  <2>4. F[m + 1] = F[m] \o f
    BY <1>2, <2>2, <2>3
  <2>5. F[m] \o f \in Seq(fs) /\ Range(F[m] \o f) = Range(F[m]) \cup Range(f)
    BY <2>1, RangeConcat
  <2>6. \A i \in 1 .. m + 1 : i \in 1 .. m \/ i = m + 1
    OBVIOUS
  <2>7. QED
    BY <2>1, <2>3, <2>4, <2>5, <2>6
<1>5. T = Nat
  <2>1. T \in SUBSET Nat
    BY DEF T
  <2>2. QED
    BY <1>3, <1>4, <2>1, Inductive
<1>6. n \in T
  BY <1>5
<1>7. QED
  BY <1>1, <1>2, <1>6 DEF T

\* What LinkInputsRight says of the libraries.
LoadsRight ==
  loads.done =>
    LET args == RunArgs(loads.in)
        Has(n) == {i \in Flags(args, DirFlags) : <<ValueAt(args, i), n>> \in loads.in.files}
        names == {ValueAt(args, i) : i \in Flags(args, {"-l"})}
    IN  /\ Range(loads.libs) \subseteq loads.in.files
        /\ \A n \in names : Has(n) # {} => <<ValueAt(args, Min(Has(n))), n>> \in Range(loads.libs)

(* Every list of -Xlinker arguments is resolved right.                       *)
LEMMA LoadsAreRight ==
  ASSUME loads.in \in Loads, loads.done => loads.libs = resolveXlinkerLibraries(RunArgs(loads.in), loads.in.files)
  PROVE  LoadsRight
<1> SUFFICES ASSUME loads.done PROVE LoadsRight
  BY DEF LoadsRight
<1>1. PICK args, fs, D : args = RunArgs(loads.in) /\ fs = loads.in.files /\ D = Flags(args, DirFlags)
  OBVIOUS
<1>2. args \in Seq(Range(args))
  BY <1>1, LoadAssumption
<1>3. PICK r : r = XlinkerPass(args, fs)
  OBVIOUS
<1>4. PassInv(args, fs, r, Len(args))
  BY <1>2, <1>3, PassDone
<1>5. D = DirsBy(args, Len(args)) /\ D \in SUBSET Nat
  BY <1>1 DEF Flags, DirsBy, AsDir
<1>6. Flags(args, {"-l"}) = NamesBy(args, Len(args))
  BY DEF Flags, NamesBy
<1>7. PICK dirs \in Seq(Texts(args)), names \in Seq(Texts(args)), libs \in Seq(fs) : dirs = r.dirs /\ names = r.names /\ libs = r.libs
  BY <1>4 DEF PassInv
<1>8. Listed(args, dirs, D) /\ \A i \in NamesBy(args, Len(args)) : \E p \in 1 .. Len(names) : names[p] = ValueAt(args, i)
  BY <1>4, <1>5, <1>7 DEF PassInv
<1>9. ASSUME NEW n, NEW H, H = {i \in D : <<ValueAt(args, i), n>> \in fs}
      PROVE  /\ findLibraryByName(n, dirs, fs) \in Seq(fs)
             /\ H # {} => <<ValueAt(args, Min(H)), n>> \in Range(findLibraryByName(n, dirs, fs))
  BY <1>5, <1>8, <1>9, FoundFirst
<1>10. \A n : findLibraryByName(n, dirs, fs) \in Seq(fs)
  BY <1>9
<1>11. PICK more : more = DeferredLibs(names, dirs, fs)
  OBVIOUS
<1>12. more \in Seq(fs) /\ \A p \in 1 .. Len(names) : Range(findLibraryByName(names[p], dirs, fs)) \subseteq Range(more)
  BY <1>10, <1>11, DeferredKept
<1>13. loads.libs = libs \o more
  BY <1>1, <1>3, <1>7, <1>11 DEF resolveXlinkerLibraries
<1>14. libs \o more \in Seq(fs) /\ Range(libs \o more) = Range(libs) \cup Range(more)
  BY <1>12, RangeConcat
<1>15. Range(loads.libs) \subseteq fs
  BY <1>13, <1>14, RangeIs
<1>16. ASSUME NEW n \in {ValueAt(args, i) : i \in Flags(args, {"-l"})}, NEW H, H = {i \in D : <<ValueAt(args, i), n>> \in fs}, H # {}
       PROVE  <<ValueAt(args, Min(H)), n>> \in Range(loads.libs)
  <2>1. PICK i \in NamesBy(args, Len(args)) : n = ValueAt(args, i)
    BY <1>6, <1>16
  <2>2. PICK p \in 1 .. Len(names) : names[p] = n
    BY <1>8, <2>1
  <2>3. <<ValueAt(args, Min(H)), n>> \in Range(findLibraryByName(n, dirs, fs))
    BY <1>9, <1>16
  <2>4. QED
    BY <1>12, <1>13, <1>14, <2>2, <2>3
<1>17. \A n \in {ValueAt(args, i) : i \in Flags(args, {"-l"})} :
         {i \in D : <<ValueAt(args, i), n>> \in fs} # {} =>
           <<ValueAt(args, Min({i \in D : <<ValueAt(args, i), n>> \in fs})), n>> \in Range(loads.libs)
  BY <1>16
<1>18. QED
  BY <1>1, <1>15, <1>17, Zenon DEF LoadsRight

\* What the two steps leave: the line that the link asks for, and the
\* libraries of the command line.
LinkInv ==
  /\ link \in Links /\ (linker.state = "ran" => linker.args = LinkerArgs(link))
  /\ loads \in [in : Loads, libs : {loads.libs}, done : BOOLEAN]
  /\ loads.done => loads.libs = resolveXlinkerLibraries(RunArgs(loads.in), loads.in.files)

(* LinkInputsRight: for every link and every list of words of any length the *)
(* line has one output, the archive once and whole for a library, the        *)
(* runtime once and as a file its linker reads, on Windows one C runtime and *)
(* all of it, and nothing that linker does not know, and mojo run loads from *)
(* any directory of the configuration and the command line.                  *)
THEOREM LinkInputsRightHolds == LinkSpec => []LinkInputsRight
<1>1. LinkInit /\ LoadInit => LinkInv
  <2> SUFFICES ASSUME LinkInit, LoadInit PROVE LinkInv
    OBVIOUS
  <2>1. link \in Links /\ linker.state = "none"
    BY DEF LinkInit, NoLink
  <2>2. PICK x \in Loads : loads = [in |-> x, libs |-> <<>>, done |-> FALSE]
    BY DEF LoadInit
  <2>3. QED
    BY <2>1, <2>2 DEF LinkInv
<1>2. LinkInv /\ [(RunLinker /\ UNCHANGED loads) \/ (LoadLibraries /\ UNCHANGED linkVars)]_<<linkVars, loads>> => LinkInv'
  <2> SUFFICES ASSUME LinkInv, [(RunLinker /\ UNCHANGED loads) \/ (LoadLibraries /\ UNCHANGED linkVars)]_<<linkVars, loads>>
               PROVE  LinkInv'
    OBVIOUS
  <2>1. CASE RunLinker /\ UNCHANGED loads
    <3>1. link' = link /\ loads' = loads
      BY <2>1 DEF RunLinker
    <3>2. linker' = [state |-> "refused", args |-> <<>>] \/ linker' = [state |-> "ran", args |-> LinkerArgs(link)]
      BY <2>1 DEF RunLinker
    <3>3. linker'.state = "ran" => linker'.args = LinkerArgs(link)
      BY <3>2
    <3>4. QED
      BY <3>1, <3>3 DEF LinkInv
  <2>2. CASE LoadLibraries /\ UNCHANGED linkVars
    <3>1. link' = link /\ linker' = linker
      BY <2>2 DEF linkVars
    <3>2. loads' = [loads EXCEPT !.libs = resolveXlinkerLibraries(RunArgs(loads.in), loads.in.files), !.done = TRUE]
      BY <2>2 DEF LoadLibraries
    <3>3. loads' \in [in : Loads, libs : {loads'.libs}, done : BOOLEAN] /\ loads'.in = loads.in
          /\ loads'.libs = resolveXlinkerLibraries(RunArgs(loads.in), loads.in.files)
      BY <3>2 DEF LinkInv
    <3>4. QED
      BY <3>1, <3>3 DEF LinkInv
  <2>3. CASE UNCHANGED <<linkVars, loads>>
    <3>1. link' = link /\ linker' = linker /\ loads' = loads
      BY <2>3 DEF linkVars
    <3>2. QED
      BY <3>1 DEF LinkInv
  <2>4. QED
    BY <2>1, <2>2, <2>3
<1>3. LinkInv => LinkInputsRight
  <2> SUFFICES ASSUME LinkInv PROVE LinkInputsRight
    OBVIOUS
  <2>1. LineRight
    BY LineIsRight DEF LinkInv
  <2>2. LoadsRight
    BY LoadsAreRight DEF LinkInv
  <2>3. QED
    BY <2>1, <2>2, Zenon DEF LinkInputsRight, LineRight, LoadsRight
<1>4. QED
  BY <1>1, <1>2, <1>3, PTL DEF LinkSpec

-----------------------------------------------------------------------------

(* The elements of a sequence with one more.                                 *)
LEMMA AppendRange ==
  ASSUME NEW T, NEW s \in Seq(T), NEW x \in T
  PROVE  Append(s, x) \in Seq(T) /\ Range(Append(s, x)) = Range(s) \cup {x}
<1>1. PICK u, n : u = Append(s, x) /\ n = Len(s)
  OBVIOUS
<1>2. n \in Nat /\ u \in Seq(T) /\ Len(u) = n + 1 /\ u[n + 1] = x /\ \A i \in 1 .. n : u[i] = s[i]
  BY <1>1
<1>3. Range(u) = {u[i] : i \in 1 .. n + 1} /\ Range(s) = {s[i] : i \in 1 .. n}
  <2>1. Range(u) = {u[i] : i \in 1 .. Len(u)} /\ Range(s) = {s[i] : i \in 1 .. Len(s)}
    BY <1>2, RangeIs
  <2>2. QED
    BY <1>1, <1>2, <2>1
<1>4. \A i : i \in 1 .. n + 1 <=> i \in 1 .. n \/ i = n + 1
  BY <1>2
<1>5. Range(u) = Range(s) \cup {x}
  BY <1>2, <1>3, <1>4
<1>6. QED
  BY <1>1, <1>2, <1>5

(* The filter runs as it is written.                                         *)
LEMMA FilteredIs ==
  ASSUME NEW s, NEW S, Len(s) \in Nat
  PROVE  Filtered(s, S)[0] = <<>> /\ \A i \in 1 .. Len(s) : Filtered(s, S)[i] = FilterStep(s, S, Filtered(s, S)[i - 1], i)
<1>0. PICK n \in Nat : n = Len(s)
  OBVIOUS
<1> DEFINE T == {m \in Nat : \E F : F = [i \in 0 .. m |-> F[i]] /\ F[0] = <<>> /\ \A i \in 1 .. m : F[i] = FilterStep(s, S, F[i - 1], i)}
<1> HIDE DEF T
<1>1. 0 \in T
  <2>1. PICK G : G = [i \in 0 .. 0 |-> <<>>]
    OBVIOUS
  <2>2. G = [i \in 0 .. 0 |-> G[i]] /\ G[0] = <<>> /\ \A i \in 1 .. 0 : G[i] = FilterStep(s, S, G[i - 1], i)
    BY <2>1
  <2>3. QED
    BY <2>2 DEF T
<1>2. ASSUME NEW m \in T PROVE m + 1 \in T
  <2>1. PICK F : F = [i \in 0 .. m |-> F[i]] /\ F[0] = <<>> /\ \A i \in 1 .. m : F[i] = FilterStep(s, S, F[i - 1], i)
    BY <1>2 DEF T
  <2> m \in Nat
    BY <1>2 DEF T
  <2>2. PICK x : x = FilterStep(s, S, F[m], m + 1)
    OBVIOUS
  <2>3. PICK G : G = [i \in 0 .. (m + 1) |-> IF i = m + 1 THEN x ELSE F[i]]
    OBVIOUS
  <2>4. ASSUME NEW i \in 1 .. (m + 1) PROVE G[i] = FilterStep(s, S, G[i - 1], i)
    <3>1. CASE i = m + 1
      <4>1. G[i - 1] = F[m] /\ G[i] = x
        BY <2>3, <3>1
      <4>2. QED
        BY <2>2, <3>1, <4>1
    <3>2. CASE i \in 1 .. m
      <4>1. G[i] = F[i] /\ G[i - 1] = F[i - 1]
        BY <2>3, <3>2
      <4>2. QED
        BY <2>1, <3>2, <4>1
    <3>3. i = m + 1 \/ i \in 1 .. m
      OBVIOUS
    <3>4. QED
      BY <3>1, <3>2, <3>3
  <2>5. G[0] = <<>> /\ G = [i \in 0 .. (m + 1) |-> G[i]]
    BY <2>1, <2>3
  <2>6. \E H : H = [i \in 0 .. (m + 1) |-> H[i]] /\ H[0] = <<>> /\ \A i \in 1 .. (m + 1) : H[i] = FilterStep(s, S, H[i - 1], i)
    BY <2>4, <2>5
  <2>7. m + 1 \in Nat
    OBVIOUS
  <2>8. QED
    BY <2>6, <2>7, Zenon DEF T
<1>3. T = Nat
  <2>1. T \in SUBSET Nat
    BY DEF T
  <2>2. QED
    BY <1>1, <1>2, <2>1, Inductive
<1>4. PICK G : G = [i \in 0 .. n |-> G[i]] /\ G[0] = <<>> /\ \A i \in 1 .. n : G[i] = FilterStep(s, S, G[i - 1], i)
  BY <1>3 DEF T
<1>5. \A i \in 0 .. n : G[i] = IF i = 0 THEN <<>> ELSE FilterStep(s, S, G[i - 1], i)
  <2> TAKE i \in 0 .. n
  <2>1. i = 0 \/ (i # 0 /\ i \in 1 .. n)
    OBVIOUS
  <2>2. QED
    BY <1>4, <2>1
<1>6. \E F : F = [i \in 0 .. n |-> IF i = 0 THEN <<>> ELSE FilterStep(s, S, F[i - 1], i)]
  <2>1. G = [i \in 0 .. n |-> IF i = 0 THEN <<>> ELSE FilterStep(s, S, G[i - 1], i)]
    BY <1>4, <1>5
  <2>2. QED
    BY <2>1
<1> DEFINE loop[i \in 0 .. n] == IF i = 0 THEN <<>> ELSE FilterStep(s, S, loop[i - 1], i)
<1>7. loop = [i \in 0 .. n |-> IF i = 0 THEN <<>> ELSE FilterStep(s, S, loop[i - 1], i)]
  BY <1>6
<1>8. Filtered(s, S) = loop
  BY <1>0 DEF Filtered
<1> HIDE DEF loop
<1>9. loop[0] = <<>>
  BY <1>7
<1>10. ASSUME NEW i \in 1 .. n PROVE loop[i] = FilterStep(s, S, loop[i - 1], i)
  <2>1. i \in 0 .. n /\ i # 0
    OBVIOUS
  <2>2. QED
    BY <1>7, <2>1
<1>11. QED
  BY <1>0, <1>8, <1>9, <1>10

\* The first m elements of s that are in S.
AmongFirst(s, S, m) == {s[i] : i \in {j \in 1 .. m : s[j] \in S}}
(* What the filter keeps: the elements of S, in order.                       *)
LEMMA FilteredRange ==
  ASSUME NEW T, NEW s \in Seq(T), NEW S
  PROVE  \A n \in 0 .. Len(s) : Filtered(s, S)[n] \in Seq(T) /\ Range(Filtered(s, S)[n]) = AmongFirst(s, S, n)
<1>1. PICK F, n : F = Filtered(s, S) /\ n = Len(s)
  OBVIOUS
<1>2. n \in Nat /\ F[0] = <<>> /\ \A i \in 1 .. n : F[i] = FilterStep(s, S, F[i - 1], i)
  BY <1>1, FilteredIs
<1> DEFINE U == {m \in Nat : m <= n => F[m] \in Seq(T) /\ Range(F[m]) = AmongFirst(s, S, m)}
<1> HIDE DEF U
<1>3. 0 \in U
  <2>1. F[0] \in Seq(T) /\ Range(F[0]) = {}
    BY <1>2 DEF Range
  <2>2. 1 .. 0 = {}
    OBVIOUS
  <2>3. AmongFirst(s, S, 0) = {}
    BY <2>2 DEF AmongFirst
  <2>4. QED
    BY <2>1, <2>3 DEF U
<1>4. ASSUME NEW m \in U PROVE m + 1 \in U
  <2> SUFFICES ASSUME m \in Nat, m + 1 <= n PROVE F[m + 1] \in Seq(T) /\ Range(F[m + 1]) = AmongFirst(s, S, m + 1)
    BY <1>4 DEF U
  <2>1. F[m] \in Seq(T) /\ Range(F[m]) = AmongFirst(s, S, m)
    BY <1>2, <1>4 DEF U
  <2>2. m + 1 \in 1 .. n /\ (m + 1) - 1 = m
    OBVIOUS
  <2>3. F[m + 1] = FilterStep(s, S, F[m], m + 1)
    BY <1>2, <2>2
  <2>4. \A i : i \in 1 .. m + 1 <=> i \in 1 .. m \/ i = m + 1
    OBVIOUS
  <2>5. s[m + 1] \in T
    BY <1>1, <2>2
  <2>6. CASE s[m + 1] \in S
    <3>1. F[m + 1] = Append(F[m], s[m + 1])
      BY <2>3, <2>6 DEF FilterStep
    <3>2. F[m + 1] \in Seq(T) /\ Range(F[m + 1]) = Range(F[m]) \cup {s[m + 1]}
      BY <2>1, <2>5, <3>1, AppendRange
    <3>3. AmongFirst(s, S, m + 1) = AmongFirst(s, S, m) \cup {s[m + 1]}
      BY <2>4, <2>6 DEF AmongFirst
    <3>4. QED
      BY <2>1, <3>2, <3>3
  <2>7. CASE s[m + 1] \notin S
    <3>1. F[m + 1] = F[m]
      BY <2>3, <2>7 DEF FilterStep
    <3>2. AmongFirst(s, S, m + 1) = AmongFirst(s, S, m)
      BY <2>4, <2>7 DEF AmongFirst
    <3>3. QED
      BY <2>1, <3>1, <3>2
  <2>8. QED
    BY <2>6, <2>7
<1>5. U = Nat
  <2>1. U \in SUBSET Nat
    BY DEF U
  <2>2. QED
    BY <1>3, <1>4, <2>1, Inductive
<1>6. \A m \in 0 .. n : F[m] \in Seq(T) /\ Range(F[m]) = AmongFirst(s, S, m)
  <2> TAKE m \in 0 .. n
  <2>1. m \in U /\ m <= n
    BY <1>2, <1>5
  <2>2. QED
    BY <2>1 DEF U
<1>7. QED
  BY <1>1, <1>6

(* ---------------------------------------------------------------------- *)
(* PackageBuild: the clone                                                 *)

\* What the new module gets, in order, and what any other container gets.
ModuleKids(p) == <<p.root>> \o Reverse(TopOps(p, {"closureTrait"})) \o Reverse(TopOps(p, {"thunk"}))
KidsOf(p, c) == IF c = Module THEN ModuleKids(p) ELSE p.kids[c]
Places(p) == {Module} \cup DOMAIN p.kind
Items(p) == [k : {"op", "at"}, id : Places(p)]

(* A sequence backwards has the same elements.                               *)
LEMMA ReverseIs ==
  ASSUME NEW T, NEW s \in Seq(T)
  PROVE  Reverse(s) \in Seq(T) /\ Len(Reverse(s)) = Len(s) /\ Range(Reverse(s)) = Range(s)
<1>1. PICK r, n : r = Reverse(s) /\ n = Len(s)
  OBVIOUS
<1>2. n \in Nat /\ r = [i \in 1 .. n |-> s[(n - i) + 1]]
  BY <1>1 DEF Reverse
<1>3. \A i \in 1 .. n : (n - i) + 1 \in 1 .. n /\ (n - ((n - i) + 1)) + 1 = i
  BY <1>2
<1>4. r \in Seq(T) /\ Len(r) = n
  BY <1>1, <1>2, <1>3
<1>5. \A i \in 1 .. n : r[i] = s[(n - i) + 1] /\ s[i] = r[(n - i) + 1]
  BY <1>2, <1>3
<1>6. Range(r) = {r[i] : i \in 1 .. n} /\ Range(s) = {s[i] : i \in 1 .. n}
  <2>1. Range(r) = {r[i] : i \in 1 .. Len(r)} /\ Range(s) = {s[i] : i \in 1 .. Len(s)}
    BY <1>4, RangeIs
  <2>2. QED
    BY <1>1, <1>4, <2>1
<1>7. Range(r) = Range(s)
  BY <1>3, <1>5, <1>6
<1>8. QED
  BY <1>1, <1>4, <1>7

(* The operations at the top of some kinds.                                  *)
LEMMA TopOpsAre ==
  ASSUME NEW p \in Packages, NEW kinds
  PROVE  TopOps(p, kinds) \in Seq(DOMAIN p.kind) /\ Range(TopOps(p, kinds)) = {o \in Range(p.top) : p.kind[o] \in kinds}
<1>1. PICK s, S, n : s = p.top /\ S = {o \in DOMAIN p.kind : p.kind[o] \in kinds} /\ n = Len(s)
  OBVIOUS
<1>2. s \in Seq(DOMAIN p.kind)
  BY <1>1, PackageAssumption DEF TreeOfOps
<1>3. n \in 0 .. n /\ n \in Nat /\ Range(s) = {s[i] : i \in 1 .. n} /\ Range(s) \subseteq DOMAIN p.kind
  BY <1>1, <1>2, RangeIs
<1>4. Filtered(s, S)[n] \in Seq(DOMAIN p.kind) /\ Range(Filtered(s, S)[n]) = AmongFirst(s, S, n)
  <2>1. \A m \in 0 .. Len(s) : Filtered(s, S)[m] \in Seq(DOMAIN p.kind) /\ Range(Filtered(s, S)[m]) = AmongFirst(s, S, m)
    BY <1>2, FilteredRange
  <2>2. QED
    BY <1>1, <1>3, <2>1
<1>5. AmongFirst(s, S, n) = {o \in Range(s) : p.kind[o] \in kinds}
  BY <1>1, <1>3 DEF AmongFirst
<1>6. QED
  BY <1>1, <1>4, <1>5 DEF TopOps

(* The kids of a container; those of the new module behind the package are   *)
(* no containers.                                                            *)
LEMMA KidsAre ==
  ASSUME NEW p \in Packages
  PROVE  /\ \A c \in Places(p) : KidsOf(p, c) \in Seq(DOMAIN p.kind) /\ Len(KidsOf(p, c)) \in Nat
         /\ Len(ModuleKids(p)) >= 1 /\ ModuleKids(p)[1] = p.root
         /\ \A i \in 2 .. Len(ModuleKids(p)) : p.kind[ModuleKids(p)[i]] \notin Containers
         /\ Range(ModuleKids(p)) = {p.root} \cup {o \in Range(p.top) : p.kind[o] \in {"thunk", "closureTrait"}}
<1> DEFINE D == DOMAIN p.kind
<1>1. PICK a, b, r : a = Reverse(TopOps(p, {"closureTrait"})) /\ b = Reverse(TopOps(p, {"thunk"})) /\ r = <<p.root>>
  OBVIOUS
<1>2. /\ a \in Seq(D) /\ Range(a) = {o \in Range(p.top) : p.kind[o] = "closureTrait"}
      /\ b \in Seq(D) /\ Range(b) = {o \in Range(p.top) : p.kind[o] = "thunk"}
  <2>1. \A kinds : /\ Reverse(TopOps(p, kinds)) \in Seq(D)
                   /\ Range(Reverse(TopOps(p, kinds))) = {o \in Range(p.top) : p.kind[o] \in kinds}
    BY TopOpsAre, ReverseIs
  <2>2. QED
    BY <1>1, <2>1
<1>3. p.root \in D
  BY PackageAssumption DEF TreeOfOps
<1>4. r \in Seq(D) /\ Len(r) = 1 /\ r[1] = p.root /\ Range(r) = {p.root}
  BY <1>1, <1>3, OneRange
<1>5. PICK u : u = r \o a
  OBVIOUS
<1>6. u \in Seq(D) /\ Range(u) = Range(r) \cup Range(a) /\ Len(u) = 1 + Len(a) /\ Len(a) \in Nat /\ u[1] = p.root
      /\ \A i \in 1 .. Len(a) : u[1 + i] = a[i]
  <2>1. Len(r \o a) = Len(r) + Len(a) /\ Len(a) \in Nat /\ (\A i \in 1 .. Len(r) : (r \o a)[i] = r[i]) /\ \A i \in 1 .. Len(a) : (r \o a)[Len(r) + i] = a[i]
    <3>1. r \in Seq(D) /\ a \in Seq(D)
      BY <1>2, <1>4
    <3>2. QED
      BY <3>1, ConcatIs
  <2>2. r \o a \in Seq(D) /\ Range(r \o a) = Range(r) \cup Range(a)
    BY <1>2, <1>4, RangeConcat
  <2>3. QED
    BY <1>4, <1>5, <2>1, <2>2
<1>7. PICK m : m = u \o b
  OBVIOUS
<1>8. m \in Seq(D) /\ Range(m) = Range(u) \cup Range(b) /\ Len(m) = Len(u) + Len(b) /\ Len(b) \in Nat
      /\ (\A i \in 1 .. Len(u) : m[i] = u[i]) /\ \A i \in 1 .. Len(b) : m[Len(u) + i] = b[i]
  <2>1. Len(u \o b) = Len(u) + Len(b) /\ Len(b) \in Nat /\ (\A i \in 1 .. Len(u) : (u \o b)[i] = u[i]) /\ \A i \in 1 .. Len(b) : (u \o b)[Len(u) + i] = b[i]
    <3>1. u \in Seq(D) /\ b \in Seq(D)
      BY <1>2, <1>6
    <3>2. QED
      BY <3>1, ConcatIs
  <2>2. u \o b \in Seq(D) /\ Range(u \o b) = Range(u) \cup Range(b)
    BY <1>2, <1>6, RangeConcat
  <2>3. QED
    BY <1>7, <2>1, <2>2
<1>9. ModuleKids(p) = m
  BY <1>1, <1>5, <1>7 DEF ModuleKids
<1>10. Len(m) >= 1 /\ m[1] = p.root /\ Len(m) \in Nat
  BY <1>6, <1>8
<1>11. ASSUME NEW i \in 2 .. Len(m) PROVE p.kind[m[i]] \notin Containers
  <2>1. CASE i <= Len(u)
    <3>1. i - 1 \in 1 .. Len(a) /\ 1 + (i - 1) = i /\ i \in 1 .. Len(u)
      BY <1>6, <2>1
    <3>2. m[i] = a[i - 1]
      BY <1>6, <1>8, <3>1
    <3>3. a[i - 1] \in Range(a)
      BY <1>2, <3>1, RangeIs
    <3>4. QED
      BY <1>2, <3>2, <3>3 DEF Containers
  <2>2. CASE ~(i <= Len(u))
    <3>1. i - Len(u) \in 1 .. Len(b) /\ Len(u) + (i - Len(u)) = i
      BY <1>6, <1>8, <2>2
    <3>2. m[i] = b[i - Len(u)]
      BY <1>8, <3>1
    <3>3. b[i - Len(u)] \in Range(b)
      BY <1>2, <3>1, RangeIs
    <3>4. QED
      BY <1>2, <3>2, <3>3 DEF Containers
  <2>3. QED
    BY <2>1, <2>2
<1>12. Range(m) = {p.root} \cup {o \in Range(p.top) : p.kind[o] \in {"thunk", "closureTrait"}}
  BY <1>2, <1>4, <1>6, <1>8
<1>13. ASSUME NEW c \in Places(p) PROVE KidsOf(p, c) \in Seq(D) /\ Len(KidsOf(p, c)) \in Nat
  <2>1. CASE c = Module
    BY <1>8, <1>9, <1>10, <2>1 DEF KidsOf
  <2>2. CASE c # Module
    <3>1. p.kids \in [D -> Seq(D)] /\ c \in D
      BY <1>13, <2>2, PackageAssumption DEF TreeOfOps, Places
    <3>2. p.kids[c] \in Seq(D)
      BY <3>1
    <3>3. QED
      BY <2>2, <3>2 DEF KidsOf
  <2>3. QED
    BY <2>1, <2>2
<1>14. QED
  BY <1>9, <1>10, <1>11, <1>12, <1>13

\* The worklist is read from its bottom: place k of it does not move while
\* operations are pushed on top and taken off again.
Below(w, k) == w[(Len(w) + 1) - k]
Spot(p, base, c, i) == (base[c] + Len(KidsOf(p, c)) + 1) - i

\* The clone under way.  A container in cloned has had took of its kids; those
\* that are open are the one at work and the ones to come back to, and base is
\* what lies below their kids.
CloneTypes(p, w, a, cl, took, open, base) ==
  /\ w \in Seq(Items(p)) /\ cl \in [DOMAIN cl -> Seq(DOMAIN p.kind)] /\ DOMAIN cl \subseteq Places(p)
  /\ took \in [DOMAIN cl -> Nat] /\ \A c \in DOMAIN cl : took[c] <= Len(KidsOf(p, c))
  /\ open \subseteq DOMAIN cl /\ a \in open /\ Module \in open /\ took[Module] >= 1
  /\ (\A c \in open : base[c] \in Nat) /\ base[Module] = 0
\* The kids that are left, in order, from the bottom of a container's part.
KidsLeft(p, w, took, open, base) ==
  \A c \in open : \A i \in took[c] + 1 .. Len(KidsOf(p, c)) :
    Spot(p, base, c, i) \in 1 .. Len(w) /\ Below(w, Spot(p, base, c, i)) = Op(KidsOf(p, c)[i])
\* The way back to a container is on top of its part; the part of the one at
\* work is on top of all, and every other part lies on a way back.
WaysBack(p, w, a, took, open, base) ==
  /\ \A c \in open \ {a} : Spot(p, base, c, took[c]) \in 1 .. Len(w) /\ Below(w, Spot(p, base, c, took[c])) = InsertPoint(c)
  /\ Spot(p, base, a, took[a]) = Len(w) + 1
  /\ \A c \in open \ {Module} : \E q \in open \ {a} : base[c] = Spot(p, base, q, took[q])
\* What has been cloned: the kids so far, in order, without the imports.
ClonedSoFar(p, cl, took, open) ==
  /\ \A c \in DOMAIN cl \ open : took[c] = Len(KidsOf(p, c))
  /\ \A c \in DOMAIN cl : cl[c] = Filtered(KidsOf(p, c), NotDropped(p, c))[took[c]]
  /\ \A c \in DOMAIN cl \ {Module} : \E q \in DOMAIN cl : \E i \in 1 .. took[q] : KidsOf(p, q)[i] = c
\* All of it.
CloneInv(p, w, a, cl, took, open, base) ==
  /\ CloneTypes(p, w, a, cl, took, open, base) /\ KidsLeft(p, w, took, open, base)
  /\ WaysBack(p, w, a, took, open, base) /\ ClonedSoFar(p, cl, took, open)

(* What lies on the worklist can be told apart.                              *)
LEMMA ItemsDiffer ==
  ASSUME NEW o, NEW c, NEW d
  PROVE  Op(o) # InsertPoint(c) /\ (InsertPoint(c) = InsertPoint(d) => c = d) /\ Op(o).id = o /\ Op(o).k = "op"
         /\ InsertPoint(c).id = c /\ InsertPoint(c).k = "at"
BY DEF Op, InsertPoint

(* Taking the top off leaves what lies below.                                *)
LEMMA TailBelow ==
  ASSUME NEW I, NEW w \in Seq(I), w # <<>>
  PROVE  /\ Tail(w) \in Seq(I) /\ Len(w) \in Nat /\ Len(w) >= 1 /\ Len(Tail(w)) = Len(w) - 1
         /\ Below(w, Len(w)) = Head(w) /\ Head(w) \in I
         /\ \A k \in 1 .. Len(w) - 1 : Below(Tail(w), k) = Below(w, k)
<1>1. PICK n, t : n = Len(w) /\ t = Tail(w)
  OBVIOUS
<1>2. n \in Nat /\ n >= 1 /\ t \in Seq(I) /\ Len(t) = n - 1 /\ w[1] \in I /\ Head(w) = w[1] /\ \A i \in 1 .. n - 1 : t[i] = w[i + 1]
  BY <1>1
<1>3. Below(w, n) = Head(w)
  <2>1. (n + 1) - n = 1
    BY <1>2
  <2>2. QED
    BY <1>1, <1>2, <2>1 DEF Below
<1>4. ASSUME NEW k \in 1 .. n - 1 PROVE Below(t, k) = Below(w, k)
  <2>1. ((n - 1) + 1) - k \in 1 .. n - 1 /\ (((n - 1) + 1) - k) + 1 = (n + 1) - k
    BY <1>2
  <2>2. QED
    BY <1>1, <1>2, <2>1 DEF Below
<1>5. QED
  BY <1>1, <1>2, <1>3, <1>4

(* So does putting a list on top.                                            *)
LEMMA ConcatBelow ==
  ASSUME NEW I, NEW u \in Seq(I), NEW w \in Seq(I)
  PROVE  /\ u \o w \in Seq(I) /\ Len(u \o w) = Len(u) + Len(w) /\ Len(u) \in Nat /\ Len(w) \in Nat
         /\ \A k \in 1 .. Len(w) : Below(u \o w, k) = Below(w, k)
         /\ \A k \in 1 .. Len(u) : Below(u \o w, Len(w) + k) = Below(u, k)
<1>1. PICK n, m, v : n = Len(u) /\ m = Len(w) /\ v = u \o w
  OBVIOUS
<1>2. /\ v \in Seq(I) /\ Len(v) = n + m /\ n \in Nat /\ m \in Nat
      /\ (\A i \in 1 .. n : v[i] = u[i]) /\ \A i \in 1 .. m : v[n + i] = w[i]
  BY <1>1, ConcatIs
<1>3. ASSUME NEW k \in 1 .. m PROVE Below(v, k) = Below(w, k)
  <2>1. (m + 1) - k \in 1 .. m /\ n + ((m + 1) - k) = (n + m + 1) - k
    BY <1>2
  <2>2. QED
    BY <1>1, <1>2, <2>1 DEF Below
<1>4. ASSUME NEW k \in 1 .. n PROVE Below(v, m + k) = Below(u, k)
  <2>1. (n + 1) - k \in 1 .. n /\ (n + m + 1) - (m + k) = (n + 1) - k
    BY <1>2
  <2>2. QED
    BY <1>1, <1>2, <2>1 DEF Below
<1>5. QED
  BY <1>1, <1>2, <1>3, <1>4

(* Operations pushed on top.                                                 *)
LEMMA PushBelow ==
  ASSUME NEW p, NEW w \in Seq(Items(p)), NEW ops \in Seq(DOMAIN p.kind)
  PROVE  /\ PushOps(w, ops) \in Seq(Items(p)) /\ Len(PushOps(w, ops)) = Len(ops) + Len(w) /\ Len(ops) \in Nat /\ Len(w) \in Nat
         /\ \A k \in 1 .. Len(w) : Below(PushOps(w, ops), k) = Below(w, k)
         /\ \A i \in 1 .. Len(ops) : Below(PushOps(w, ops), (Len(w) + Len(ops) + 1) - i) = Op(ops[i])
<1>1. PICK I, D, v, n, m, u : I = Items(p) /\ D = DOMAIN p.kind /\ v = PushOps(w, ops) /\ n = Len(ops) /\ m = Len(w) /\ u = [i \in 1 .. n |-> Op(ops[i])]
  OBVIOUS
<1>2. n \in Nat /\ m \in Nat /\ \A i \in 1 .. n : ops[i] \in D
  BY <1>1
<1>0. \A o \in D : Op(o) \in I
  BY <1>1 DEF Op, Items, Places
<1>3. u \in Seq(I) /\ Len(u) = n /\ \A i \in 1 .. n : u[i] = Op(ops[i])
  <2>1. \A i \in 1 .. n : u[i] = Op(ops[i]) /\ u[i] \in I
    BY <1>0, <1>1, <1>2
  <2>2. QED
    BY <1>1, <1>2, <2>1
<1>4. v = u \o w
  BY <1>1 DEF PushOps
<1>5. /\ v \in Seq(I) /\ Len(v) = n + m
      /\ (\A k \in 1 .. m : Below(v, k) = Below(w, k)) /\ \A k \in 1 .. n : Below(v, m + k) = Below(u, k)
  <2>1. /\ u \o w \in Seq(I) /\ Len(u \o w) = Len(u) + Len(w)
        /\ (\A k \in 1 .. Len(w) : Below(u \o w, k) = Below(w, k)) /\ \A k \in 1 .. Len(u) : Below(u \o w, Len(w) + k) = Below(u, k)
    <3>1. u \in Seq(I) /\ w \in Seq(I)
      BY <1>1, <1>3
    <3>2. QED
      BY <3>1, ConcatBelow
  <2>2. QED
    BY <1>1, <1>3, <1>4, <2>1
<1>6. ASSUME NEW i \in 1 .. n PROVE Below(v, (m + n + 1) - i) = Op(ops[i])
  <2>1. (n + 1) - i \in 1 .. n /\ m + ((n + 1) - i) = (m + n + 1) - i /\ (n + 1) - ((n + 1) - i) = i
    BY <1>2
  <2>2. Below(v, m + ((n + 1) - i)) = Below(u, (n + 1) - i)
    BY <1>5, <2>1
  <2>3. Below(u, (n + 1) - i) = u[i]
    BY <1>3, <2>1 DEF Below
  <2>4. QED
    BY <1>3, <2>1, <2>2, <2>3
<1>7. QED
  BY <1>1, <1>2, <1>5, <1>6

(* Spots are numbers, lower for later kids.                                  *)
LEMMA SpotType ==
  ASSUME NEW p \in Packages, NEW base, NEW c \in Places(p), base[c] \in Nat, NEW i \in Nat
  PROVE  /\ Spot(p, base, c, i) \in Int /\ Spot(p, base, c, i + 1) = Spot(p, base, c, i) - 1
         /\ i <= Len(KidsOf(p, c)) => Spot(p, base, c, i) > base[c]
<1>1. Len(KidsOf(p, c)) \in Nat
  BY KidsAre
<1>2. QED
  BY <1>1 DEF Spot

(* The top of the worklist: a way back if the container at work is finished, *)
(* and its next kid if not.                                                  *)
LEMMA TopOfWorklist ==
  ASSUME NEW p \in Packages, NEW w, NEW a, NEW cl, NEW took, NEW open, NEW base, CloneInv(p, w, a, cl, took, open, base), w # <<>>
  PROVE  /\ Head(w).k = "at" => /\ took[a] = Len(KidsOf(p, a)) /\ a # Module /\ Head(w).id \in open \ {a} /\ Head(w) = InsertPoint(Head(w).id)
                                /\ Spot(p, base, Head(w).id, took[Head(w).id]) = Len(w)
         /\ Head(w).k = "op" => took[a] + 1 <= Len(KidsOf(p, a)) /\ Head(w) = Op(KidsOf(p, a)[took[a] + 1])
         /\ Head(w).k \in {"at", "op"}
<1>1. CloneTypes(p, w, a, cl, took, open, base) /\ KidsLeft(p, w, took, open, base) /\ WaysBack(p, w, a, took, open, base)
  BY DEF CloneInv
<1>2. Len(w) \in Nat /\ Len(w) >= 1 /\ Below(w, Len(w)) = Head(w) /\ Head(w) \in Items(p)
  BY <1>1, TailBelow DEF CloneTypes
<1>3. a \in DOMAIN cl /\ a \in open /\ a \in Places(p) /\ took[a] \in Nat /\ took[a] <= Len(KidsOf(p, a)) /\ base[a] \in Nat
      /\ Len(KidsOf(p, a)) \in Nat
  BY <1>1, KidsAre DEF CloneTypes
<1>4. Spot(p, base, a, took[a]) = Len(w) + 1
  BY <1>1 DEF WaysBack
<1>5. CASE took[a] = Len(KidsOf(p, a))
  <2>1. base[a] = Len(w)
    BY <1>2, <1>3, <1>4, <1>5 DEF Spot
  <2>2. a # Module
    BY <1>1, <1>2, <2>1 DEF CloneTypes
  <2>3. PICK q \in open \ {a} : base[a] = Spot(p, base, q, took[q])
    BY <1>1, <1>3, <2>2 DEF WaysBack
  <2>4. Below(w, Len(w)) = InsertPoint(q)
    BY <1>1, <2>1, <2>3 DEF WaysBack
  <2>5. Head(w).k = "at" /\ Head(w).id = q /\ Head(w) = InsertPoint(q)
    BY <1>2, <2>4, ItemsDiffer
  <2>6. QED
    BY <1>5, <2>1, <2>2, <2>3, <2>5
<1>6. CASE took[a] # Len(KidsOf(p, a))
  <2>1. took[a] + 1 \in took[a] + 1 .. Len(KidsOf(p, a))
    BY <1>3, <1>6
  <2>2. Spot(p, base, a, took[a] + 1) = Len(w)
    <3>1. PICK b, l, m : b = base[a] /\ l = Len(KidsOf(p, a)) /\ m = took[a]
      OBVIOUS
    <3>2. b \in Nat /\ l \in Nat /\ m \in Nat /\ (b + l + 1) - m = Len(w) + 1
      BY <1>3, <1>4, <3>1 DEF Spot
    <3>3. (b + l + 1) - (m + 1) = Len(w)
      BY <1>2, <3>2
    <3>4. QED
      BY <3>1, <3>3 DEF Spot
  <2>3. Head(w) = Op(KidsOf(p, a)[took[a] + 1])
    BY <1>1, <1>2, <1>3, <2>1, <2>2 DEF KidsLeft
  <2>4. Head(w).k = "op"
    BY <2>3, ItemsDiffer
  <2>5. QED
    BY <1>3, <2>1, <2>3, <2>4
<1>7. QED
  BY <1>5, <1>6

(* A way back is taken: the container at work is finished.                   *)
LEMMA CloneBack ==
  ASSUME NEW p \in Packages, NEW w, NEW a, NEW cl, NEW took, NEW open, NEW base, CloneInv(p, w, a, cl, took, open, base),
         w # <<>>, Head(w).k = "at"
  PROVE  CloneInv(p, Tail(w), Head(w).id, cl, took, open \ {a}, base)
<1>1. CloneTypes(p, w, a, cl, took, open, base) /\ KidsLeft(p, w, took, open, base) /\ WaysBack(p, w, a, took, open, base)
      /\ ClonedSoFar(p, cl, took, open)
  BY DEF CloneInv
<1>2. PICK q, t, n : q = Head(w).id /\ t = Tail(w) /\ n = Len(w)
  OBVIOUS
<1>3. /\ t \in Seq(Items(p)) /\ n \in Nat /\ n >= 1 /\ Len(t) = n - 1 /\ Below(w, n) = Head(w)
      /\ \A k \in 1 .. n - 1 : Below(t, k) = Below(w, k)
  BY <1>1, <1>2, TailBelow DEF CloneTypes
<1>4. took[a] = Len(KidsOf(p, a)) /\ a # Module /\ q \in open \ {a} /\ Head(w) = InsertPoint(q) /\ Spot(p, base, q, took[q]) = n
  BY <1>2, TopOfWorklist
<1>5. \A c \in open : c \in Places(p) /\ base[c] \in Nat /\ took[c] \in Nat /\ took[c] <= Len(KidsOf(p, c)) /\ Len(KidsOf(p, c)) \in Nat
  BY <1>1, KidsAre DEF CloneTypes
<1>6. CloneTypes(p, t, q, cl, took, open \ {a}, base)
  BY <1>1, <1>3, <1>4 DEF CloneTypes
<1>7. ASSUME NEW c \in open \ {a} PROVE Spot(p, base, c, took[c]) \in 1 .. n /\ (c # q => Spot(p, base, c, took[c]) \in 1 .. n - 1)
  <2>1. Spot(p, base, c, took[c]) \in 1 .. n /\ Below(w, Spot(p, base, c, took[c])) = InsertPoint(c)
    BY <1>1, <1>2 DEF WaysBack
  <2>2. c # q => Spot(p, base, c, took[c]) # n
    BY <1>3, <1>4, <2>1, ItemsDiffer
  <2>3. QED
    BY <1>3, <2>1, <2>2
<1>8. KidsLeft(p, t, took, open \ {a}, base)
  <2> SUFFICES ASSUME NEW c \in open \ {a}, NEW i \in took[c] + 1 .. Len(KidsOf(p, c))
               PROVE  Spot(p, base, c, i) \in 1 .. Len(t) /\ Below(t, Spot(p, base, c, i)) = Op(KidsOf(p, c)[i])
    BY DEF KidsLeft
  <2>1. Spot(p, base, c, i) \in 1 .. n /\ Below(w, Spot(p, base, c, i)) = Op(KidsOf(p, c)[i])
    BY <1>1, <1>2 DEF KidsLeft
  <2>2. Spot(p, base, c, i) # n
    BY <1>3, <1>4, <2>1, ItemsDiffer
  <2>3. Spot(p, base, c, i) \in 1 .. n - 1
    BY <1>3, <2>1, <2>2
  <2>4. QED
    BY <1>3, <2>1, <2>3
<1>9. WaysBack(p, t, q, took, open \ {a}, base)
  <2>1. ASSUME NEW c \in (open \ {a}) \ {q}
        PROVE  Spot(p, base, c, took[c]) \in 1 .. Len(t) /\ Below(t, Spot(p, base, c, took[c])) = InsertPoint(c)
    <3>1. Below(w, Spot(p, base, c, took[c])) = InsertPoint(c)
      BY <1>1 DEF WaysBack
    <3>2. QED
      BY <1>3, <1>7, <3>1
  <2>2. Spot(p, base, q, took[q]) = Len(t) + 1
    BY <1>3, <1>4
  <2>3. ASSUME NEW c \in (open \ {a}) \ {Module} PROVE \E r \in (open \ {a}) \ {q} : base[c] = Spot(p, base, r, took[r])
    <3>1. PICK r \in open \ {a} : base[c] = Spot(p, base, r, took[r])
      BY <1>1 DEF WaysBack
    <3>2. Spot(p, base, c, took[c]) > base[c] /\ Spot(p, base, c, took[c]) \in 1 .. n
      BY <1>5, <1>7, SpotType
    <3>3. base[c] # n /\ base[c] \in Nat
      BY <1>3, <1>5, <3>2
    <3>4. r # q
      BY <1>4, <3>1, <3>3
    <3>5. QED
      BY <3>1, <3>4
  <2>4. QED
    BY <2>1, <2>2, <2>3 DEF WaysBack
<1>10. ClonedSoFar(p, cl, took, open \ {a})
  BY <1>1, <1>4 DEF ClonedSoFar
<1>11. CloneInv(p, t, q, cl, took, open \ {a}, base)
  BY <1>6, <1>8, <1>9, <1>10 DEF CloneInv
<1>12. QED
  BY <1>2, <1>11

(* The kids taken, one more of them in the container at work.                *)
OneMore(took, a) == [took EXCEPT ![a] = @ + 1]

(* The next kid of the container at work is taken off the worklist.          *)
LEMMA KidTaken ==
  ASSUME NEW p \in Packages, NEW w, NEW a, NEW cl, NEW took, NEW open, NEW base, CloneInv(p, w, a, cl, took, open, base),
         w # <<>>, Head(w).k = "op"
  PROVE  /\ took[a] + 1 <= Len(KidsOf(p, a)) /\ Head(w).id = KidsOf(p, a)[took[a] + 1] /\ Head(w).id \in DOMAIN p.kind
         /\ OneMore(took, a) \in [DOMAIN cl -> Nat] /\ OneMore(took, a)[a] = took[a] + 1 /\ \A c \in DOMAIN cl \ {a} : OneMore(took, a)[c] = took[c]
         /\ \A c \in DOMAIN cl : OneMore(took, a)[c] <= Len(KidsOf(p, c))
         /\ KidsLeft(p, Tail(w), OneMore(took, a), open, base) /\ WaysBack(p, Tail(w), a, OneMore(took, a), open, base)
         /\ Filtered(KidsOf(p, a), NotDropped(p, a))[OneMore(took, a)[a]]
              = IF Dropped(p, a, Head(w).id) THEN cl[a] ELSE Append(cl[a], Head(w).id)
<1>1. CloneTypes(p, w, a, cl, took, open, base) /\ KidsLeft(p, w, took, open, base) /\ WaysBack(p, w, a, took, open, base)
      /\ ClonedSoFar(p, cl, took, open)
  BY DEF CloneInv
<1>2. PICK took2, x, t, n, m, ks : took2 = OneMore(took, a) /\ x = Head(w).id /\ t = Tail(w) /\ n = Len(w) /\ m = took[a] /\ ks = KidsOf(p, a)
  OBVIOUS
<1>3. /\ n \in Nat /\ n >= 1 /\ Len(t) = n - 1 /\ Below(w, n) = Head(w)
      /\ \A k \in 1 .. n - 1 : Below(t, k) = Below(w, k)
  BY <1>1, <1>2, TailBelow DEF CloneTypes
<1>4. m + 1 <= Len(ks) /\ Head(w) = Op(x) /\ x = ks[m + 1]
  <2>1. m + 1 <= Len(ks) /\ Head(w) = Op(ks[m + 1])
    BY <1>2, TopOfWorklist
  <2>2. QED
    BY <1>2, <2>1, ItemsDiffer
<1>5. \A c \in DOMAIN cl : c \in Places(p) /\ took[c] \in Nat /\ took[c] <= Len(KidsOf(p, c)) /\ Len(KidsOf(p, c)) \in Nat
  BY <1>1, KidsAre DEF CloneTypes
<1>6. a \in DOMAIN cl /\ a \in open /\ open \subseteq DOMAIN cl /\ m \in Nat /\ Len(ks) \in Nat /\ \A c \in open : base[c] \in Nat
  BY <1>1, <1>2, <1>5 DEF CloneTypes
<1>7. took2 \in [DOMAIN cl -> Nat] /\ took2[a] = m + 1 /\ \A c \in DOMAIN cl \ {a} : took2[c] = took[c]
  BY <1>1, <1>2, <1>6 DEF CloneTypes, OneMore
<1>8. \A c \in DOMAIN cl : took2[c] <= Len(KidsOf(p, c))
  BY <1>2, <1>4, <1>5, <1>7
<1>9. x \in DOMAIN p.kind
  <2>1. ks \in Seq(DOMAIN p.kind)
    BY <1>2, <1>5, <1>6, KidsAre
  <2>2. m + 1 \in 1 .. Len(ks)
    BY <1>4, <1>6
  <2>3. QED
    BY <1>4, <2>1, <2>2
<1>10. Spot(p, base, a, m) = n + 1
  BY <1>1, <1>2 DEF WaysBack
<1>11. ASSUME NEW c \in open \ {a}
       PROVE  /\ Spot(p, base, c, took[c]) \in 1 .. n - 1 /\ Spot(p, base, c, took2[c]) = Spot(p, base, c, took[c])
              /\ Below(t, Spot(p, base, c, took[c])) = InsertPoint(c)
  <2>1. Spot(p, base, c, took[c]) \in 1 .. n /\ Below(w, Spot(p, base, c, took[c])) = InsertPoint(c)
    BY <1>1, <1>2 DEF WaysBack
  <2>2. Spot(p, base, c, took[c]) # n
    BY <1>3, <1>4, <2>1, ItemsDiffer
  <2>3. Spot(p, base, c, took[c]) \in 1 .. n - 1
    BY <1>3, <2>1, <2>2
  <2>4. took2[c] = took[c]
    BY <1>6, <1>7
  <2>5. QED
    BY <1>3, <2>1, <2>3, <2>4
<1>12. KidsLeft(p, t, took2, open, base)
  <2> SUFFICES ASSUME NEW c \in open, NEW i \in took2[c] + 1 .. Len(KidsOf(p, c))
               PROVE  Spot(p, base, c, i) \in 1 .. Len(t) /\ Below(t, Spot(p, base, c, i)) = Op(KidsOf(p, c)[i])
    BY DEF KidsLeft
  <2>1. PICK b, l, k : b = base[c] /\ l = Len(KidsOf(p, c)) /\ k = took[c]
    OBVIOUS
  <2>2. b \in Nat /\ l \in Nat /\ k \in Nat /\ k <= l
    BY <1>5, <1>6, <2>1
  <2>3. i \in Nat /\ i \in k + 1 .. l /\ (c = a => i > k + 1)
    <3>1. PICK h : h = took2[c]
      OBVIOUS
    <3>2. h \in Nat /\ h = (IF c = a THEN k + 1 ELSE k)
      BY <1>2, <1>6, <1>7, <2>1, <3>1
    <3>3. i \in h + 1 .. l
      BY <2>1, <3>1
    <3>4. QED
      BY <2>2, <3>2, <3>3
  <2>4. Spot(p, base, c, i) \in 1 .. n /\ Below(w, Spot(p, base, c, i)) = Op(KidsOf(p, c)[i])
    BY <1>1, <1>2, <2>1, <2>3 DEF KidsLeft
  <2>5. Spot(p, base, c, i) = (b + l + 1) - i /\ Spot(p, base, c, took[c]) = (b + l + 1) - k
    BY <2>1 DEF Spot
  <2>6. (b + l + 1) - i \in 1 .. n - 1
    <3>1. CASE c = a
      <4>1. (b + l + 1) - k = n + 1
        BY <1>2, <1>10, <2>5, <3>1
      <4>2. QED
        BY <1>3, <2>2, <2>3, <2>4, <2>5, <3>1, <4>1
    <3>2. CASE c # a
      <4>1. (b + l + 1) - k \in 1 .. n - 1
        BY <1>11, <2>5, <3>2
      <4>2. QED
        BY <1>3, <2>2, <2>3, <2>4, <2>5, <4>1
    <3>3. QED
      BY <3>1, <3>2
  <2>7. QED
    BY <1>3, <2>4, <2>5, <2>6
<1>13. WaysBack(p, t, a, took2, open, base)
  <2>1. Spot(p, base, a, took2[a]) = Len(t) + 1
    <3>1. Spot(p, base, a, m + 1) = Spot(p, base, a, m) - 1
      BY <1>5, <1>6, SpotType
    <3>2. QED
      BY <1>3, <1>7, <1>10, <3>1
  <2>2. \A c \in open \ {a} : Spot(p, base, c, took2[c]) \in 1 .. Len(t) /\ Below(t, Spot(p, base, c, took2[c])) = InsertPoint(c)
    BY <1>3, <1>11
  <2>3. \A c \in open \ {Module} : \E q \in open \ {a} : base[c] = Spot(p, base, q, took2[q])
    BY <1>1, <1>11 DEF WaysBack
  <2>4. QED
    BY <2>1, <2>2, <2>3 DEF WaysBack
<1>14. Filtered(ks, NotDropped(p, a))[m + 1] = IF Dropped(p, a, x) THEN cl[a] ELSE Append(cl[a], x)
  <2>1. m + 1 \in 1 .. Len(ks) /\ (m + 1) - 1 = m
    BY <1>4, <1>6
  <2>2. Filtered(ks, NotDropped(p, a))[m + 1] = FilterStep(ks, NotDropped(p, a), Filtered(ks, NotDropped(p, a))[m], m + 1)
    BY <1>6, <2>1, FilteredIs
  <2>3. Filtered(ks, NotDropped(p, a))[m] = cl[a]
    BY <1>1, <1>2, <1>6 DEF ClonedSoFar
  <2>4. x \in NotDropped(p, a) <=> ~Dropped(p, a, x)
    BY <1>9 DEF NotDropped
  <2>5. QED
    BY <1>4, <2>2, <2>3, <2>4 DEF FilterStep
<1>15. QED
  BY <1>2, <1>4, <1>7, <1>8, <1>9, <1>12, <1>13, <1>14

(* Any other operation is cloned whole, or dropped.                          *)
LEMMA CloneOther ==
  ASSUME NEW p \in Packages, NEW w, NEW a, NEW cl, NEW took, NEW open, NEW base, CloneInv(p, w, a, cl, took, open, base),
         w # <<>>, Head(w).k = "op"
  PROVE  CloneInv(p, Tail(w), a, IF Dropped(p, a, Head(w).id) THEN cl ELSE [cl EXCEPT ![a] = Append(@, Head(w).id)],
                  OneMore(took, a), open, base)
<1>1. CloneTypes(p, w, a, cl, took, open, base) /\ ClonedSoFar(p, cl, took, open)
  BY DEF CloneInv
<1>2. PICK x, t, took2, cl2 : /\ x = Head(w).id /\ t = Tail(w) /\ took2 = OneMore(took, a)
                              /\ cl2 = IF Dropped(p, a, x) THEN cl ELSE [cl EXCEPT ![a] = Append(@, x)]
  OBVIOUS
<1>3. /\ x \in DOMAIN p.kind
      /\ took2 \in [DOMAIN cl -> Nat] /\ took2[a] = took[a] + 1 /\ (\A c \in DOMAIN cl \ {a} : took2[c] = took[c])
      /\ \A c \in DOMAIN cl : took2[c] <= Len(KidsOf(p, c))
      /\ KidsLeft(p, t, took2, open, base) /\ WaysBack(p, t, a, took2, open, base)
      /\ Filtered(KidsOf(p, a), NotDropped(p, a))[took2[a]] = IF Dropped(p, a, x) THEN cl[a] ELSE Append(cl[a], x)
  BY <1>2, KidTaken
<1>4. t \in Seq(Items(p))
  BY <1>1, <1>2, TailBelow DEF CloneTypes
<1>5. a \in DOMAIN cl /\ cl \in [DOMAIN cl -> Seq(DOMAIN p.kind)] /\ took \in [DOMAIN cl -> Nat] /\ open \subseteq DOMAIN cl
  BY <1>1 DEF CloneTypes
<1>6. cl2 \in [DOMAIN cl -> Seq(DOMAIN p.kind)] /\ DOMAIN cl2 = DOMAIN cl
      /\ cl2[a] = (IF Dropped(p, a, x) THEN cl[a] ELSE Append(cl[a], x)) /\ \A c \in DOMAIN cl \ {a} : cl2[c] = cl[c]
  <2>1. cl[a] \in Seq(DOMAIN p.kind) /\ Append(cl[a], x) \in Seq(DOMAIN p.kind)
    BY <1>3, <1>5
  <2>2. CASE Dropped(p, a, x)
    BY <1>2, <1>5, <2>2
  <2>3. CASE ~Dropped(p, a, x)
    BY <1>2, <1>5, <2>1, <2>3
  <2>4. QED
    BY <2>2, <2>3
<1>7. CloneTypes(p, t, a, cl2, took2, open, base)
  <2>1. took2[Module] >= 1
    <3>1. Module \in DOMAIN cl /\ took[Module] \in Nat /\ took[Module] >= 1
      BY <1>1, <1>5 DEF CloneTypes
    <3>2. took2[Module] = took[Module] \/ took2[Module] = took[Module] + 1
      BY <1>3, <3>1
    <3>3. QED
      BY <3>1, <3>2
  <2>2. QED
    BY <1>1, <1>3, <1>4, <1>6, <2>1 DEF CloneTypes
<1>8. ClonedSoFar(p, cl2, took2, open)
  <2>1. \A c \in DOMAIN cl2 \ open : took2[c] = Len(KidsOf(p, c))
    <3>1. a \in open
      BY <1>1 DEF CloneTypes
    <3>2. QED
      BY <1>1, <1>3, <1>6, <3>1 DEF ClonedSoFar
  <2>2. \A c \in DOMAIN cl2 : cl2[c] = Filtered(KidsOf(p, c), NotDropped(p, c))[took2[c]]
    BY <1>1, <1>3, <1>6 DEF ClonedSoFar
  <2>3. ASSUME NEW c \in DOMAIN cl2 \ {Module} PROVE \E q \in DOMAIN cl2 : \E i \in 1 .. took2[q] : KidsOf(p, q)[i] = c
    <3>0. PICK q \in DOMAIN cl : \E i \in 1 .. took[q] : KidsOf(p, q)[i] = c
      BY <1>1, <1>6 DEF ClonedSoFar
    <3>1. PICK i \in 1 .. took[q] : KidsOf(p, q)[i] = c
      BY <3>0
    <3>2. took[q] \in Nat /\ took2[q] \in Nat /\ (took2[q] = took[q] \/ took2[q] = took[q] + 1)
      BY <1>3, <1>5
    <3>3. i \in 1 .. took2[q]
      BY <3>2
    <3>4. QED
      BY <1>6, <3>1, <3>3
  <2>4. QED
    BY <2>1, <2>2, <2>3 DEF ClonedSoFar
<1>9. CloneInv(p, t, a, cl2, took2, open, base)
  BY <1>3, <1>7, <1>8 DEF CloneInv
<1>10. QED
  BY <1>2, <1>9

(* A container is entered once: it is the kid of one place only.             *)
LEMMA ContainerNew ==
  ASSUME NEW p \in Packages, NEW w, NEW a, NEW cl, NEW took, NEW open, NEW base, CloneInv(p, w, a, cl, took, open, base),
         w # <<>>, Head(w).k = "op", p.kind[Head(w).id] \in Containers
  PROVE  Head(w).id \notin DOMAIN cl
<1>1. CloneTypes(p, w, a, cl, took, open, base) /\ ClonedSoFar(p, cl, took, open)
  BY DEF CloneInv
<1>2. PICK x, m : x = Head(w).id /\ m = took[a]
  OBVIOUS
<1>3. m + 1 <= Len(KidsOf(p, a)) /\ x = KidsOf(p, a)[m + 1] /\ x \in DOMAIN p.kind
  BY <1>2, KidTaken
<1>4. \A c \in DOMAIN cl : c \in Places(p) /\ took[c] \in Nat /\ took[c] <= Len(KidsOf(p, c)) /\ Len(KidsOf(p, c)) \in Nat
  BY <1>1, KidsAre DEF CloneTypes
<1>5. a \in DOMAIN cl /\ (a = Module => m >= 1)
  BY <1>1, <1>2 DEF CloneTypes
<1>6. Module \notin DOMAIN p.kind
  BY PackageAssumption DEF TreeOfOps
<1>7. /\ \A o, q \in DOMAIN p.kind : \A i \in 1 .. Len(p.kids[o]), j \in 1 .. Len(p.kids[q]) : p.kids[o][i] = p.kids[q][j] => o = q /\ i = j
      /\ \A o \in DOMAIN p.kind : \A i \in 1 .. Len(p.kids[o]) : p.kids[o][i] # p.root
  BY PackageAssumption DEF TreeOfOps
<1>8. ASSUME NEW i \in 2 .. Len(KidsOf(p, Module)) PROVE KidsOf(p, Module)[i] # x
  <2>1. i \in 2 .. Len(ModuleKids(p)) /\ KidsOf(p, Module)[i] = ModuleKids(p)[i]
    BY DEF KidsOf
  <2>2. p.kind[ModuleKids(p)[i]] \notin Containers
    BY <2>1, KidsAre
  <2>3. QED
    BY <1>2, <2>1, <2>2
<1>9. a # Module
  <2> SUFFICES ASSUME a = Module PROVE FALSE
    OBVIOUS
  <2>1. m + 1 \in 2 .. Len(KidsOf(p, Module))
    BY <1>2, <1>3, <1>4, <1>5
  <2>2. QED
    BY <1>3, <1>8, <2>1
<1>10. a \in DOMAIN p.kind /\ x = p.kids[a][m + 1] /\ m + 1 \in 1 .. Len(p.kids[a]) /\ m \in Nat
  BY <1>2, <1>3, <1>4, <1>5, <1>9 DEF Places, KidsOf
<1>11. SUFFICES ASSUME x \in DOMAIN cl PROVE FALSE
  BY <1>2
<1>12. x # Module
  BY <1>3, <1>6
<1>13. PICK q \in DOMAIN cl : \E i \in 1 .. took[q] : KidsOf(p, q)[i] = x
  BY <1>1, <1>11, <1>12 DEF ClonedSoFar
<1>14. PICK i \in 1 .. took[q] : KidsOf(p, q)[i] = x
  BY <1>13
<1>15. i \in 1 .. Len(KidsOf(p, q))
  BY <1>4
<1>16. CASE q = Module
  <2>1. KidsOf(p, Module)[1] = p.root
    BY KidsAre DEF KidsOf
  <2>2. i = 1 \/ i \in 2 .. Len(KidsOf(p, Module))
    BY <1>15, <1>16
  <2>3. x = p.root
    BY <1>8, <1>14, <1>16, <2>1, <2>2
  <2>4. QED
    BY <1>7, <1>10, <2>3
<1>17. CASE q # Module
  <2>1. q \in DOMAIN p.kind /\ KidsOf(p, q) = p.kids[q]
    BY <1>4, <1>17 DEF Places, KidsOf
  <2>2. q = a /\ i = m + 1
    BY <1>7, <1>10, <1>14, <1>15, <2>1
  <2>3. QED
    BY <1>2, <1>10, <2>2
<1>18. QED
  BY <1>16, <1>17

\* The clone with the container x in it, empty, a kid of a.
WithContainer(cl, a, x) ==
  [c \in DOMAIN cl \cup {x} |-> CASE c = a -> Append(cl[a], x) [] c = x -> <<>> [] OTHER -> cl[c]]

(* A container is cloned empty and entered.                                  *)
LEMMA CloneContainer ==
  ASSUME NEW p \in Packages, NEW w, NEW a, NEW cl, NEW took, NEW open, NEW base, CloneInv(p, w, a, cl, took, open, base),
         w # <<>>, Head(w).k = "op", p.kind[Head(w).id] \in Containers
  PROVE  \E took2, open2, base2 :
           CloneInv(p, PushOps(<<InsertPoint(a)>> \o Tail(w), p.kids[Head(w).id]), Head(w).id,
                    WithContainer(cl, a, Head(w).id), took2, open2, base2)
<1>1. CloneTypes(p, w, a, cl, took, open, base) /\ ClonedSoFar(p, cl, took, open)
  BY DEF CloneInv
<1>2. PICK x, t, n, took1, D : x = Head(w).id /\ t = Tail(w) /\ n = Len(w) /\ took1 = OneMore(took, a) /\ D = DOMAIN cl
  OBVIOUS
<1>3. /\ took[a] + 1 <= Len(KidsOf(p, a)) /\ x = KidsOf(p, a)[took[a] + 1] /\ x \in DOMAIN p.kind
      /\ took1 \in [D -> Nat] /\ took1[a] = took[a] + 1 /\ (\A c \in D \ {a} : took1[c] = took[c])
      /\ \A c \in D : took1[c] <= Len(KidsOf(p, c))
      /\ KidsLeft(p, t, took1, open, base) /\ WaysBack(p, t, a, took1, open, base)
      /\ Filtered(KidsOf(p, a), NotDropped(p, a))[took1[a]] = IF Dropped(p, a, x) THEN cl[a] ELSE Append(cl[a], x)
  BY <1>2, KidTaken
<1>4. x \notin D /\ x # Module /\ x \in Places(p)
  <2>1. x \notin D
    BY <1>2, ContainerNew
  <2>2. Module \notin DOMAIN p.kind
    BY PackageAssumption DEF TreeOfOps
  <2>3. QED
    BY <1>3, <2>1, <2>2 DEF Places
<1>5. ~Dropped(p, a, x)
  BY <1>2 DEF Dropped, Imports, Containers
<1>6. t \in Seq(Items(p)) /\ n \in Nat /\ n >= 1 /\ Len(t) = n - 1
  BY <1>1, <1>2, TailBelow DEF CloneTypes
<1>7. /\ a \in D /\ a \in open /\ cl \in [D -> Seq(DOMAIN p.kind)] /\ took \in [D -> Nat] /\ open \subseteq D /\ D \subseteq Places(p)
      /\ Module \in open /\ took[Module] >= 1 /\ (\A c \in open : base[c] \in Nat) /\ base[Module] = 0
  BY <1>1, <1>2 DEF CloneTypes
<1>8. PICK ks : ks = p.kids[x]
  OBVIOUS
<1>9. ks \in Seq(DOMAIN p.kind) /\ Len(ks) \in Nat /\ KidsOf(p, x) = ks
  <2>1. KidsOf(p, x) \in Seq(DOMAIN p.kind) /\ Len(KidsOf(p, x)) \in Nat
    BY <1>4, KidsAre
  <2>2. QED
    BY <1>4, <1>8, <2>1 DEF KidsOf
<1>10. InsertPoint(a) \in Items(p)
  BY <1>7 DEF InsertPoint, Items
<1>11. PICK v : v = <<InsertPoint(a)>> \o t
  OBVIOUS
<1>12. /\ v \in Seq(Items(p)) /\ Len(v) = n /\ Below(v, n) = InsertPoint(a)
       /\ \A k \in 1 .. n - 1 : Below(v, k) = Below(t, k)
  <2>1. PICK u : u = <<InsertPoint(a)>>
    OBVIOUS
  <2>2. u \in Seq(Items(p)) /\ Len(u) = 1 /\ u[1] = InsertPoint(a)
    BY <1>10, <2>1, OneRange
  <2>3. /\ u \o t \in Seq(Items(p)) /\ Len(u \o t) = Len(u) + Len(t)
        /\ (\A k \in 1 .. Len(t) : Below(u \o t, k) = Below(t, k)) /\ \A k \in 1 .. Len(u) : Below(u \o t, Len(t) + k) = Below(u, k)
    <3>1. u \in Seq(Items(p)) /\ t \in Seq(Items(p))
      BY <1>6, <2>2
    <3>2. QED
      BY <3>1, ConcatBelow
  <2>4. Below(u, 1) = InsertPoint(a)
    BY <2>2 DEF Below
  <2>5. 1 \in 1 .. Len(u) /\ Len(t) + 1 = n
    BY <1>6, <2>2
  <2>6. Below(u \o t, n) = InsertPoint(a)
    BY <2>3, <2>4, <2>5
  <2>7. Len(u \o t) = n
    BY <1>6, <2>2, <2>3
  <2>8. QED
    BY <1>6, <1>11, <2>1, <2>3, <2>6, <2>7
<1>13. PICK w2 : w2 = PushOps(v, ks)
  OBVIOUS
<1>14. /\ w2 \in Seq(Items(p)) /\ Len(w2) = Len(ks) + n
       /\ \A k \in 1 .. n : Below(w2, k) = Below(v, k)
       /\ \A i \in 1 .. Len(ks) : Below(w2, (n + Len(ks) + 1) - i) = Op(ks[i])
  <2>1. /\ w2 \in Seq(Items(p)) /\ Len(w2) = Len(ks) + Len(v)
        /\ \A k \in 1 .. Len(v) : Below(w2, k) = Below(v, k)
        /\ \A i \in 1 .. Len(ks) : Below(w2, (Len(v) + Len(ks) + 1) - i) = Op(ks[i])
    <3>1. ks \in Seq(DOMAIN p.kind) /\ v \in Seq(Items(p)) /\ w2 = PushOps(v, ks)
      BY <1>9, <1>12, <1>13
    <3>2. QED
      BY <3>1, PushBelow
  <2>2. QED
    BY <1>12, <2>1
<1>15. PICK took2, open2, base2, cl2 :
         /\ took2 = [c \in D \cup {x} |-> IF c = x THEN 0 ELSE took1[c]] /\ open2 = open \cup {x}
         /\ base2 = [c \in D \cup {x} |-> IF c = x THEN n ELSE base[c]] /\ cl2 = WithContainer(cl, a, x)
  OBVIOUS
<1>16. /\ took2 \in [D \cup {x} -> Nat] /\ took2[x] = 0 /\ (\A c \in D : took2[c] = took1[c])
       /\ base2[x] = n /\ \A c \in D : base2[c] = base[c]
  BY <1>3, <1>4, <1>15
<1>17. /\ DOMAIN cl2 = D \cup {x} /\ cl2 \in [D \cup {x} -> Seq(DOMAIN p.kind)]
       /\ cl2[a] = Append(cl[a], x) /\ cl2[x] = <<>> /\ \A c \in D \ {a} : cl2[c] = cl[c]
  <2>1. Append(cl[a], x) \in Seq(DOMAIN p.kind) /\ a # x
    <3>1. cl[a] \in Seq(DOMAIN p.kind) /\ x \in DOMAIN p.kind /\ a # x
      BY <1>3, <1>4, <1>7
    <3>2. QED
      BY <3>1, AppendRange
  <2>2. \A c \in D \cup {x} : cl2[c] = CASE c = a -> Append(cl[a], x) [] c = x -> <<>> [] OTHER -> cl[c]
    BY <1>2, <1>15 DEF WithContainer
  <2>3. DOMAIN cl2 = D \cup {x} /\ cl2 = [c \in D \cup {x} |-> cl2[c]]
    BY <1>2, <1>15 DEF WithContainer
  <2>4. cl2[a] = Append(cl[a], x) /\ cl2[x] = <<>> /\ \A c \in D \ {a} : cl2[c] = cl[c]
    BY <1>4, <1>7, <2>1, <2>2
  <2>5. ASSUME NEW c \in D \cup {x} PROVE cl2[c] \in Seq(DOMAIN p.kind)
    <3>1. <<>> \in Seq(DOMAIN p.kind)
      OBVIOUS
    <3>2. \A d \in D : cl[d] \in Seq(DOMAIN p.kind)
      BY <1>7
    <3>3. c = x \/ c = a \/ c \in D \ {a}
      OBVIOUS
    <3>4. QED
      BY <2>1, <2>4, <3>1, <3>2, <3>3
  <2>6. QED
    BY <2>3, <2>4, <2>5
<1>18. \A c \in open : c \in D /\ c # x /\ c \in Places(p) /\ Len(KidsOf(p, c)) \in Nat /\ took2[c] = took1[c] /\ took1[c] \in Nat
  BY <1>3, <1>4, <1>7, <1>16, KidsAre
<1>19. \A c \in open : \A i : Spot(p, base2, c, i) = Spot(p, base, c, i)
  BY <1>16, <1>18 DEF Spot
<1>20. \A i : Spot(p, base2, x, i) = (n + Len(ks) + 1) - i
  BY <1>9, <1>16 DEF Spot
<1>21. CloneTypes(p, w2, x, cl2, took2, open2, base2)
  <2>1. \A c \in D \cup {x} : took2[c] <= Len(KidsOf(p, c))
    BY <1>3, <1>9, <1>16
  <2>2. took2[Module] >= 1
    <3>1. Module \in D /\ took[Module] \in Nat
      BY <1>7
    <3>2. took2[Module] = took[Module] \/ took2[Module] = took[Module] + 1
      BY <1>3, <1>16, <3>1
    <3>3. QED
      BY <1>7, <3>1, <3>2
  <2>3. (\A c \in open2 : base2[c] \in Nat) /\ base2[Module] = 0
    BY <1>6, <1>7, <1>15, <1>16
  <2>4. D \cup {x} \subseteq Places(p) /\ open2 \subseteq D \cup {x} /\ x \in open2 /\ Module \in open2
    BY <1>4, <1>7, <1>15
  <2>5. QED
    BY <1>14, <1>16, <1>17, <2>1, <2>2, <2>3, <2>4 DEF CloneTypes
<1>22. KidsLeft(p, w2, took2, open2, base2)
  <2> SUFFICES ASSUME NEW c \in open2, NEW i \in took2[c] + 1 .. Len(KidsOf(p, c))
               PROVE  Spot(p, base2, c, i) \in 1 .. Len(w2) /\ Below(w2, Spot(p, base2, c, i)) = Op(KidsOf(p, c)[i])
    BY DEF KidsLeft
  <2>1. CASE c = x
    <3>1. i \in 1 .. Len(ks)
      BY <1>9, <1>16, <2>1
    <3>2. (n + Len(ks) + 1) - i \in 1 .. Len(w2)
      BY <1>6, <1>9, <1>14, <3>1
    <3>3. QED
      BY <1>9, <1>14, <1>20, <2>1, <3>1, <3>2
  <2>2. CASE c # x
    <3>1. c \in open /\ i \in took1[c] + 1 .. Len(KidsOf(p, c))
      BY <1>15, <1>18, <2>2
    <3>2. Spot(p, base, c, i) \in 1 .. n - 1 /\ Below(t, Spot(p, base, c, i)) = Op(KidsOf(p, c)[i])
      BY <1>3, <1>6, <3>1 DEF KidsLeft
    <3>3. Spot(p, base, c, i) \in 1 .. n /\ Spot(p, base, c, i) \in 1 .. Len(w2)
      BY <1>6, <1>9, <1>14, <3>2
    <3>4. Below(w2, Spot(p, base, c, i)) = Op(KidsOf(p, c)[i])
      BY <1>12, <1>14, <3>2, <3>3
    <3>5. QED
      BY <1>19, <3>1, <3>3, <3>4
  <2>3. QED
    BY <2>1, <2>2
<1>23. WaysBack(p, w2, x, took2, open2, base2)
  <2>1. Spot(p, base2, a, took2[a]) = n
    BY <1>3, <1>6, <1>7, <1>18, <1>19 DEF WaysBack
  <2>2. ASSUME NEW c \in open2 \ {x}
        PROVE  Spot(p, base2, c, took2[c]) \in 1 .. Len(w2) /\ Below(w2, Spot(p, base2, c, took2[c])) = InsertPoint(c)
    <3>0. c \in open
      BY <1>15
    <3>1. CASE c = a
      <4>1. n \in 1 .. n /\ n \in 1 .. Len(w2)
        BY <1>6, <1>9, <1>14
      <4>2. QED
        BY <1>12, <1>14, <2>1, <3>1, <4>1
    <3>2. CASE c # a
      <4>1. Spot(p, base, c, took1[c]) \in 1 .. n - 1 /\ Below(t, Spot(p, base, c, took1[c])) = InsertPoint(c)
        BY <1>3, <1>6, <3>0, <3>2 DEF WaysBack
      <4>2. Spot(p, base2, c, took2[c]) = Spot(p, base, c, took1[c])
        BY <1>18, <1>19, <3>0
      <4>3. Spot(p, base, c, took1[c]) \in 1 .. n /\ Spot(p, base, c, took1[c]) \in 1 .. Len(w2)
        BY <1>6, <1>9, <1>14, <4>1
      <4>4. QED
        BY <1>12, <1>14, <4>1, <4>2, <4>3
    <3>3. QED
      BY <3>1, <3>2
  <2>3. Spot(p, base2, x, took2[x]) = Len(w2) + 1
    BY <1>6, <1>9, <1>14, <1>16, <1>20
  <2>4. ASSUME NEW c \in open2 \ {Module} PROVE \E q \in open2 \ {x} : base2[c] = Spot(p, base2, q, took2[q])
    <3>1. CASE c = x
      <4>1. a \in open2 \ {x} /\ base2[x] = Spot(p, base2, a, took2[a])
        BY <1>7, <1>15, <1>16, <1>18, <2>1
      <4>2. QED
        BY <3>1, <4>1
    <3>2. CASE c # x
      <4>1. c \in open \ {Module}
        BY <1>15, <3>2
      <4>2. PICK q \in open \ {a} : base[c] = Spot(p, base, q, took1[q])
        BY <1>3, <4>1 DEF WaysBack
      <4>3. q \in open2 \ {x} /\ base2[c] = Spot(p, base2, q, took2[q])
        BY <1>15, <1>16, <1>18, <1>19, <4>1, <4>2
      <4>4. QED
        BY <4>3
    <3>3. QED
      BY <3>1, <3>2
  <2>5. QED
    BY <2>2, <2>3, <2>4 DEF WaysBack
<1>24. ClonedSoFar(p, cl2, took2, open2)
  <2>1. ASSUME NEW c \in DOMAIN cl2 \ open2 PROVE took2[c] = Len(KidsOf(p, c))
    <3>1. c \in D \ open /\ c \in D \ {a}
      BY <1>7, <1>15, <1>17
    <3>2. took[c] = Len(KidsOf(p, c))
      BY <1>1, <1>2, <3>1 DEF ClonedSoFar
    <3>3. QED
      BY <1>3, <1>16, <3>1, <3>2
  <2>2. ASSUME NEW c \in DOMAIN cl2 PROVE cl2[c] = Filtered(KidsOf(p, c), NotDropped(p, c))[took2[c]]
    <3>1. CASE c = x
      <4>1. Filtered(ks, NotDropped(p, x))[0] = <<>>
        BY <1>9, FilteredIs
      <4>2. QED
        BY <1>9, <1>16, <1>17, <3>1, <4>1
    <3>2. CASE c = a
      BY <1>3, <1>5, <1>7, <1>16, <1>17, <3>2
    <3>3. CASE c \in D \ {a}
      <4>1. cl[c] = Filtered(KidsOf(p, c), NotDropped(p, c))[took[c]]
        BY <1>1, <1>2, <3>3 DEF ClonedSoFar
      <4>2. cl2[c] = cl[c] /\ took2[c] = took[c]
        BY <1>3, <1>16, <1>17, <3>3
      <4>3. QED
        BY <4>1, <4>2
    <3>4. QED
      BY <1>17, <3>1, <3>2, <3>3
  <2>3. ASSUME NEW c \in DOMAIN cl2 \ {Module} PROVE \E q \in DOMAIN cl2 : \E i \in 1 .. took2[q] : KidsOf(p, q)[i] = c
    <3>1. CASE c = x
      <4>1. took2[a] = took[a] + 1 /\ took[a] \in Nat /\ a \in DOMAIN cl2
        BY <1>3, <1>7, <1>16, <1>17
      <4>2. took[a] + 1 \in 1 .. took2[a]
        BY <4>1
      <4>3. QED
        BY <1>3, <3>1, <4>1, <4>2
    <3>2. CASE c # x
      <4>1. c \in D \ {Module}
        BY <1>17, <3>2
      <4>2. PICK q \in D : \E i \in 1 .. took[q] : KidsOf(p, q)[i] = c
        BY <1>1, <1>2, <4>1 DEF ClonedSoFar
      <4>3. PICK i \in 1 .. took[q] : KidsOf(p, q)[i] = c
        BY <4>2
      <4>4. took[q] \in Nat /\ (took2[q] = took[q] \/ took2[q] = took[q] + 1)
        BY <1>3, <1>7, <1>16
      <4>5. i \in 1 .. took2[q]
        BY <4>4
      <4>6. QED
        BY <1>17, <4>3, <4>5
    <3>3. QED
      BY <3>1, <3>2
  <2>4. QED
    BY <2>1, <2>2, <2>3 DEF ClonedSoFar
<1>25. CloneInv(p, w2, x, cl2, took2, open2, base2)
  BY <1>21, <1>22, <1>23, <1>24 DEF CloneInv
<1>26. w2 = PushOps(<<InsertPoint(a)>> \o Tail(w), p.kids[Head(w).id]) /\ cl2 = WithContainer(cl, a, Head(w).id) /\ x = Head(w).id
  BY <1>2, <1>8, <1>11, <1>13, <1>15
<1>27. QED
  BY <1>25, <1>26

\* What the new module gets behind the package.
ClosureTraits(p) == Reverse(TopOps(p, {"closureTrait"}))
Thunks(p) == Reverse(TopOps(p, {"thunk"}))

(* The order in which the new module gets its kids.                          *)
LEMMA ModulePlaces ==
  ASSUME NEW p \in Packages
  PROVE  /\ ClosureTraits(p) \in Seq(DOMAIN p.kind) /\ Thunks(p) \in Seq(DOMAIN p.kind)
         /\ Len(ClosureTraits(p)) \in Nat /\ Len(Thunks(p)) \in Nat
         /\ Len(ModuleKids(p)) = 1 + Len(ClosureTraits(p)) + Len(Thunks(p))
         /\ \A i \in 1 .. Len(ClosureTraits(p)) : ModuleKids(p)[1 + i] = ClosureTraits(p)[i]
         /\ \A i \in 1 .. Len(Thunks(p)) : ModuleKids(p)[1 + Len(ClosureTraits(p)) + i] = Thunks(p)[i]
<1>1. PICK D, a, b, r, u, m : /\ D = DOMAIN p.kind /\ a = ClosureTraits(p) /\ b = Thunks(p) /\ r = <<p.root>>
                              /\ u = r \o a /\ m = u \o b
  OBVIOUS
<1>2. a \in Seq(D) /\ b \in Seq(D)
  <2>1. \A kinds : Reverse(TopOps(p, kinds)) \in Seq(D)
    BY <1>1, TopOpsAre, ReverseIs
  <2>2. QED
    BY <1>1, <2>1 DEF ClosureTraits, Thunks
<1>3. r \in Seq(D) /\ Len(r) = 1
  <2>1. p.root \in D
    BY <1>1, PackageAssumption DEF TreeOfOps
  <2>2. QED
    BY <1>1, <2>1, OneRange
<1>4. u \in Seq(D) /\ Len(u) = 1 + Len(a) /\ Len(a) \in Nat /\ \A i \in 1 .. Len(a) : u[1 + i] = a[i]
  <2>1. r \o a \in Seq(D) /\ Len(r \o a) = Len(r) + Len(a) /\ Len(a) \in Nat /\ \A i \in 1 .. Len(a) : (r \o a)[Len(r) + i] = a[i]
    <3>1. r \in Seq(D) /\ a \in Seq(D)
      BY <1>2, <1>3
    <3>2. QED
      BY <3>1, ConcatIs
  <2>2. QED
    BY <1>1, <1>3, <2>1
<1>5. Len(m) = Len(u) + Len(b) /\ Len(b) \in Nat /\ (\A i \in 1 .. Len(u) : m[i] = u[i]) /\ \A i \in 1 .. Len(b) : m[Len(u) + i] = b[i]
  <2>1. Len(u \o b) = Len(u) + Len(b) /\ Len(b) \in Nat /\ (\A i \in 1 .. Len(u) : (u \o b)[i] = u[i]) /\ \A i \in 1 .. Len(b) : (u \o b)[Len(u) + i] = b[i]
    <3>1. u \in Seq(D) /\ b \in Seq(D)
      BY <1>2, <1>4
    <3>2. QED
      BY <3>1, ConcatIs
  <2>2. QED
    BY <1>1, <2>1
<1>6. ModuleKids(p) = m
  BY <1>1 DEF ModuleKids, ClosureTraits, Thunks
<1>7. \A i \in 1 .. Len(a) : 1 + i \in 1 .. Len(u) /\ m[1 + i] = a[i]
  BY <1>4, <1>5
<1>8. QED
  BY <1>1, <1>2, <1>4, <1>5, <1>6, <1>7

\* The worklist and the clone as buildPackageModule begins.
StartList(p) ==
  PushOps(<<InsertPoint(Module)>>, p.kids[p.root]) \o PushOps(<<>>, ClosureTraits(p)) \o PushOps(<<>>, Thunks(p))
StartClone(p) == [c \in {Module, p.root} |-> IF c = Module THEN <<p.root>> ELSE <<>>]

(* The clone begins in the package, with what the new module gets behind it. *)
LEMMA CloneStarts ==
  ASSUME NEW p \in Packages
  PROVE  \E took, open, base : CloneInv(p, StartList(p), p.root, StartClone(p), took, open, base)
<1>1. PICK D, I, r, ks, a, b, A, B, mk : /\ D = DOMAIN p.kind /\ I = Items(p) /\ r = p.root /\ ks = p.kids[r] /\ a = ClosureTraits(p) /\ b = Thunks(p)
                                     /\ A = Len(a) /\ B = Len(b) /\ mk = ModuleKids(p)
  OBVIOUS
<1>2. Module \notin D /\ r \in D /\ r # Module /\ r \in Places(p) /\ Module \in Places(p)
  BY <1>1, PackageAssumption DEF TreeOfOps, Places
<1>3. ks \in Seq(D) /\ Len(ks) \in Nat /\ KidsOf(p, r) = ks /\ KidsOf(p, Module) = mk
  <2>1. KidsOf(p, r) = ks /\ KidsOf(p, Module) = mk
    BY <1>1, <1>2 DEF KidsOf
  <2>2. KidsOf(p, r) \in Seq(D) /\ Len(KidsOf(p, r)) \in Nat
    BY <1>1, <1>2, KidsAre
  <2>3. QED
    BY <2>1, <2>2
<1>4. /\ a \in Seq(D) /\ b \in Seq(D) /\ A \in Nat /\ B \in Nat /\ Len(mk) = 1 + A + B /\ mk[1] = r
      /\ (\A i \in 1 .. A : mk[1 + i] = a[i]) /\ \A i \in 1 .. B : mk[1 + A + i] = b[i]
  <2>1. mk[1] = r
    BY <1>1, KidsAre
  <2>2. QED
    BY <1>1, <2>1, ModulePlaces
<1>5. PICK e, x : e = <<InsertPoint(Module)>> /\ x = PushOps(e, ks)
  OBVIOUS
<1>6. e \in Seq(I) /\ Len(e) = 1 /\ Below(e, 1) = InsertPoint(Module)
  <2>1. InsertPoint(Module) \in I
    BY <1>1, <1>2 DEF InsertPoint, Items
  <2>2. e \in Seq(I) /\ Len(e) = 1 /\ e[1] = InsertPoint(Module)
    BY <1>5, <2>1, OneRange
  <2>3. QED
    BY <2>2 DEF Below
<1>7. /\ x \in Seq(I) /\ Len(x) = Len(ks) + 1 /\ Below(x, 1) = InsertPoint(Module)
      /\ \A i \in 1 .. Len(ks) : Below(x, (1 + Len(ks) + 1) - i) = Op(ks[i])
  <2>1. /\ PushOps(e, ks) \in Seq(Items(p)) /\ Len(PushOps(e, ks)) = Len(ks) + Len(e)
        /\ \A k \in 1 .. Len(e) : Below(PushOps(e, ks), k) = Below(e, k)
        /\ \A i \in 1 .. Len(ks) : Below(PushOps(e, ks), (Len(e) + Len(ks) + 1) - i) = Op(ks[i])
    <3>1. e \in Seq(Items(p)) /\ ks \in Seq(DOMAIN p.kind)
      BY <1>1, <1>3, <1>6
    <3>2. QED
      BY <3>1, PushBelow
  <2>2. QED
    BY <1>1, <1>5, <1>6, <2>1
<1>8. ASSUME NEW s \in Seq(D)
      PROVE  /\ PushOps(<<>>, s) \in Seq(I) /\ Len(PushOps(<<>>, s)) = Len(s)
             /\ \A i \in 1 .. Len(s) : Below(PushOps(<<>>, s), (Len(s) + 1) - i) = Op(s[i])
  <2>1. PICK z : z = <<>>
    OBVIOUS
  <2>2. z \in Seq(Items(p)) /\ s \in Seq(DOMAIN p.kind) /\ Len(z) = 0 /\ Len(s) \in Nat
    BY <1>1, <2>1
  <2>3. /\ PushOps(z, s) \in Seq(Items(p)) /\ Len(PushOps(z, s)) = Len(s) + Len(z)
        /\ \A i \in 1 .. Len(s) : Below(PushOps(z, s), (Len(z) + Len(s) + 1) - i) = Op(s[i])
    <3>1. z \in Seq(Items(p)) /\ s \in Seq(DOMAIN p.kind)
      BY <2>2
    <3>2. QED
      BY <3>1, PushBelow
  <2>4. \A i \in 1 .. Len(s) : (Len(z) + Len(s) + 1) - i = (Len(s) + 1) - i
    BY <2>2
  <2>5. QED
    BY <1>1, <2>1, <2>2, <2>3, <2>4
<1>9. PICK y, z, v, w : y = PushOps(<<>>, a) /\ z = PushOps(<<>>, b) /\ v = x \o y /\ w = v \o z
  OBVIOUS
<1>10. /\ y \in Seq(I) /\ Len(y) = A /\ \A i \in 1 .. A : Below(y, (A + 1) - i) = Op(a[i])
       /\ z \in Seq(I) /\ Len(z) = B /\ \A i \in 1 .. B : Below(z, (B + 1) - i) = Op(b[i])
  BY <1>1, <1>4, <1>8, <1>9
<1>11. /\ v \in Seq(I) /\ Len(v) = Len(ks) + 1 + A /\ (\A k \in 1 .. A : Below(v, k) = Below(y, k))
       /\ \A k \in 1 .. Len(ks) + 1 : Below(v, A + k) = Below(x, k)
  <2>1. /\ x \o y \in Seq(I) /\ Len(x \o y) = Len(x) + Len(y) /\ (\A k \in 1 .. Len(y) : Below(x \o y, k) = Below(y, k))
        /\ \A k \in 1 .. Len(x) : Below(x \o y, Len(y) + k) = Below(x, k)
    <3>1. x \in Seq(I) /\ y \in Seq(I)
      BY <1>7, <1>10
    <3>2. QED
      BY <3>1, ConcatBelow
  <2>2. QED
    BY <1>7, <1>9, <1>10, <2>1
<1>12. /\ w \in Seq(I) /\ Len(w) = Len(ks) + 1 + A + B /\ (\A k \in 1 .. B : Below(w, k) = Below(z, k))
       /\ \A k \in 1 .. Len(ks) + 1 + A : Below(w, B + k) = Below(v, k)
  <2>1. /\ v \o z \in Seq(I) /\ Len(v \o z) = Len(v) + Len(z) /\ (\A k \in 1 .. Len(z) : Below(v \o z, k) = Below(z, k))
        /\ \A k \in 1 .. Len(v) : Below(v \o z, Len(z) + k) = Below(v, k)
    <3>1. v \in Seq(I) /\ z \in Seq(I)
      BY <1>10, <1>11
    <3>2. QED
      BY <3>1, ConcatBelow
  <2>2. QED
    BY <1>9, <1>10, <1>11, <2>1
<1>13. Below(w, A + B + 1) = InsertPoint(Module)
  <2>1. A + 1 \in 1 .. Len(ks) + 1 + A /\ B + (A + 1) = A + B + 1 /\ 1 \in 1 .. Len(ks) + 1
    BY <1>3, <1>4
  <2>2. QED
    BY <1>7, <1>11, <1>12, <2>1
<1>14. ASSUME NEW i \in 1 .. Len(ks) PROVE Below(w, (1 + A + B + Len(ks) + 1) - i) = Op(ks[i])
  <2>1. PICK k : k = (1 + Len(ks) + 1) - i
    OBVIOUS
  <2>2. k \in 1 .. Len(ks) + 1 /\ A + k \in 1 .. Len(ks) + 1 + A /\ B + (A + k) = (1 + A + B + Len(ks) + 1) - i
    BY <1>3, <1>4, <2>1
  <2>3. Below(w, B + (A + k)) = Below(x, k)
    BY <1>11, <1>12, <2>2
  <2>4. QED
    BY <1>7, <2>1, <2>2, <2>3
<1>15. ASSUME NEW i \in 2 .. 1 + A + B PROVE Below(w, (1 + A + B + 1) - i) = Op(mk[i])
  <2>1. CASE i <= 1 + A
    <3>1. PICK j, k : j = i - 1 /\ k = (A + 1) - j
      OBVIOUS
    <3>2. j \in 1 .. A /\ 1 + j = i /\ k \in 1 .. A /\ k \in 1 .. Len(ks) + 1 + A /\ B + k = (1 + A + B + 1) - i
      <4>1. Len(ks) \in Nat /\ A \in Nat /\ B \in Nat
        BY <1>3, <1>4
      <4>2. QED
        BY <2>1, <3>1, <4>1
    <3>3. Below(w, B + k) = Op(a[j])
      BY <1>10, <1>11, <1>12, <3>1, <3>2
    <3>4. QED
      BY <1>4, <3>2, <3>3
  <2>2. CASE i > 1 + A
    <3>1. PICK j, k : j = i - (1 + A) /\ k = (B + 1) - j
      OBVIOUS
    <3>2. j \in 1 .. B /\ 1 + A + j = i /\ k \in 1 .. B /\ k = (1 + A + B + 1) - i
      BY <1>4, <2>2, <3>1
    <3>3. Below(w, k) = Op(b[j])
      BY <1>10, <1>12, <3>1, <3>2
    <3>4. QED
      BY <1>4, <3>2, <3>3
  <2>3. QED
    BY <1>4, <2>1, <2>2
<1>16. PICK cl, took, open, base : /\ cl = StartClone(p) /\ took = [c \in {Module, r} |-> IF c = Module THEN 1 ELSE 0]
                                   /\ open = {Module, r} /\ base = [c \in {Module, r} |-> IF c = Module THEN 0 ELSE 1 + A + B]
  OBVIOUS
<1>17. /\ DOMAIN cl = {Module, r} /\ took[Module] = 1 /\ took[r] = 0 /\ took \in [{Module, r} -> Nat]
       /\ base[Module] = 0 /\ base[r] = 1 + A + B
  BY <1>1, <1>2, <1>16 DEF StartClone
<1>18. cl[Module] = <<r>> /\ cl[r] = <<>> /\ cl \in [{Module, r} -> Seq(D)]
  <2>1. <<r>> \in Seq(D) /\ <<>> \in Seq(D)
    BY <1>2
  <2>2. cl = [c \in {Module, r} |-> IF c = Module THEN <<r>> ELSE <<>>]
    BY <1>1, <1>16 DEF StartClone
  <2>3. QED
    BY <1>2, <2>1, <2>2
<1>19. (\A i : Spot(p, base, Module, i) = (0 + (1 + A + B) + 1) - i) /\ \A i : Spot(p, base, r, i) = ((1 + A + B) + Len(ks) + 1) - i
  BY <1>3, <1>4, <1>17 DEF Spot
<1>20. CloneTypes(p, w, r, cl, took, open, base)
  <2>1. took[Module] <= Len(KidsOf(p, Module)) /\ took[r] <= Len(KidsOf(p, r)) /\ base[r] \in Nat /\ took[Module] >= 1
    BY <1>3, <1>4, <1>17
  <2>2. QED
    BY <1>1, <1>2, <1>12, <1>16, <1>17, <1>18, <2>1 DEF CloneTypes
<1>21. KidsLeft(p, w, took, open, base)
  <2>1. ASSUME NEW i \in 2 .. Len(mk) PROVE Spot(p, base, Module, i) \in 1 .. Len(w) /\ Below(w, Spot(p, base, Module, i)) = Op(mk[i])
    <3>1. i \in 2 .. 1 + A + B /\ (0 + (1 + A + B) + 1) - i = (1 + A + B + 1) - i
      BY <1>4
    <3>2. (1 + A + B + 1) - i \in 1 .. Len(w)
      BY <1>3, <1>4, <1>12, <3>1
    <3>3. QED
      BY <1>15, <1>19, <3>1, <3>2
  <2>2. ASSUME NEW i \in 1 .. Len(ks) PROVE Spot(p, base, r, i) \in 1 .. Len(w) /\ Below(w, Spot(p, base, r, i)) = Op(ks[i])
    <3>1. ((1 + A + B) + Len(ks) + 1) - i = (1 + A + B + Len(ks) + 1) - i
      BY <1>3, <1>4
    <3>2. (1 + A + B + Len(ks) + 1) - i \in 1 .. Len(w)
      BY <1>3, <1>4, <1>12
    <3>3. QED
      BY <1>14, <1>19, <3>1, <3>2
  <2>3. took[Module] + 1 = 2 /\ took[r] + 1 = 1
    BY <1>17
  <2>4. QED
    BY <1>3, <1>16, <2>1, <2>2, <2>3 DEF KidsLeft
<1>22. WaysBack(p, w, r, took, open, base)
  <2>1. Spot(p, base, Module, 1) = A + B + 1 /\ A + B + 1 \in 1 .. Len(w) /\ Spot(p, base, r, 0) = Len(w) + 1
    BY <1>3, <1>4, <1>12, <1>19
  <2>2. base[r] = A + B + 1
    BY <1>4, <1>17
  <2>3. QED
    BY <1>2, <1>13, <1>16, <1>17, <2>1, <2>2 DEF WaysBack
<1>23. ClonedSoFar(p, cl, took, open)
  <2>1. Filtered(mk, NotDropped(p, Module))[1] = <<r>>
    <3>1. r \in NotDropped(p, Module)
      BY <1>1, <1>2 DEF NotDropped, Dropped
    <3>2. Len(mk) \in Nat /\ 1 \in 1 .. Len(mk)
      BY <1>4
    <3>3. Filtered(mk, NotDropped(p, Module))[1] = FilterStep(mk, NotDropped(p, Module), <<>>, 1)
      <4>1. Filtered(mk, NotDropped(p, Module))[0] = <<>> /\ Filtered(mk, NotDropped(p, Module))[1] = FilterStep(mk, NotDropped(p, Module), Filtered(mk, NotDropped(p, Module))[1 - 1], 1)
        BY <3>2, FilteredIs
      <4>2. 1 - 1 = 0
        OBVIOUS
      <4>3. QED
        BY <4>1, <4>2
    <3>4. Append(<<>>, r) = <<r>>
      OBVIOUS
    <3>5. QED
      BY <1>4, <3>1, <3>3, <3>4 DEF FilterStep
  <2>2. Filtered(ks, NotDropped(p, r))[0] = <<>>
    BY <1>3, FilteredIs
  <2>3. \A c \in DOMAIN cl : cl[c] = Filtered(KidsOf(p, c), NotDropped(p, c))[took[c]]
    BY <1>3, <1>17, <1>18, <2>1, <2>2
  <2>4. KidsOf(p, Module)[1] = r /\ 1 \in 1 .. took[Module]
    BY <1>3, <1>4, <1>17
  <2>5. QED
    BY <1>16, <1>17, <2>3, <2>4 DEF ClonedSoFar
<1>24. CloneInv(p, w, r, cl, took, open, base)
  BY <1>20, <1>21, <1>22, <1>23 DEF CloneInv
<1>25. w = StartList(p)
  BY <1>1, <1>5, <1>9 DEF StartList
<1>26. QED
  BY <1>1, <1>16, <1>24, <1>25

\* What ReferencesKept says of the operations.
ClonedWhole(p, cl) ==
  /\ \A c \in DOMAIN cl \ {Module} : cl[c] = Filtered(p.kids[c], NotDropped(p, c))[Len(p.kids[c])]
  /\ Range(cl[Module]) = {p.root} \cup {o \in Range(p.top) : p.kind[o] \in {"thunk", "closureTrait"}}

(* Nothing is left on the worklist: nothing is open but the new module, and  *)
(* every container has had all its kids.                                     *)
LEMMA CloneDone ==
  ASSUME NEW p \in Packages, NEW a, NEW cl, NEW took, NEW open, NEW base, CloneInv(p, <<>>, a, cl, took, open, base)
  PROVE  ClonedWhole(p, cl)
<1>1. PICK w : w = <<>>
  OBVIOUS
<1>2. CloneTypes(p, w, a, cl, took, open, base) /\ WaysBack(p, w, a, took, open, base) /\ ClonedSoFar(p, cl, took, open)
  BY <1>1 DEF CloneInv
<1>3. Len(w) = 0
  BY <1>1
<1>4. open \ {a} = {} /\ a = Module /\ open = {Module}
  <2>1. \A c \in open \ {a} : Spot(p, base, c, took[c]) \in 1 .. 0
    BY <1>2, <1>3 DEF WaysBack
  <2>2. open \ {a} = {}
    BY <2>1
  <2>3. QED
    BY <1>2, <2>2 DEF CloneTypes
<1>5. \A c \in DOMAIN cl : c \in Places(p) /\ took[c] \in Nat /\ Len(KidsOf(p, c)) \in Nat
  BY <1>2, KidsAre DEF CloneTypes
<1>6. Module \in DOMAIN cl /\ base[Module] = 0
  BY <1>2 DEF CloneTypes
<1>7. took[Module] = Len(KidsOf(p, Module))
  <2>1. PICK l, t : l = Len(KidsOf(p, Module)) /\ t = took[Module]
    OBVIOUS
  <2>2. l \in Nat /\ t \in Nat /\ (0 + l + 1) - t = 0 + 1
    BY <1>2, <1>3, <1>4, <1>5, <1>6, <2>1 DEF WaysBack, Spot
  <2>3. QED
    BY <2>1, <2>2
<1>8. \A c \in DOMAIN cl : cl[c] = Filtered(KidsOf(p, c), NotDropped(p, c))[Len(KidsOf(p, c))]
  BY <1>2, <1>4, <1>7 DEF ClonedSoFar
<1>9. \A c \in DOMAIN cl \ {Module} : cl[c] = Filtered(p.kids[c], NotDropped(p, c))[Len(p.kids[c])]
  BY <1>8 DEF KidsOf
<1>10. PICK mk, S, n : mk = ModuleKids(p) /\ S = NotDropped(p, Module) /\ n = Len(mk)
  OBVIOUS
<1>11. KidsOf(p, Module) = mk
  BY <1>10 DEF KidsOf
<1>12. mk \in Seq(DOMAIN p.kind) /\ n \in Nat /\ n \in 0 .. n /\ Range(mk) = {mk[i] : i \in 1 .. n} /\ Range(mk) \subseteq DOMAIN p.kind
  <2>1. mk \in Seq(DOMAIN p.kind)
    BY <1>5, <1>6, <1>11, KidsAre
  <2>2. QED
    BY <1>10, <2>1, RangeIs
<1>13. Range(cl[Module]) = AmongFirst(mk, S, n)
  <2>1. \A m \in 0 .. Len(mk) : Range(Filtered(mk, S)[m]) = AmongFirst(mk, S, m)
    BY <1>12, FilteredRange
  <2>2. cl[Module] = Filtered(mk, S)[n]
    BY <1>6, <1>8, <1>10, <1>11
  <2>3. QED
    BY <1>10, <1>12, <2>1, <2>2
<1>14. AmongFirst(mk, S, n) = Range(mk)
  <2>1. S = DOMAIN p.kind
    BY <1>10 DEF NotDropped, Dropped
  <2>2. \A i \in 1 .. n : mk[i] \in S
    BY <1>12, <2>1
  <2>3. QED
    BY <1>12, <2>2 DEF AmongFirst
<1>15. Range(mk) = {p.root} \cup {o \in Range(p.top) : p.kind[o] \in {"thunk", "closureTrait"}}
  BY <1>10, KidsAre
<1>16. QED
  BY <1>9, <1>13, <1>14, <1>15 DEF ClonedWhole

(* ---------------------------------------------------------------------- *)
(* PackageBuild: the names                                                 *)

(* A new root in front of the same nested names.                             *)
LEMMA RootRenamed ==
  ASSUME NEW T, NEW path \in Seq(T), path # <<>>, NEW x
  PROVE  [path EXCEPT ![1] = x][1] = x /\ Tail([path EXCEPT ![1] = x]) = Tail(path)
<1>1. PICK n, q, U : n = Len(path) /\ q = [path EXCEPT ![1] = x] /\ U = T \cup {x}
  OBVIOUS
<1>2. n \in Nat /\ n >= 1 /\ path = [i \in 1 .. n |-> path[i]] /\ \A i \in 1 .. n : path[i] \in T
  BY <1>1
<1>3. q = [i \in 1 .. n |-> IF i = 1 THEN x ELSE path[i]]
  BY <1>1, <1>2
<1>4. q \in Seq(U) /\ Len(q) = n /\ q # <<>>
  <2>1. q \in [1 .. n -> U]
    BY <1>1, <1>2, <1>3
  <2>2. q \in Seq(U) /\ Len(q) = n
    BY <1>2, <2>1
  <2>3. QED
    BY <1>2, <2>2
<1>5. Tail(q) = [i \in 1 .. n - 1 |-> q[i + 1]] /\ Tail(path) = [i \in 1 .. n - 1 |-> path[i + 1]]
  <2>1. ASSUME NEW V, NEW s \in Seq(V), s # <<>>, Len(s) = n PROVE Tail(s) = [i \in 1 .. n - 1 |-> s[i + 1]]
    <3>1. PICK t : t = Tail(s)
      OBVIOUS
    <3>2. t \in Seq(V) /\ Len(t) = n - 1 /\ \A i \in 1 .. n - 1 : t[i] = s[i + 1]
      BY <1>2, <2>1, <3>1
    <3>3. t = [i \in 1 .. n - 1 |-> t[i]]
      BY <3>2
    <3>4. QED
      BY <3>1, <3>2, <3>3
  <2>2. path \in Seq(T) /\ path # <<>> /\ Len(path) = n
    BY <1>1
  <2>3. QED
    BY <1>4, <2>1, <2>2
<1>6. \A i \in 1 .. n - 1 : q[i + 1] = path[i + 1]
  BY <1>2, <1>3
<1>7. Tail(q) = Tail(path) /\ q[1] = x
  BY <1>2, <1>3, <1>5, <1>6
<1>8. QED
  BY <1>1, <1>7

(* A path of the package, under its new name.                                *)
LEMMA OwnPathKept ==
  ASSUME NEW p, NEW path, PathOf(p, path), path[1] = p.source
  PROVE  Names(p.name, [path EXCEPT ![1] = p.name]) = Names(p.source, path) /\ [path EXCEPT ![1] = p.name][1] = p.name
<1>1. PICK T : T = Range(path)
  OBVIOUS
<1>2. path \in Seq(T) /\ path # <<>>
  BY <1>1 DEF PathOf
<1>3. [path EXCEPT ![1] = p.name][1] = p.name /\ Tail([path EXCEPT ![1] = p.name]) = Tail(path)
  BY <1>2, RootRenamed
<1>4. QED
  BY <1>3 DEF Names

(* A path of another package.                                                *)
LEMMA OtherPathKept ==
  ASSUME NEW p, NEW path, PathOf(p, path), path[1] # p.source
  PROVE  Names(p.name, path) = Names(p.source, path)
BY DEF PathOf, Names

\* What ReferencesKept says of one reference.
RefKept(p, old, new) == SameThing(p, old, new) /\ (new.k = "symbol" => new.path[1] \in LinkDependencies(p) \cup {p.name})

(* The token search in a rendered name: it finds the package's name in front *)
(* and nothing else, unless that name comes twice in a row.                  *)
LEMMA TextKept ==
  ASSUME NEW p, NEW path, PathOf(p, path), p.name # p.source, path[1] = p.source => Len(path) > 1
  PROVE  Names(p.name, RewritePath(p, path)) = Names(p.source, path) \/ TwiceNamed(p, path)
<1> SUFFICES ASSUME ~TwiceNamed(p, path) PROVE Names(p.name, RewritePath(p, path)) = Names(p.source, path)
  OBVIOUS
<1>1. PICK n, q : n = Len(path) /\ q = RewritePath(p, path)
  OBVIOUS
<1>2. path \in Seq(Range(path)) /\ path # <<>>
  BY DEF PathOf
<1>3. n \in Nat /\ n >= 1 /\ path = [i \in 1 .. n |-> path[i]]
  BY <1>1, <1>2
<1> DEFINE Found(i) == path[i] = p.source /\ i < n
<1>4. q = [i \in 1 .. n |-> IF Found(i) /\ (i = 1 \/ Found(i - 1)) THEN p.name ELSE path[i]]
  BY <1>1 DEF RewritePath
<1>5. ASSUME NEW i \in 2 .. n PROVE ~(Found(i) /\ Found(i - 1))
  <2> SUFFICES ASSUME Found(i), Found(i - 1) PROVE FALSE
    OBVIOUS
  <2>1. i - 1 \in 1 .. n - 2 /\ (i - 1) + 1 = i
    BY <1>3
  <2>2. path[i - 1] = p.source /\ path[(i - 1) + 1] = p.source
    BY <2>1
  <2>3. QED
    BY <1>1, <2>1, <2>2 DEF TwiceNamed
<1>6. Found(1) <=> path[1] = p.source
  BY <1>1, <1>3
<1> HIDE DEF Found
<1>7. \A i \in 1 .. n : i = 1 \/ i \in 2 .. n
  BY <1>3
<1>8. q = [i \in 1 .. n |-> IF i = 1 /\ path[1] = p.source THEN p.name ELSE path[i]]
  <2>1. \A i \in 1 .. n : (Found(i) /\ (i = 1 \/ Found(i - 1))) <=> (i = 1 /\ path[1] = p.source)
    <3> TAKE i \in 1 .. n
    <3>1. CASE i = 1
      BY <1>6, <3>1
    <3>2. CASE i \in 2 .. n /\ i # 1
      BY <1>5, <3>2
    <3>3. QED
      BY <1>7, <3>1, <3>2
  <2>2. QED
    BY <1>4, <2>1
<1>9. CASE path[1] = p.source
  <2>1. q = [path EXCEPT ![1] = p.name]
    BY <1>3, <1>8, <1>9
  <2>2. QED
    BY <1>1, <1>9, <2>1, OwnPathKept
<1>10. CASE path[1] # p.source
  <2>1. q = path
    BY <1>3, <1>8, <1>10
  <2>2. QED
    BY <1>1, <1>10, <2>1, OtherPathKept
<1>11. QED
  BY <1>9, <1>10

(* What a symbol's root may be.                                              *)
LEMMA RootLinked ==
  ASSUME NEW p, NEW r, RefOf(p, r), r.k = "symbol", r.path[1] # p.source
  PROVE  r.path[1] \in LinkDependencies(p)
<1>1. r.path[1] \in Range(p.top) \ {p.root, p.name} /\ p.kind[r.path[1]] = "package"
  BY DEF RefOf
<1>2. QED
  BY <1>1 DEF LinkDependencies

(* Renaming keeps what every reference says.                                 *)
LEMMA RefRenamed ==
  ASSUME NEW p, NEW r, RefOf(p, r), p.name # p.source
  PROVE  RefKept(p, r, RenameRef(p, r))
<1>1. CASE r.k = "symbol"
  <2>1. r = [k |-> "symbol", path |-> r.path] /\ PathOf(p, r.path)
    BY <1>1 DEF RefOf
  <2>2. PICK path, new : path = r.path /\ new = RenameSymbol(p, path)
    OBVIOUS
  <2>3. RenameRef(p, r) = [r EXCEPT !.path = new]
    BY <1>1, <2>2 DEF RenameRef
  <2>4. RenameRef(p, r) = [k |-> "symbol", path |-> new]
    BY <2>1, <2>3
  <2>5. Names(p.name, new) = Names(p.source, path) /\ new[1] \in LinkDependencies(p) \cup {p.name}
    <3>1. CASE path[1] = p.source
      <4>1. new = [path EXCEPT ![1] = p.name]
        BY <2>2, <3>1 DEF RenameSymbol
      <4>2. QED
        BY <2>1, <2>2, <3>1, <4>1, OwnPathKept
    <3>2. CASE path[1] # p.source
      <4>1. new = path
        BY <2>2, <3>2 DEF RenameSymbol
      <4>2. path[1] \in LinkDependencies(p)
        BY <1>1, <2>2, <3>2, RootLinked
      <4>3. QED
        BY <2>1, <2>2, <3>2, <4>1, <4>2, OtherPathKept
    <3>3. QED
      BY <3>1, <3>2
  <2>6. SameThing(p, r, RenameRef(p, r))
    BY <1>1, <2>2, <2>4, <2>5 DEF SameThing
  <2>7. QED
    BY <2>4, <2>5, <2>6 DEF RefKept
<1>2. CASE r.k = "packageName"
  <2>1. r = [k |-> "packageName", path |-> r.path] /\ PathOf(p, r.path) /\ Len(r.path) = 1
    BY <1>2 DEF RefOf
  <2>2. PICK path, new : path = r.path /\ new = IF path = <<p.source>> THEN <<p.name>> ELSE path
    OBVIOUS
  <2>3. RenameRef(p, r) = [r EXCEPT !.path = new]
    BY <1>2, <2>2 DEF RenameRef
  <2>4. RenameRef(p, r) = [k |-> "packageName", path |-> new]
    BY <2>1, <2>3
  <2>5. path \in Seq(Range(path)) /\ Len(path) = 1
    BY <2>1, <2>2 DEF PathOf
  <2>6. path = <<path[1]>>
    BY <2>5
  <2>7. Names(p.name, new) = Names(p.source, path)
    <3>1. CASE path[1] = p.source
      <4>1. new = <<p.name>> /\ path = <<p.source>>
        BY <2>2, <2>6, <3>1
      <4>2. new[1] = p.name /\ Tail(new) = <<>> /\ Tail(path) = <<>>
        BY <4>1
      <4>3. QED
        BY <3>1, <4>2 DEF Names
    <3>2. CASE path[1] # p.source
      <4>1. path # <<p.source>>
        BY <3>2
      <4>2. new = path
        BY <2>2, <4>1
      <4>3. QED
        BY <2>1, <2>2, <3>2, <4>2, OtherPathKept
    <3>3. QED
      BY <3>1, <3>2
  <2>8. SameThing(p, r, RenameRef(p, r))
    BY <1>2, <2>2, <2>4, <2>7 DEF SameThing
  <2>9. QED
    BY <2>4, <2>8 DEF RefKept
<1>3. CASE r.k = "import"
  <2>1. r = [k |-> "import", level |-> r.level, path |-> r.path] /\ (r.path = <<>> \/ r.level # 0 \/ PathOf(p, r.path))
    BY <1>3 DEF RefOf
  <2>2. RenameRef(p, r) = RenameImport(p, r)
    BY <1>3 DEF RenameRef
  <2>3. CASE r.level # 0 \/ r.path = <<>>
    <3>1. RenameRef(p, r) = r
      BY <2>2, <2>3 DEF RenameImport
    <3>2. SameThing(p, r, r)
      BY <1>3, <2>3 DEF SameThing
    <3>3. QED
      BY <1>3, <3>1, <3>2 DEF RefKept
  <2>4. CASE ~(r.level # 0 \/ r.path = <<>>) /\ r.path[1] # p.source
    <3>1. RenameRef(p, r) = r
      BY <2>2, <2>4 DEF RenameImport
    <3>2. Names(p.name, r.path) = Names(p.source, r.path)
      BY <2>1, <2>4, OtherPathKept
    <3>3. SameThing(p, r, r)
      BY <1>3, <2>4, <3>2 DEF SameThing
    <3>4. QED
      BY <1>3, <3>1, <3>3 DEF RefKept
  <2>5. CASE ~(r.level # 0 \/ r.path = <<>>) /\ r.path[1] = p.source
    <3>1. PICK new : new = [r.path EXCEPT ![1] = p.name]
      OBVIOUS
    <3>2. RenameRef(p, r) = [r EXCEPT !.path[1] = p.name]
      BY <2>2, <2>5 DEF RenameImport
    <3>3. RenameRef(p, r) = [k |-> "import", level |-> r.level, path |-> new]
      BY <2>1, <3>1, <3>2
    <3>4. Names(p.name, new) = Names(p.source, r.path)
      BY <2>1, <2>5, <3>1, OwnPathKept
    <3>5. SameThing(p, r, RenameRef(p, r))
      BY <1>3, <2>5, <3>3, <3>4 DEF SameThing
    <3>6. QED
      BY <3>3, <3>5 DEF RefKept
  <2>6. QED
    BY <2>3, <2>4, <2>5
<1>4. CASE r.k = "text"
  <2>1. /\ r = [k |-> "text", text |-> r.text] /\ r.text \in Seq(Range(r.text))
        /\ \A i \in 1 .. Len(r.text) : PathOf(p, r.text[i]) /\ (r.text[i][1] = p.source => Len(r.text[i]) > 1)
    BY <1>4 DEF RefOf
  <2>2. PICK text, new : text = r.text /\ new = rewriteNameText(p, text)
    OBVIOUS
  <2>3. RenameRef(p, r) = [r EXCEPT !.text = new]
    BY <1>4, <2>2 DEF RenameRef
  <2>4. RenameRef(p, r) = [k |-> "text", text |-> new]
    BY <2>1, <2>3
  <2>5. DOMAIN text = 1 .. Len(text)
    BY <2>1, <2>2
  <2>6. ASSUME NEW i \in DOMAIN text PROVE Names(p.name, new[i]) = Names(p.source, text[i]) \/ TwiceNamed(p, text[i])
    <3>1. new[i] = RewritePath(p, text[i])
      BY <2>2, <2>5 DEF rewriteNameText
    <3>2. PathOf(p, text[i]) /\ (text[i][1] = p.source => Len(text[i]) > 1)
      BY <2>1, <2>2, <2>5
    <3>3. Names(p.name, RewritePath(p, text[i])) = Names(p.source, text[i]) \/ TwiceNamed(p, text[i])
      BY <3>2, TextKept
    <3>4. QED
      BY <3>1, <3>3
  <2>7. SameThing(p, r, RenameRef(p, r))
    BY <1>4, <2>2, <2>4, <2>6 DEF SameThing
  <2>8. QED
    BY <2>4, <2>7 DEF RefKept
<1>5. QED
  BY <1>1, <1>2, <1>3, <1>4 DEF RefOf

(* A package that keeps its name is not renamed.                             *)
LEMMA RefUnchanged ==
  ASSUME NEW p, NEW r, RefOf(p, r), p.name = p.source
  PROVE  RefKept(p, r, r)
<1>1. SameThing(p, r, r)
  BY DEF RefOf, SameThing
<1>2. r.k = "symbol" => r.path[1] \in LinkDependencies(p) \cup {p.name}
  BY RootLinked
<1>3. QED
  BY <1>1, <1>2 DEF RefKept

(* ---------------------------------------------------------------------- *)
(* PackageBuild: the invariant                                             *)

\* While cloning, the worklist is CloneInv's for some reading of it; after
\* that the clone is whole, and after renaming each reference says the same.
PackageInv ==
  /\ pkg \in Packages
  /\ stage \in {"parsed", "clone"} => refs = pkg.refs
  /\ stage = "clone" => /\ deps = LinkDependencies(pkg)
                        /\ \E took, open, base : CloneInv(pkg, worklist, at, cloned, took, open, base)
  /\ stage \in {"renamed", "built"} => /\ deps = LinkDependencies(pkg) /\ ClonedWhole(pkg, cloned)
                                       /\ \A i \in DOMAIN refs : RefKept(pkg, pkg.refs[i], refs[i])

(* The invariant holds before anything is cloned,                            *)
LEMMA PackageInitInv == PackageInit => PackageInv
BY DEF PackageInit, PackageInv

(* and every step keeps it.                                                  *)
LEMMA PackageStepInv == PackageInv /\ [PackageNext]_packageVars => PackageInv'
<1> SUFFICES ASSUME PackageInv, [PackageNext]_packageVars PROVE PackageInv'
  OBVIOUS
<1>0. pkg \in Packages
  BY DEF PackageInv
<1>1. CASE StartPackage
  <2>1. pkg' = pkg /\ refs' = refs /\ stage = "parsed" /\ stage' = "clone" /\ deps' = LinkDependencies(pkg) /\ at' = pkg.root
    BY <1>1 DEF StartPackage
  <2>2. worklist' = StartList(pkg) /\ cloned' = StartClone(pkg)
    BY <1>1 DEF StartPackage, StartList, StartClone, ClosureTraits, Thunks
  <2>3. \E took, open, base : CloneInv(pkg, worklist', at', cloned', took, open, base)
    BY <1>0, <2>1, <2>2, CloneStarts
  <2>4. QED
    BY <2>1, <2>3 DEF PackageInv
<1>2. CASE CloneNext
  <2>1. stage = "clone" /\ worklist # <<>> /\ UNCHANGED <<pkg, stage, deps, refs>>
    BY <1>2 DEF CloneNext
  <2>2. PICK took, open, base : CloneInv(pkg, worklist, at, cloned, took, open, base)
    BY <2>1 DEF PackageInv
  <2>3. \E took2, open2, base2 : CloneInv(pkg, worklist', at', cloned', took2, open2, base2)
    <3>1. CASE Head(worklist).k = "at"
      <4>1. at' = Head(worklist).id /\ worklist' = Tail(worklist) /\ cloned' = cloned
        BY <1>2, <3>1 DEF CloneNext
      <4>2. CloneInv(pkg, Tail(worklist), Head(worklist).id, cloned, took, open \ {at}, base)
        BY <1>0, <2>1, <2>2, <3>1, CloneBack
      <4>3. QED
        BY <4>1, <4>2
    <3>2. CASE Head(worklist).k = "op" /\ pkg.kind[Head(worklist).id] \in Containers
      <4>1. /\ at' = Head(worklist).id /\ cloned' = WithContainer(cloned, at, Head(worklist).id)
            /\ worklist' = PushOps(<<InsertPoint(at)>> \o Tail(worklist), pkg.kids[Head(worklist).id])
        BY <1>2, <3>2 DEF CloneNext, WithContainer
      <4>2. \E took2, open2, base2 :
              CloneInv(pkg, PushOps(<<InsertPoint(at)>> \o Tail(worklist), pkg.kids[Head(worklist).id]), Head(worklist).id,
                       WithContainer(cloned, at, Head(worklist).id), took2, open2, base2)
        BY <1>0, <2>1, <2>2, <3>2, CloneContainer
      <4>3. QED
        BY <4>1, <4>2
    <3>3. CASE Head(worklist).k = "op" /\ pkg.kind[Head(worklist).id] \notin Containers
      <4>1. /\ at' = at /\ worklist' = Tail(worklist)
            /\ cloned' = IF Dropped(pkg, at, Head(worklist).id) THEN cloned ELSE [cloned EXCEPT ![at] = Append(@, Head(worklist).id)]
        BY <1>2, <3>3 DEF CloneNext
      <4>2. CloneInv(pkg, Tail(worklist), at,
                     IF Dropped(pkg, at, Head(worklist).id) THEN cloned ELSE [cloned EXCEPT ![at] = Append(@, Head(worklist).id)],
                     OneMore(took, at), open, base)
        BY <1>0, <2>1, <2>2, <3>3, CloneOther
      <4>3. CloneInv(pkg, worklist', at', cloned', OneMore(took, at), open, base)
        BY <4>1, <4>2
      <4>4. QED
        BY <4>3
    <3>4. QED
      BY <1>2, <3>1, <3>2, <3>3 DEF CloneNext
  <2>4. QED
    BY <2>1, <2>3 DEF PackageInv
<1>3. CASE RenamePackage
  <2>1. /\ stage = "clone" /\ worklist = <<>> /\ stage' = "renamed" /\ UNCHANGED <<pkg, worklist, at, cloned, deps>>
        /\ refs' = IF pkg.name = pkg.source THEN refs ELSE [i \in DOMAIN refs |-> RenameRef(pkg, refs[i])]
    BY <1>3 DEF RenamePackage
  <2>2. deps = LinkDependencies(pkg) /\ refs = pkg.refs
    BY <2>1 DEF PackageInv
  <2>3. ClonedWhole(pkg, cloned)
    <3>1. PICK took, open, base : CloneInv(pkg, worklist, at, cloned, took, open, base)
      BY <2>1 DEF PackageInv
    <3>2. CloneInv(pkg, <<>>, at, cloned, took, open, base)
      BY <2>1, <3>1
    <3>3. QED
      BY <1>0, <3>2, CloneDone
  <2>4. DOMAIN refs' = DOMAIN refs /\ \A i \in DOMAIN refs : RefOf(pkg, pkg.refs[i])
    <3>1. pkg.refs \in Seq(Range(pkg.refs)) /\ \A i \in 1 .. Len(pkg.refs) : RefOf(pkg, pkg.refs[i])
      BY <1>0, PackageAssumption
    <3>2. DOMAIN refs = 1 .. Len(pkg.refs)
      BY <2>2, <3>1
    <3>3. QED
      BY <2>1, <3>1, <3>2
  <2>5. ASSUME NEW i \in DOMAIN refs PROVE RefKept(pkg, pkg.refs[i], refs'[i])
    <3>1. CASE pkg.name = pkg.source
      <4>1. refs'[i] = pkg.refs[i]
        BY <2>1, <2>2, <3>1
      <4>2. QED
        BY <2>4, <3>1, <4>1, RefUnchanged
    <3>2. CASE pkg.name # pkg.source
      <4>1. refs'[i] = RenameRef(pkg, pkg.refs[i])
        BY <2>1, <2>2, <3>2
      <4>2. QED
        BY <2>4, <3>2, <4>1, RefRenamed
    <3>3. QED
      BY <3>1, <3>2
  <2>6. QED
    BY <1>0, <2>1, <2>2, <2>3, <2>4, <2>5 DEF PackageInv
<1>4. CASE CheckPackage
  <2>1. stage = "renamed" /\ stage' \in {"built", "failed"} /\ UNCHANGED <<pkg, worklist, at, cloned, deps, refs>>
    BY <1>4 DEF CheckPackage
  <2>2. QED
    BY <2>1 DEF PackageInv
<1>5. CASE UNCHANGED packageVars
  BY <1>5 DEF packageVars, PackageInv
<1>6. QED
  BY <1>1, <1>2, <1>3, <1>4, <1>5 DEF PackageNext

(* The package that is written out is the one that was parsed, under its new *)
(* name: every operation in its container and in order, every reference says *)
(* what it said, and each package referred to is linked (buildPackage).      *)
THEOREM ReferencesKeptHolds == PackageSpec => []ReferencesKept
<1>1. PackageInv => ReferencesKept
  <2> SUFFICES ASSUME PackageInv, stage = "built" PROVE ReferencesKept
    BY DEF ReferencesKept
  <2>1. deps = LinkDependencies(pkg) /\ ClonedWhole(pkg, cloned) /\ \A i \in DOMAIN refs : RefKept(pkg, pkg.refs[i], refs[i])
    BY DEF PackageInv
  <2>2. QED
    BY <2>1 DEF ReferencesKept, ClonedWhole, RefKept
<1>2. QED
  BY <1>1, PackageInitInv, PackageStepInv, PTL DEF PackageSpec
=============================================================================
