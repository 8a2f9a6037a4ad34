----------------------------- MODULE PackageBuild -----------------------------
(***************************************************************************)
(* `mojo precompile`: a parsed package cloned into the module that is       *)
(* written out, and renamed from its source directory's name to the name of *)
(* its file (buildPackageModule, buildPackage, mojo-precompile.cpp).        *)
(*                                                                         *)
(* An input is [source, name, kind, kids, top, root, refs]: the two names,  *)
(* the kind and children of every operation, the operations at the top, the *)
(* package among them, and what is said in its attributes and locations:    *)
(* symbol references, import paths and the rendered texts of debug names,   *)
(* which name things inside packages.                                       *)
(***************************************************************************)
EXTENDS Naturals, Sequences, FiniteSets, SequencesExt

CONSTANT Packages

VARIABLES pkg, worklist, at, cloned, stage, deps, refs
packageVars == <<pkg, worklist, at, cloned, stage, deps, refs>>

Module == "module"            \* the new module itself, as a container
Containers == {"package", "file", "struct"}
Imports == {"import", "unresolved"}

\* The operations are a tree under root, and none is the new module; what a
\* reference to another package names is a package at the top that is not
\* called by the new name; and a package as such is named by one component,
\* in a text by a path that goes on.
TreeOfOps(p) ==
  /\ Module \notin DOMAIN p.kind /\ p.root \in DOMAIN p.kind /\ p.top \in Seq(DOMAIN p.kind)
  /\ p.kids \in [DOMAIN p.kind -> Seq(DOMAIN p.kind)]
  /\ \A o, q \in DOMAIN p.kind : \A i \in 1..Len(p.kids[o]), j \in 1..Len(p.kids[q]) :
       p.kids[o][i] = p.kids[q][j] => o = q /\ i = j
  /\ \A o \in DOMAIN p.kind : \A i \in 1..Len(p.kids[o]) : p.kids[o][i] # p.root
PathOf(p, path) == path \in Seq(Range(path)) /\ path # <<>> /\ (path[1] = p.name => p.name = p.source)
RefOf(p, r) ==
  \/ /\ r.k = "symbol" /\ r \in [k : {"symbol"}, path : {r.path}] /\ PathOf(p, r.path)
     /\ r.path[1] = p.source \/ (r.path[1] \in Range(p.top) \ {p.root, p.name} /\ p.kind[r.path[1]] = "package")
  \/ r.k = "packageName" /\ r \in [k : {"packageName"}, path : {r.path}] /\ PathOf(p, r.path) /\ Len(r.path) = 1
  \/ /\ r.k = "import" /\ r \in [k : {"import"}, level : Nat, path : {r.path}]
     /\ r.path = <<>> \/ r.level # 0 \/ PathOf(p, r.path)
  \/ /\ r.k = "text" /\ r \in [k : {"text"}, text : {r.text}] /\ r.text \in Seq(Range(r.text))
     /\ \A i \in 1..Len(r.text) : PathOf(p, r.text[i]) /\ (r.text[i][1] = p.source => Len(r.text[i]) > 1)
ASSUME PackageAssumption ==
  \A p \in Packages : TreeOfOps(p) /\ p.refs \in Seq(Range(p.refs)) /\ \A i \in 1..Len(p.refs) : RefOf(p, p.refs[i])

Op(o) == [k |-> "op", id |-> o]
InsertPoint(c) == [k |-> "at", id |-> c]
PushOps(w, ops) == [i \in 1..Len(ops) |-> Op(ops[i])] \o w     \* the first is on top
\* Of the first n operations of s, those in S.
FilterStep(s, S, acc, n) == IF s[n] \in S THEN Append(acc, s[n]) ELSE acc
Filtered(s, S) ==
  LET kept[n \in 0..Len(s)] == IF n = 0 THEN <<>> ELSE FilterStep(s, S, kept[n - 1], n)
  IN  kept
TopOps(p, kinds) == Filtered(p.top, {o \in DOMAIN p.kind : p.kind[o] \in kinds})[Len(p.top)]

\* Every other package at the top is a precompiled one that was imported.
LinkDependencies(p) ==
  {o \in Range(p.top) : p.kind[o] = "package" /\ o # p.root /\ o \notin {p.source, p.name}}

PackageInit ==
  /\ pkg \in Packages
  /\ worklist = <<>> /\ at = Module /\ stage = "parsed"
  /\ cloned = [c \in {Module} |-> <<>>]
  /\ deps = {} /\ refs = pkg.refs

\* Thunks and closure traits go below the operations of the package, each
\* pushed on its own, so that the last is cloned first.
StartPackage ==
  /\ stage = "parsed"
  /\ stage' = "clone"
  /\ deps' = LinkDependencies(pkg)
  /\ cloned' = [c \in {Module, pkg.root} |-> IF c = Module THEN <<pkg.root>> ELSE <<>>]
  /\ at' = pkg.root
  /\ worklist' = PushOps(<<InsertPoint(Module)>>, pkg.kids[pkg.root])
                   \o PushOps(<<>>, Reverse(TopOps(pkg, {"closureTrait"}))) \o PushOps(<<>>, Reverse(TopOps(pkg, {"thunk"})))
  /\ UNCHANGED <<pkg, refs>>

\* An operation is dropped if it is an import directly in a package.
Dropped(p, container, o) == p.kind[o] \in Imports /\ container # Module /\ p.kind[container] = "package"

\* The top of the worklist: a container is cloned empty and entered, the way
\* back pushed below its operations; any other operation is cloned whole.
CloneNext ==
  /\ stage = "clone" /\ worklist # <<>>
  /\ LET top == Head(worklist)  rest == Tail(worklist)
     IN  \/ /\ top.k = "at"
            /\ at' = top.id /\ worklist' = rest /\ UNCHANGED cloned
         \/ /\ top.k = "op" /\ pkg.kind[top.id] \in Containers
            /\ cloned' = [c \in DOMAIN cloned \cup {top.id} |->
                            CASE c = at -> Append(cloned[at], top.id) [] c = top.id -> <<>> [] OTHER -> cloned[c]]
            /\ at' = top.id
            /\ worklist' = PushOps(<<InsertPoint(at)>> \o rest, pkg.kids[top.id])
         \/ /\ top.k = "op" /\ pkg.kind[top.id] \notin Containers
            /\ cloned' = IF Dropped(pkg, at, top.id) THEN cloned ELSE [cloned EXCEPT ![at] = Append(@, top.id)]
            /\ worklist' = rest /\ UNCHANGED at
  /\ UNCHANGED <<pkg, stage, deps, refs>>

-----------------------------------------------------------------------------
(* Renaming.  A reference is a path of names; only its root names a package. *)

\* A plausible bug: the replacer walks into the nested components.
RenameSymbolDeep(p, path) == [i \in 1..Len(path) |-> IF path[i] = p.source THEN p.name ELSE path[i]]
RenameSymbol(p, path) == IF path[1] = p.source THEN [path EXCEPT ![1] = p.name] ELSE path

RenameImport(p, r) ==
  IF r.level # 0 \/ r.path = <<>> \/ r.path[1] # p.source THEN r ELSE [r EXCEPT !.path[1] = p.name]

\* A text is the references rendered in it.  The token "@source::" is searched
\* for from the end of the last one found; what lies between decides whether
\* it is nested, so that right behind a match it never is.
RewritePath(p, path) ==
  LET Found(i) == path[i] = p.source /\ i < Len(path)
  IN  [i \in 1..Len(path) |-> IF Found(i) /\ (i = 1 \/ Found(i - 1)) THEN p.name ELSE path[i]]
rewriteNameText(p, text) == [i \in 1..Len(text) |-> RewritePath(p, text[i])]

RenameRef(p, r) ==
  CASE r.k = "symbol" -> [r EXCEPT !.path = RenameSymbol(p, @)]
    [] r.k = "import" -> RenameImport(p, r)
    [] r.k = "packageName" -> [r EXCEPT !.path = IF @ = <<p.source>> THEN <<p.name>> ELSE @]
    [] r.k = "text" -> [r EXCEPT !.text = rewriteNameText(p, @)]

\* Renaming only if the names differ; the symbol of the package goes with it.
RenamePackage ==
  /\ stage = "clone" /\ worklist = <<>>
  /\ refs' = IF pkg.name = pkg.source THEN refs ELSE [i \in DOMAIN refs |-> RenameRef(pkg, refs[i])]
  /\ stage' = "renamed"
  /\ UNCHANGED <<pkg, worklist, at, cloned, deps>>

\* A bitcode library cannot be read, or the check passes report an error.
CheckPackage ==
  /\ stage = "renamed"
  /\ stage' \in {"built", "failed"}
  /\ UNCHANGED <<pkg, worklist, at, cloned, deps, refs>>

PackageNext == StartPackage \/ CloneNext \/ RenamePackage \/ CheckPackage
PackageSpec == PackageInit /\ [][PackageNext]_packageVars

-----------------------------------------------------------------------------
\* What a path names when the package is called self.
Names(self, path) == IF path[1] = self THEN <<"thisPackage">> \o Tail(path) ELSE path
\* The source name twice in a row, with something behind it.
TwiceNamed(p, path) == \E i \in 1..Len(path) - 2 : path[i] = p.source /\ path[i + 1] = p.source
SameThing(p, old, new) ==
  CASE old.k \in {"symbol", "packageName"} -> Names(p.name, new.path) = Names(p.source, old.path)
    [] old.k = "import" ->
         new.level = old.level /\ IF old.level # 0 \/ old.path = <<>> THEN new.path = old.path
                                  ELSE Names(p.name, new.path) = Names(p.source, old.path)
    [] old.k = "text" ->
         \A i \in DOMAIN old.text :
           Names(p.name, new.text[i]) = Names(p.source, old.text[i]) \/ TwiceNamed(p, old.text[i])

NotDropped(p, c) == {o \in DOMAIN p.kind : ~Dropped(p, c, o)}

\* The package that is written out is the one that was parsed: every
\* operation is in its own container and in order, without the imports that
\* only a package's parsing needed; every reference, import path and debug
\* name says under the new name what it said under the old one; and each
\* other package that is referred to is a link dependency (buildPackage).
\* Texts that name a module called like its package are left out: the token
\* search rewrites both names.
ReferencesKept ==
  stage = "built" =>
    /\ \A c \in DOMAIN cloned \ {Module} : cloned[c] = Filtered(pkg.kids[c], NotDropped(pkg, c))[Len(pkg.kids[c])]
    /\ Range(cloned[Module]) = {pkg.root} \cup {o \in Range(pkg.top) : pkg.kind[o] \in {"thunk", "closureTrait"}}
    /\ \A i \in DOMAIN refs :
         /\ SameThing(pkg, pkg.refs[i], refs[i])
         /\ refs[i].k = "symbol" => refs[i].path[1] \in deps \cup {pkg.name}
=============================================================================
