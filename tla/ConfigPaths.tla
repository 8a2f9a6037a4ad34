----------------------------- MODULE ConfigPaths -----------------------------
(***************************************************************************)
(* Where the configuration, data and cache folders are looked for and made *)
(* (Support/lib/Configuration.cpp).  A folder is a path, a sequence that   *)
(* starts with the environment variable or the system folder it is under.  *)
(***************************************************************************)
EXTENDS Integers, Sequences, FiniteSets, SequencesExt

CONSTANTS Machines   \* machines: [os, env, dirs, files, sealed]

ASSUME PathAssumption == \A m \in Machines : m.dirs \cup m.files \subseteq Seq(STRING) \ {<<>>}

VARIABLES machine,   \* os and environment, and the roots nothing can be created under
          dirs,      \* the folders that exist
          files,     \* those that hold a modular.cfg
          placed     \* where the configuration was first found or placed, <<>> before

pathVars == <<machine, dirs, files, placed>>
NoFolder == <<>>
FolderTypes == {"Config", "Data", "Cache"}

Has(v) == v \in machine.env
Windows == machine.os = "windows"
Modular == <<"HOME", ".modular">>
-----------------------------------------------------------------------------
\* MODULAR_HOME and MODULAR_DERIVED_PATH stand alone, the cache below them.
Only(v, type) == <<IF type = "Cache" THEN <<v, "cache">> ELSE <<v>>>>

XDGVariable == [Config |-> "XDG_CONFIG_HOME", Data |-> "XDG_DATA_HOME", Cache |-> "XDG_CACHE_HOME"]
XDGDefault == [Config |-> <<"HOME", ".config">>, Data |-> <<"HOME", ".local", "share">>, Cache |-> <<"HOME", ".cache">>]
XDG(type) ==
  IF Has(XDGVariable[type]) THEN <<<<XDGVariable[type], "modular">>>>
  ELSE IF Has("HOME") THEN <<XDGDefault[type] \o <<"modular">>>> ELSE <<>>

\* An existing $HOME/.modular comes first, one still to be made after XDG.
ExistingHome(type) ==
  IF Has("HOME") /\ Modular \in dirs
  THEN <<IF type = "Cache" THEN Modular \o <<".cache", "modular">> ELSE Modular, Modular>> ELSE <<>>
NewHome(type) ==
  IF Has("HOME") /\ Modular \notin dirs
  THEN <<IF type = "Cache" THEN Modular \o <<"cache">> ELSE Modular>> ELSE <<>>

getSearchPaths(type) ==
  IF Has("MODULAR_HOME") THEN Only("MODULAR_HOME", type)
  ELSE IF Has("MODULAR_DERIVED_PATH") THEN Only("MODULAR_DERIVED_PATH", type)
  ELSE IF Has("TEST_TMPDIR") THEN <<<<"TEST_TMPDIR", ".modular">>>>
  ELSE IF Windows THEN <<<<"APPDATA", "Local", "Modular">>>>
  ELSE ExistingHome(type) \o XDG(type) \o NewHome(type) \o <<<<"/opt", "modular">>>>

\* The first path of ps that is in S, NoFolder when none is.
FirstIn(ps, S) == LET hit == SelectInSeq(ps, LAMBDA p : p \in S) IN IF hit = 0 THEN NoFolder ELSE ps[hit]

findModularFileByFolder == FirstIn(getSearchPaths("Config"), dirs)
\* Where packages put the file, behind the folders of the user.
SystemFolders ==
  CASE machine.os = "windows" -> <<>>
    [] machine.os = "macos" -> <<<<"/etc", "modular">>, <<"/opt", "homebrew", "etc", "modular">>>>
    [] OTHER -> <<<<"/etc", "modular">>>>
findModularFile == FirstIn(getSearchPaths("Config") \o SystemFolders, files)
-----------------------------------------------------------------------------
\* create_directories makes the folders above as well.
Creatable == {p \in Range(getSearchPaths("Config") \o getSearchPaths("Data") \o getSearchPaths("Cache")) : p[1] \notin machine.sealed}
createPath(p) == {SubSeq(p, 1, n) : n \in 1..Len(p)}

\* The best folder and the folders there are afterwards.
findBestPathForType(type, create) ==
  LET ps == getSearchPaths(type)
      old == FirstIn(ps, dirs)
      new == FirstIn(ps, Creatable)
  IN IF old # NoFolder THEN [folder |-> old, dirs |-> dirs]
     ELSE IF ~create THEN [folder |-> ps[1], dirs |-> dirs]
     ELSE IF new = NoFolder THEN [folder |-> NoFolder, dirs |-> dirs]
     ELSE [folder |-> new, dirs |-> dirs \cup createPath(new)]

\* getModularConfigFolderPath, getModularDataFolderPath, getModularCacheFolderPath
getFolderPath(type, create) ==
  /\ dirs' = findBestPathForType(type, create).dirs
  /\ UNCHANGED <<machine, files, placed>>

getConfigFilePath(create) ==
  IF findModularFile # NoFolder THEN [folder |-> findModularFile, dirs |-> dirs]
  ELSE findBestPathForType("Config", create)

\* A caller asks for the file, and writes it when the folder is there.
UseConfigFile(create) ==
  LET best == getConfigFilePath(create) IN
  /\ dirs' = best.dirs
  /\ IF best.folder \in dirs' \/ best.folder \in files
     THEN files' = files \cup {best.folder} /\ placed' = (IF placed = NoFolder THEN best.folder ELSE placed)
     ELSE UNCHANGED <<files, placed>>
  /\ UNCHANGED machine

PathInit == \E m \in Machines : /\ machine = [os |-> m.os, env |-> m.env, sealed |-> m.sealed]
                                /\ dirs = UNION {createPath(p) : p \in m.dirs \cup m.files} /\ files = m.files /\ placed = NoFolder
PathNext == \E create \in BOOLEAN : UseConfigFile(create) \/ \E type \in FolderTypes : getFolderPath(type, create)
PathSafe == PathInit /\ [][PathNext]_pathVars
-----------------------------------------------------------------------------
(* Once the configuration has been found or placed somewhere, every later
   lookup finds that file: making the data or the cache folder, which can put
   $HOME/.modular in front of the XDG folders, never hides it.               *)
ConfigStaysFound == placed # NoFolder => findModularFile = placed
=============================================================================
