CONSTANTS
  Machines <- MCMachines
  Threads = {"t1", "t2"}
  Keys = {"nan-check", "assert-level"}
  Tunable = {"assert-level"}
  Worlds <- MCWorlds
  MaxChanges = 2
  Ports <- MCPorts
  Numbers = {3, 4, 5}
  Editors <- MCEditors
  Inputs <- MCInputs
  Packages <- MCPackages
  Links <- MCLinks
  Loads <- MCLoads
  Tools = {"p", "q"}
  Invocations <- MCInvocations
  Paths = {"a", "b"}
  MaxKills = 1
  Procs = {"p1", "p2", "p3"}
  Kinds <- MCKinds
  MaxRetries = 0
  MaxOps = 1
  NoProc = NoProc
SPECIFICATION MCSpec
INVARIANTS
  ConfigStaysFound
  ReadsExplained
  SocketsClosedOnce
  PickHonoured
  ReferencesKept
  LinkInputsRight
  OutputsWhole
  OwnersApart
  LockReturned
PROPERTIES
  CollectEnds
  EveryOperationEnds
CHECK_DEADLOCK FALSE
