\* Two runs on either transport, failing, interrupted and killed, and the time limit.
SPECIFICATION FairSpec
CONSTANTS
  r1 = r1  r2 = r2  p1 = p1  p2 = p2  a = a  b = b  c = c
  Runs = {r1, r2}
  Repos = {p1, p2}
  Files = {a, b, c}
  Need <- NeedNested
  Dangling = {c}
  Ids = {1, 2}
  Transports = {"wsl", "ssh"}
  Signals = {"kill", "term"}
  LockTimeout = 2
  None = None
INVARIANTS OneStager PresentAtTest GivesBackLock RunDirExclusive
PROPERTY EveryRunEnds
CHECK_DEADLOCK FALSE
