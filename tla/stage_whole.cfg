\* A run that needs more stages its repository while the test of another uses it.
SPECIFICATION Spec
CONSTANTS
  r1 = r1  r2 = r2  p1 = p1  p2 = p2  a = a  b = b  c = c
  Runs = {r1, r2}
  Repos = {p1, p2}
  Files = {a, b, c}
  Need <- NeedNested
  Dangling = {c}
  Ids = {1, 2}
  Transports = {"wsl", "ssh"}
  Signals = {}
  LockTimeout = 2
  None = None
INVARIANT WholeAtTest
CHECK_DEADLOCK FALSE
