\* Two Process objects and a Pipe; two handles on one file.
SPECIFICATION MCSpec
CONSTANTS
  Objs = {o1, o2}
  Ids = {i1, i2}
  Pipes = {q1}
  Platforms = {"posix", "windows"}
  ExitCodes <- MCExitCodes
  Faults <- MCFaults
  Severity <- MCSeverity
  Threaded = FALSE
  Stranger = Stranger
  Nobody = Nobody
  Handles = {h1, h2}
  Files = {f}
  MaxFd = 2
  Modes = {"r", "w", "rw", "a"}
  MaxTransfer = 2
  FirstChunk = 2
  DataLen = 2
  Sizes <- MCSizes
  MaxSize = 4
  MaxOps = 3
  NoFile = NoFile
SYMMETRY Alike
INVARIANTS SignalsOnlyChildren StatusTrue IdsReleased PipeReleased InheritsOnlyAsked OwnDescriptor
PROPERTIES WriteAllWhole ReadWhole
CHECK_DEADLOCK FALSE
