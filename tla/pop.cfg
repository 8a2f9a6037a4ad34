SPECIFICATION MCSpec
CONSTANTS
  Targets <- MCTargets
  Terms <- MCTerms
  Floats <- OneFormatPerWidth
  Programs <- MCPrograms
  PtrSize = 2
  IndexMax = 3
INVARIANTS
  MeaningKept
  ProgramKept
PROPERTY
  Settles
CHECK_DEADLOCK FALSE
