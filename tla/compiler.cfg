CONSTANTS
  Fns = {"f", "g", "h"}
  Exported = {"f", "h"}
  LibFns = {"k"}
  Reach <- MCReach
  Options <- MCOptions
  Config <- MCConfig
  Defines <- MCDefines
  MaxInvocations = 2
  MaxFaults = 1
  Kernels = {"a", "b", "n"}
  KernelIdOf <- MCKernelIdOf
  BitcodeOf <- MCBitcodeOf
  Kinds <- MCKinds
  KernelOptions <- MCKernelOptions
  LinkConfigs <- MCLinkConfigs
  KernelFormat = "coff"
  KernelNeeds = {"rt"}
  LibDefines <- MCDefines
  MaxRuns = 2
  MaxKernelFaults = 1
  Setups <- MCSetups
  Answers <- MCAnswers
  StdioNames = {"printf"}
  Archives <- MCArchives
  MaxEngineFaults = 1
SPECIFICATION MCSpec
INVARIANTS
  SavedAssemblyWhole
  CacheRight
  KernelsRight
  NamesBound
PROPERTIES
  ServiceKept
  KernelsReturn
CHECK_DEADLOCK FALSE
