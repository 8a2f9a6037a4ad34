CONSTANTS
  IndexBits = 64
  PointerBytes = 8
  StructAlign = 1
  MaxIntAlign = 16
  Attributes <- MCAttributes
  Calls <- MCCalls
  CallTypes <- MCCallTypes
  StoreBytesOf <- StoreSize
  AllocBytesOf <- AllocSize
  FieldBit <- ElementBit
  Spaces <- MCSpaces
  SimdWidth = 2
  PointerSize = 2
  MaxEntries = 3
SPECIFICATION MCSpec
INVARIANTS
  ImageKept
  ArgumentsArrive
  BlobsRestored
CHECK_DEADLOCK FALSE
