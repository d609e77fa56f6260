SPECIFICATION AllocSpec
CONSTANTS
  Functions <- SmallSet
  NumGpRegs = 3
  ReservedArgRegisters = 1
  SpillBase = 0
INVARIANTS
  AllocTypeOK
  LivenessIsExact
  InterferingApart
  OneHomeEach
  NothingNeededIsOverwritten
PROPERTIES
  SetsGrow
  AllocateReturns
