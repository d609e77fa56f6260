SPECIFICATION MachineSpec
CONSTANTS
  Functions <- StraightLine
  NumGpRegs = 3
  ReservedArgRegisters = 2
  SpillBase = 0
  RegionBytes = 8
  StackBase = 1000
  SpillsInRecursion = FALSE
INVARIANTS
  StoresStayInside
