SPECIFICATION MachineSpec
CONSTANTS
  Functions <- SmallSet
  NumGpRegs = 4
  ReservedArgRegisters = 2
  SpillBase = 0
  RegionBytes = 200
  StackBase = 1000
  SpillsInRecursion = TRUE
PROPERTIES
  ImplementsInterpreter
