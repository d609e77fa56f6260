SPECIFICATION MachineSpec
CONSTANTS
  Functions <- SmallSet
  NumGpRegs = 4
  ReservedArgRegisters = 2
  SpillBase = 0
  RegionBytes = 40
  StackBase = 1000
  SpillsInRecursion = FALSE
INVARIANTS
  CallersStackKept
  StoresStayInside
PROPERTIES
  ImplementsInterpreter
