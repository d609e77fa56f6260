SPECIFICATION RunSpec
CONSTANTS
  Modules <- SmallModules
  NumGpRegs = 3
  RegionBytes = 8
  StackBase = 16
  ByteRange = 4
  MaxDepth = 3
INVARIANTS
  RegionsApart
  ArgumentsFitReserved
  TargetsLand
  NoInternalError
PROPERTIES
  ImplementsCallFlow
