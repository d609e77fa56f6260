SPECIFICATION MeaningSpec
CONSTANTS
  Vars = {"x", "y"}
  Types <- BoolTypes
  Shapes <- MeaningShapes
INVARIANTS
  ReadsSeeLastWrite
  ConditionsDecide
  PhisCoverPredecessors
  DefinitionsDominateUses
  NoCriticalEdge
