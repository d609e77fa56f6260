SPECIFICATION MeaningSpec
CONSTANTS
  Vars = {"x"}
  Types <- BoolTypes
  Shapes <- ShadowingShapes
INVARIANTS
  ReadsSeeLastWrite
