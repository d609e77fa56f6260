SPECIFICATION Spec
CONSTANTS
  Vars = {"x"}
  Types <- BothTypes
  Shapes <- MissingReturnShapes
INVARIANTS
  AcceptedIsValid
