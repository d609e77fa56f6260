SPECIFICATION Spec
CONSTANTS
  Vars = {"x"}
  Types <- BothTypes
  Shapes <- WhileShapes
INVARIANTS
  EdgesAgree
