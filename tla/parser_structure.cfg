SPECIFICATION Spec
CONSTANTS
  Vars = {"x", "y"}
  Types <- BothTypes
  Shapes <- StructureShapes
INVARIANTS
  TypeOK
  AcceptedIsValid
  EdgesAgree
  NoParkedPhiLeft
  ReadsFindADefinition
  NoReadWaitsOnItself
  NoDeadBlock
PROPERTIES
  SealedPredecessorsStay
  EndedBlocksStay
  CallsReturn
