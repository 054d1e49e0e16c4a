CONSTANTS
  None = None
  Sym = Sym
  Token <- MCToken
  VgprPort <- MCVgprPort
  SassPort <- MCSassPort
  Latency <- MCLatency
  VopdSlot <- MCVopdSlot
  Onnx <- MCOnnx
  Registry <- MCRegistry
  Dialect <- MCDialect
  IsaAllowed <- MCIsaAllowed
  Primitive <- MCPrimitive
  Ungrounded <- MCUngrounded
  Family <- MCFamily
  NodeId <- MCNodeId
  Inputs <- MCInputs
  Mesh <- MCMesh
SPECIFICATION Spec
INVARIANTS
  ReportsIgnoreDefaults
  ScoreboardFlagsUnfinishedReads
  PairsAreMutual
  AcceptedStagesRunForward
  AcceptedProductsAlign
CHECK_DEADLOCK FALSE
