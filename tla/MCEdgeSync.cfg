CONSTANTS
  split = split
  relu = relu
  add = add
  s0 = s0
  s1 = s1
  x = x
  v = v
  None = None
  Node <- MCNode
  Key <- MCNode
  Name <- MCName
  IdOf <- MCIdOf
  Token <- MCToken
  Table <- MCTable
  Outputs <- MCOutputs
  Target <- MCTarget
  Inputs <- MCInputs
  PortIdx <- MCPortIdx
  Connection <- MCConnection
  Edge <- MCEdge
  EdgeList <- MCEdgeList
  MaxInputs = 3
SPECIFICATION Spec
INVARIANTS
  TypeOK
  FilterKeepsOperands
  ReloadIsIdempotent
  ExtendingAddsOperand
PROPERTY ReloadKeepsInputs
