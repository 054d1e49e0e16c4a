CONSTANTS
  None = None
  Mismatch = Mismatch
  Whole = "whole"
  VarOrder <- MCVarOrder
  Input <- MCInput
  NodeId <- MCNodeId
  Call <- MCCall
  Cuts <- MCCuts
  Sizing <- MCSizing
  Report <- MCReport
  MaxNodes = 6
  OpenInputs = FALSE
SPECIFICATION Spec
INVARIANTS
  PropagatedShapesAreReal
  OneRunIsAccepted
  ResolvedSizesAgree
CHECK_DEADLOCK FALSE
