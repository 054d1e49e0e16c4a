CONSTANTS
  None = None
  Whole = "whole"
  VarOrder <- MCVarOrder
  Atom <- MCAtom
  Op <- MCOp
  Operand <- MCOperand
  Other <- MCOther
  Size = {1, 2, 3}
  MaxOps = 2
  MaxValue = 30
  MaxExponent = 4
SPECIFICATION Spec
INVARIANTS
  RewritingKeepsValue
  ConsistentMeansEqual
  ReadsBack
