CONSTANTS
  None = None
  Whole = "whole"
  VarOrder <- MCVarOrder
  Atom <- MCAtom
  Op = {"+", "*"}
  Operand <- MCOperand
  Other <- MCOther
  Size = {1, 2, 3}
  MaxOps = 2
  MaxValue = 60
  MaxExponent = 4
SPECIFICATION Spec
INVARIANT EqualMeansSameHash
