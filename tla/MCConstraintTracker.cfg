CONSTANTS
  n = n
  m = m
  composite = composite
  one = one
  four = four
  None = None
  One = one
  Key <- MCKey
  Identifier <- MCIdentifier
  Dim <- MCDim
  SizeOf <- MCSizeOf
SPECIFICATION Spec
INVARIANTS
  FindReturns
PROPERTY KeepsEqualities
CHECK_DEADLOCK FALSE
VIEW MCView
SYMMETRY MCSymmetry
