CONSTANTS
  Id <- MCId
  MaxInputs = 2
SPECIFICATION FairSpec
INVARIANTS
  DependenciesFirst
  ReturnsEveryNode
  StrictFindsCycles
PROPERTY Terminates
CHECK_DEADLOCK FALSE
