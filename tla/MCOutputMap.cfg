CONSTANTS
  a = a
  b = b
  na = na
  nb = nb
  replacement = replacement
  plain = plain
  token = token
  None = None
  Node <- MCNode
  Key <- MCKey
  Name <- MCName
  IdOf <- MCIdOf
  Token <- MCToken
  OutputLists <- MCOutputLists
  MaxDictVersion = 2
  MaxChanges <- MCMaxChanges
SPECIFICATION Spec
INVARIANTS
  TypeOK
  ReusedCacheIsCurrent
PROPERTY AnswersFromCurrentGraph
CHECK_DEADLOCK FALSE
