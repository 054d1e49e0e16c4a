CONSTANTS
  Key <- MCKey
  Node <- MCNode
  IdOf <- MCIdOf
  Op <- MCOp
  Outputs <- MCOutputs
  Effectful <- MCEffectful
  Source <- MCSource
  Token <- MCToken
  Name <- MCName
  Graph <- MCGraph
  None = None
SPECIFICATION FairSpec
INVARIANTS
  TypeOK
  KeepsExactlyWhatIsNeeded
  NamesResolveAlike
  OutputsKeepTheirValues
  EffectsKeepTheirArguments
  NothingIsComputedTwice
PROPERTY SweepEnds
CHECK_DEADLOCK FALSE
