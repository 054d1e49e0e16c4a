CONSTANTS
  None = None
  IdOrder <- MCIdOrder
  Dtype <- MCDtype
  DefaultMisc <- MCMisc
  NewGraphs <- MCNewGraphs
  LateNodes <- MCLateNodes
  MaxNodes = 3
  File <- MCFile
  ChunkSize = 3
  Spelling <- Spelled
  Shortened <- MCShortened
  IsNode <- IsNodeDict
  Built <- BuildFrom
SPECIFICATION Spec
INVARIANTS
  ReadsWhatIsThere
  SavedGraphIsLoaded
  LoadedGraphIsSettled
  BufferHoldsOneValue
PROPERTY LoadingEnds
CHECK_DEADLOCK FALSE
