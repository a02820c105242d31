\* The collector frees what a wrapper points to.
CONSTANTS
  Texts <- MCTexts
  EmptyText <- MCEmptyText
  Names <- MCNames
  Parsed <- MCParsed
  MadeFrom <- MCMadeFrom
  NewValues <- MCNewValues
  NewPairs <- MCNewPairs
  MaxCalls = 4
SPECIFICATION Spec
PROPERTY CollectionKeepsTree
\* at MaxCalls, and when the process has ended, nothing follows
CHECK_DEADLOCK FALSE
