\* Every call on single bindings, copies and collections.
CONSTANTS
  Texts <- MCTexts
  EmptyText <- MCEmptyText
  Names <- MCNames
  Parsed <- MCParsed
  MadeFrom <- MCMadeFrom
  NewValues <- MCNewValues
  NewPairs <- MCNewPairs
  MaxCalls = 5
SPECIFICATION Spec
INVARIANTS TypeOK PartsAreOwn
PROPERTIES EditReachesItsBinding TellsTheTruth
\* at MaxCalls, and when the process has ended, nothing follows
CHECK_DEADLOCK FALSE
