\* Well-formed calls against the abstract list.
CONSTANTS
  a = a
  b = b
  c = c
  empty = empty
  EmptyText = empty
  NoText = NoText
  Comma = Comma
  Texts <- ThreeTexts
  Requests <- DistinctRequests
  Parsed <- DistinctLists
  IntMin <- MCIntMin
  MaxItems = 4
SPECIFICATION WellFormedSpec
PROPERTY ImplementsItemList
