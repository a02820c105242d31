\* A list with a variable in it is spliced.
CONSTANTS
  a = a
  b = b
  c = c
  empty = empty
  EmptyText = empty
  NoText = NoText
  Comma = Comma
  Texts <- ThreeTexts
  Requests <- AnyRequests
  Parsed <- DistinctLists
  IntMin <- MCIntMin
  MaxItems = 4
SPECIFICATION Spec
INVARIANT ListGoesBeforeSplicePoint
\* a program that has ended stops
CHECK_DEADLOCK FALSE
