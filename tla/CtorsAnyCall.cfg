\* Every constructor, on lists of up to three elements.
CONSTANTS
  a = a
  b = b
  long = long
  prefix = prefix
  junk = junk
  name = name
  Junk = junk
  Name = name
  Comma = Comma
  Texts <- MCTexts
  Cut <- MCCut
  Requests <- MCRequests
  IntMin <- MCIntMin
SPECIFICATION Spec
INVARIANTS TypeOK ItemsInOrder CommaBehindItem WellMade
PROPERTIES CallReturns
\* a crashed program stops
CHECK_DEADLOCK FALSE
