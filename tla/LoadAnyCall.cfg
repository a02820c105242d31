\* Every kind of call, the ill-formed ones included.
CONSTANTS
  a = a
  b = b
  c = c
  Texts <- MCTexts
  Requests <- MCRequests
  Parsed <- TwoPackages
  IntMin <- MCIntMin
SPECIFICATION Spec
INVARIANTS TypeOK SpliceInPlace
PROPERTIES RefusalLosesNothing CallReturns ImplementsItemList
\* no call is made on what a call has left
CHECK_DEADLOCK FALSE
