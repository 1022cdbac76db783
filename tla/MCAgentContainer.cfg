CONSTANTS
  MaxRuns = 2
  MaxMessages = 2
  MaxOutputs = 1
  MaxBacklog = 2
  MaxCrashes = 1
SPECIFICATION Spec
INVARIANTS
  TypeOK
  ReadInOrder
  CloseIsOwn
  SuccessMeansHandled
  RowAgrees
  FailedPositionForgotten
CHECK_DEADLOCK FALSE
