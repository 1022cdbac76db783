SPECIFICATION Spec
CONSTANTS
  c1 = c1
  Null = Null
  Chats = {c1}
  Always = {}
  Contents <- AllContents
  StampSteps <- NextSecond
  MaxErrors = 2
  MaxRetries = 2
  MaxIds = 5
  MaxMessages = 3
  MaxTasks = 1
  MaxCrashes = 1
INVARIANTS TypeOK NoneSkipped
PROPERTIES NothingAnsweredTwice FailedBatchComesBack Delivered
CHECK_DEADLOCK FALSE
