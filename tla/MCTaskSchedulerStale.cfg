SPECIFICATION Spec
CONSTANTS
  t1 = t1
  t2 = t2
  Unborn = Unborn
  Gone = Gone
  Null = Null
  Messages = Messages
  Tasks <- Two
  MaxChanges = 1
  MaxCrashes = 0
PROPERTY StartsActiveOnly
CHECK_DEADLOCK FALSE
