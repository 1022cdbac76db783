SPECIFICATION Spec
CONSTANTS
  t1 = t1
  t2 = t2
  Unborn = Unborn
  Gone = Gone
  Null = Null
  Messages = Messages
  Tasks <- Two
  MaxChanges = 3
  MaxCrashes = 1
INVARIANTS TypeOK NoSecondRun ActiveComesDue
PROPERTIES DueTaskRuns
CHECK_DEADLOCK FALSE
