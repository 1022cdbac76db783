SPECIFICATION Spec
CONSTANTS
  g1 = g1
  g2 = g2
  g3 = g3
  t1 = t1
  t2 = t2
  Null = Null
  Groups = {g1, g2}
  Folders = {g1, g2}
  Tasks = {t1}
  TaskGroup <- MCTaskGroup
  FolderOf <- MCFolderOf
  Runs = {1, 2, 3}
  MaxConcurrent = 2
  MaxRetries = 0
  MaxTimers = 1
INVARIANTS
  TypeOK
  SlotAccounting
  ConcurrencyLimit
PROPERTIES
  QueuedWorkOnlyStarts
CONSTRAINT BusyOnly
CHECK_DEADLOCK FALSE
