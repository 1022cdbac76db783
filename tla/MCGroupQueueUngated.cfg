SPECIFICATION UngatedSpec
CONSTANTS
  g1 = g1
  g2 = g2
  g3 = g3
  t1 = t1
  t2 = t2
  Null = Null
  Groups = {g1, g2}
  Folders = {g1, g2}
  Tasks = {t1}
  TaskGroup <- MCTaskGroup
  FolderOf <- MCFolderOf
  Runs = {1, 2}
  MaxConcurrent = 1
  MaxRetries = 1
  MaxTimers = 1
INVARIANT PreemptionSignalled
PROPERTIES NoStartWhileStopped Settles
CHECK_DEADLOCK FALSE
