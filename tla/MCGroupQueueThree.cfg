SPECIFICATION UngatedSpec
CONSTANTS
  g1 = g1
  g2 = g2
  g3 = g3
  t1 = t1
  t2 = t2
  Null = Null
  Groups = {g1, g2, g3}
  Folders = {g1, g2, g3}
  Tasks = {t1, t2}
  TaskGroup <- MCOneTaskGroup
  FolderOf <- MCFolderOf
  Runs = {1, 2, 3}
  MaxConcurrent = 2
  MaxRetries = 0
  MaxTimers = 1
INVARIANTS
  OneRunPerGroup
  NoIdleSlot
PROPERTY ImplementsContainerSlots
CONSTRAINT PromptOutputs
CHECK_DEADLOCK FALSE
