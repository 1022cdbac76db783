CONSTANTS
  Main = Main
  Groups = {Main}
  tgDm = tgDm
  waGroup = waGroup
  Chats = {tgDm, waGroup}
  Direct = {tgDm}
  ChannelOf <- MCChannelOf
  Codes = {c1, c2}
  Tasks = {t1}
  MaxRetained = 2
  MaxIssued = 2
SYMMETRY Symmetry
SPECIFICATION Spec
CHECK_DEADLOCK FALSE
INVARIANTS TypeOK ClaimedOnce TasksReportToTheirGroup
