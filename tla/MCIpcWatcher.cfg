CONSTANTS
  Main = Main
  Groups = {Main, Work}
  Nobody = Nobody
  Home = c1
  Chats = {c1, c2}
  MaxFiles = 2
  MaxTicks = 2
  MaxMoves = 1
  MaxKills = 1
SPECIFICATION Spec
CHECK_DEADLOCK FALSE
INVARIANT TypeOK
PROPERTIES InOrder OwnMessagesSent Settles
