CONSTANTS
  Global = Global
  Admin = Admin
  Member = Member
  Strangers = {s1, s2}
  Group = Group
  Channel = Channel
  MaxMessages = 3
  MaxRows = 3
  MaxCrashes = 1
SYMMETRY Symmetry
SPECIFICATION Spec
CHECK_DEADLOCK FALSE
INVARIANTS TypeOK OneOpenRequest ApprovedIsMember
