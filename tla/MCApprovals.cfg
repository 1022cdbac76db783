CONSTANTS
  Global = Global
  ann = ann
  bob = bob
  Users = {ann, bob}
  Group = Group
  Channel = Channel
  None = None
  Staff <- MCStaff
  Reachable <- MCReachable
  MaxRequests = 2
  MaxReplies = 1
  MaxCrashes = 1
SPECIFICATION Spec
INVARIANTS
  TypeOK
  EffectsFollowRow
  DecisionReachesGateway
PROPERTIES
  ImplementsDecisions
  WaiterAnswered
CHECK_DEADLOCK FALSE
