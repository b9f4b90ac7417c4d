SPECIFICATION Spec
CONSTANTS
  Panes = {p1, p2}
  NoReply = NoReply
  MaxStarts = 2
  MaxChanges = 2
  MaxLost = 1
  MaxFailures = 2
INVARIANTS
  IInv
  WakeSurvives
PROPERTIES
  SubscriptionsAreExclusive
  MembershipFollowed
  MembershipRecovers
  StopCompletes
CHECK_DEADLOCK FALSE
