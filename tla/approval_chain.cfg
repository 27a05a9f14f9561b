SPECIFICATION FairSpec
CONSTANTS
  a1 = a1
  a2 = a2
  i1 = i1
  i2 = i2
  Approval = {a1}
  Intent = {i1}
  Key = {k1}
  Call = {c1}
  Review = {r1, r2}
  Attachment = {n1}
  TargetOf <- OneTarget
  Live = {a1}
  Steps = 2
  None = None
INVARIANTS
  PaidWasReviewed
PROPERTIES
  OrderAuthorised
  EveryCallEnds
CHECK_DEADLOCK FALSE
