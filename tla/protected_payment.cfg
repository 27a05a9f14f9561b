SPECIFICATION Spec
CONSTANTS
  a1 = a1
  a2 = a2
  i1 = i1
  i2 = i2
  Approval = {a1, a2}
  Intent = {i1, i2}
  Key = {k1, k2}
  Call = {c1, c2}
  Review = {r1, r2}
  Attachment = {}
  TargetOf <- OneTarget
  Live = {a1}
  Steps = 1
  None = None
SYMMETRY InterchangeableRequests
INVARIANTS
  OnePaymentPerIntent
  AnswersArePayments
  
PROPERTIES
  PaysOnce
CHECK_DEADLOCK FALSE
