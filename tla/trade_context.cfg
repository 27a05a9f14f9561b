SPECIFICATION Spec
CONSTANTS
  r1 = r1
  r2 = r2
  r3 = r3
  Root = {o1}
  Trade = {t1, t2}
  Request = {r1, r2, r3}
  May <- Few
  None = None
SYMMETRY Interchangeable
CHECK_DEADLOCK FALSE
INVARIANTS ExtractionsFollow  ReleasedIsApproved EvidenceIsKept
PROPERTIES TradeIsKept
