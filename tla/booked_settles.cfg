SPECIFICATION FairSpec
CONSTANTS
  Payment = {p1}
  Live = {p1}
  ByUser = {}
  Reported = {"authorizing", "authorized", "settled"}
  Delivery = {d1, d2}
  Worker = {w1}
  Reader = {q1}
  None = None
INVARIANTS
  EndIsAnnounced
PROPERTIES
  BookedIsSettled
CHECK_DEADLOCK FALSE
