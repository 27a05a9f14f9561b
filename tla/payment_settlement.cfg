SPECIFICATION Spec
CONSTANTS
  Payment = {p1, p2}
  Live = {p1}
  ByUser = {p2}
  Reported = {"failed"}
  Delivery = {d1, d2}
  Worker = {w1}
  Reader = {}
  None = None
SYMMETRY Interchangeable
PROPERTIES
   SettlesOnEvidence
CHECK_DEADLOCK FALSE
