SPECIFICATION Spec
CONSTANTS
  t1 = t1
  Grant = {g1}
  Target = {t1}
  Visit = {v1, v2}
  Revocation = {x1}
  Link = {l1}
  TargetOf <- OneTarget
  None = None
SYMMETRY Interchangeable
INVARIANTS
  SessionsEndWithGrant
  LateVisitsChangeNothing
PROPERTIES AdmitsOnce
CHECK_DEADLOCK FALSE
