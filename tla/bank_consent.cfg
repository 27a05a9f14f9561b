\* Two consents to one account, two requests, the worker.
SPECIFICATION FairSpec
CONSTANTS
  Consent = {b1, b2}
  Account = {n1}
  Request = {r1, r2}
  Worker = Worker
  MaxToken = 3
  None = None
CHECK_DEADLOCK FALSE
INVARIANTS LastTokenIsKept 
PROPERTIES AgedIsRenewed
