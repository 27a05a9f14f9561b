SPECIFICATION FairSpec
CONSTANTS
  Trade = {t1}
  Request = {r1, r2}
  Worker = {w1, w2}
  ScanLimit = 2
  MaxVersion = 1
  MaxMishaps = 1
  None = None
CHECK_DEADLOCK FALSE
INVARIANTS AnchoredIsOnChain SentOnceButForMishaps BuildsAgree
 
