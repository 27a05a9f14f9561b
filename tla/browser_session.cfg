\* Two requests in flight, one sign-in link, three sessions.
SPECIFICATION Spec
CONSTANTS
  Request = {r1, r2}
  Flow = {f1}
  MaxSession = 3
  None = None
SYMMETRY Interchangeable
CHECK_DEADLOCK FALSE
INVARIANTS SuccessorReachesBrowser SignedOutUnlessReplaced
PROPERTIES HandsOnOneSession
