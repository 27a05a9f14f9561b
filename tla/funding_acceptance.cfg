SPECIFICATION Spec
CONSTANTS
  a1 = a1
  a2 = a2
  o1 = o1
  o2 = o2
  Trade = trade
  Offer = {o1, o2}
  Approval = {a1, a2}
  Key = {k1}
  Acceptance = {c1, c2}
  Ranking = {q1}
  OfferOf <- TwoOffers
  None = None
SYMMETRY Interchangeable
INVARIANTS
  OneActiveReservation
  AnswersAgree
PROPERTIES
  ReservedAsApproved
  ReservesOnce
CHECK_DEADLOCK FALSE
