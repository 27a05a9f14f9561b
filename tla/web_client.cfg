SPECIFICATION Spec
CONSTANTS
  Org = {o1, o2}
  Click = {c1}
  MaxEpoch = 2
  MaxEvents = 1
  Handler = {"refresh", "story", "upload", "payment"}
  Foreign = {"payment_intent"}
  Stocked <- AllButPayment
  MaxInFlight = 1
  None = None
SYMMETRY Symmetry
INVARIANTS NothingOfAnotherTenant HandlersStopAtSwitch 
PROPERTIES VisibleUntilSwitch
CHECK_DEADLOCK FALSE

