\* Two operators, a participant's update or a link, and the monitor.
SPECIFICATION FairSpec
CONSTANTS
  Operator = {o1, o2}
  Writer = {q1}
  Monitor = Monitor
  None = None
CHECK_DEADLOCK FALSE
INVARIANTS StepsAreKept 
PROPERTIES MonitorCatchesUp
