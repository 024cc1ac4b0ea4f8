SPECIFICATION Spec
CONSTANTS
  IPs = {ip1}
  Rate = 2
  Interval = 2
  MaxTime = 7
  None = None
INVARIANTS RejectedAtLimit
CHECK_DEADLOCK FALSE
