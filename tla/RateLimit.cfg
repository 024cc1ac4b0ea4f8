SPECIFICATION Spec
CONSTANTS
  IPs = {ip1, ip2}
  Rate = 2
  Interval = 2
  MaxTime = 7
  None = None
SYMMETRY IPSymmetry
INVARIANTS TypeOK WindowBound FairRejection
CHECK_DEADLOCK FALSE
