SPECIFICATION Spec
CONSTANTS
  Keys = {"order"}
  Limit = 1
  MaxConns = 2
  MaxFaults = 2
  MaxMessages = 0
INVARIANT LossIsReported
CHECK_DEADLOCK FALSE
