CONSTANTS
  p1 = p1
  p2 = p2
  p3 = p3
  p4 = p4
  Orders = {a}
  Pods = {p1, p2, p3}
  ServiceOf <- OnePodEach
  NoOrder = NoOrder
  MaxCopies = 1
  MaxRestarts = 1
SPECIFICATION PipeFairSpec
PROPERTIES
  PausedStopsConsuming
CHECK_DEADLOCK FALSE
