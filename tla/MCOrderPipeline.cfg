CONSTANTS
  p1 = p1
  p2 = p2
  p3 = p3
  p4 = p4
  Orders = {a}
  Pods = {p1, p2, p3, p4}
  ServiceOf <- TwoOrdersPods
  NoOrder = NoOrder
  MaxCopies = 1
  MaxRestarts = 1
SPECIFICATION PipeFairSpec
INVARIANTS
  PipeIndInv
  HandledAtMostOnce
  Amplification
PROPERTIES
  EveryOrderAccounted
CHECK_DEADLOCK FALSE
