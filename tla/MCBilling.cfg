CONSTANTS
  Checkouts = {c1, c2}
  Users = {u1}
  RateLimit = 1
  UserOf <- MCUserOf
SPECIFICATION BillSpec
INVARIANTS
  BillIndInv
  ChargedOnce
  BlockedNotCharged
CHECK_DEADLOCK FALSE
