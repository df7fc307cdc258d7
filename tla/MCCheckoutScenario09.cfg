CONSTANTS
  Checkouts = {c1}
  Users = {u1}
  UserOf <- MCUserOf
  MaxConns = 1
  RateLimit = 1
  MaxCopies = 1
  MaxCrashes = 0
SPECIFICATION Spec
INVARIANTS
  BillingTimeoutFailsCheckout
CHECK_DEADLOCK FALSE
