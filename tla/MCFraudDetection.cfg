CONSTANTS
  Checks = {k1, k2}
  Users = {u1, u2}
  RateLimit = 2
  MaxCount = 4
SPECIFICATION FraudDetectionFairSpec
INVARIANTS
  EveryKeyWillExpire
  AtMostRateLimitPass
PROPERTIES
  BlockedForAWindow
  ImplementsWindow
CHECK_DEADLOCK FALSE
