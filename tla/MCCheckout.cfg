CONSTANTS
  Checkouts = {c1}
  Users = {u1}
  UserOf <- MCUserOf
  MaxConns = 1
  RateLimit = 1
  MaxCopies = 2
  MaxCrashes = 1
SPECIFICATION FairSpec
INVARIANTS
  IndInv
  ChargedAtMostOnce
  MoneyTrail
  BlockedNeverCharged
  CancelNeverBypassesFraud
  ToldTheTruth
PROPERTIES
  CommitInDoubtOnly
  HandlerEnds
  ImplementsLedger
CHECK_DEADLOCK FALSE
