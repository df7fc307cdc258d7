CONSTANTS
  Checkouts = {c1, c2, c3}
  MaxConns = 2
SPECIFICATION PaySpec
INVARIANTS
  PayIndInv
  AtMostOneRow
  OkMeansCommitted
PROPERTIES
  CommitInDoubtOnly
  EveryRequestAnswered
CHECK_DEADLOCK FALSE
