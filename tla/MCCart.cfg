CONSTANTS
  a1 = a1
  a2 = a2
  a3 = a3
  pen = pen
  cup = cup
  Adds <- MCAdds
  Products <- MCProducts
  ProductOf <- MCProductOf
  PoolSize = 2
SPECIFICATION FairCartSpec
INVARIANTS
  CartTypeOK
  NothingCountedTwice
  LostOnlyToARace
PROPERTIES
  PoolRecovers
  EveryAddEnds
CHECK_DEADLOCK FALSE
