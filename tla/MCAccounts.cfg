CONSTANTS
  Logins = {l1, l2}
  Requests = {r1, r2}
  Tiers = {bronze, gold}
  Bronze = bronze
  Nobody = nobody
  TTL = 3
SPECIFICATION MCAccountsSpec
INVARIANTS
  AccountsTypeOK
  TierIsRecent
  SessionBehindEveryToken
CHECK_DEADLOCK FALSE
