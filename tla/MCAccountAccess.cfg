CONSTANTS
  Accounts = {a1}
  Tokens = {t1}
  Changes = {c1, c2}
  Visits = {v1, v2}
  NoAccount = NoAccount
  AccessTTL = 2
  MaxTime = 2
  MaxOps = 2
  MaxFaults = 1
SPECIFICATION FairSpec
INVARIANTS
  TypeOK
  CachedAccountRight
  LoggedOutStaysOut
PROPERTY
  EventuallyRefused
CHECK_DEADLOCK FALSE
