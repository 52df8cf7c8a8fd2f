CONSTANTS
  Accounts = {a1}
  NoAccount = NoAccount
  Tokens = {t1, t2, t3}
  NoToken = NoToken
  Requests = {q1, q2}
  RefreshTTL = 0
  ReuseWindow = 1
  MaxTime = 1
  MaxPassword = 1
SYMMETRY Symmetry
CONSTRAINT QuietTicks
SPECIFICATION Spec
INVARIANTS
  TypeOK
  SingleLivePerSession
  StartedUnderCurrentPassword
  DisabledSessionsNotContinued
PROPERTY
  ImplementsSessionSpec
CHECK_DEADLOCK FALSE
