CONSTANTS
  Accounts = {a1}
  Groups = {g1}
  Policies = {p1}
  Statements = {s1}
  Texts = {x1, x2}
  Admins = {d1, d2}
  Loads = {l1}
  NoAccount = NoAccount
  MaxOps = 2
  MaxFaults = 1
SPECIFICATION FairSpec
INVARIANTS
  TypeOK
  InvalidationReaches
PROPERTY
  EventuallyRight
CHECK_DEADLOCK FALSE
