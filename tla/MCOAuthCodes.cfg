CONSTANTS
  Apps = {p1, p2}
  NoApp = NoApp
  Codes = {c1}
  NoCode = NoCode
  Requests = {q1, q2, q3}
  CodeTTL = 2
  MaxTime = 3
  MaxFaults = 1
SYMMETRY Symmetry
SPECIFICATION Spec
INVARIANTS
  TypeOK
  ExchangedOnce
  RefusedOnlyIfUsed
  TokenForAuthorizedApp
CHECK_DEADLOCK FALSE
