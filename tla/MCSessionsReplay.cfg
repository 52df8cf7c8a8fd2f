CONSTANTS
  Accounts = {a1}
  NoAccount = NoAccount
  Tokens = {t1, t2}
  NoToken = NoToken
  Requests = {q1, q2}
  RefreshTTL = 1
  ReuseWindow = 1
  MaxTime = 2
  MaxPassword = 1
SYMMETRY Symmetry
SPECIFICATION HistorySpec
INVARIANTS
  ReplayEvidenceKept
  ReuseNeedsTwoDetections
CHECK_DEADLOCK FALSE
