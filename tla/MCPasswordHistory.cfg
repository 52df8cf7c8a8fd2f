CONSTANTS
  Passwords = {p1, p2, p3, p4}
  NoPassword = NoPassword
  Changes = {c1, c2, c3}
  HistoryCount = 2
  MaxChanges = 4
SYMMETRY Symmetry
SPECIFICATION Spec
INVARIANTS
  TypeOK
  NoRecentReuse
CHECK_DEADLOCK FALSE
