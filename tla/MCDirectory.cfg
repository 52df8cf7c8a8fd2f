CONSTANTS
  Statements = {s1, s2}
  Policies = {p1, p2}
  Principals = {w1, w2}
  Admins = {d1, d2}
  MaxOps = 4
SYMMETRY Symmetry
SPECIFICATION Spec
INVARIANTS
  TypeOK
  ReferencesHold
CHECK_DEADLOCK FALSE
