CONSTANTS
  Groups = {g1, g2}
  Actions = {read, grant}
  ScopeLists <- Lists
  Accounts = {viewer, other}
  Viewer = viewer
  NoAccount = NoAccount
  Apps = {p1}
  Policies = {c1}
  StatementRows = {s1}
  MaxStatements = 2
SPECIFICATION Spec
INVARIANTS
  TypeOK
  DecisionRight
  ScopeRight
  PagesFollowLists
CHECK_DEADLOCK FALSE
