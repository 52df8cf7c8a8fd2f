CONSTANTS
  Symbols = {"a", "b"}
  Parts <- Short
  Subjects <- Subject
  MaxParts = 4
SPECIFICATION GlobSpec
INVARIANTS
  NoMatchMissed
  MatchIsRight
CHECK_DEADLOCK FALSE
