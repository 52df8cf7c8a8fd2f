CONSTANTS
  Requests = {q1, q2, q3}
  MaxFailCount = 2
  LockDuration = 2
  MaxTime = 5
  MaxFaults = 2
SYMMETRY Symmetry
SPECIFICATION LockoutSpec
INVARIANTS
  LockoutTypeOK
  TriesBounded
  CountedWereTried
  ThresholdLocks
PROPERTY
  LockNotExtended
