SPECIFICATION MCSpec
CONSTANTS
  Scope = {p}
  Session = {s1, s2}
  Ttl = {1}
  MaxGeneration = 2
  MaxTime = 2
  MaxClock = 1
  MaxBacks = 1
  MaxLosses = 0
  MaxRecords = 3
  MaxPending = 1
SYMMETRY SessionSymmetry
INVARIANTS
  Fenced
  OneHolder
  GrantSurvives
  LiveIsReplay
CHECK_DEADLOCK FALSE
