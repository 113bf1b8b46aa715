SPECIFICATION BusySpec
CONSTANTS
  Calls = {c1, c2, c3}
  FailureThreshold = 5
  RecoveryTimeout = 3
  CountCap = 6
INVARIANTS TypeOK BreakerConsistent
PROPERTIES ShieldedUntilSuccess WindowEnds Recovers
