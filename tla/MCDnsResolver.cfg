\* A timer that sleeps three periods of three ticks while nobody asks.
SPECIFICATION FairSpec
CONSTANTS
  Hosts <- OneHost
  Queries <- FewQueries
  Period = 3
  SlowFactor = 3
  MaxLookup = 1
  Lag = 1
  MaxTime = 22
INVARIANTS
  AgeBounded
PROPERTIES
  Answered
CHECK_DEADLOCK FALSE
