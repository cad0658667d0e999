\* Both sides, with failures, timeouts and shutdown.
SPECIFICATION FairSpec
CONSTANTS
  Sides = {"client", "server"}
  Ips <- TwoIps
  Names <- OneName
  lookup <- Lookup
  Inputs <- Both
  Loads <- ThreeAndOne
  HoldCap = 1
  WireCap = 1
  MayFail = TRUE
INVARIANTS
  NoLostWakeup
PROPERTIES
  ImplementsPipe
  AllDelivered
CHECK_DEADLOCK FALSE
