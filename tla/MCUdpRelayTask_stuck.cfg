\* The client while nothing fails: a local socket that is busy for a moment.
SPECIFICATION Spec
CONSTANTS
  Sides = {"client"}
  Ips <- TwoIps
  Names <- OneName
  lookup <- Lookup
  Inputs <- Both
  Loads <- ThreeAndOne
  HoldCap = 1
  WireCap = 1
  MayFail = FALSE
INVARIANTS
  SentWhenWritable
CHECK_DEADLOCK FALSE
