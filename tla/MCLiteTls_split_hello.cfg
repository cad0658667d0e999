\* A client hello that arrives in two reads.
SPECIFICATION Spec
CONSTANTS
  HeaderLen = 2
  RecLen = 3
  UserScripts <- ShortTlsUser
  TargetScripts <- ShortTlsTarget
  PeersWait = TRUE
  Splits = {"hello"}
  ShortWrites = FALSE
  OverRead = FALSE
  MayClose = FALSE
INVARIANTS
  CommandsDropped
CHECK_DEADLOCK FALSE
