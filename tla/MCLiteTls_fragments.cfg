\* Reads that return any part of what is there and writes that accept any part, a session that
\* reads past its last record; anybody may close, time out or fail.
SPECIFICATION Spec
CONSTANTS
  HeaderLen = 2
  RecLen = 3
  UserScripts <- CutUser
  TargetScripts <- CutTarget
  PeersWait = TRUE
  Splits = {"hello", "first", "second"}
  ShortWrites = TRUE
  OverRead = TRUE
  MayClose = TRUE
INVARIANTS
  TypeOK
  NoPanic
  NoHandshakeInClear
  ModesAgree
  TunnelClean
  PassiveFed
CHECK_DEADLOCK FALSE
