\* TLS sessions and other protocols through the proxy: reads return whole records and writes accept
\* all they are given; anybody may close, time out or fail.
SPECIFICATION FairSpec
CONSTANTS
  HeaderLen = 2
  RecLen = 3
  UserScripts <- AnyUser
  TargetScripts <- BriefTlsTarget
  PeersWait = TRUE
  Splits = {}
  ShortWrites = FALSE
  OverRead = FALSE
  MayClose = TRUE
PROPERTIES
  ImplementsPipe
  AllDelivered
CHECK_DEADLOCK FALSE
