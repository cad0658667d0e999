\* Buffers smaller than what is sent, so that every write may be partial.
SPECIFICATION FairSpec
CONSTANTS
  BufCap = 2
  HoldCap = 1
  WireCap = 1
  Engines = {"tokio", "glommio"}
  Total <- Totals
  MayFail = TRUE
INVARIANTS
  NoLostWakeup
  EofAfterData
PROPERTIES
  ImplementsPipe
  AllDelivered
  EndPassedOn
CHECK_DEADLOCK FALSE
