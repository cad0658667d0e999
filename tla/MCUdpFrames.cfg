\* Datagrams through a tunnel that cuts frames anywhere, with small buffers.
SPECIFICATION FairSpec
CONSTANTS
  V4Len = 1
  V6Len = 1
  UDP_BUFFER_SIZE = 18
  Growth = 2
  WireCap = 10
  Traffic <- Some
INVARIANTS
  TypeOK
  EofIsEnd
  OnlyCutLengthPanics
PROPERTIES
  ImplementsPipe
  AllDelivered
CHECK_DEADLOCK FALSE
