\* Two daemons that share the flag, with everything that may fail.
SPECIFICATION FairSpec
CONSTANTS
  http = http
  socks5 = socks5
  Daemons <- BothDaemons
  MAX_CONCURRENT_BIDI_STREAMS = 2
  QueueCap = 1
  MaxRequests = 3
  MaxConns = 2
  MayFail = TRUE
INVARIANTS
  TypeOK
  StreamBudget
  FailuresBounded
PROPERTIES
  RequestsAnswered
CHECK_DEADLOCK FALSE
