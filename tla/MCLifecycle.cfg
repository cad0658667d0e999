\* Two connections and a stream, so that a connection can be cut with its stream, wait behind
\* another, and find the glommio queue full.
SPECIFICATION FairSpec
CONSTANTS
  Listeners <- TwoListeners
  Programs <- AllPrograms
  Callers = {c1, c2}
  Streams = {s1}
  Zio = TRUE
  QueueCap = 1
  Threads = 2
  NoTask = NoTask
INVARIANTS
  OneLateConnection
  Isolated
PROPERTIES
  Released
  Served
  EndsAtNextCall
  TakenByGlommio
CHECK_DEADLOCK FALSE
