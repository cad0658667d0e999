\* Requests of all kinds, also for an echo and to IPv6 addresses, and streams that are none.
SPECIFICATION FairSpec
CONSTANTS
  Password <- Hash
  V4Len = 2
  V6Len = 2
  Scripts <- AllScripts
INVARIANTS
  SameAsOneShot
  
  NothingLost
PROPERTIES
  AllHanded
CHECK_DEADLOCK FALSE
