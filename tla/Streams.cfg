SPECIFICATION FairSpec
CONSTANTS
  Window = 2
  MaxChunk = 1
  SourceLen = 4
  Probe = 1
  OwnLen = 2
  Rounds = 2
  Idle = 1
INVARIANTS FlowControl BodyDelivered ClosesOnce
PROPERTIES ReadsServed SourceReleased
CHECK_DEADLOCK FALSE
