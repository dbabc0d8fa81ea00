\* Two producers, up to three frames; one of the sizes is over the whole budget.
CONSTANTS
  Producers = {p1, p2}
  Writer = Writer
  Sizes = {1, 3}
  Cap = 2
  MaxFrames = 3
SPECIFICATION FairSpec
INVARIANTS OutboxExact WriterNotAsleep WaitersBlocked WholeFrames
PROPERTIES ChannelFairSpec SendReturns
CHECK_DEADLOCK FALSE
