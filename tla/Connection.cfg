\* Two calls one after the other under the only run id, or a run beside a request.
CONSTANTS
  c1 = c1
  c2 = c2
  NoCall = NoCall
  Calls = {c1, c2}
  Abortable <- FirstOnly
  MaxId = 1
  MaxCallId = 1
  Peers = {"ok", "version", "format", "probe", "silent"}
SPECIFICATION FairSpec
INVARIANT FramesHitTheirOwn
PROPERTIES HardAbortSettles AnswersArrive TearDownSettles
CHECK_DEADLOCK FALSE
