SPECIFICATION FairSpec
CONSTANTS
  MaxPending = 2
  Ms = 2
  Never = Never
  MaxCalls = 2
  NRuns = 2
  Setups <- MCSetups
  MaxTurn = 1
INVARIANTS
  DeadlineQueued
  CallsAccounted
PROPERTIES
  WallHonest
  ArrivalOrder
  TimerOrder
  LifeSpec
  RunEnds
CHECK_DEADLOCK FALSE
