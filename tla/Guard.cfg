\* One run with both limits, one with none; two turns at least, so that a stale
\* watchdog entry meets a later turn.
CONSTANTS
  Runs = {r1, r2}
  NoRun = NoRun
  CpuCapped = {r1}
  WallCapped = {r1}
  GraceCapped = {r1}
  MaxGeneration = 3
SPECIFICATION FairSpec
INVARIANTS QuietBetweenTurns NoInnocentKill ConsumedAbortEnds
PROPERTY OverdueTurnEnds
CHECK_DEADLOCK FALSE
