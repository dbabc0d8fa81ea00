\* Both memory lines on: usage above the budget (20), between it and the
\* release line (16), and at that line; an admission line (23) that refuses a
\* capped run at the highest sample only.  No symmetry: some properties are
\* temporal.
CONSTANTS
  Instances = {i1}
  Prefixes = {p1}
  NoPrefix = NoPrefix
  NoCaps = NoCaps
  NoInstance = NoInstance
  Retire = Retire
  Runs = {r1, r2}
  Caps <- MixedCaps
  HeapSizes = {2}
  UsageSamples = {16, 18, 22}
  Cores = 1
  Budget = 20
  HardLine = 23
  Allowances = {1}
  RecomputeEvery = 1
SPECIFICATION FairSpec
PROPERTIES StartedIsAnswered RetiredDrains PressureHolds
