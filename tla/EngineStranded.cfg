\* The job sent between the last look at the channel and its drop.
CONSTANTS
  Instances = {i1, i2}
  Prefixes = {p1}
  NoPrefix = NoPrefix
  NoCaps = NoCaps
  NoInstance = NoInstance
  Retire = Retire
  Runs = {r1, r2, r3}
  Caps <- OneCap
  HeapSizes = {1}
  UsageSamples = {}
  Cores = 2
  Budget = 0
  HardLine = 0
  Allowances = {2}
  RecomputeEvery = 1
SPECIFICATION Spec
SYMMETRY Symmetry
INVARIANT NoJobStranded
