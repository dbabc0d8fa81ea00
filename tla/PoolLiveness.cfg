\* Fewer slots than callers, an allowance that shrinks and grows.
CONSTANTS
  Callers = {c1, c2, c3}
  Kinds = {"run"}
  Conns = {k1, k2}
  NoConn = NoConn
  Capacity = 2
  Allowances = {1, 2}
  MaxQueued = 2
  PerConn = 2
  MaxEpilogues = 1
SPECIFICATION FairSpec
PROPERTY CallsSettle
CHECK_DEADLOCK FALSE
