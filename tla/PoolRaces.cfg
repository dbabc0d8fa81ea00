\* Every kind of call, an allowance that shrinks and grows, a failing connect,
\* dying connections and dispose at any point.
CONSTANTS
  Callers = {c1, c2, c3, c4}
  Kinds = {"run", "prepare", "drop"}
  Conns = {k1, k2}
  Capacity = 2
  Allowances = {0, 1, 3}
  MaxQueued = 2
  NoConn = NoConn
  PerConn = 2
  MaxEpilogues = 1
SPECIFICATION Spec
SYMMETRY Symmetry
INVARIANT SlotsExact
PROPERTIES AdmissionFair ConnectionsKept
CHECK_DEADLOCK FALSE
