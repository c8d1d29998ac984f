CONSTANTS
  c1 = c1  c2 = c2  t1 = t1  t2 = t2  t3 = t3  t4 = t4  k1 = k1  k2 = k2
  Callers = {c1, c2}
  Tasks = {t1, t2}
  Conns = {k1}
  ConnOf <- SameConn
  MaxParallelism <- LimitOne
  NewLimits <- NoLimits
  Faults = {}
  MaxFaults = 0
  MaxResets = 0
  MaxEdits = 0
  MaxSubmits = 2
SPECIFICATION Spec
INVARIANTS ParallelismLimit
