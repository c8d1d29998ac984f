CONSTANTS
  c1 = c1  c2 = c2  t1 = t1  t2 = t2  t3 = t3  t4 = t4  k1 = k1  k2 = k2
  Callers = {c1}
  Tasks = {t1, t2}
  Conns = {k1}
  ConnOf <- SameConn
  MaxParallelism <- LimitOne
  NewLimits <- Zero
  Faults = {"enqueue_exhausted", "pop_aborted", "publish_failed", "worker_lost", "dequeue_exhausted", "pop_exhausted", "false_reap", "finish_retried"}
  MaxFaults = 2
  MaxResets = 1
  MaxEdits = 1
  MaxSubmits = 3
SPECIFICATION Spec
SYMMETRY Symmetry
INVARIANTS TypeOK Conservation CeilingRespected
