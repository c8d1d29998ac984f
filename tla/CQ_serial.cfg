CONSTANTS
  c1 = c1  c2 = c2  t1 = t1  t2 = t2  t3 = t3  t4 = t4  k1 = k1  k2 = k2
  Callers = {c1}
  Tasks = {t1, t2, t3, t4}
  Conns = {k1, k2}
  ConnOf <- ConnMost
  MaxParallelism <- LimitTwo
  NewLimits <- NoLimits
  Faults = {"enqueue_exhausted", "pop_aborted"}
  MaxFaults = 1
  MaxResets = 0
  MaxEdits = 0
  MaxSubmits = 3
SPECIFICATION FairSpec
INVARIANTS ExecutionsAreCounted OneExecutionPerTask QueuedIsReachable
PROPERTIES ImplementsSlotPool WaitingIsPickedUp
