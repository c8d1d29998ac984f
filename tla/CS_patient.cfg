CONSTANTS
  r1 = r1  r2 = r2  e1 = e1  e2 = e2
  Requests = {r1}
  Executors = {e1, e2}
  Patient = TRUE
  Faults = {"executor_lost", "start_error", "publish_failed", "heartbeat_failed"}
  MaxFaults = 2
  MaxRequests = 4
SPECIFICATION Spec
CHECK_DEADLOCK FALSE
SYMMETRY Symmetry
INVARIANTS TypeOK OneExecutor StoppedMeansHalted
