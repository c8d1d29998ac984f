CONSTANTS
  r1 = r1  r2 = r2  e1 = e1  e2 = e2
  Requests = {r1, r2}
  Executors = {e1, e2}
  Patient = FALSE
  Faults = {"executor_lost", "start_error", "publish_failed", "heartbeat_failed", "reply_lost", "late_write", "work_timeout", "slow_heartbeat"}
  MaxFaults = 2
  MaxRequests = 3
SPECIFICATION FairSpec
CHECK_DEADLOCK FALSE
PROPERTIES ClaimHoldsOrExpires
