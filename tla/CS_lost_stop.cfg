CONSTANTS
  r1 = r1  r2 = r2  e1 = e1  e2 = e2
  Requests = {r1}
  Executors = {e1, e2}
  Patient = TRUE
  Faults = {}
  MaxFaults = 0
  MaxRequests = 2
SPECIFICATION FairSpec
CHECK_DEADLOCK FALSE
PROPERTIES StopIsObeyed
