CONSTANTS
  x1 = x1  x2 = x2
  Execs = {x1, x2}
  ParentType = "folder.workflow"
  TotalRetries = 1
  Outcomes = {"success", "error"}
  Faults = {"worker_lost"}
  MaxFaults = 1
  MaxRuns = 1
  MaxCancels = 0
  MaxResets = 0
SPECIFICATION FairSpec
CHECK_DEADLOCK FALSE
PROPERTIES OrphanIsNoticed
