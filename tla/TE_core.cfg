CONSTANTS
  x1 = x1  x2 = x2
  Execs = {x1, x2}
  ParentType = "folder.workflow"
  TotalRetries = 2
  Outcomes = {"success", "error", "fail"}
  Faults = {"refused", "message_lost", "worker_lost", "lost_unfinished", "first_update_failed", "heartbeat_failed", "check_failed", "report_failed", "final_write_failed", "final_reply_lost", "finish_failed"}
  MaxFaults = 2
  MaxRuns = 2
  MaxCancels = 1
  MaxResets = 0
SPECIFICATION Spec
CHECK_DEADLOCK FALSE
SYMMETRY Symmetry
INVARIANTS   AttemptsBounded
 
