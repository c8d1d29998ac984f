CONSTANTS
  x1 = x1  x2 = x2
  Execs = {x1}
  ParentType = "folder.workflow"
  TotalRetries = 2
  Outcomes = {"success", "error"}
  Faults = {"refused", "message_lost", "worker_lost", "lost_unfinished", "first_update_failed", "heartbeat_failed", "late_running", "check_failed", "report_failed", "final_write_failed", "final_reply_lost", "finish_failed", "late_finish"}
  MaxFaults = 1
  MaxRuns = 1
  MaxCancels = 1
  MaxResets = 1
SPECIFICATION PollingSpec
CHECK_DEADLOCK FALSE
INVARIANTS TypeOK 
PROPERTIES CancelIsObeyed ReadyTaskRuns SlotIsReturned
