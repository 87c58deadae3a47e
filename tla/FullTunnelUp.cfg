SPECIFICATION Spec
CONSTANTS
  MaxUp = 2
  MaxDown = 0
  MaxOps = 3
  Depth = 2
  Slack = 1
  MaxBatchOps = 2
  MaxPendingWrites = 2
  DrainMax = 1
  Budget = 1
  ReadBufCap = 1
  ReplayCapable = TRUE
  Events = {"cancel", "forget"}
  MaxRetries = 1
  MaxRestarts = 0
CHECK_DEADLOCK FALSE
INVARIANTS TypeOK UplinkInOrder AckedUploadKept
