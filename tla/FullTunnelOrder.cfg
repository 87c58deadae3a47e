SPECIFICATION Spec
CONSTANTS
  MaxUp = 0
  MaxDown = 2
  MaxOps = 3
  Depth = 2
  Slack = 0
  MaxBatchOps = 2
  MaxPendingWrites = 1
  DrainMax = 1
  Budget = 2
  ReadBufCap = 2
  ReplayCapable = TRUE
  Events = {}
  MaxRetries = 0
  MaxRestarts = 0
CHECK_DEADLOCK FALSE
INVARIANTS DownlinkInOrder
