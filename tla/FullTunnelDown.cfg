SPECIFICATION Spec
CONSTANTS
  MaxUp = 0
  MaxDown = 2
  MaxOps = 2
  Depth = 2
  Slack = 0
  MaxBatchOps = 2
  MaxPendingWrites = 1
  DrainMax = 1
  Budget = 2
  ReadBufCap = 3
  ReplayCapable = TRUE
  Events = {"upstream_eof", "client_gone", "forget"}
  MaxRetries = 1
  MaxRestarts = 1
CHECK_DEADLOCK FALSE
INVARIANTS DownlinkOnce NoSilentGap 
