SPECIFICATION FairSpec
CONSTANTS
  MaxUp = 3
  MaxDown = 0
  MaxOps = 3
  Depth = 1
  Slack = 1
  MaxBatchOps = 1
  MaxPendingWrites = 1
  DrainMax = 1
  Budget = 2
  ReadBufCap = 2
  ReplayCapable = TRUE
  Events = {"client_eof"}
  MaxRetries = 1
  MaxRestarts = 0
CHECK_DEADLOCK FALSE
PROPERTIES OpsAnswered UploadArrivesOrEnds
