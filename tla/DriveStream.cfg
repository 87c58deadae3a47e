SPECIFICATION FairSpec
CONSTANTS
  Frames = 3
  MaxBatch = 2
  MailboxDepth = 1
  Lookback = 2
  UploadMax = 1
  VisibleMax = 1
  MaxClock = 3
  AdvanceOnListError = TRUE
  Faults = {"upload", "list", "download", "delete", "receiver"}
  MaxFaults = 1
CHECK_DEADLOCK FALSE
INVARIANTS TypeOK RemovedIfDelivered 
PROPERTIES InOrderOnce FramesArrive
