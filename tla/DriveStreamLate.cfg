SPECIFICATION Spec
CONSTANTS
  Frames = 3
  MaxBatch = 2
  MailboxDepth = 1
  Lookback = 1
  UploadMax = 3
  VisibleMax = 0
  MaxClock = 3
  AdvanceOnListError = TRUE
  Faults = {}
  MaxFaults = 1
CHECK_DEADLOCK FALSE
INVARIANT OutOfOrderSafe
