SPECIFICATION FairSpec
CONSTANTS
  MaxUp = 1
  MaxDown = 1
  Depth = 1
  MaxFaults = 1
  MaxDrivers = 2
INVARIANTS
  SessionSound
  
  ClosedComplete
PROPERTIES
  CycleEnds
  FolderCleaned
CHECK_DEADLOCK FALSE
