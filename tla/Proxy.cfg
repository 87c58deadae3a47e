SPECIFICATION ProxySpec
CONSTANTS
  Plans <- MCPlans
  NoGen = NoGen
  Targets = {"a", "b"}
  Ports = {1, 2}
  MAX_SESSIONS = 1
  UPLINK_QUEUE = 1
  MaxSid = 3
  LbSetups <- MCLbSetups
  PROFILES <- MCProfiles
  Passthrough = {"p00"}
  DEFAULT_PROFILE = "p05"
  BREAKER_THRESHOLD = 2
  BREAKER_COOLDOWN = 1
  MAX_ENTRIES = 1
  STRIKE_THRESHOLD = 2
  PROFILE_FLOOR = 2
  DmSetups <- MCDmSetups
  DmProfiles = {"p01", "p05"}
  DM_DEFAULT = "p05"
  DM_THRESHOLD = 2
  DM_COOLDOWN = 1
  Visits <- MCVisits
  MAX_HEADER = 2
  MAX_BODY = 4
  READ_SIZE = 3
  Platforms = {"desktop", "android"}
  Callers = {1, 2}
  MaxRuns = 3
  MaxFaults = 2
  Workers = {w1, w2, w3}
  MaxCalls = 5
  MaxExpiries = 2
CHECK_DEADLOCK FALSE
INVARIANTS
  SwitchSound  UpdateSound TokenSound
PROPERTIES
   ProxyProgress
