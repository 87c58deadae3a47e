SPECIFICATION PdSpec
CONSTANTS
  PdSetups <- MCAbandoned
  INFLIGHT_IDLE = 1
  INFLIGHT_OPTIMIST = 2
  INFLIGHT_ACTIVE = 3
  Slack = 1
  MaxElevated = 1
  IdleStart = 2
  Enough = 1
INVARIANTS ElevatedExact
