SPECIFICATION TunnelSpec
CONSTANTS
    PdSetups <- MCPdSetups
    INFLIGHT_IDLE = 1
    INFLIGHT_OPTIMIST = 2
    INFLIGHT_ACTIVE = 3
    Slack = 1
    MaxElevated = 1
    IdleStart = 2
    Enough = 1
    MxKinds <- MCMxKinds
    MaxMsgs = 3
    COALESCE_STEP = 2
    COALESCE_MAX = 3
    HANDSHAKE_MAX = 1
    MAX_BATCH_OPS = 2
    MAX_BATCH_PAYLOAD = 8
    CONCURRENCY = 1
    IDLE_CONCURRENCY = 1
    Fingerprints = {k1, k2}
    Batches = {r1, r2, r3}
    BodySizes = {1, 3}
    REPLAY_TTL = 2
    REPLAY_MAX_ENTRIES = 1
    REPLAY_MAX_BYTES = 2
    RrMaxTime = 4
    NoReq = NoReq
    UgInputs <- MCUgInputs
    FRAME = 2
    READ_MAX = 3
    TX_CAP = 1
    MaxReplies = 2
CHECK_DEADLOCK FALSE
INVARIANTS
    DepthSound ReplaySound 
PROPERTIES
    QuietOnlyIfLegacy 
