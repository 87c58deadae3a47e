SPECIFICATION FronterSpec
CONSTANTS
    Setups <- MCSetups
    MaxN = 3
    Cooldown = 2
    StrikeCooldown = 1
    HardSlowCooldown = 1
    StrikeWindow = 1
    Fresh = 1
    Scores = {1, 3}
    HardSlow = 3
    MinMedian = 1
    MinSampled = 3
    Outcomes = {"ok", "classified", "http_block", "transport"}
    Mixes <- MCMixes
    Keys = {"k", "l"}
    MaxFetch = 3
    Totals = {1, 2, 5, 6, 8, 9, 10}
    CHUNK = 2
    MAX_PARALLEL = 3
    MAX_ATTEMPTS = 2
    APPS_MAX = 5
    STITCH_MAX = 8
    STREAM_MAX = 9
    ChunkLists <- MCChunkLists
    Starts <- MCStarts
    Recorders = {r1, r2}
    MaxCalls = 5
    SabrRequests <- MCSabrRequests
    SabrBytes = {0, 1, 18, 26, 131}
    MaxBody = 6
    MaxShift = 2
    Fixed64 = 2
    Fixed32 = 1
CHECK_DEADLOCK FALSE
INVARIANTS
    RelaySound  
PROPERTIES
     FronterProgress
