SPECIFICATION SafetySpec
CONSTANTS
    TrSetups <- MCTrSetups
    Tasks = {t1, t2}
    POOL_MAX = 2
    POOL_TTL = 2
    POOL_MIN = 1
    MIN_REMAINING = 1
    WARM = 2
    THRESHOLD = 1
    MaxSwaps = 1
    MaxGen = 2
    CacheKeys = {"a", "b", "c"}
    Responses <- MCResponses
    max_bytes = 5
    MAX_ENTRY_FRACTION = 2
    Configs <- MCConfigs
    Browsing <- MCBrowsing
    Calls <- MCCalls
    SNI_REWRITE_SUFFIXES <- MCSuffixes
    YOUTUBE_RELAY_HOSTS <- MCYoutube
    DEFAULT_DOH_HOSTS <- MCDoh
    DEFAULT_PATTERNS <- MCPatterns
    CAMOUFLAGE_COOLDOWN = 1
    Hellos <- MCHellos
    Strategies <- MCStrategies
    MAX_FIRST = 9
    READ = 4
    ToSetups <- MCToSetups
    STREAM = 2
    CONNECT_DATA_TRANSPORT_RETRIES = 1
    UNREACHABLE_CACHE_MAX = 1
    UNREACHABLE_CACHE_TTL = 2
    NgScripts = {"d", "e"}
    NgBatches = {1, 2}
    Hosts = {h1, h2}
    Jobs = {c1, c2}
    PoolTTL = 1
    PerHostMax = 1
    TotalMax = 2
    DnsTTL = 1
    DnsMax = 1
    HotWindow = 0
    HotMin = 2
    HotMaxKeys = 1
    NsRequests = {1, 2}
    MaxOpened = 1
    MaxPackets = 3
    UDP_QUEUE_LIMIT = 2
    LONGPOLL = 1
    IDLE_LIMIT = 1
    NwPolls <- MCNwPolls
    MaxChunks = 2
    Clients = {k1, k2}
    MaxFlows = 2
    MaxEdits = 1
    MAX_PENDING = 1
CHECK_DEADLOCK FALSE
INVARIANTS
    TransportSound    SignInSound
PROPERTIES
    SafetySteps
