SPECIFICATION FrontDoorSpec
SYMMETRY Clients
CONSTANTS
    client = client
    other = other
    proxy = proxy
    Keys = {client, other, proxy}
    Proxies = {proxy}
    Limit = 1
    Window = 2
    MaxKeys = 2
    TicksPerSecond = 2
    MaxTime = 5
    NameMax = 2
    EmailMax = 2
    CommentsMax = 2
    FilenameMax = 2
    MaxResume = 2
    BodyCap = 3
    Overhead = 1
    ChunkMax = 2
INVARIANTS
    LimiterTypeOK
    WindowRespected
    PeerBounded
    TruthfulAnswers
    TraceableAnswers
    AcceptedIsStorable
    NoUnsafeConfiguration
PROPERTIES
    FullOnlyWhenBusy
    RetryAfterSuffices
