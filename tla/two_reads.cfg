CONSTANTS
    FraudKeywordThreshold = 12
    MaliciousAppWeightThreshold = 75
    TransferSumThreshold = 100
    TransferCountThreshold = 5
    CriticalScore = 95
    BlockScoreThreshold = 90
    AlertScoreThreshold = 70
    None = None
    s1 = s1
    u1 = u1
    k1 = k1
    k2 = k2
    k3 = k3
    Session = {s1}
    User = {u1}
    Client = {c1}
    Slot = {k1}
    Limit = 1
    Window = 2
    MaxTime = 0
    MaxAdmitted = 3
    MaxBack = 0
    MaxForward = 0
    Body <- Bodies
    Event <- ReadEvents
    PutBodies <- Puts
    SumValue = {0, 100}
    MLScore = {20, 95}
    CriticalName = {}
    Seed <- Seeds
    ScoreEveryN = 2
    ApiKeyEnabled = FALSE
    RateLimitEnabled = FALSE
    InternalKeyGuarded = TRUE
    InternalNetworkGuarded = FALSE
    MaxEvents = 3
    MaxFault <- ReadFaults
SPECIFICATION Spec
INVARIANTS EvidenceAgrees RedisNeverFailsScoring
CHECK_DEADLOCK FALSE
