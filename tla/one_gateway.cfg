CONSTANTS
    FraudKeywordThreshold = 12
    MaliciousAppWeightThreshold = 75
    TransferSumThreshold = 5
    TransferCountThreshold = 5
    CriticalScore = 95
    BlockScoreThreshold = 90
    AlertScoreThreshold = 70
    None = None
    s1 = s1
    s2 = s2
    u1 = u1
    p1 = p1
    p2 = p2
    Session = {s1}
    User = {u1}
    Gateway = {g1}
    Partition = {p1}
    PartitionOf <- OnePartition
    Event <- OneGatewayEvents
    PutBodies <- NoPut
    MLScore = {20, 80}
    ScoreEveryN = 0
    DlqEnabled = TRUE
    WebhookEnabled = TRUE
    MaxLog = 2
    MaxFault <- OneGatewayFaults
SPECIFICATION FairSpec
INVARIANTS TypeOK ActionMatchesScore AlertsFollowActions EscalationDecided DuplicatesBounded LossesBounded
PROPERTIES EventuallySettled StoreIsAtomic
CHECK_DEADLOCK FALSE
