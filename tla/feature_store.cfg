CONSTANTS
    FraudKeywordThreshold = 12
    MaliciousAppWeightThreshold = 75
    TransferSumThreshold = 5
    TransferCountThreshold = 5
    CriticalScore = 95
    BlockScoreThreshold = 90
    AlertScoreThreshold = 70
    None = None
    s1 = s1
    s2 = s2
    u1 = u1
    p1 = p1
    p2 = p2
    Session = {s1}
    User = {u1}
    Gateway = {g1}
    Partition = {p1}
    PartitionOf <- OnePartition
    Event <- FeatureStoreEvents
    PutBodies <- Puts
    MLScore = {20}
    ScoreEveryN = 0
    DlqEnabled = TRUE
    WebhookEnabled = FALSE
    MaxLog = 2
    MaxFault <- FeatureStoreFaults
SPECIFICATION Spec
INVARIANTS EscalationDecided CriticalBlocked KeywordsNotUndercounted UndyingBounded
CHECK_DEADLOCK FALSE
