CONSTANTS
    FraudKeywordThreshold = 12
    MaliciousAppWeightThreshold = 75
    TransferSumThreshold = 5
    TransferCountThreshold = 5
    CriticalScore = 95
    BlockScoreThreshold = 90
    AlertScoreThreshold = 70
    KeywordFlags = {8, 12, 15}
    AppWeights = {74, 75, 92}
    Counts = {4, 5}
    MLScores = {69, 70, 89, 90, 95, 100, 130}
    KeywordCounts = {0, 2, 3}
    Sums = {0, 4, 5}
SPECIFICATION Spec
INVARIANTS BlockIsExplained FlagAgreesWithAction
PROPERTIES RiskNeverLowersAction
CHECK_DEADLOCK FALSE
