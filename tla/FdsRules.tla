------------------------------- MODULE FdsRules -------------------------------
(***************************************************************************)
(* The decision arithmetic of the gateway: RuleWeightEngine.evaluate,      *)
(* which turns an ML score and the risk indicators of a request into a     *)
(* score, a flag and a set of matched rules, and RuleEvaluator.evaluate,   *)
(* which turns score and flag into BLOCK, ALERT or APPROVE.                *)
(*                                                                         *)
(* Fractions are integers: keyword flags count quarters of a keyword (the  *)
(* only multiplier in the code is 1.25), weights and risks are percent.    *)
(***************************************************************************)
EXTENDS Integers

CONSTANTS FraudKeywordThreshold,       \* settings.fraud_keyword_threshold, in quarters
          MaliciousAppWeightThreshold, \* settings.malicious_app_weight_threshold, in percent
          TransferSumThreshold,        \* settings.transfer_sum_30m_threshold
          TransferCountThreshold,      \* settings.transfer_count_30m_threshold
          CriticalScore,               \* settings.critical_score
          BlockScoreThreshold,         \* settings.block_score_threshold
          AlertScoreThreshold          \* settings.alert_score_threshold

ASSUME ThresholdsAssumption ==
    /\ FraudKeywordThreshold \in Int
    /\ MaliciousAppWeightThreshold \in Int
    /\ TransferSumThreshold \in Int
    /\ TransferCountThreshold \in Int
    /\ CriticalScore \in Int
    /\ BlockScoreThreshold \in Int
    /\ AlertScoreThreshold \in Int

Flag == {"NORMAL", "WARNING", "CRITICAL"}
Action == {"APPROVE", "ALERT", "BLOCK"}
Rule == {"voice_phishing_remote_app", "stt_phishing_keyword",
         "domestic_large_transfer", "overseas_high_risk_country"}

\* What the engine reads of a request and of the context features.
ScoringRequest == [keywordFlag : Int, appWeight : Int, txn : {"DOMESTIC", "OVERSEAS"},
                   count : Int, overseasRisk : Int]
ContextFeatures == [kw : Int, app : Int, sum : Int]

Clamp(n) == IF n < 0 THEN 0 ELSE IF n > 100 THEN 100 ELSE n

ScoreToFlag_AboveThreshold(score) ==
    IF score > 90 THEN "CRITICAL" ELSE IF score > 70 THEN "WARNING" ELSE "NORMAL"

ScoreToFlag_UnknownName(score) ==
    IF score >= 90 THEN "CRITICAL" ELSE IF score >= 70 THEN "SUSPICIOUS" ELSE "NORMAL"

\* The two bounds are literals in the code, not the configured thresholds.
ScoreToFlag(score) ==
    IF score >= 90 THEN "CRITICAL" ELSE IF score >= 70 THEN "WARNING" ELSE "NORMAL"

CriticalOverride_OnlyAtThreshold(req) ==
    \/ req.keywordFlag = FraudKeywordThreshold
    \/ req.appWeight >= MaliciousAppWeightThreshold

CriticalOverride(req) ==
    \/ req.keywordFlag >= FraudKeywordThreshold
    \/ req.appWeight >= MaliciousAppWeightThreshold

MatchedRules_OverrideForgotten(req, ctx) ==
    {r \in Rule :
        \/ r = "voice_phishing_remote_app" /\ ctx.app = 1
        \/ r = "stt_phishing_keyword" /\ 4 * ctx.kw >= FraudKeywordThreshold}

MatchedRules(req, ctx) ==
    {r \in Rule :
        \/ r = "voice_phishing_remote_app" /\ (CriticalOverride(req) \/ ctx.app = 1)
        \/ r = "stt_phishing_keyword" /\ 4 * ctx.kw >= FraudKeywordThreshold
        \/ /\ r = "domestic_large_transfer"
           /\ req.txn = "DOMESTIC"
           /\ ctx.sum >= TransferSumThreshold \/ req.count >= TransferCountThreshold
        \/ /\ r = "overseas_high_risk_country"
           /\ req.txn = "OVERSEAS"
           /\ req.overseasRisk >= 80}

FdsScore(req, ml) == IF CriticalOverride(req) THEN CriticalScore ELSE ml

FdsFlag(req, ml) == IF CriticalOverride(req) THEN "CRITICAL" ELSE ScoreToFlag(ml)

RuleAction(score, flag) ==
    IF flag = "CRITICAL" \/ score >= BlockScoreThreshold THEN "BLOCK"
    ELSE IF score >= AlertScoreThreshold THEN "ALERT"
    ELSE "APPROVE"

\* What one scored event or transaction ends in.
Decision(req, ml) == RuleAction(FdsScore(req, ml), FdsFlag(req, ml))

Severity(action) == CASE action = "APPROVE" -> 0 [] action = "ALERT" -> 1 [] OTHER -> 2
===============================================================================
