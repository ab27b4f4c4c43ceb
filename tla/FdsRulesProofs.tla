---------------------------- MODULE FdsRulesProofs ----------------------------
(***************************************************************************)
(* Theorems about the decision arithmetic, for every threshold setting and *)
(* every pair of requests, not only those the harness enumerates.          *)
(***************************************************************************)
EXTENDS MCFdsRules, TLAPS

\* Requests ordered by risk: the customer of the second is at least as
\* suspicious in what the engine decides on.
Riskier(q, r) == r.keywordFlag >= q.keywordFlag /\ r.appWeight >= q.appWeight

\* rule_weight_engine.evaluate clamps the model's score into 0..100, and keeps
\* the order of two scores.
LEMMA ClampMonotone ==
    ASSUME NEW m \in Int, NEW n \in Int, m <= n
    PROVE  Clamp(m) \in 0..100 /\ Clamp(m) <= Clamp(n)
BY DEF Clamp

\* The critical override always ends in BLOCK, whatever critical_score and the
\* block threshold are set to: the flag alone decides.
LEMMA OverrideBlocks ==
    ASSUME NEW q, NEW m, CriticalOverride(q)
    PROVE  Decision(q, m) = "BLOCK"
BY DEF Decision, FdsFlag, RuleAction

\* Raising any indicator, or the model's score, never gets a milder action.
LEMMA DecisionMonotone ==
    ASSUME NEW q \in ScoringRequest, NEW r \in ScoringRequest, Riskier(q, r),
           NEW m \in Int, NEW n \in Int, m <= n
    PROVE  Severity(Decision(q, m)) <= Severity(Decision(r, n))
<1>1. CriticalOverride(q) => CriticalOverride(r)
  BY ThresholdsAssumption DEF CriticalOverride, Riskier, ScoringRequest
<1>2. CASE CriticalOverride(r)
  <2>1. Severity(Decision(r, n)) = 2
    BY <1>2, OverrideBlocks DEF Severity
  <2> QED BY <2>1 DEF Severity
<1>3. CASE ~CriticalOverride(r)
  BY <1>1, <1>3, ThresholdsAssumption
  DEF Decision, FdsScore, FdsFlag, ScoreToFlag, RuleAction, Severity
<1> QED BY <1>2, <1>3

-------------------------------------------------------------------------------
(* The harness: a customer who only gets riskier *)

Typed == req \in ScoringRequest /\ ml \in Int

LEMMA TypedInductive == Init /\ [][Next]_vars => []Typed
<1>1. Init => Typed
  BY DEF Init, Typed, ScoringRequest
<1>2. Typed /\ [Next]_vars => Typed'
  BY HarnessAssumption
  DEF Typed, ScoringRequest, Next, vars, RaiseKeywordFlag, RaiseAppWeight, RaiseTransferCount,
      RaiseContext, RaiseMLScore
<1> QED BY <1>1, <1>2, PTL

\* A step that makes the customer riskier never lowers the action, for every
\* setting of the thresholds.
THEOREM RiskMonotone == Spec => RiskNeverLowersAction
<1>1. Typed /\ Typed' /\ [Next]_vars
        => [Severity(Decision(req', Clamp(ml'))) >= Severity(Decision(req, Clamp(ml)))]_vars
  <2> SUFFICES ASSUME Typed, Typed', Next
               PROVE  Severity(Decision(req', Clamp(ml'))) >= Severity(Decision(req, Clamp(ml)))
    OBVIOUS
  <2>1. Riskier(req, req') /\ ml <= ml'
    BY HarnessAssumption
    DEF Typed, ScoringRequest, Riskier, Next, RaiseKeywordFlag, RaiseAppWeight,
        RaiseTransferCount, RaiseContext, RaiseMLScore
  <2>2. Clamp(ml) \in Int /\ Clamp(ml') \in Int /\ Clamp(ml) <= Clamp(ml')
    BY <2>1, ClampMonotone DEF Typed
  <2>3. Severity(Decision(req, Clamp(ml))) <= Severity(Decision(req', Clamp(ml')))
    BY <2>1, <2>2, DecisionMonotone DEF Typed
  <2> QED BY <2>3 DEF Severity
<1> QED BY <1>1, TypedInductive, PTL DEF Spec, RiskNeverLowersAction

\* A BLOCK the model's score does not justify carries the matched rule that
\* explains it, for every setting of the thresholds.
THEOREM BlocksExplained == Spec => []BlockIsExplained
<1>1. Typed => BlockIsExplained
  <2> SUFFICES ASSUME Typed, Decision(req, Clamp(ml)) = "BLOCK",
                      Clamp(ml) < 90, Clamp(ml) < BlockScoreThreshold
               PROVE  "voice_phishing_remote_app" \in MatchedRules(req, ctx)
    BY DEF BlockIsExplained
  <2>1. Clamp(ml) \in 0..100
    BY ClampMonotone DEF Typed
  <2>2. CriticalOverride(req)
    BY <2>1, ThresholdsAssumption
    DEF Decision, FdsScore, FdsFlag, ScoreToFlag, RuleAction
  <2> QED BY <2>2 DEF MatchedRules, Rule
<1> QED BY <1>1, TypedInductive, PTL DEF Spec

\* The literals 90 and 70 of _score_to_flag against the configured thresholds
\* of RuleEvaluator: while the two thresholds have those values, flag and
\* action name the same verdict, whatever critical_score is.
THEOREM FlagsAgree ==
    ASSUME BlockScoreThreshold = 90, AlertScoreThreshold = 70
    PROVE  Spec => []FlagAgreesWithAction
<1>1. Typed => FlagAgreesWithAction
  <2> SUFFICES ASSUME Typed PROVE FlagAgreesWithAction
    OBVIOUS
  <2>1. Clamp(ml) \in 0..100
    BY ClampMonotone DEF Typed
  <2>2. CASE CriticalOverride(req)
    BY <2>2, OverrideBlocks DEF FlagAgreesWithAction, FdsFlag
  <2>3. CASE ~CriticalOverride(req)
    BY <2>1, <2>3 DEF FlagAgreesWithAction, Decision, FdsScore, FdsFlag, ScoreToFlag, RuleAction
  <2> QED BY <2>2, <2>3
<1> QED BY <1>1, TypedInductive, PTL DEF Spec
===============================================================================
