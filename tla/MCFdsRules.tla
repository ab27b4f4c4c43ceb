------------------------------ MODULE MCFdsRules ------------------------------
(***************************************************************************)
(* Harness for FdsRules: a customer whose indicators only get worse.  Each *)
(* step raises one indicator; the decision is recomputed in every state,   *)
(* so an action property over a step compares two requests of which the    *)
(* second is riskier.  The value sets straddle every threshold.            *)
(***************************************************************************)
EXTENDS FdsRules

CONSTANTS KeywordFlags, AppWeights, Counts, MLScores, KeywordCounts, Sums

ASSUME HarnessAssumption ==
    /\ KeywordFlags \subseteq Int /\ AppWeights \subseteq Int /\ Counts \subseteq Int
    /\ MLScores \subseteq Int /\ KeywordCounts \subseteq Int /\ Sums \subseteq Int

VARIABLES req, ctx, ml
vars == <<req, ctx, ml>>

Init ==
    /\ req \in [keywordFlag : {0}, appWeight : {0}, txn : {"DOMESTIC", "OVERSEAS"},
                count : {0}, overseasRisk : {0, 79, 80}]
    /\ ctx = [kw |-> 0, app |-> 0, sum |-> 0]
    /\ ml = 0

RaiseKeywordFlag ==
    /\ \E k \in KeywordFlags : k > req.keywordFlag /\ req' = [req EXCEPT !.keywordFlag = k]
    /\ UNCHANGED <<ctx, ml>>

RaiseAppWeight ==
    /\ \E w \in AppWeights : w > req.appWeight /\ req' = [req EXCEPT !.appWeight = w]
    /\ UNCHANGED <<ctx, ml>>

RaiseTransferCount ==
    /\ \E c \in Counts : c > req.count /\ req' = [req EXCEPT !.count = c]
    /\ UNCHANGED <<ctx, ml>>

RaiseContext ==
    /\ \E k \in KeywordCounts, a \in {0, 1}, s \in Sums :
          /\ k >= ctx.kw /\ a >= ctx.app /\ s >= ctx.sum
          /\ ctx' = [kw |-> k, app |-> a, sum |-> s]
          /\ ctx' # ctx
    /\ UNCHANGED <<req, ml>>

RaiseMLScore ==
    /\ \E m \in MLScores : m > ml /\ ml' = m
    /\ UNCHANGED <<req, ctx>>

Next == RaiseKeywordFlag \/ RaiseAppWeight \/ RaiseTransferCount \/ RaiseContext \/ RaiseMLScore

Spec == Init /\ [][Next]_vars

\* A customer who gets riskier in any indicator is never treated more
\* leniently: the action of rule_evaluator.evaluate does not drop, although
\* the override of rule_weight_engine.evaluate replaces an ML score of 96 to
\* 100 by the lower critical_score.
RiskNeverLowersAction ==
    [][Severity(Decision(req', Clamp(ml'))) >= Severity(Decision(req, Clamp(ml)))]_vars

\* A block that the ML score alone does not justify comes with a matched rule:
\* the explanation the class comment of RuleWeightEngine promises for a forced
\* promotion is really attached.
BlockIsExplained ==
    Decision(req, Clamp(ml)) = "BLOCK" /\ Clamp(ml) < 90 /\ Clamp(ml) < BlockScoreThreshold
        => "voice_phishing_remote_app" \in MatchedRules(req, ctx)

\* The literals of _score_to_flag and the configured thresholds of
\* RuleEvaluator draw the same lines: with the default settings the flag in
\* the scores topic and the action in the actions topic never disagree.
FlagAgreesWithAction ==
    LET flag == FdsFlag(req, Clamp(ml))
        action == Decision(req, Clamp(ml))
    IN  /\ flag = "CRITICAL" <=> action = "BLOCK"
        /\ flag = "WARNING" <=> action = "ALERT"
===============================================================================
