---------------------------- MODULE MCScoringCalls ----------------------------
(***************************************************************************)
(* Bodies, events, names and fault budgets for TLC's runs of ScoringCalls. *)
(***************************************************************************)
EXTENDS ScoringCalls, TLC

CONSTANTS s1, u1, k1, k2, k3

Plain == [form |-> "plain", session |-> s1, user |-> u1, txn |-> None, channel |-> "OTHER",
          keywordFlag |-> 0, appWeight |-> 0, count |-> 0, overseasRisk |-> 0]

Bodies ==
    {Plain,
     [Plain EXCEPT !.form = "garbage", !.user = None],
     [Plain EXCEPT !.form = "invalid"],
     [Plain EXCEPT !.form = "broken"],
     [Plain EXCEPT !.session = None, !.user = None, !.channel = "OVERSEAS", !.overseasRisk = 90]}

Heard == [form |-> "valid", session |-> s1, user |-> u1, type |-> "STT_PARTIAL",
          critical |-> FALSE, hits |-> 2, appActive |-> FALSE, sum |-> "absent",
          boost |-> FALSE, weight |-> 0, count |-> 0, txn |-> "DOMESTIC"]

GarbageSum == [Heard EXCEPT !.sum = "garbage", !.weight = None]
RestEvents == {GarbageSum}

ReadEvents ==
    {Heard,
     [Heard EXCEPT !.user = None, !.critical = TRUE, !.hits = 0],
     GarbageSum,
     [Heard EXCEPT !.type = "SESSION_ENDED"]}

Puts == {[kw |-> 2, app |-> None, sum |-> TRUE], [kw |-> None, app |-> 1, sum |-> FALSE]}

\* The user's name is worth two keywords and an active app in the mock features.
Seeds == [e \in {s1, u1} |-> IF e = u1 THEN 89 ELSE 10]

\* rest_calls: the guards and the limiter, with one failing read and inference
\* against a store the worker fills.
RestFaults == [k \in FaultKind |-> IF k \in {"redis", "triton"} THEN 1 ELSE 0]

\* two_reads: the worker and whatever comes between its two reads.
ReadFaults == [k \in FaultKind |-> 1]

Symmetry == Permutations({k1, k2, k3})
===============================================================================
