------------------------------ MODULE MCPipeline ------------------------------
(***************************************************************************)
(* Event records, PUT bodies and fault budgets for the TLC instances of    *)
(* FdsEventPipeline.                                                       *)
(***************************************************************************)
EXTENDS PipelineProperties, TLC

CONSTANTS s1, s2, u1, p1, p2

Plain == [form |-> "valid", session |-> s1, user |-> None, type |-> "OTHER",
          critical |-> FALSE, hits |-> 0, appActive |-> FALSE, sum |-> "absent",
          boost |-> FALSE, weight |-> 0, count |-> 0, txn |-> "DOMESTIC"]

Stt == [Plain EXCEPT !.type = "STT_PARTIAL", !.hits = 2]
Critical == [Plain EXCEPT !.critical = TRUE]
Escalation == [Plain EXCEPT !.type = "AGENT_ESCALATION"]
Ended == [Plain EXCEPT !.type = "SESSION_ENDED"]
Malformed == [Plain EXCEPT !.form = "malformed"]
Keyless == [Plain EXCEPT !.form = "keyless", !.session = None]
Undecodable == [Plain EXCEPT !.form = "undecodable"]
Anonymous == [Plain EXCEPT !.session = None]
OfUser(ev) == [ev EXCEPT !.user = u1]
InSession2(ev) == [ev EXCEPT !.session = s2]

OnePartition == [s \in Session \union {None} |-> p1]
TwoPartitions == [s \in Session \union {None} |-> IF s = s2 THEN p2 ELSE p1]

NoPut == {}
Puts == {[kw |-> 0, app |-> 0, sum |-> TRUE], [kw |-> None, app |-> None, sum |-> FALSE]}

NoFault == [k \in FaultKind |-> 0]
FaultsOf(b) == [k \in FaultKind |-> IF k \in DOMAIN b THEN b[k] ELSE 0]

\* The gateways are interchangeable.
Symmetry == Permutations(Gateway)

\* two gateways: records of two sessions whose partition moves while one of them
\* is in hand, and back when the new owner crashes.
TwoGatewaysEvents == {Escalation, InSession2(Ended)}
TwoGatewaysFaults == FaultsOf([rebalance |-> 1, crash |-> 1])

\* one gateway: records that end the loop or never reach a handler, records of
\* one entity that are replayed around them, and calls that fail.
OneGatewayEvents ==
    {[Escalation EXCEPT !.hits = 2], [Stt EXCEPT !.sum = "garbage"], OfUser(Stt), Ended,
     Keyless, Undecodable, Anonymous}
OneGatewayFaults == FaultsOf([crash |-> 1, stop |-> 1, redis |-> 1, kafka |-> 1])

\* feature store: everything that can come between the commands on one hash.
FeatureStoreEvents ==
    {OfUser(Stt), Critical, [OfUser(Critical) EXCEPT !.sum = "garbage"], OfUser(Ended)}
FeatureStoreFaults ==
    FaultsOf([redis |-> 1, triton |-> 1, expiry |-> 1, upsert |-> 1, crash |-> 1])

\* cadence: scoring every second STT partial event; another call of the user may end.
CadenceEvents == {Stt, OfUser(Stt), Ended, OfUser(InSession2(Ended))}
CadenceFaults == FaultsOf([triton |-> 1, expiry |-> 1])

\* the two runs of documented claims
DlqClaimEvents == {Malformed, Keyless}
DlqClaimFaults == NoFault
MergeClaimEvents == {Stt, OfUser(Stt)}
MergeClaimFaults == NoFault
===============================================================================
