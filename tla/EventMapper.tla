----------------------------- MODULE EventMapper -----------------------------
(***************************************************************************)
(* An FdsEvent as the gateway sees it, and the pure functions of           *)
(* EventMapper that decide what is done with it.                           *)
(*                                                                         *)
(* form says how far the record gets before a handler sees it:             *)
(*   undecodable  its bytes are not UTF-8: the value_deserializer raises   *)
(*   keyless      parse_event rejects it, and it is a JSON object whose    *)
(*                sessionId cannot be encoded as a Kafka key (null, a      *)
(*                number, a list, a lone surrogate)                        *)
(*   malformed    parse_event or a first pure step of the handler rejects  *)
(*                it, and the DLQ key can be built                         *)
(*   valid        everything else                                          *)
(* session = None is the empty sessionId, user = None an event without     *)
(* metadata.user_id (FdsEvent drops a top-level userId).  hits is          *)
(* count_phishing_keywords(sttText); critical is fdsFlag = CRITICAL;       *)
(* boost is an outbound event of a HIGH_RISK campaign; count and weight    *)
(* are the metadata's transfer_count_30m and malicious_app_weight (in      *)
(* percent), None if int() or float() raises on them.                      *)
(***************************************************************************)
EXTENDS Integers

CONSTANTS None, Session, User, ScoreEveryN

ASSUME ScoreEveryNAssumption == ScoreEveryN \in Nat

Form == {"undecodable", "keyless", "malformed", "valid"}
EventType == {"STT_PARTIAL", "AGENT_ESCALATION", "SESSION_ENDED", "OTHER"}

FdsEvent ==
    [form : Form, session : Session \union {None}, user : User \union {None},
     type : EventType, critical : BOOLEAN, hits : Nat, appActive : BOOLEAN,
     sum : {"absent", "number", "garbage"}, boost : BOOLEAN,
     weight : Int \union {None}, count : Int \union {None},
     txn : {"DOMESTIC", "OVERSEAS"}]

\* The keys of the feature store: users, and sessions without a known user.
Entity == Session \union User

EntityKey(ev) == IF ev.user # None THEN ev.user ELSE ev.session

ShouldTriggerScoring_NoCritical(ev, sttCount) ==
    \/ ev.type = "AGENT_ESCALATION"
    \/ ev.type = "STT_PARTIAL" /\ ScoreEveryN > 0 /\ sttCount % ScoreEveryN = 0

Urgent(ev) == ev.type = "AGENT_ESCALATION" \/ ev.critical

ShouldTriggerScoring(ev, sttCount) ==
    \/ Urgent(ev)
    \/ ev.type = "STT_PARTIAL" /\ ScoreEveryN > 0 /\ sttCount % ScoreEveryN = 0

\* to_scoring_request raises where it converts the metadata's numbers; the
\* weight is only converted when the context does not replace it.
RequestRaises(ev, ctx) == ev.count = None \/ (ctx.app # 1 /\ ev.weight = None)

KeywordFlag(ev, ctx) ==
    (IF ctx.live THEN ctx.kw ELSE ev.hits) * (IF ev.boost THEN 5 ELSE 4)

ToScoringRequest(ev, ctx) ==
    [keywordFlag |-> KeywordFlag(ev, ctx),
     appWeight |-> IF ctx.app = 1 THEN 92 ELSE ev.weight,
     txn |-> ev.txn, count |-> ev.count, overseasRisk |-> 0]
===============================================================================
