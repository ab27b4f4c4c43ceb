--------------------------- MODULE FdsEventPipeline ---------------------------
(***************************************************************************)
(* FdsEventPipelineWorker with what it talks to: the event topic and the   *)
(* consumer group, the Redis feature store and session hashes, the Triton  *)
(* call, and the scores, actions and DLQ topics.                           *)
(*                                                                         *)
(* A gateway handles one record at a time in a coroutine; every await is a *)
(* point where its task can be cancelled, its process can die, or another  *)
(* gateway, a PUT or a key expiry can act.  So there is one action per     *)
(* awaited call, and the code between two awaits belongs to the action     *)
(* before it.                                                              *)
(*                                                                         *)
(* Kafka, Redis and Triton are external: their actions follow from how the *)
(* code uses them (auto-commit on, auto_offset_reset latest, a producer    *)
(* without idempotence, no Redis transaction).                             *)
(***************************************************************************)
EXTENDS FdsRules, FeatureHash, Sequences, FiniteSets

CONSTANTS Gateway,        \* gateway processes of the consumer group
          Partition,      \* partitions of the event topic
          Event,          \* the records the relay may produce
          PartitionOf,    \* the partition a session's records go to
          PutBodies,      \* bodies of PUT /internal/feature-store/{entity}
          MLScore,        \* values Triton may answer as NORMALIZED_SCORE
          DlqEnabled,     \* settings.kafka_dlq_enabled
          WebhookEnabled, \* settings.alert_webhook_enabled and a URL
          MaxLog,         \* bound: records per partition
          MaxFault        \* bound: environment faults, per kind

FaultKind == {"crash", "stop", "rebalance", "redis", "triton", "kafka", "expiry", "upsert"}

ASSUME PipelineAssumption ==
    /\ Event \subseteq FdsEvent
    /\ PartitionOf \in [Session \union {None} -> Partition]
    /\ PutBodies \subseteq PutBody
    /\ MLScore \subseteq Int
    /\ DlqEnabled \in BOOLEAN
    /\ WebhookEnabled \in BOOLEAN
    /\ MaxLog \in Nat
    /\ MaxFault \in [FaultKind -> Nat]
    /\ None \notin Gateway

\* A record of the event topic, and "no offset": nothing committed, or the
\* partition is not assigned.  Offsets are those of the next record to read.
Ref == [p : Partition, o : 1..MaxLog]
NoOffset == 0
ASSUME RefAssumption == None \notin Ref

Step == {"down", "dead", "idle",
         "sync_read", "sync_hset", "sync_expire", "enrich", "context", "infer",
         "publish_score", "publish_action", "webhook", "publish_dlq",
         "fin_hset", "fin_expire", "fin_enrich"}

Outcome == {"none", "scored", "quiet", "ended", "ignored", "dlq", "dropped",
            "poison", "skipped", "lost"}

ScoreMsg == [ref : Ref, score : Int, flag : Flag]
ActionMsg == [ref : Ref, score : Int, flag : Flag, action : Action]
NoVerdict == [score |-> 0, flag |-> "NORMAL"]

VARIABLES
    log,        \* log[p]: the event topic
    committed,  \* committed[p]: the group's committed offset
    owner,      \* owner[p]: the gateway the partition is assigned to
    position,   \* position[p]: the owner's consumer position
    pc,         \* pc[g]: where the worker's coroutine waits
    cur,        \* cur[g]: the record in hand
    seen,       \* seen[g]: the feature hash as this gateway last read it
    verdict,    \* verdict[g]: score_result
    counters,   \* counters[g]: _stt_counters, 0 for no entry
    store,      \* store[e]: Redis hash fds:feature:{e}
    session,    \* session[s]: whose event wrote wooricard:session:...:{s} last
    upserting,  \* entities of PUTs between HSET and EXPIRE
    scores, actions, dlq, \* the output topics
    alerts,     \* records whose webhook call got through
    outcome,    \* history: how the handling of a record last ended
    fault       \* history: environment faults so far, per kind

kafka == <<log, committed, owner, position>>
worker == <<pc, cur, seen, verdict, counters>>
redis == <<store, session, upserting>>
topics == <<scores, actions, dlq, alerts>>
history == <<outcome, fault>>
vars == <<kafka, worker, redis, topics, history>>

-------------------------------------------------------------------------------
(* Reading the state *)

EventAt(r) == log[r.p][r.o]
Cur(g) == EventAt(cur[g])
Key(g) == EntityKey(Cur(g))
Up(g) == pc[g] # "down"
InFlight(r) == \E g \in Gateway : cur[g] = r
Relayed == {r \in Ref : r.o <= Len(log[r.p])}

Spend(kind) ==
    /\ fault[kind] < MaxFault[kind]
    /\ fault' = [fault EXCEPT ![kind] = @ + 1]

Wait(g, from, to) == pc[g] = from /\ pc' = [pc EXCEPT ![g] = to]

\* What the coroutine's locals held is gone.
Forget(g) ==
    /\ seen' = [seen EXCEPT ![g] = Missing]
    /\ verdict' = [verdict EXCEPT ![g] = NoVerdict]

\* The handler of g's record returns: the loop asks for the next one.
Return(g, how) ==
    /\ pc' = [pc EXCEPT ![g] = "idle"]
    /\ cur' = [cur EXCEPT ![g] = None]
    /\ outcome' = [outcome EXCEPT ![cur[g]] = how]
    /\ Forget(g)

\* An exception leaves the handler: the except clauses of run_forever.
Raise(g) ==
    /\ pc' = [pc EXCEPT ![g] = "publish_dlq"]
    /\ Forget(g)

\* An exception leaves run_forever: the task is done, the process stays up.
Die(g, how) ==
    /\ pc' = [pc EXCEPT ![g] = "dead"]
    /\ cur' = [cur EXCEPT ![g] = None]
    /\ outcome' = [outcome EXCEPT ![cur[g]] = how]
    /\ Forget(g)

-------------------------------------------------------------------------------
Init ==
    /\ log = [p \in Partition |-> <<>>]
    /\ committed = [p \in Partition |-> NoOffset]
    /\ owner = [p \in Partition |-> None]
    /\ position = [p \in Partition |-> NoOffset]
    /\ pc = [g \in Gateway |-> "idle"]
    /\ cur = [g \in Gateway |-> None]
    /\ seen = [g \in Gateway |-> Missing]
    /\ verdict = [g \in Gateway |-> NoVerdict]
    /\ counters = [g \in Gateway |-> [e \in Entity |-> 0]]
    /\ store = [e \in Entity |-> Missing]
    /\ session = [s \in Session |-> None]
    /\ upserting = {}
    /\ scores = <<>>
    /\ actions = <<>>
    /\ dlq = <<>>
    /\ alerts = {}
    /\ outcome = [r \in Ref |-> "none"]
    /\ fault = [k \in FaultKind |-> 0]

-------------------------------------------------------------------------------
(* The event topic and the consumer group *)

Relay(ev) ==
    LET p == PartitionOf[ev.session] IN
    /\ Len(log[p]) < MaxLog
    /\ log' = [log EXCEPT ![p] = Append(@, ev)]
    /\ UNCHANGED <<committed, owner, position, worker, redis, topics, history>>

\* Where a newly assigned consumer starts: auto_offset_reset is "latest".
StartPosition_PastCommitted(p) ==
    IF committed[p] = NoOffset THEN Len(log[p]) + 1 ELSE committed[p] + 1

StartPosition(p) == IF committed[p] = NoOffset THEN Len(log[p]) + 1 ELSE committed[p]

Assign(g, p) ==
    /\ owner[p] = None
    /\ Up(g)
    /\ owner' = [owner EXCEPT ![p] = g]
    /\ position' = [position EXCEPT ![p] = StartPosition(p)]
    /\ outcome' = [r \in Ref |->
                     IF /\ r.p = p /\ r \in Relayed /\ committed[p] = NoOffset
                        /\ outcome[r] = "none" /\ ~InFlight(r)
                     THEN "skipped" ELSE outcome[r]]
    /\ UNCHANGED <<log, committed, worker, redis, topics, fault>>

\* The offsets g commits: its positions, the record in hand included.
CommittedBy(g) == [p \in Partition |-> IF owner[p] = g THEN position[p] ELSE committed[p]]

AutoCommit(g) ==
    /\ Up(g)
    /\ committed' = CommittedBy(g)
    /\ committed' # committed
    /\ UNCHANGED <<log, owner, position, worker, redis, topics, history>>

\* A rebalance takes p from its owner, which commits first if it takes part;
\* it does not if the group expelled it, as it does a member whose handler
\* exceeds max_poll_interval_ms.  The record in hand is handled to its end.
Revoke(p) ==
    /\ owner[p] # None
    /\ Spend("rebalance")
    /\ \/ committed' = [committed EXCEPT ![p] = position[p]]
       \/ UNCHANGED committed
    /\ owner' = [owner EXCEPT ![p] = None]
    /\ position' = [position EXCEPT ![p] = NoOffset]
    /\ UNCHANGED <<log, worker, redis, topics, outcome>>
-------------------------------------------------------------------------------
(* The worker: one action per await of run_forever and what it calls *)

Handed(g, p) == pc[g] = "idle" /\ owner[p] = g /\ position[p] <= Len(log[p])
Next1(p) == [p |-> p, o |-> position[p]]

\* Where _process_message first awaits, for a record with an entity key.
FirstStep(ev) ==
    IF ev.form # "valid" THEN "publish_dlq"
    ELSE IF ev.type = "SESSION_ENDED" THEN "fin_hset" ELSE "sync_read"

Advanced(p) == [position EXCEPT ![p] = @ + 1]

Fetch(g, p) ==
    LET r == Next1(p)
        ev == EventAt(r)
    IN  /\ Handed(g, p)
        /\ ev.form # "undecodable"
        /\ position' = Advanced(p)
        /\ IF ev.form = "valid" /\ EntityKey(ev) = None
           THEN \* both branches return without an await
                /\ outcome' = [outcome EXCEPT ![r] =
                                 IF ev.type = "SESSION_ENDED" THEN "ended" ELSE "ignored"]
                /\ UNCHANGED <<pc, cur>>
           ELSE /\ pc' = [pc EXCEPT ![g] = FirstStep(ev)]
                /\ cur' = [cur EXCEPT ![g] = r]
                /\ UNCHANGED outcome
        /\ UNCHANGED <<log, committed, owner, seen, verdict, counters, redis, topics, fault>>

\* The deserializer raises inside the async for, outside its try; whether the
\* consumer has moved its position by then is up to the library.
FetchUndecodable(g, p) ==
    LET r == Next1(p) IN
    /\ Handed(g, p)
    /\ EventAt(r).form = "undecodable"
    /\ \/ position' = Advanced(p)
       \/ UNCHANGED position
    /\ pc' = [pc EXCEPT ![g] = "dead"]
    /\ outcome' = [outcome EXCEPT ![r] = "poison"]
    /\ UNCHANGED <<log, committed, owner, cur, seen, verdict, counters, redis, topics, fault>>

SyncRead(g) ==
    /\ Wait(g, "sync_read", "sync_hset")
    /\ seen' = [seen EXCEPT ![g] = store[Key(g)]]
    /\ UNCHANGED <<kafka, cur, verdict, counters, redis, topics, history>>

SyncHset(g) ==
    /\ Wait(g, "sync_hset", "sync_expire")
    /\ store' = [store EXCEPT ![Key(g)] = Synced(@, seen[g], Cur(g))]
    /\ UNCHANGED <<kafka, cur, seen, verdict, counters, session, upserting, topics, history>>

SyncExpire(g) ==
    /\ Wait(g, "sync_expire", "enrich")
    /\ store' = [store EXCEPT ![Key(g)] = WithTtl(@, "full")]
    /\ UNCHANGED <<kafka, cur, seen, verdict, counters, session, upserting, topics, history>>

\* _enrich_session_hash, where there is a session to write for.
Enriched(g) == [session EXCEPT ![Cur(g).session] = cur[g]]
EnrichSession_NotAtEnd(g) ==
    session' = IF Cur(g).session = None \/ pc[g] = "fin_enrich" THEN session ELSE Enriched(g)

EnrichSession(g) == session' = IF Cur(g).session = None THEN session ELSE Enriched(g)

\* _stt_counters after the record in hand.
Counted(g) ==
    IF Cur(g).type = "STT_PARTIAL" THEN [counters[g] EXCEPT ![Key(g)] = @ + 1] ELSE counters[g]

\* The last await of sync_from_event, the counter and the trigger decision.
SyncEnrich(g) ==
    /\ pc[g] = "enrich"
    /\ EnrichSession(g)
    /\ counters' = [counters EXCEPT ![g] = Counted(g)]
    /\ IF ShouldTriggerScoring(Cur(g), Counted(g)[Key(g)])
       THEN /\ pc' = [pc EXCEPT ![g] = "context"]
            /\ UNCHANGED <<cur, outcome>>
            /\ Forget(g)
       ELSE Return(g, "quiet")
    /\ UNCHANGED <<kafka, store, upserting, topics, fault>>

\* get_context_features, then the pure to_scoring_request.
ReadContext(g) ==
    LET h == store[Key(g)] IN
    /\ pc[g] = "context"
    /\ IF Unreadable(h) \/ RequestRaises(Cur(g), h)
       THEN Raise(g)
       ELSE /\ pc' = [pc EXCEPT ![g] = "infer"]
            /\ seen' = [seen EXCEPT ![g] = h]
            /\ UNCHANGED verdict
    /\ UNCHANGED <<kafka, cur, counters, redis, topics, history>>

\* FdsScoringPipeline.score: its own read of the hash only feeds the model and
\* the matched rules, and falls back to mock features on any error.
Infer(g) ==
    /\ pc[g] = "infer"
    /\ \E ml \in MLScore :
         LET req == ToScoringRequest(Cur(g), seen[g])
             score == FdsScore(req, Clamp(ml))
         IN  IF score \in 0..100
             THEN /\ pc' = [pc EXCEPT ![g] = "publish_score"]
                  /\ verdict' = [verdict EXCEPT ![g] =
                                   [score |-> score, flag |-> FdsFlag(req, Clamp(ml))]]
                  /\ seen' = [seen EXCEPT ![g] = Missing]
             ELSE Raise(g)   \* FdsScoreResponse does not validate
    /\ UNCHANGED <<kafka, cur, counters, redis, topics, history>>

ScoreOf(g) == [ref |-> cur[g], score |-> verdict[g].score, flag |-> verdict[g].flag]

PublishScore_NotAwaited(g) ==
    /\ Wait(g, "publish_score", "publish_action")
    /\ scores' = Append(scores, ScoreOf(g)) \/ UNCHANGED scores
    /\ UNCHANGED <<kafka, cur, seen, verdict, counters, redis, actions, dlq, alerts, history>>

PublishScore(g) ==
    /\ Wait(g, "publish_score", "publish_action")
    /\ scores' = Append(scores, ScoreOf(g))
    /\ UNCHANGED <<kafka, cur, seen, verdict, counters, redis, actions, dlq, alerts, history>>

ActionOf(g) ==
    [ref |-> cur[g], score |-> verdict[g].score, flag |-> verdict[g].flag,
     action |-> RuleAction(verdict[g].score, verdict[g].flag)]

NeedsAlert_Always(action) == WebhookEnabled

NeedsAlert(action) == WebhookEnabled /\ action \in {"BLOCK", "ALERT"}

PublishAction_SentAgain(g) ==
    /\ pc[g] = "publish_action"
    /\ actions' = Append(actions, ActionOf(g))
    /\ UNCHANGED <<kafka, worker, redis, scores, dlq, alerts, history>>

PublishAction(g) ==
    /\ pc[g] = "publish_action"
    /\ actions' = Append(actions, ActionOf(g))
    /\ IF NeedsAlert(ActionOf(g).action)
       THEN /\ pc' = [pc EXCEPT ![g] = "webhook"]
            /\ outcome' = [outcome EXCEPT ![cur[g]] = "scored"]
            /\ UNCHANGED <<cur, seen, verdict>>
       ELSE Return(g, "scored")
    /\ UNCHANGED <<kafka, counters, redis, scores, dlq, alerts, fault>>

\* Best effort: a failed call is logged and forgotten.
SendAlertWebhook(g) ==
    /\ pc[g] = "webhook"
    /\ \/ alerts' = alerts \union {cur[g]}
       \/ UNCHANGED alerts
    /\ Return(g, "scored")
    /\ UNCHANGED <<kafka, counters, redis, scores, actions, dlq, fault>>

PublishDlq_OnlyParseErrors(g) ==
    /\ pc[g] = "publish_dlq"
    /\ \/ /\ Cur(g).form = "valid"
          /\ Return(g, "dropped")
          /\ UNCHANGED dlq
       \/ /\ Cur(g).form # "valid"
          /\ dlq' = Append(dlq, cur[g])
          /\ Return(g, "dlq")
    /\ UNCHANGED <<kafka, counters, redis, scores, actions, alerts, fault>>

\* The DLQ key is built before the send, outside any try.
PublishDlq(g) ==
    /\ pc[g] = "publish_dlq"
    /\ \/ /\ ~DlqEnabled
          /\ Return(g, "dropped")
          /\ UNCHANGED dlq
       \/ /\ DlqEnabled /\ Cur(g).form = "keyless"
          /\ Die(g, "poison")
          /\ UNCHANGED dlq
       \/ /\ DlqEnabled /\ Cur(g).form # "keyless"
          /\ dlq' = Append(dlq, cur[g])
          /\ Return(g, "dlq")
    /\ UNCHANGED <<kafka, counters, redis, scores, actions, alerts, fault>>

FinHset(g) ==
    /\ Wait(g, "fin_hset", "fin_expire")
    /\ store' = [store EXCEPT ![Key(g)] = Finalized(@)]
    /\ UNCHANGED <<kafka, cur, seen, verdict, counters, session, upserting, topics, history>>

FinExpire(g) ==
    /\ Wait(g, "fin_expire", "fin_enrich")
    /\ store' = [store EXCEPT ![Key(g)] = WithTtl(@, "end")]
    /\ UNCHANGED <<kafka, cur, seen, verdict, counters, session, upserting, topics, history>>

Popped_Kept(g) == counters[g]

Popped(g) == [counters[g] EXCEPT ![Key(g)] = 0]

\* The last await of finalize_session; then the counter is popped.
FinEnrich(g) ==
    /\ pc[g] = "fin_enrich"
    /\ EnrichSession(g)
    /\ counters' = [counters EXCEPT ![g] = Popped(g)]
    /\ Return(g, "ended")
    /\ UNCHANGED <<kafka, store, upserting, topics, fault>>

-------------------------------------------------------------------------------
(* Calls that fail *)

\* A Redis call raises, before the server acted or after.  A lost reply to an
\* HSET is the fault of the EXPIRE that follows; one to the EXPIRE may be that
\* of the session hash's HSET, which an event without a session does not send.
RedisFault(g) ==
    /\ Spend("redis")
    /\ \/ /\ pc[g] \in {"sync_read", "sync_hset", "sync_expire", "context",
                        "fin_hset", "fin_expire"}
          /\ UNCHANGED <<store, session>>
       \/ /\ pc[g] = "sync_expire"
          /\ store' = [store EXCEPT ![Key(g)] = WithTtl(@, "full")]
          /\ UNCHANGED session
       \/ /\ pc[g] = "fin_expire"
          /\ store' = [store EXCEPT ![Key(g)] = WithTtl(@, "end")]
          /\ UNCHANGED session
       \/ /\ pc[g] \in {"enrich", "fin_enrich"}
          /\ Cur(g).session # None
          /\ UNCHANGED session \/ session' = Enriched(g)
          /\ UNCHANGED store
    /\ Raise(g)
    /\ UNCHANGED <<kafka, cur, counters, upserting, topics, outcome>>

\* Triton is unreachable, answers an error status or not a number.
TritonFault(g) ==
    /\ pc[g] = "infer"
    /\ Spend("triton")
    /\ Raise(g)
    /\ UNCHANGED <<kafka, cur, counters, redis, topics, outcome>>

\* send_and_wait raises.
KafkaFault(g) ==
    /\ Spend("kafka")
    /\ \/ /\ pc[g] \in {"publish_score", "publish_action"}
          /\ Raise(g)
          /\ UNCHANGED <<cur, outcome>>
       \/ /\ pc[g] = "publish_dlq" /\ DlqEnabled /\ Cur(g).form # "keyless"
          /\ Die(g, "lost")
    /\ UNCHANGED <<kafka, counters, redis, topics>>

\* The broker appends a record and the acknowledgement is lost: the producer,
\* which is not idempotent, has yet to send it again or to give up.
KafkaLostAck(g) ==
    /\ Spend("kafka")
    /\ \/ /\ pc[g] = "publish_score"
          /\ scores' = Append(scores, ScoreOf(g))
          /\ UNCHANGED <<actions, dlq>>
       \/ /\ pc[g] = "publish_action"
          /\ actions' = Append(actions, ActionOf(g))
          /\ UNCHANGED <<scores, dlq>>
       \/ /\ pc[g] = "publish_dlq" /\ DlqEnabled /\ Cur(g).form # "keyless"
          /\ dlq' = Append(dlq, cur[g])
          /\ UNCHANGED <<scores, actions>>
    /\ UNCHANGED <<kafka, worker, redis, alerts, outcome>>

-------------------------------------------------------------------------------
(* Other writers of the feature store *)

Expire(e) ==
    /\ store[e].live /\ store[e].ttl # "none"
    /\ Spend("expiry")
    /\ store' = [store EXCEPT ![e] = Missing]
    /\ UNCHANGED <<kafka, worker, session, upserting, topics, outcome>>

\* PUT /internal/feature-store/{e}: HSET, then EXPIRE, which may never come.
UpsertHset(e) ==
    /\ e \notin upserting
    /\ Spend("upsert")
    /\ \E body \in PutBodies : store' = [store EXCEPT ![e] = Upserted(@, body)]
    /\ upserting' = upserting \union {e}
    /\ UNCHANGED <<kafka, worker, session, topics, outcome>>

UpsertExpire(e) ==
    /\ e \in upserting
    /\ \/ store' = [store EXCEPT ![e] = WithTtl(@, "full")]
       \/ UNCHANGED store
    /\ upserting' = upserting \ {e}
    /\ UNCHANGED <<kafka, worker, session, topics, history>>

-------------------------------------------------------------------------------
(* The process *)

\* The worker is gone: a record in hand whose handling never ended is lost,
\* unless the group hands it out again.
Gone(g) ==
    /\ pc' = [pc EXCEPT ![g] = "down"]
    /\ cur' = [cur EXCEPT ![g] = None]
    /\ Forget(g)
    /\ counters' = [counters EXCEPT ![g] = [e \in Entity |-> 0]]
    /\ owner' = [p \in Partition |-> IF owner[p] = g THEN None ELSE owner[p]]
    /\ position' = [p \in Partition |-> IF owner[p] = g THEN NoOffset ELSE position[p]]
    /\ outcome' = [r \in Ref |->
                     IF cur[g] = r /\ outcome[r] = "none" THEN "lost" ELSE outcome[r]]
    /\ UNCHANGED <<log, redis, topics>>

Crash(g) ==
    /\ Up(g)
    /\ Spend("crash")
    /\ Gone(g)
    /\ UNCHANGED committed

\* The end of lifespan: the task is cancelled wherever it waits, then the
\* consumer stops, which commits.  If the task had died, awaiting it raises
\* and the consumer is never stopped.
Stop(g) ==
    /\ Up(g)
    /\ Spend("stop")
    /\ Gone(g)
    /\ committed' = IF pc[g] = "dead" THEN committed ELSE CommittedBy(g)

Start(g) ==
    /\ pc[g] = "down"
    /\ pc' = [pc EXCEPT ![g] = "idle"]
    /\ UNCHANGED <<kafka, cur, seen, verdict, counters, redis, topics, history>>

-------------------------------------------------------------------------------
\* What the coroutine of a live worker does next.
Work(g) ==
    \/ \E p \in Partition : Fetch(g, p) \/ FetchUndecodable(g, p)
    \/ SyncRead(g) \/ SyncHset(g) \/ SyncExpire(g) \/ SyncEnrich(g)
    \/ ReadContext(g) \/ Infer(g)
    \/ PublishScore(g) \/ PublishAction(g) \/ SendAlertWebhook(g) \/ PublishDlq(g)
    \/ FinHset(g) \/ FinExpire(g) \/ FinEnrich(g)

Group ==
    \/ \E g \in Gateway, p \in Partition : Assign(g, p)
    \/ \E g \in Gateway : AutoCommit(g)
    \/ \E p \in Partition : Revoke(p)

CallFault(g) == RedisFault(g) \/ TritonFault(g) \/ KafkaFault(g) \/ KafkaLostAck(g)

StoreWriter == \E e \in Entity : Expire(e) \/ UpsertHset(e) \/ UpsertExpire(e)

Process(g) == Crash(g) \/ Stop(g) \/ Start(g)

Next ==
    \/ \E ev \in Event : Relay(ev)
    \/ Group
    \/ \E g \in Gateway : Work(g) \/ CallFault(g) \/ Process(g)
    \/ StoreWriter

Spec == Init /\ [][Next]_vars

\* The event loop resumes a coroutine whose awaited call has returned, and the
\* coordinator assigns a partition that has no owner to a member.
FairSpec ==
    /\ Spec
    /\ \A g \in Gateway : WF_vars(Work(g))
    /\ WF_vars(\E g \in Gateway, p \in Partition : Assign(g, p))

-------------------------------------------------------------------------------
(* Safety *)

TypeOK ==
    /\ log \in [Partition -> Seq(Event)]
    /\ committed \in [Partition -> Nat]
    /\ owner \in [Partition -> Gateway \union {None}]
    /\ position \in [Partition -> Nat]
    /\ pc \in [Gateway -> Step]
    /\ cur \in [Gateway -> Ref \union {None}]
    /\ seen \in [Gateway -> Hash]
    /\ verdict \in [Gateway -> [score : Int, flag : Flag]]
    /\ counters \in [Gateway -> [Entity -> Nat]]
    /\ store \in [Entity -> Hash]
    /\ session \in [Session -> Ref \union {None}]
    /\ upserting \subseteq Entity
    /\ scores \in Seq(ScoreMsg)
    /\ actions \in Seq(ActionMsg)
    /\ dlq \in Seq(Ref)
    /\ alerts \subseteq Ref
    /\ outcome \in [Ref -> Outcome]
    /\ fault \in [FaultKind -> Nat]

InScores(r) == \E i \in DOMAIN scores : scores[i].ref = r
InActions(r) == \E i \in DOMAIN actions : actions[i].ref = r
InDlq(r) == \E i \in DOMAIN dlq : dlq[i] = r

\* Auto-commit runs while a record is in hand, so the committed offset alone
\* says nothing about handling.  Still no commit, revocation or assignment
\* jumps over a record: every offset below the group's committed offset or the
\* owner's position was handed to a worker, which has it in hand or is done
\* with it, for good or ill, or stood before the group's first offset.  The
\* outcomes are this model's history; the program keeps no such record, and how
\* many of them may be losses is LossesBounded's question.
PassedHasOutcome ==
    \A r \in Ref :
        r.o < committed[r.p] \/ r.o < position[r.p] => outcome[r] # "none" \/ InFlight(r)

\* An agent escalation or a CRITICAL flag is never dropped by the trigger
\* decision or by an exception half way: once the handling of such an event
\* has ended, the event is in the actions topic or in the DLQ, if there is one.
\* The exception is "lost": its process went, or the send to the DLQ failed and
\* took the loop with it.  LossesBounded counts these.
EscalationDecided ==
    \A r \in Relayed :
        LET ev == EventAt(r) IN
        /\ ev.form = "valid" /\ EntityKey(ev) # None
        /\ ev.type # "SESSION_ENDED" /\ Urgent(ev)
        /\ outcome[r] \notin {"none", "lost", "skipped"}
        => InActions(r) \/ InDlq(r) \/ (outcome[r] = "dropped" /\ ~DlqEnabled)

\* Whatever calls fail or repeat between the two sends, no action reaches its
\* topic before a score of the same event with the same verdict has, and the
\* action is the one the evaluator derives from it.
ActionMatchesScore ==
    \A i \in DOMAIN actions :
        /\ \E j \in DOMAIN scores :
              /\ scores[j].ref = actions[i].ref
              /\ scores[j].score = actions[i].score
              /\ scores[j].flag = actions[i].flag
        /\ actions[i].action = RuleAction(actions[i].score, actions[i].flag)

\* The webhook is only called for events whose BLOCK or ALERT is already
\* durable in the actions topic.
AlertsFollowActions ==
    \A r \in alerts :
        \E i \in DOMAIN actions : actions[i].ref = r /\ actions[i].action # "APPROVE"
===============================================================================
