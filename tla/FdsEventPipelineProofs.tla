------------------------ MODULE FdsEventPipelineProofs ------------------------
(***************************************************************************)
(* Theorems about FdsEventPipeline, for every set of gateways, partitions, *)
(* events and entities, every configuration and every fault budget.        *)
(***************************************************************************)
EXTENDS FdsEventPipeline, SequenceTheorems, TLAPS

Resting == {"down", "dead", "idle"}
Handling == Step \ {"down", "dead", "idle", "publish_dlq"}

\* Control: what the program counter says about the record in hand.
ControlOK ==
    \A g \in Gateway :
        /\ pc[g] \in Resting <=> cur[g] = None
        /\ cur[g] # None => cur[g] \in Relayed
        /\ pc[g] \in Handling => Cur(g).form = "valid" /\ EntityKey(Cur(g)) # None

\* Consumer offsets: a partition has a position exactly while it has an owner.
OffsetsOK ==
    \A p \in Partition :
        /\ Len(log[p]) <= MaxLog
        /\ owner[p] = None <=> position[p] = NoOffset

\* Outcomes: what a recorded outcome says about the record and the topics.
OutcomeOK ==
    \A r \in Ref :
        /\ outcome[r] # "none" => r \in Relayed
        /\ outcome[r] = "scored" => InActions(r)
        /\ outcome[r] = "dlq" => InDlq(r)
        /\ outcome[r] = "dropped" => ~DlqEnabled
        /\ outcome[r] = "poison" => EventAt(r).form # "valid"
        /\ outcome[r] = "ended" => EventAt(r).type = "SESSION_ENDED"
        /\ outcome[r] = "ignored" => EntityKey(EventAt(r)) = None
        /\ outcome[r] = "quiet" => ~Urgent(EventAt(r))

\* Stages: what has been done for the record in hand when g waits at a step.
Staged(g) ==
    /\ pc[g] \in {"fin_hset", "fin_expire", "fin_enrich"} => Cur(g).type = "SESSION_ENDED"
    /\ pc[g] = "publish_action" => \E j \in DOMAIN scores : scores[j] = ScoreOf(g)
    /\ pc[g] = "webhook" =>
         \E i \in DOMAIN actions : actions[i].ref = cur[g] /\ actions[i].action # "APPROVE"

StagesOK == \A g \in Gateway : Staged(g)

Shape == TypeOK /\ ControlOK /\ OffsetsOK
IInv == /\ Shape /\ OutcomeOK /\ StagesOK
        /\ PassedHasOutcome /\ ActionMatchesScore /\ AlertsFollowActions

-------------------------------------------------------------------------------
(* The operators the model is built from *)

\* Every command of the feature store leaves a well-formed hash: the fields
\* sync_from_event computes, finalize_session, the PUT and EXPIRE.
LEMMA HashCommands ==
    /\ Missing \in Hash
    /\ \A h, s \in Hash, ev \in FdsEvent : Synced(h, s, ev) \in Hash
    /\ \A h \in Hash : Finalized(h) \in Hash
    /\ \A h \in Hash, body \in PutBody : Upserted(h, body) \in Hash
    /\ \A h \in Hash, ttl \in Ttl : WithTtl(h, ttl) \in Hash
<1>1. Missing \in Hash
  BY DEF Missing, Hash, Sum, Ttl
<1>2. ASSUME NEW h \in Hash, NEW s \in Hash, NEW ev \in FdsEvent
      PROVE  Synced(h, s, ev) \in Hash
  <2>1. SyncedKw(s, ev) \in Int
    BY DEF SyncedKw, Hash, FdsEvent
  <2>2. SyncedApp(s, ev) \in Int
    BY DEF SyncedApp, Hash, FdsEvent
  <2>3. SyncedSum(s, ev) \in Sum
    BY DEF SyncedSum, Hash, Sum, FdsEvent
  <2> QED BY <2>1, <2>2, <2>3 DEF Synced, Hash
<1>3. ASSUME NEW h \in Hash PROVE Finalized(h) \in Hash
  BY DEF Finalized, Hash
<1>4. ASSUME NEW h \in Hash, NEW body \in PutBody PROVE Upserted(h, body) \in Hash
  <2>1. (IF body.kw = None THEN h.kw ELSE body.kw) \in Int
    BY DEF PutBody, Hash
  <2>2. (IF body.app = None THEN h.app ELSE body.app) \in Int
    BY DEF PutBody, Hash
  <2>3. (IF body.sum THEN "number" ELSE h.sum) \in Sum
    BY DEF PutBody, Hash, Sum
  <2> QED BY <2>1, <2>2, <2>3 DEF Upserted, Hash
<1>5. ASSUME NEW h \in Hash, NEW ttl \in Ttl PROVE WithTtl(h, ttl) \in Hash
  BY DEF WithTtl, Hash
<1> QED BY <1>1, <1>2, <1>3, <1>4, <1>5

\* The feature-store key of an event that has one is a user or a session.
LEMMA EntityKeyType ==
    ASSUME NEW ev \in FdsEvent, EntityKey(ev) # None
    PROVE  EntityKey(ev) \in Entity
BY DEF EntityKey, Entity, FdsEvent

\* Whatever the model answers, the response carries a known flag, and the
\* evaluator a known action.
LEMMA VerdictType ==
    ASSUME NEW req, NEW ml \in Int
    PROVE  /\ Clamp(ml) \in 0..100
           /\ FdsScore(req, Clamp(ml)) \in Int
           /\ FdsFlag(req, Clamp(ml)) \in Flag
<1>1. Clamp(ml) \in 0..100
  BY DEF Clamp
<1> QED
  BY <1>1, ThresholdsAssumption DEF FdsScore, FdsFlag, ScoreToFlag, Flag

LEMMA RuleActionType ==
    ASSUME NEW score \in Int, NEW flag \in Flag
    PROVE  RuleAction(score, flag) \in Action
BY DEF RuleAction, Action

\* The record in hand of a worker that waits anywhere in run_forever.
LEMMA InHand ==
    ASSUME Shape, NEW g \in Gateway, pc[g] \notin Resting
    PROVE  /\ cur[g] \in Ref
           /\ cur[g] \in Relayed
           /\ Cur(g) \in Event
           /\ Cur(g) \in FdsEvent
           /\ pc[g] \in Handling => Key(g) \in Entity
<1>1. cur[g] # None /\ cur[g] \in Relayed /\ cur[g] \in Ref
  BY DEF Shape, ControlOK, Relayed
<1>2. Cur(g) \in Event
  <2>1. log[cur[g].p] \in Seq(Event) /\ cur[g].o \in 1..Len(log[cur[g].p])
    BY <1>1 DEF Shape, TypeOK, Relayed, Ref
  <2> QED BY <2>1 DEF Cur, EventAt
<1>3. Cur(g) \in FdsEvent
  BY <1>2, PipelineAssumption
<1>4. ASSUME pc[g] \in Handling PROVE Key(g) \in Entity
  BY <1>3, <1>4, EntityKeyType DEF Shape, ControlOK, Key
<1> QED BY <1>1, <1>2, <1>3, <1>4

-------------------------------------------------------------------------------
(* Shape is inductive *)

USE DEF Handling, Resting

LEMMA ShapeInit == Init => Shape
<1> SUFFICES ASSUME Init PROVE Shape
  OBVIOUS
<1>1. TypeOK
  <2>1. Missing \in Hash /\ NoVerdict \in [score : Int, flag : Flag]
    BY DEF Missing, Hash, Sum, Ttl, NoVerdict, Flag
  <2> QED BY <2>1 DEF Init, TypeOK, NoOffset, Step, Outcome
<1>2. ControlOK
  BY DEF Init, ControlOK
<1>3. OffsetsOK
  BY PipelineAssumption DEF Init, OffsetsOK, NoOffset
<1> QED BY <1>1, <1>2, <1>3 DEF Shape

LEMMA ShapeRelay ==
    ASSUME Shape, NEW ev \in Event, Relay(ev)
    PROVE  Shape'
<1> DEFINE p == PartitionOf[ev.session]
<1>1. p \in Partition
  BY PipelineAssumption DEF FdsEvent
<1>2. /\ log' \in [Partition -> Seq(Event)]
      /\ \A q \in Partition : Len(log'[q]) >= Len(log[q]) /\ Len(log'[q]) <= MaxLog
      /\ \A q \in Partition : \A i \in 1..Len(log[q]) : log'[q][i] = log[q][i]
  BY <1>1, PipelineAssumption DEF Shape, TypeOK, OffsetsOK, Relay
<1>3. TypeOK'
  BY <1>2 DEF Shape, TypeOK, Relay, worker, redis, topics, history
<1>4. ControlOK'
  <2> SUFFICES ASSUME NEW g \in Gateway
               PROVE  /\ pc'[g] \in Resting <=> cur'[g] = None
                      /\ cur'[g] # None => cur'[g] \in Relayed'
                      /\ pc'[g] \in Handling => Cur(g)'.form = "valid" /\ EntityKey(Cur(g)') # None
    BY DEF ControlOK
  <2>1. pc' = pc /\ cur' = cur
    BY DEF Relay, worker
  <2>2. CASE cur[g] = None
    BY <2>1, <2>2 DEF Shape, ControlOK
  <2>3. CASE cur[g] # None
    <3>1. cur[g] \in Relayed /\ cur[g] \in Ref
      BY <2>3 DEF Shape, ControlOK, Relayed
    <3>2. cur[g] \in Relayed' /\ EventAt(cur[g])' = EventAt(cur[g])
      BY <2>1, <3>1, <1>2 DEF Relayed, Ref, EventAt, Shape, TypeOK
    <3> QED BY <2>1, <2>3, <3>1, <3>2 DEF Shape, ControlOK, Cur
  <2> QED BY <2>2, <2>3
<1>5. OffsetsOK'
  BY <1>2 DEF Shape, OffsetsOK, Relay
<1> QED BY <1>3, <1>4, <1>5 DEF Shape

LEMMA ShapeAssign ==
    ASSUME Shape, NEW g \in Gateway, NEW p \in Partition, Assign(g, p)
    PROVE  Shape'
<1>1. StartPosition(p) \in Nat \ {NoOffset}
  BY DEF StartPosition, NoOffset, Shape, TypeOK
<1>2. TypeOK'
  BY <1>1 DEF Assign, Shape, TypeOK, Outcome, worker, redis, topics
<1>3. ControlOK'
  BY DEF Assign, Shape, ControlOK, worker, Relayed, Cur, EventAt
<1>4. OffsetsOK'
  BY <1>1, PipelineAssumption DEF Assign, Shape, TypeOK, OffsetsOK
<1> QED BY <1>2, <1>3, <1>4 DEF Shape

LEMMA ShapeAutoCommit ==
    ASSUME Shape, NEW g \in Gateway, AutoCommit(g)
    PROVE  Shape'
<1>1. TypeOK'
  BY DEF AutoCommit, CommittedBy, Shape, TypeOK, worker, redis, topics, history
<1>2. ControlOK'
  BY DEF AutoCommit, Shape, ControlOK, worker, Relayed, Cur, EventAt
<1>3. OffsetsOK'
  BY DEF AutoCommit, Shape, OffsetsOK
<1> QED BY <1>1, <1>2, <1>3 DEF Shape

LEMMA SpendType ==
    ASSUME Shape, NEW kind \in FaultKind, Spend(kind)
    PROVE  fault' \in [FaultKind -> Nat]
BY DEF Shape, TypeOK, Spend

LEMMA ShapeRevoke ==
    ASSUME Shape, NEW p \in Partition, Revoke(p)
    PROVE  Shape'
<1>1. TypeOK'
  <2>1. fault' \in [FaultKind -> Nat]
    BY SpendType DEF Revoke, FaultKind
  <2>2. committed' \in [Partition -> Nat]
    BY DEF Revoke, Shape, TypeOK
  <2> QED BY <2>1, <2>2 DEF Revoke, NoOffset, Shape, TypeOK, worker, redis, topics
<1>2. ControlOK'
  BY DEF Revoke, Shape, ControlOK, worker, Relayed, Cur, EventAt
<1>3. OffsetsOK'
  BY DEF Revoke, Shape, TypeOK, OffsetsOK
<1> QED BY <1>1, <1>2, <1>3 DEF Shape

\* What a step of worker g does to the control part, when the log stays: the
\* other workers are untouched and g's new place fits the record it has.
LEMMA ControlStep ==
    ASSUME Shape, NEW g \in Gateway, log' = log,
           NEW to \in Step, NEW rec \in Ref \union {None},
           pc' = [pc EXCEPT ![g] = to], cur' = [cur EXCEPT ![g] = rec],
           to \in Resting <=> rec = None,
           rec # None => rec \in Relayed,
           to \in Handling => EventAt(rec).form = "valid" /\ EntityKey(EventAt(rec)) # None
    PROVE  ControlOK'
<1>1. pc'[g] = to /\ cur'[g] = rec
  BY DEF Shape, TypeOK
<1>2. \A h \in Gateway : h # g => pc'[h] = pc[h] /\ cur'[h] = cur[h]
  BY DEF Shape, TypeOK
<1>3. Relayed' = Relayed
  BY DEF Relayed
<1>4. \A h \in Gateway : Cur(h)' = EventAt(cur'[h])
  BY DEF Cur, EventAt
<1> QED BY <1>1, <1>2, <1>3, <1>4 DEF Shape, ControlOK, Cur

\* The same when g keeps its record and stays in its handler, or fails.
LEMMA ControlMove ==
    ASSUME Shape, NEW g \in Gateway, log' = log,
           NEW to \in Step \ Resting, pc[g] \notin Resting,
           pc' = [pc EXCEPT ![g] = to], cur' = cur,
           pc[g] \in Handling \/ to = "publish_dlq"
    PROVE  ControlOK'
<1>1. cur[g] # None /\ cur[g] \in Relayed /\ cur[g] \in Ref
  BY InHand, RefAssumption
<1>2. cur' = [cur EXCEPT ![g] = cur[g]]
  BY DEF Shape, TypeOK
<1>3. to \in Handling => EventAt(cur[g]).form = "valid" /\ EntityKey(EventAt(cur[g])) # None
  BY DEF Shape, ControlOK, Cur, Step
<1> QED BY <1>1, <1>2, <1>3, ControlStep
\* How a handler ends: what Forget, Return, Raise and Die do to the worker.
WorkerTyped ==
    /\ pc \in [Gateway -> Step]
    /\ cur \in [Gateway -> Ref \union {None}]
    /\ seen \in [Gateway -> Hash]
    /\ verdict \in [Gateway -> [score : Int, flag : Flag]]

LEMMA ForgetType ==
    ASSUME Shape, NEW g \in Gateway, Forget(g)
    PROVE  seen' \in [Gateway -> Hash] /\ verdict' \in [Gateway -> [score : Int, flag : Flag]]
<1>1. Missing \in Hash /\ NoVerdict \in [score : Int, flag : Flag]
  BY DEF Missing, Hash, Sum, Ttl, NoVerdict, Flag
<1> QED BY <1>1 DEF Forget, Shape, TypeOK

LEMMA ReturnShape ==
    ASSUME Shape, NEW g \in Gateway, NEW how \in Outcome, Return(g, how),
           pc[g] \notin Resting, log' = log
    PROVE  WorkerTyped' /\ outcome' \in [Ref -> Outcome] /\ ControlOK'
<1>1. seen' \in [Gateway -> Hash] /\ verdict' \in [Gateway -> [score : Int, flag : Flag]]
  BY ForgetType DEF Return
<1>2. cur[g] \in Ref
  BY InHand
<1>3. pc' \in [Gateway -> Step] /\ cur' \in [Gateway -> Ref \union {None}]
  BY DEF Return, Shape, TypeOK, Step
<1>4. outcome' \in [Ref -> Outcome]
  BY <1>2 DEF Return, Shape, TypeOK
<1>5. ControlOK'
  BY ControlStep, "idle" \in Step DEF Return, Step
<1> QED BY <1>1, <1>3, <1>4, <1>5 DEF WorkerTyped

LEMMA DieShape ==
    ASSUME Shape, NEW g \in Gateway, NEW how \in Outcome, Die(g, how),
           pc[g] \notin Resting, log' = log
    PROVE  WorkerTyped' /\ outcome' \in [Ref -> Outcome] /\ ControlOK'
<1>1. seen' \in [Gateway -> Hash] /\ verdict' \in [Gateway -> [score : Int, flag : Flag]]
  BY ForgetType DEF Die
<1>2. cur[g] \in Ref
  BY InHand
<1>3. pc' \in [Gateway -> Step] /\ cur' \in [Gateway -> Ref \union {None}]
  BY DEF Die, Shape, TypeOK, Step
<1>4. outcome' \in [Ref -> Outcome]
  BY <1>2 DEF Die, Shape, TypeOK
<1>5. ControlOK'
  BY ControlStep, "dead" \in Step DEF Die, Step
<1> QED BY <1>1, <1>3, <1>4, <1>5 DEF WorkerTyped

LEMMA RaiseShape ==
    ASSUME Shape, NEW g \in Gateway, Raise(g), pc[g] \notin Resting, log' = log, cur' = cur
    PROVE  WorkerTyped' /\ ControlOK'
<1>1. seen' \in [Gateway -> Hash] /\ verdict' \in [Gateway -> [score : Int, flag : Flag]]
  BY ForgetType DEF Raise
<1>2. pc' \in [Gateway -> Step] /\ cur' \in [Gateway -> Ref \union {None}]
  BY DEF Raise, Shape, TypeOK, Step
<1>3. ControlOK'
  BY ControlMove, "publish_dlq" \in Step \ Resting DEF Raise, Step
<1> QED BY <1>1, <1>2, <1>3 DEF WorkerTyped

\* A step from one await to the next that leaves log and offsets alone.
LEMMA WaitShape ==
    ASSUME Shape, NEW g \in Gateway, NEW from \in Handling, NEW to \in Handling,
           Wait(g, from, to), log' = log, cur' = cur
    PROVE  pc' \in [Gateway -> Step] /\ ControlOK'
<1>1. pc' = [pc EXCEPT ![g] = to] /\ pc[g] \in Handling /\ to \in Step \ Resting
  BY DEF Wait
<1>2. pc' \in [Gateway -> Step]
  BY <1>1 DEF Shape, TypeOK
<1>3. ControlOK'
  BY <1>1, ControlMove
<1> QED BY <1>2, <1>3
-------------------------------------------------------------------------------
(* One lemma per action of the worker *)

LEMMA NextRecord ==
    ASSUME Shape, NEW g \in Gateway, NEW p \in Partition, Handed(g, p)
    PROVE  /\ Next1(p) \in Ref /\ Next1(p) \in Relayed
           /\ EventAt(Next1(p)) \in FdsEvent
           /\ Advanced(p) \in [Partition -> Nat]
           /\ \A q \in Partition : Advanced(p)[q] = NoOffset <=> position[q] = NoOffset
<1>1. position[p] \in Nat /\ position[p] # NoOffset /\ position[p] <= Len(log[p])
  <2>1. g # None
    BY PipelineAssumption
  <2>2. position[p] # NoOffset
    BY <2>1 DEF Handed, Shape, OffsetsOK
  <2> QED BY <2>2 DEF Handed, Shape, TypeOK
<1>2. log[p] \in Seq(Event) /\ Len(log[p]) \in Nat /\ Len(log[p]) <= MaxLog
  BY DEF Shape, TypeOK, OffsetsOK
<1>3. Next1(p) \in Ref /\ Next1(p) \in Relayed
  BY <1>1, <1>2, PipelineAssumption DEF Next1, Ref, Relayed, NoOffset
<1>4. EventAt(Next1(p)) \in FdsEvent
  BY <1>1, <1>2, PipelineAssumption DEF Next1, EventAt, NoOffset
<1>5. /\ Advanced(p) \in [Partition -> Nat]
      /\ \A q \in Partition : Advanced(p)[q] = NoOffset <=> position[q] = NoOffset
  BY <1>1 DEF Advanced, Shape, TypeOK, NoOffset
<1> QED BY <1>3, <1>4, <1>5

LEMMA ShapeFetch ==
    ASSUME Shape, NEW g \in Gateway, NEW p \in Partition, Fetch(g, p)
    PROVE  Shape'
<1> DEFINE r == Next1(p)
           ev == EventAt(r)
<1>1. /\ Handed(g, p) /\ position' = Advanced(p)
      /\ log' = log /\ owner' = owner /\ committed' = committed
  BY DEF Fetch
<1>2. r \in Ref /\ r \in Relayed /\ ev \in FdsEvent
  BY <1>1, NextRecord
<1>3. OffsetsOK'
  BY <1>1, NextRecord DEF Shape, OffsetsOK
<1>4. CASE ev.form = "valid" /\ EntityKey(ev) = None
  <2>1. pc' = pc /\ cur' = cur
    BY <1>4 DEF Fetch
  <2>2. outcome' \in [Ref -> Outcome]
    BY <1>2, <1>4 DEF Fetch, Shape, TypeOK, Outcome
  <2>3. TypeOK'
    BY <1>1, NextRecord, <2>1, <2>2 DEF Fetch, Shape, TypeOK, redis, topics
  <2>4. ControlOK'
    BY <1>1, <2>1 DEF Shape, ControlOK, Relayed, Cur, EventAt
  <2> QED BY <1>3, <2>3, <2>4 DEF Shape
<1>5. CASE ~(ev.form = "valid" /\ EntityKey(ev) = None)
  <2>1. /\ pc' = [pc EXCEPT ![g] = FirstStep(ev)]
        /\ cur' = [cur EXCEPT ![g] = r]
        /\ outcome' = outcome
    BY <1>5 DEF Fetch
  <2>2. /\ FirstStep(ev) \in Step \ Resting
        /\ FirstStep(ev) \in Handling => ev.form = "valid"
    BY DEF FirstStep, Step
  <2>3. TypeOK'
    BY <1>1, <1>2, NextRecord, <2>1, <2>2 DEF Fetch, Shape, TypeOK, redis, topics
  <2>4. ControlOK'
    BY <1>1, <1>2, <1>5, <2>1, <2>2, RefAssumption, ControlStep
  <2> QED BY <1>3, <2>3, <2>4 DEF Shape
<1> QED BY <1>4, <1>5

LEMMA ShapeFetchUndecodable ==
    ASSUME Shape, NEW g \in Gateway, NEW p \in Partition, FetchUndecodable(g, p)
    PROVE  Shape'
<1>1. /\ Handed(g, p) /\ log' = log /\ owner' = owner /\ committed' = committed
      /\ position' = Advanced(p) \/ position' = position
      /\ pc[g] = "idle" /\ cur[g] = None
  BY DEF FetchUndecodable, Handed, Shape, ControlOK
<1>2. Next1(p) \in Ref
  BY <1>1, NextRecord
<1>3. /\ position' \in [Partition -> Nat]
      /\ \A q \in Partition : position'[q] = NoOffset <=> position[q] = NoOffset
  BY <1>1, NextRecord DEF Shape, TypeOK
<1>4. OffsetsOK'
  BY <1>1, <1>3 DEF Shape, OffsetsOK
<1>5. outcome' \in [Ref -> Outcome] /\ pc' \in [Gateway -> Step]
  BY <1>2 DEF FetchUndecodable, Shape, TypeOK, Outcome, Step
<1>6. TypeOK'
  BY <1>1, <1>3, <1>5 DEF FetchUndecodable, Shape, TypeOK, redis, topics
<1>7. ControlOK'
  <2>1. cur' = [cur EXCEPT ![g] = None] /\ pc' = [pc EXCEPT ![g] = "dead"]
    BY <1>1 DEF FetchUndecodable, Shape, TypeOK
  <2> QED BY <2>1, <1>1, ControlStep DEF Step
<1> QED BY <1>4, <1>6, <1>7 DEF Shape

LEMMA OffsetsKept ==
    ASSUME Shape, UNCHANGED kafka
    PROVE  OffsetsOK' /\ log' = log
BY DEF Shape, OffsetsOK, kafka

LEMMA ShapeSyncRead ==
    ASSUME Shape, NEW g \in Gateway, SyncRead(g)
    PROVE  Shape'
<1>1. pc[g] = "sync_read" /\ cur' = cur
  BY DEF SyncRead, Wait
<1>2. OffsetsOK' /\ log' = log
  BY OffsetsKept DEF SyncRead
<1>3. pc' \in [Gateway -> Step] /\ ControlOK'
  BY <1>1, <1>2, WaitShape DEF SyncRead, Step
<1>4. store[Key(g)] \in Hash
  BY <1>1, InHand DEF Step, Shape, TypeOK
<1>5. TypeOK'
  BY <1>1, <1>3, <1>4 DEF SyncRead, Shape, TypeOK, kafka, redis, topics, history
<1> QED BY <1>2, <1>3, <1>5 DEF Shape

LEMMA ShapeSyncHset ==
    ASSUME Shape, NEW g \in Gateway, SyncHset(g)
    PROVE  Shape'
<1>1. pc[g] = "sync_hset" /\ cur' = cur
  BY DEF SyncHset, Wait
<1>2. OffsetsOK' /\ log' = log
  BY OffsetsKept DEF SyncHset
<1>3. pc' \in [Gateway -> Step] /\ ControlOK'
  BY <1>1, <1>2, WaitShape DEF SyncHset, Step
<1>4. Key(g) \in Entity /\ Cur(g) \in FdsEvent
  BY <1>1, InHand DEF Step
<1>5. Synced(store[Key(g)], seen[g], Cur(g)) \in Hash
  BY <1>4, HashCommands DEF Shape, TypeOK
<1>6. TypeOK'
  BY <1>1, <1>3, <1>4, <1>5 DEF SyncHset, Shape, TypeOK, kafka, topics, history
<1> QED BY <1>2, <1>3, <1>6 DEF Shape
LEMMA ShapeSyncExpire ==
    ASSUME Shape, NEW g \in Gateway, SyncExpire(g)
    PROVE  Shape'
<1>1. pc[g] = "sync_expire" /\ cur' = cur
  BY DEF SyncExpire, Wait
<1>2. OffsetsOK' /\ log' = log
  BY OffsetsKept DEF SyncExpire
<1>3. pc' \in [Gateway -> Step] /\ ControlOK'
  BY <1>1, <1>2, WaitShape DEF SyncExpire, Step
<1>4. Key(g) \in Entity
  BY <1>1, InHand DEF Step
<1>5. WithTtl(store[Key(g)], "full") \in Hash
  BY <1>4, HashCommands DEF Shape, TypeOK, Ttl
<1>6. TypeOK'
  BY <1>1, <1>3, <1>4, <1>5 DEF SyncExpire, Shape, TypeOK, kafka, topics, history
<1> QED BY <1>2, <1>3, <1>6 DEF Shape

LEMMA ShapeFinHset ==
    ASSUME Shape, NEW g \in Gateway, FinHset(g)
    PROVE  Shape'
<1>1. pc[g] = "fin_hset" /\ cur' = cur
  BY DEF FinHset, Wait
<1>2. OffsetsOK' /\ log' = log
  BY OffsetsKept DEF FinHset
<1>3. pc' \in [Gateway -> Step] /\ ControlOK'
  BY <1>1, <1>2, WaitShape DEF FinHset, Step
<1>4. Key(g) \in Entity
  BY <1>1, InHand DEF Step
<1>5. Finalized(store[Key(g)]) \in Hash
  BY <1>4, HashCommands DEF Shape, TypeOK
<1>6. TypeOK'
  BY <1>1, <1>3, <1>4, <1>5 DEF FinHset, Shape, TypeOK, kafka, topics, history
<1> QED BY <1>2, <1>3, <1>6 DEF Shape

LEMMA ShapeFinExpire ==
    ASSUME Shape, NEW g \in Gateway, FinExpire(g)
    PROVE  Shape'
<1>1. pc[g] = "fin_expire" /\ cur' = cur
  BY DEF FinExpire, Wait
<1>2. OffsetsOK' /\ log' = log
  BY OffsetsKept DEF FinExpire
<1>3. pc' \in [Gateway -> Step] /\ ControlOK'
  BY <1>1, <1>2, WaitShape DEF FinExpire, Step
<1>4. Key(g) \in Entity
  BY <1>1, InHand DEF Step
<1>5. WithTtl(store[Key(g)], "end") \in Hash
  BY <1>4, HashCommands DEF Shape, TypeOK, Ttl
<1>6. TypeOK'
  BY <1>1, <1>3, <1>4, <1>5 DEF FinExpire, Shape, TypeOK, kafka, topics, history
<1> QED BY <1>2, <1>3, <1>6 DEF Shape

LEMMA EnrichType ==
    ASSUME Shape, NEW g \in Gateway, pc[g] \notin Resting,
           \/ EnrichSession(g)
           \/ Cur(g).session # None /\ session' = Enriched(g)
    PROVE  session' \in [Session -> Ref \union {None}]
<1>1. cur[g] \in Ref /\ Cur(g) \in FdsEvent
  BY InHand
<1>2. Cur(g).session # None => Cur(g).session \in Session
  BY <1>1 DEF FdsEvent
<1> QED BY <1>1, <1>2 DEF EnrichSession, Enriched, Shape, TypeOK

LEMMA ShapeSyncEnrich ==
    ASSUME Shape, NEW g \in Gateway, SyncEnrich(g)
    PROVE  Shape'
<1>1. pc[g] = "enrich" /\ pc[g] \in Handling
  BY DEF SyncEnrich, Step
<1>2. OffsetsOK' /\ log' = log
  BY OffsetsKept DEF SyncEnrich
<1>3. session' \in [Session -> Ref \union {None}]
  BY <1>1, EnrichType DEF SyncEnrich
<1>4. counters' \in [Gateway -> [Entity -> Nat]]
  <2>1. Key(g) \in Entity /\ counters[g] \in [Entity -> Nat]
    <3>1. Key(g) \in Entity
      BY <1>1, InHand
    <3> QED BY <3>1 DEF Shape, TypeOK
  <2>2. Counted(g) \in [Entity -> Nat]
    BY <2>1 DEF Counted
  <2> QED BY <2>2 DEF SyncEnrich, Shape, TypeOK
<1>5. WorkerTyped' /\ outcome' \in [Ref -> Outcome] /\ ControlOK'
  <2>1. CASE ShouldTriggerScoring(Cur(g), Counted(g)[Key(g)])
    <3>1. Wait(g, "enrich", "context") /\ cur' = cur /\ outcome' = outcome /\ Forget(g)
      BY <2>1, <1>1 DEF SyncEnrich, Wait
    <3>2. pc' \in [Gateway -> Step] /\ ControlOK'
      BY <1>2, <3>1, WaitShape DEF Step
    <3> QED BY <3>1, <3>2, ForgetType DEF WorkerTyped, Shape, TypeOK
  <2>2. CASE ~ShouldTriggerScoring(Cur(g), Counted(g)[Key(g)])
    <3>1. Return(g, "quiet")
      BY <2>2 DEF SyncEnrich
    <3> QED BY <1>1, <1>2, <3>1, ReturnShape DEF Outcome
  <2> QED BY <2>1, <2>2
<1>6. TypeOK'
  BY <1>3, <1>4, <1>5 DEF SyncEnrich, WorkerTyped, Shape, TypeOK, kafka, topics
<1> QED BY <1>2, <1>5, <1>6 DEF Shape

LEMMA ShapeFinEnrich ==
    ASSUME Shape, NEW g \in Gateway, FinEnrich(g)
    PROVE  Shape'
<1>1. pc[g] = "fin_enrich" /\ pc[g] \in Handling
  BY DEF FinEnrich, Step
<1>2. OffsetsOK' /\ log' = log
  BY OffsetsKept DEF FinEnrich
<1>3. session' \in [Session -> Ref \union {None}]
  BY <1>1, EnrichType DEF FinEnrich
<1>4. counters' \in [Gateway -> [Entity -> Nat]]
  <2>1. Popped(g) \in [Entity -> Nat]
    BY DEF Popped, Shape, TypeOK
  <2> QED BY <2>1 DEF FinEnrich, Shape, TypeOK
<1>5. WorkerTyped' /\ outcome' \in [Ref -> Outcome] /\ ControlOK'
  BY <1>1, <1>2, ReturnShape DEF FinEnrich, Outcome
<1>6. TypeOK'
  BY <1>3, <1>4, <1>5 DEF FinEnrich, WorkerTyped, Shape, TypeOK, kafka, topics
<1> QED BY <1>2, <1>5, <1>6 DEF Shape

LEMMA ShapeReadContext ==
    ASSUME Shape, NEW g \in Gateway, ReadContext(g)
    PROVE  Shape'
<1>1. pc[g] = "context" /\ pc[g] \in Handling /\ cur' = cur
  BY DEF ReadContext, Step
<1>2. OffsetsOK' /\ log' = log
  BY OffsetsKept DEF ReadContext
<1>3. store[Key(g)] \in Hash
  BY <1>1, InHand DEF Shape, TypeOK
<1>4. WorkerTyped' /\ ControlOK'
  <2>1. CASE Raise(g)
    BY <1>1, <1>2, <2>1, RaiseShape
  <2>2. CASE ~Raise(g)
    <3>1. /\ pc' = [pc EXCEPT ![g] = "infer"]
          /\ seen' = [seen EXCEPT ![g] = store[Key(g)]]
          /\ verdict' = verdict
      BY <2>2 DEF ReadContext
    <3>2. pc' \in [Gateway -> Step] /\ ControlOK'
      BY <1>1, <1>2, <3>1, WaitShape DEF Wait, Step
    <3> QED BY <1>1, <1>3, <3>1, <3>2 DEF WorkerTyped, Shape, TypeOK
  <2> QED BY <2>1, <2>2
<1>5. TypeOK'
  BY <1>4 DEF ReadContext, WorkerTyped, Shape, TypeOK, kafka, redis, topics, history
<1> QED BY <1>2, <1>4, <1>5 DEF Shape

LEMMA ShapeInfer ==
    ASSUME Shape, NEW g \in Gateway, Infer(g)
    PROVE  Shape'
<1>1. pc[g] = "infer" /\ pc[g] \in Handling /\ cur' = cur
  BY DEF Infer, Step
<1>2. OffsetsOK' /\ log' = log
  BY OffsetsKept DEF Infer
<1>3. WorkerTyped' /\ ControlOK'
  <2>1. CASE Raise(g)
    BY <1>1, <1>2, <2>1, RaiseShape
  <2>2. CASE ~Raise(g)
    <3> DEFINE req == ToScoringRequest(Cur(g), seen[g])
    <3>1. PICK ml \in MLScore :
             /\ pc' = [pc EXCEPT ![g] = "publish_score"]
             /\ verdict' = [verdict EXCEPT ![g] =
                              [score |-> FdsScore(req, Clamp(ml)), flag |-> FdsFlag(req, Clamp(ml))]]
             /\ seen' = [seen EXCEPT ![g] = Missing]
      BY <2>2 DEF Infer
    <3>2. FdsScore(req, Clamp(ml)) \in Int /\ FdsFlag(req, Clamp(ml)) \in Flag
      BY VerdictType, PipelineAssumption
    <3>3. pc' \in [Gateway -> Step] /\ ControlOK'
      BY <1>1, <1>2, <3>1, WaitShape DEF Wait, Step
    <3> HIDE DEF req
    <3>4. verdict' \in [Gateway -> [score : Int, flag : Flag]]
      BY <3>1, <3>2 DEF Shape, TypeOK
    <3> QED BY <1>1, <3>1, <3>3, <3>4, HashCommands DEF WorkerTyped, Shape, TypeOK
  <2> QED BY <2>1, <2>2
<1>4. TypeOK'
  BY <1>3 DEF Infer, WorkerTyped, Shape, TypeOK, kafka, redis, topics, history
<1> QED BY <1>2, <1>3, <1>4 DEF Shape
LEMMA ShapePublishScore ==
    ASSUME Shape, NEW g \in Gateway, PublishScore(g)
    PROVE  Shape'
<1>1. pc[g] = "publish_score" /\ cur' = cur
  BY DEF PublishScore, Wait
<1>2. OffsetsOK' /\ log' = log
  BY OffsetsKept DEF PublishScore
<1>3. pc' \in [Gateway -> Step] /\ ControlOK'
  BY <1>1, <1>2, WaitShape DEF PublishScore, Step
<1>4. ScoreOf(g) \in ScoreMsg
  BY <1>1, InHand DEF ScoreOf, ScoreMsg, Shape, TypeOK
<1>5. TypeOK'
  BY <1>1, <1>3, <1>4 DEF PublishScore, Shape, TypeOK, kafka, redis, history
<1> QED BY <1>2, <1>3, <1>5 DEF Shape

LEMMA ActionOfType ==
    ASSUME Shape, NEW g \in Gateway, pc[g] \notin Resting
    PROVE  ActionOf(g) \in ActionMsg
<1>1. cur[g] \in Ref /\ verdict[g].score \in Int /\ verdict[g].flag \in Flag
  BY InHand DEF Shape, TypeOK
<1>2. RuleAction(verdict[g].score, verdict[g].flag) \in Action
  BY <1>1, RuleActionType
<1> QED BY <1>1, <1>2 DEF ActionOf, ActionMsg

LEMMA ShapePublishAction ==
    ASSUME Shape, NEW g \in Gateway, PublishAction(g)
    PROVE  Shape'
<1>1. pc[g] = "publish_action" /\ pc[g] \in Handling
  BY DEF PublishAction, Step
<1>2. OffsetsOK' /\ log' = log
  BY OffsetsKept DEF PublishAction
<1>3. actions' \in Seq(ActionMsg)
  <2>1. ActionOf(g) \in ActionMsg
    BY <1>1, ActionOfType
  <2> QED BY <2>1 DEF PublishAction, Shape, TypeOK
<1>4. WorkerTyped' /\ outcome' \in [Ref -> Outcome] /\ ControlOK'
  <2>1. CASE Return(g, "scored")
    BY <1>1, <1>2, <2>1, ReturnShape DEF Outcome
  <2>2. CASE ~Return(g, "scored")
    <3>1. /\ Wait(g, "publish_action", "webhook") /\ cur' = cur
          /\ outcome' = [outcome EXCEPT ![cur[g]] = "scored"]
          /\ seen' = seen /\ verdict' = verdict
      BY <1>1, <2>2 DEF PublishAction, Wait
    <3>2. pc' \in [Gateway -> Step] /\ ControlOK'
      BY <1>2, <3>1, WaitShape DEF Step
    <3>3. outcome' \in [Ref -> Outcome]
      BY <1>1, <3>1, InHand DEF Shape, TypeOK, Outcome
    <3> QED BY <3>1, <3>2, <3>3 DEF WorkerTyped, Shape, TypeOK
  <2> QED BY <2>1, <2>2
<1>5. TypeOK'
  BY <1>3, <1>4 DEF PublishAction, WorkerTyped, Shape, TypeOK, kafka, redis
<1> QED BY <1>2, <1>4, <1>5 DEF Shape

LEMMA ShapeSendAlertWebhook ==
    ASSUME Shape, NEW g \in Gateway, SendAlertWebhook(g)
    PROVE  Shape'
<1>1. pc[g] = "webhook" /\ pc[g] \in Handling
  BY DEF SendAlertWebhook, Step
<1>2. OffsetsOK' /\ log' = log
  BY OffsetsKept DEF SendAlertWebhook
<1>3. alerts' \subseteq Ref
  <2>1. cur[g] \in Ref
    BY <1>1, InHand
  <2> QED BY <2>1 DEF SendAlertWebhook, Shape, TypeOK
<1>4. WorkerTyped' /\ outcome' \in [Ref -> Outcome] /\ ControlOK'
  BY <1>1, <1>2, ReturnShape DEF SendAlertWebhook, Outcome
<1>5. TypeOK'
  BY <1>3, <1>4 DEF SendAlertWebhook, WorkerTyped, Shape, TypeOK, kafka, redis
<1> QED BY <1>2, <1>4, <1>5 DEF Shape

LEMMA ShapePublishDlq ==
    ASSUME Shape, NEW g \in Gateway, PublishDlq(g)
    PROVE  Shape'
<1>1. pc[g] = "publish_dlq"
  BY DEF PublishDlq
<1>2. OffsetsOK' /\ log' = log
  BY OffsetsKept DEF PublishDlq
<1>3. dlq' \in Seq(Ref)
  <2>1. cur[g] \in Ref
    BY <1>1, InHand
  <2>2. dlq \in Seq(Ref)
    BY DEF Shape, TypeOK
  <2>3. dlq' = dlq \/ dlq' = Append(dlq, cur[g])
    BY DEF PublishDlq
  <2> QED BY <2>1, <2>2, <2>3
<1>4. WorkerTyped' /\ outcome' \in [Ref -> Outcome] /\ ControlOK'
  <2>1. Return(g, "dropped") \/ Return(g, "dlq") \/ Die(g, "poison")
    BY DEF PublishDlq
  <2> QED BY <1>1, <1>2, <2>1, ReturnShape, DieShape DEF Outcome
<1>5. TypeOK'
  BY <1>3, <1>4 DEF PublishDlq, WorkerTyped, Shape, TypeOK, kafka, redis
<1> QED BY <1>2, <1>4, <1>5 DEF Shape

LEMMA ShapeRedisFault ==
    ASSUME Shape, NEW g \in Gateway, RedisFault(g)
    PROVE  Shape'
<1>1. pc[g] \in Handling /\ pc[g] \notin Resting /\ cur' = cur /\ Raise(g)
  BY DEF RedisFault, Step
<1>2. OffsetsOK' /\ log' = log
  BY OffsetsKept DEF RedisFault
<1>3. session' \in [Session -> Ref \union {None}]
  <2>1. session' = session \/ (Cur(g).session # None /\ session' = Enriched(g))
    BY DEF RedisFault
  <2> QED BY <1>1, <2>1, EnrichType DEF Shape, TypeOK
<1>4. WorkerTyped' /\ ControlOK'
  BY <1>1, <1>2, RaiseShape
<1>5. fault' \in [FaultKind -> Nat]
  BY SpendType DEF RedisFault, FaultKind
<1>6. store' \in [Entity -> Hash]
  <2>1. Key(g) \in Entity /\ store[Key(g)] \in Hash
    BY <1>1, InHand DEF Shape, TypeOK
  <2>2. \A ttl \in Ttl : WithTtl(store[Key(g)], ttl) \in Hash
    BY <2>1, HashCommands
  <2>3. \/ store' = store
        \/ store' = [store EXCEPT ![Key(g)] = WithTtl(store[Key(g)], "full")]
        \/ store' = [store EXCEPT ![Key(g)] = WithTtl(store[Key(g)], "end")]
    BY DEF RedisFault
  <2>4. WithTtl(store[Key(g)], "full") \in Hash /\ WithTtl(store[Key(g)], "end") \in Hash
    BY <2>2 DEF Ttl
  <2> QED BY <2>3, <2>4 DEF Shape, TypeOK
<1>7. TypeOK'
  BY <1>3, <1>4, <1>5, <1>6 DEF RedisFault, WorkerTyped, Shape, TypeOK, kafka, topics
<1> QED BY <1>2, <1>4, <1>7 DEF Shape

LEMMA ShapeTritonFault ==
    ASSUME Shape, NEW g \in Gateway, TritonFault(g)
    PROVE  Shape'
<1>1. pc[g] \notin Resting /\ cur' = cur /\ Raise(g)
  BY DEF TritonFault
<1>2. OffsetsOK' /\ log' = log
  BY OffsetsKept DEF TritonFault
<1>3. WorkerTyped' /\ ControlOK'
  BY <1>1, <1>2, RaiseShape
<1>4. fault' \in [FaultKind -> Nat]
  BY SpendType DEF TritonFault, FaultKind
<1>5. TypeOK'
  BY <1>3, <1>4 DEF TritonFault, WorkerTyped, Shape, TypeOK, kafka, redis, topics
<1> QED BY <1>2, <1>3, <1>5 DEF Shape

LEMMA ShapeKafkaFault ==
    ASSUME Shape, NEW g \in Gateway, KafkaFault(g)
    PROVE  Shape'
<1>1. pc[g] \notin Resting
  BY DEF KafkaFault
<1>2. OffsetsOK' /\ log' = log
  BY OffsetsKept DEF KafkaFault
<1>3. WorkerTyped' /\ outcome' \in [Ref -> Outcome] /\ ControlOK'
  <2>1. (Raise(g) /\ cur' = cur /\ outcome' = outcome) \/ Die(g, "lost")
    BY DEF KafkaFault
  <2> QED BY <1>1, <1>2, <2>1, RaiseShape, DieShape DEF Outcome, Shape, TypeOK
<1>4. fault' \in [FaultKind -> Nat]
  BY SpendType DEF KafkaFault, FaultKind
<1>5. TypeOK'
  BY <1>3, <1>4 DEF KafkaFault, WorkerTyped, Shape, TypeOK, kafka, redis, topics
<1> QED BY <1>2, <1>3, <1>5 DEF Shape

LEMMA ControlKept ==
    ASSUME Shape, log' = log, pc' = pc, cur' = cur
    PROVE  ControlOK'
BY DEF Shape, ControlOK, Relayed, Cur, EventAt

LEMMA ShapeKafkaLostAck ==
    ASSUME Shape, NEW g \in Gateway, KafkaLostAck(g)
    PROVE  Shape'
<1>1. pc[g] \notin Resting
  BY DEF KafkaLostAck
<1>2. OffsetsOK' /\ log' = log
  BY OffsetsKept DEF KafkaLostAck
<1>3. ControlOK'
  BY <1>2, ControlKept DEF KafkaLostAck, worker
<1>4. ScoreOf(g) \in ScoreMsg /\ ActionOf(g) \in ActionMsg /\ cur[g] \in Ref
  BY <1>1, InHand, ActionOfType DEF ScoreOf, ScoreMsg, Shape, TypeOK
<1>5. fault' \in [FaultKind -> Nat]
  BY SpendType DEF KafkaLostAck, FaultKind
<1>6. /\ scores' \in Seq(ScoreMsg)
      /\ actions' \in Seq(ActionMsg)
      /\ dlq' \in Seq(Ref)
  <2>1. /\ scores' = scores \/ scores' = Append(scores, ScoreOf(g))
        /\ actions' = actions \/ actions' = Append(actions, ActionOf(g))
        /\ dlq' = dlq \/ dlq' = Append(dlq, cur[g])
    BY DEF KafkaLostAck
  <2>2. scores \in Seq(ScoreMsg) /\ actions \in Seq(ActionMsg) /\ dlq \in Seq(Ref)
    BY DEF Shape, TypeOK
  <2>3. scores' \in Seq(ScoreMsg)
    BY <1>4, <2>1, <2>2
  <2>4. actions' \in Seq(ActionMsg)
    BY <1>4, <2>1, <2>2
  <2>5. dlq' \in Seq(Ref)
    BY <1>4, <2>1, <2>2
  <2> QED BY <2>3, <2>4, <2>5
<1>7. TypeOK'
  BY <1>5, <1>6 DEF KafkaLostAck, Shape, TypeOK, kafka, worker, redis
<1> QED BY <1>2, <1>3, <1>7 DEF Shape
-------------------------------------------------------------------------------
(* The other writers of the store, and the process *)

LEMMA ShapeStoreWriter ==
    ASSUME Shape, NEW e \in Entity, Expire(e) \/ UpsertHset(e) \/ UpsertExpire(e)
    PROVE  Shape'
<1>1. /\ UNCHANGED <<kafka, worker, session, topics, outcome>>
      /\ log' = log /\ pc' = pc /\ cur' = cur
  BY DEF Expire, UpsertHset, UpsertExpire, history, kafka, worker
<1>2. OffsetsOK'
  BY <1>1, OffsetsKept
<1>3. ControlOK'
  BY <1>1, ControlKept
<1>4. fault' \in [FaultKind -> Nat]
  <2>1. CASE UpsertExpire(e)
    BY <2>1 DEF UpsertExpire, history, Shape, TypeOK
  <2>2. CASE Expire(e) \/ UpsertHset(e)
    BY <2>2, SpendType DEF Expire, UpsertHset, FaultKind
  <2> QED BY <2>1, <2>2
<1>5. upserting' \subseteq Entity
  BY DEF Expire, UpsertHset, UpsertExpire, Shape, TypeOK
<1>6. store' \in [Entity -> Hash]
  <2>1. store[e] \in Hash
    BY DEF Shape, TypeOK
  <2>2. PICK h \in Hash : store' = [store EXCEPT ![e] = h] \/ store' = store
    <3>1. CASE Expire(e)
      BY <3>1, HashCommands DEF Expire
    <3>2. CASE UpsertHset(e)
      <4>1. PICK body \in PutBodies : store' = [store EXCEPT ![e] = Upserted(@, body)]
        BY <3>2 DEF UpsertHset
      <4>2. Upserted(store[e], body) \in Hash
        BY <2>1, HashCommands, PipelineAssumption
      <4> QED BY <4>1, <4>2
    <3>3. CASE UpsertExpire(e)
      <4>1. WithTtl(store[e], "full") \in Hash
        BY <2>1, HashCommands DEF Ttl
      <4> QED BY <3>3, <4>1 DEF UpsertExpire
    <3> QED BY <3>1, <3>2, <3>3
  <2> QED BY <2>2 DEF Shape, TypeOK
<1>7. TypeOK'
  BY <1>1, <1>4, <1>5, <1>6 DEF Shape, TypeOK, kafka, worker, topics
<1> QED BY <1>2, <1>3, <1>7 DEF Shape

LEMMA ShapeGone ==
    ASSUME Shape, NEW g \in Gateway, Gone(g), Spend("crash") \/ Spend("stop"),
           committed' = committed \/ committed' = CommittedBy(g)
    PROVE  Shape'
<1>1. log' = log
  BY DEF Gone
<1>2. seen' \in [Gateway -> Hash] /\ verdict' \in [Gateway -> [score : Int, flag : Flag]]
  BY ForgetType DEF Gone
<1>3. fault' \in [FaultKind -> Nat]
  BY SpendType DEF FaultKind
<1>4. committed' \in [Partition -> Nat]
  BY DEF CommittedBy, Shape, TypeOK
<1>5. /\ owner' \in [Partition -> Gateway \union {None}]
      /\ position' \in [Partition -> Nat]
      /\ outcome' \in [Ref -> Outcome]
      /\ counters' \in [Gateway -> [Entity -> Nat]]
      /\ pc' \in [Gateway -> Step]
      /\ cur' \in [Gateway -> Ref \union {None}]
  BY DEF Gone, Shape, TypeOK, NoOffset, Outcome, Step
<1>6. TypeOK'
  BY <1>2, <1>3, <1>4, <1>5 DEF Gone, Shape, TypeOK, redis, topics
<1>7. ControlOK'
  BY <1>1, ControlStep DEF Gone, Step
<1>8. OffsetsOK'
  <2>1. g # None
    BY PipelineAssumption
  <2> QED BY <1>1, <2>1 DEF Gone, Shape, TypeOK, OffsetsOK
<1> QED BY <1>6, <1>7, <1>8 DEF Shape

LEMMA ShapeStart ==
    ASSUME Shape, NEW g \in Gateway, Start(g)
    PROVE  Shape'
<1>1. pc[g] = "down" /\ cur[g] = None /\ log' = log
  BY DEF Start, kafka, Shape, ControlOK
<1>2. OffsetsOK'
  BY OffsetsKept DEF Start
<1>3. ControlOK'
  <2>1. cur' = [cur EXCEPT ![g] = None] /\ pc' = [pc EXCEPT ![g] = "idle"]
    BY <1>1 DEF Start, Shape, TypeOK
  <2> QED BY <1>1, <2>1, ControlStep DEF Step
<1>4. TypeOK'
  BY DEF Start, Shape, TypeOK, Step, kafka, redis, topics, history
<1> QED BY <1>2, <1>3, <1>4 DEF Shape

\* Every step keeps the shape.
LEMMA ShapeNext == Shape /\ [Next]_vars => Shape'
<1> SUFFICES ASSUME Shape, [Next]_vars PROVE Shape'
  OBVIOUS
<1>1. ASSUME NEW ev \in Event, Relay(ev) PROVE Shape'
  BY <1>1, ShapeRelay
<1>2. CASE Group
  BY <1>2, ShapeAssign, ShapeAutoCommit, ShapeRevoke DEF Group
<1>3. ASSUME NEW g \in Gateway, Work(g) PROVE Shape'
  BY <1>3, ShapeFetch, ShapeFetchUndecodable, ShapeSyncRead, ShapeSyncHset, ShapeSyncExpire,
     ShapeSyncEnrich, ShapeReadContext, ShapeInfer, ShapePublishScore, ShapePublishAction,
     ShapeSendAlertWebhook, ShapePublishDlq, ShapeFinHset, ShapeFinExpire, ShapeFinEnrich
  DEF Work
<1>4. ASSUME NEW g \in Gateway, CallFault(g) PROVE Shape'
  BY <1>4, ShapeRedisFault, ShapeTritonFault, ShapeKafkaFault, ShapeKafkaLostAck DEF CallFault
<1>5. ASSUME NEW g \in Gateway, Process(g) PROVE Shape'
  <2>1. CASE Crash(g)
    BY <2>1, ShapeGone DEF Crash
  <2>2. CASE Stop(g)
    BY <2>2, ShapeGone DEF Stop
  <2>3. CASE Start(g)
    BY <2>3, ShapeStart
  <2> QED BY <1>5, <2>1, <2>2, <2>3 DEF Process
<1>6. CASE StoreWriter
  BY <1>6, ShapeStoreWriter DEF StoreWriter
<1>7. CASE UNCHANGED vars
  <2>1. TypeOK'
    BY <1>7 DEF Shape, TypeOK, vars, kafka, worker, redis, topics, history
  <2>2. ControlOK'
    BY <1>7, ControlKept DEF vars, kafka, worker
  <2>3. OffsetsOK'
    BY <1>7, OffsetsKept DEF vars
  <2> QED BY <2>1, <2>2, <2>3 DEF Shape
<1> QED BY <1>1, <1>2, <1>3, <1>4, <1>5, <1>6, <1>7 DEF Next

\* Type correctness: whatever records the relay sends and whatever fails, the
\* worker, the store and the topics hold well-formed values; in particular a
\* published score always carries a known flag and an action is one of three.
THEOREM TypeCorrect == Spec => []TypeOK
<1>1. Shape => TypeOK
  BY DEF Shape
<1> QED BY <1>1, ShapeInit, ShapeNext, PTL DEF Spec
-------------------------------------------------------------------------------
(* What every step leaves standing: the log and the topics only grow *)

Grows(s, t) == \A i \in DOMAIN s : i \in DOMAIN t /\ t[i] = s[i]

LEMMA AppendGrows ==
    ASSUME NEW S, NEW s \in Seq(S), NEW x \in S
    PROVE  /\ Grows(s, Append(s, x)) /\ Grows(s, s)
           /\ \E i \in DOMAIN Append(s, x) : Append(s, x)[i] = x
           /\ \A i \in DOMAIN Append(s, x) : i \in DOMAIN s \/ Append(s, x)[i] = x
<1>1. /\ Append(s, x) \in Seq(S) /\ Len(Append(s, x)) = Len(s) + 1
      /\ \A i \in 1..Len(s) : Append(s, x)[i] = s[i]
      /\ Append(s, x)[Len(s) + 1] = x
  OBVIOUS
<1>2. DOMAIN s = 1..Len(s) /\ DOMAIN Append(s, x) = 1..(Len(s) + 1) /\ Len(s) \in Nat
  BY <1>1
<1>3. Len(s) + 1 \in DOMAIN Append(s, x)
  BY <1>2
<1>4. \A i \in DOMAIN Append(s, x) : i \in DOMAIN s \/ i = Len(s) + 1
  BY <1>2
<1> QED BY <1>1, <1>2, <1>3, <1>4 DEF Grows

TopicsGrow ==
    Grows(scores, scores') /\ Grows(actions, actions') /\ Grows(dlq, dlq')

LogGrows == \A r \in Relayed : r \in Relayed' /\ EventAt(r)' = EventAt(r)

LEMMA TopicsSame ==
    ASSUME scores' = scores, actions' = actions, dlq' = dlq
    PROVE  TopicsGrow
BY DEF TopicsGrow, Grows

LEMMA LogSame ==
    ASSUME log' = log
    PROVE  LogGrows
BY DEF LogGrows, Relayed, EventAt

LEMMA RelayGrows ==
    ASSUME Shape, NEW ev \in Event, Relay(ev)
    PROVE  LogGrows
<1> DEFINE p == PartitionOf[ev.session]
<1>1. p \in Partition
  BY PipelineAssumption DEF FdsEvent
<1>2. /\ \A q \in Partition : log[q] \in Seq(Event) /\ Len(log'[q]) \in Nat
      /\ \A q \in Partition : Len(log'[q]) >= Len(log[q])
      /\ \A q \in Partition : \A i \in 1..Len(log[q]) : log'[q][i] = log[q][i]
  BY <1>1 DEF Shape, TypeOK, Relay
<1> QED BY <1>2 DEF LogGrows, Relayed, Ref, EventAt

\* A topic a worker appends to holds what it held before, and the new message.
LEMMA PublishGrows ==
    ASSUME Shape, NEW g \in Gateway, pc[g] \notin Resting,
           scores' = scores \/ scores' = Append(scores, ScoreOf(g)),
           actions' = actions \/ actions' = Append(actions, ActionOf(g)),
           dlq' = dlq \/ dlq' = Append(dlq, cur[g])
    PROVE  TopicsGrow
<1>1. ScoreOf(g) \in ScoreMsg
  <2>1. cur[g] \in Ref
    BY InHand
  <2> QED BY <2>1 DEF ScoreOf, ScoreMsg, Shape, TypeOK
<1>2. ActionOf(g) \in ActionMsg /\ cur[g] \in Ref
  BY ActionOfType, InHand
<1>3. scores \in Seq(ScoreMsg) /\ actions \in Seq(ActionMsg) /\ dlq \in Seq(Ref)
  BY DEF Shape, TypeOK
<1>4. Grows(scores, scores')
  <2>1. Grows(scores, scores) /\ Grows(scores, Append(scores, ScoreOf(g)))
    BY <1>1, <1>3, AppendGrows
  <2>2. CASE scores' = scores
    BY <2>1, <2>2
  <2>3. CASE scores' = Append(scores, ScoreOf(g))
    BY <2>1, <2>3
  <2> QED BY <2>2, <2>3
<1>5. Grows(actions, actions')
  <2>1. Grows(actions, actions) /\ Grows(actions, Append(actions, ActionOf(g)))
    BY <1>2, <1>3, AppendGrows
  <2>2. CASE actions' = actions
    BY <2>1, <2>2
  <2>3. CASE actions' = Append(actions, ActionOf(g))
    BY <2>1, <2>3
  <2> QED BY <2>2, <2>3
<1>6. Grows(dlq, dlq')
  <2>1. Grows(dlq, dlq) /\ Grows(dlq, Append(dlq, cur[g]))
    BY <1>2, <1>3, AppendGrows
  <2>2. CASE dlq' = dlq
    BY <2>1, <2>2
  <2>3. CASE dlq' = Append(dlq, cur[g])
    BY <2>1, <2>3
  <2> QED BY <2>2, <2>3
<1> QED BY <1>4, <1>5, <1>6 DEF TopicsGrow

-------------------------------------------------------------------------------
(* How the handling of a record ends *)

\* g's record gets an outcome, and g keeps it or lets it go.
Ends(g, how) ==
    /\ outcome' = [outcome EXCEPT ![cur[g]] = how]
    /\ cur' = cur \/ cur' = [cur EXCEPT ![g] = None]

\* r is in a topic after the step.
NowInActions(r) == \E i \in DOMAIN actions' : actions'[i].ref = r
NowInDlq(r) == \E i \in DOMAIN dlq' : dlq'[i] = r

\* What must be true of g's record for each outcome it can be given.
Earned(g, how) ==
    /\ how # "none"
    /\ how = "scored" => NowInActions(cur[g])
    /\ how = "dlq" => NowInDlq(cur[g])
    /\ how = "dropped" => ~DlqEnabled
    /\ how = "poison" => Cur(g).form # "valid"
    /\ how = "ended" => Cur(g).type = "SESSION_ENDED"
    /\ how = "ignored" => EntityKey(Cur(g)) = None
    /\ how = "quiet" => ~Urgent(Cur(g))

LEMMA InTopicsKept ==
    ASSUME TopicsGrow
    PROVE  /\ \A r \in Ref : InActions(r) => InActions(r)'
           /\ \A r \in Ref : InDlq(r) => InDlq(r)'
BY DEF TopicsGrow, Grows, InActions, InDlq

LEMMA OutcomeKept ==
    ASSUME OutcomeOK, TopicsGrow, LogGrows, outcome' = outcome
    PROVE  OutcomeOK'
BY InTopicsKept DEF OutcomeOK, LogGrows

LEMMA OutcomeEnds ==
    ASSUME Shape, OutcomeOK, TopicsGrow, LogGrows,
           NEW g \in Gateway, pc[g] \notin Resting, NEW how, Ends(g, how), Earned(g, how)
    PROVE  OutcomeOK'
<1>1. cur[g] \in Ref /\ cur[g] \in Relayed /\ EventAt(cur[g]) = Cur(g)
  BY InHand DEF Cur
<1> SUFFICES ASSUME NEW r \in Ref
             PROVE  /\ outcome'[r] # "none" => r \in Relayed'
                    /\ outcome'[r] = "scored" => InActions(r)'
                    /\ outcome'[r] = "dlq" => InDlq(r)'
                    /\ outcome'[r] = "dropped" => ~DlqEnabled
                    /\ outcome'[r] = "poison" => EventAt(r)'.form # "valid"
                    /\ outcome'[r] = "ended" => EventAt(r)'.type = "SESSION_ENDED"
                    /\ outcome'[r] = "ignored" => EntityKey(EventAt(r)') = None
                    /\ outcome'[r] = "quiet" => ~Urgent(EventAt(r)')
  BY DEF OutcomeOK
<1>2. CASE r = cur[g]
  <2>1. outcome'[r] = how
    BY <1>1, <1>2 DEF Ends, Shape, TypeOK
  <2>2. r \in Relayed' /\ EventAt(r)' = Cur(g)
    BY <1>1, <1>2 DEF LogGrows
  <2>3. InActions(r)' <=> NowInActions(cur[g])
    BY <1>2 DEF InActions, NowInActions
  <2>4. InDlq(r)' <=> NowInDlq(cur[g])
    BY <1>2 DEF InDlq, NowInDlq
  <2> QED BY <2>1, <2>2, <2>3, <2>4 DEF Earned
<1>3. CASE r # cur[g]
  <2>1. outcome'[r] = outcome[r]
    BY <1>1, <1>3 DEF Ends, Shape, TypeOK
  <2> QED BY <2>1, InTopicsKept DEF OutcomeOK, LogGrows
<1> QED BY <1>2, <1>3
-------------------------------------------------------------------------------
(* A step of worker g between fetching a record and letting it go *)

Others(g) ==
    \A h \in Gateway : h # g => pc'[h] = pc[h] /\ cur'[h] = cur[h] /\ verdict'[h] = verdict[h]

WorkerStep(g) ==
    /\ UNCHANGED kafka
    /\ pc[g] \notin Resting
    /\ TopicsGrow
    /\ Others(g)
    /\ Staged(g)'
    /\ \/ cur' = cur /\ outcome' = outcome
       \/ \E how \in Outcome : Ends(g, how) /\ Earned(g, how)
    /\ ActionMatchesScore'
    /\ AlertsFollowActions'

LEMMA StagedKept ==
    ASSUME Shape, NEW h \in Gateway, Staged(h), TopicsGrow, LogGrows,
           pc'[h] = pc[h], cur'[h] = cur[h], verdict'[h] = verdict[h]
    PROVE  Staged(h)'
<1>1. CASE pc[h] \in Resting
  BY <1>1 DEF Staged
<1>2. CASE pc[h] \notin Resting
  <2>1. cur[h] \in Relayed
    BY <1>2, InHand
  <2>2. Cur(h)' = Cur(h)
    BY <2>1 DEF LogGrows, Cur, EventAt
  <2>3. ScoreOf(h)' = ScoreOf(h)
    BY DEF ScoreOf
  <2> QED BY <2>2, <2>3 DEF Staged, TopicsGrow, Grows
<1> QED BY <1>1, <1>2

LEMMA AccountedKept ==
    ASSUME Shape, PassedHasOutcome, UNCHANGED <<committed, position>>,
           \A r \in Ref : outcome[r] # "none" => outcome'[r] # "none",
           \A r \in Ref : InFlight(r) => InFlight(r)' \/ outcome'[r] # "none"
    PROVE  PassedHasOutcome'
BY DEF PassedHasOutcome

LEMMA WorkerStepIInv ==
    ASSUME IInv, Shape', NEW g \in Gateway, WorkerStep(g)
    PROVE  IInv'
<1>1. LogGrows
  BY LogSame DEF WorkerStep, kafka
<1>2. StagesOK'
  <2> SUFFICES ASSUME NEW h \in Gateway PROVE Staged(h)'
    BY DEF StagesOK
  <2>1. CASE h = g
    BY <2>1 DEF WorkerStep
  <2>2. CASE h # g
    BY <1>1, <2>2, StagedKept DEF WorkerStep, Others, IInv, StagesOK
  <2> QED BY <2>1, <2>2
<1>3. OutcomeOK' /\ PassedHasOutcome'
  <2>1. committed' = committed /\ position' = position
    BY DEF WorkerStep, kafka
  <2>2. CASE cur' = cur /\ outcome' = outcome
    <3>1. OutcomeOK'
      BY <1>1, <2>2, OutcomeKept DEF WorkerStep, IInv
    <3>2. PassedHasOutcome'
      BY <2>1, <2>2, AccountedKept DEF IInv, InFlight
    <3> QED BY <3>1, <3>2
  <2>3. ASSUME NEW how \in Outcome, Ends(g, how), Earned(g, how)
        PROVE  OutcomeOK' /\ PassedHasOutcome'
    <3>1. OutcomeOK'
      BY <1>1, <2>3, OutcomeEnds DEF WorkerStep, IInv
    <3>2. cur[g] \in Ref /\ outcome \in [Ref -> Outcome] /\ how # "none"
      BY <2>3, InHand DEF WorkerStep, IInv, Earned, Shape, TypeOK
    <3>3. \A r \in Ref : outcome[r] # "none" => outcome'[r] # "none"
      BY <2>3, <3>2 DEF Ends
    <3>4. \A r \in Ref : InFlight(r) => InFlight(r)' \/ outcome'[r] # "none"
      <4> SUFFICES ASSUME NEW r \in Ref, NEW h \in Gateway, cur[h] = r
                   PROVE  cur'[h] = r \/ outcome'[r] # "none"
        BY DEF InFlight
      <4>1. CASE h = g
        BY <2>3, <3>2, <4>1 DEF Ends
      <4>2. CASE h # g
        BY <4>2 DEF WorkerStep, Others
      <4> QED BY <4>1, <4>2
    <3>5. PassedHasOutcome'
      BY <2>1, <3>3, <3>4, AccountedKept DEF IInv
    <3> QED BY <3>1, <3>5
  <2> QED BY <2>2, <2>3 DEF WorkerStep
<1> QED BY <1>2, <1>3 DEF WorkerStep, IInv

\* The topics keep their properties when nothing is published, and when g
\* publishes the action of a score that is already out.
LEMMA PublishedKept ==
    ASSUME ActionMatchesScore, AlertsFollowActions, TopicsGrow, actions' = actions, alerts' = alerts
    PROVE  ActionMatchesScore' /\ AlertsFollowActions'
BY DEF ActionMatchesScore, AlertsFollowActions, TopicsGrow, Grows

LEMMA PublishedAction ==
    ASSUME IInv, NEW g \in Gateway, pc[g] = "publish_action", TopicsGrow,
           actions' = Append(actions, ActionOf(g)), scores' = scores, alerts' = alerts
    PROVE  /\ ActionMatchesScore' /\ AlertsFollowActions'
           /\ \E i \in DOMAIN actions' : actions'[i] = ActionOf(g)
<1>1. /\ actions \in Seq(ActionMsg) /\ ActionOf(g) \in ActionMsg
  BY ActionOfType DEF IInv, Shape, TypeOK
<1>2. /\ \E i \in DOMAIN actions' : actions'[i] = ActionOf(g)
      /\ \A i \in DOMAIN actions' : i \in DOMAIN actions \/ actions'[i] = ActionOf(g)
      /\ \A i \in DOMAIN actions : i \in DOMAIN actions' /\ actions'[i] = actions[i]
  BY <1>1, AppendGrows DEF TopicsGrow, Grows
<1>3. PICK j \in DOMAIN scores : scores[j] = ScoreOf(g)
  BY DEF IInv, StagesOK, Staged
<1>4. ActionMatchesScore'
  <2> SUFFICES ASSUME NEW i \in DOMAIN actions'
               PROVE  /\ \E k \in DOMAIN scores :
                           /\ scores[k].ref = actions'[i].ref
                           /\ scores[k].score = actions'[i].score
                           /\ scores[k].flag = actions'[i].flag
                      /\ actions'[i].action = RuleAction(actions'[i].score, actions'[i].flag)
    BY DEF ActionMatchesScore
  <2>1. CASE i \in DOMAIN actions
    BY <1>2, <2>1 DEF IInv, ActionMatchesScore
  <2>2. CASE actions'[i] = ActionOf(g)
    BY <1>3, <2>2 DEF ActionOf, ScoreOf
  <2> QED BY <1>2, <2>1, <2>2
<1>5. AlertsFollowActions'
  BY <1>2 DEF IInv, AlertsFollowActions
<1> QED BY <1>2, <1>4, <1>5
-------------------------------------------------------------------------------
(* Every action of a worker with a record in hand is such a step *)

\* A step that publishes nothing and stays with its record: the next stage, or
\* a failed call on the way to the DLQ.
LEMMA SilentMove ==
    ASSUME IInv, NEW g \in Gateway, pc[g] \notin Resting, Others(g),
           UNCHANGED <<kafka, cur, outcome, topics>>,
           pc'[g] \notin {"publish_action", "webhook"},
           pc'[g] \in {"fin_hset", "fin_expire", "fin_enrich"} => Cur(g).type = "SESSION_ENDED"
    PROVE  WorkerStep(g)
<1>1. scores' = scores /\ actions' = actions /\ dlq' = dlq /\ alerts' = alerts /\ log' = log
  BY DEF topics, kafka
<1>2. TopicsGrow
  BY <1>1, TopicsSame
<1>3. ActionMatchesScore' /\ AlertsFollowActions'
  BY <1>1, <1>2, PublishedKept DEF IInv
<1>4. Staged(g)'
  <2>1. Cur(g)' = Cur(g)
    BY <1>1 DEF Cur, EventAt
  <2> QED BY <2>1 DEF Staged
<1> QED BY <1>2, <1>3, <1>4 DEF WorkerStep

\* A step that publishes nothing more and lets its record go, as earned.
LEMMA SilentEnd ==
    ASSUME IInv, NEW g \in Gateway, NEW how \in Outcome, pc[g] \notin Resting,
           UNCHANGED kafka, TopicsGrow, ActionMatchesScore', AlertsFollowActions',
           Return(g, how) \/ Die(g, how), Earned(g, how)
    PROVE  WorkerStep(g)
<1>1. Others(g)
  BY DEF Return, Die, Forget, Others, IInv, Shape, TypeOK
<1>2. Staged(g)'
  <2>1. pc'[g] = "idle" \/ pc'[g] = "dead"
    BY DEF Return, Die, IInv, Shape, TypeOK
  <2> QED BY <2>1 DEF Staged
<1>3. Ends(g, how)
  BY DEF Ends, Return, Die
<1> QED BY <1>1, <1>2, <1>3 DEF WorkerStep

LEMMA StepSyncRead ==
    ASSUME IInv, NEW g \in Gateway, SyncRead(g)
    PROVE  WorkerStep(g)
<1>1. pc[g] = "sync_read" /\ UNCHANGED <<kafka, cur, outcome, topics>>
  BY DEF SyncRead, Wait, history
<1>2. pc'[g] = "sync_hset" /\ Others(g)
  BY DEF SyncRead, Wait, Others, IInv, Shape, TypeOK
<1> QED BY <1>1, <1>2, SilentMove

LEMMA StepSyncHset ==
    ASSUME IInv, NEW g \in Gateway, SyncHset(g)
    PROVE  WorkerStep(g)
<1>1. pc[g] = "sync_hset" /\ UNCHANGED <<kafka, cur, outcome, topics>>
  BY DEF SyncHset, Wait, history
<1>2. pc'[g] = "sync_expire" /\ Others(g)
  BY DEF SyncHset, Wait, Others, IInv, Shape, TypeOK
<1> QED BY <1>1, <1>2, SilentMove

LEMMA StepSyncExpire ==
    ASSUME IInv, NEW g \in Gateway, SyncExpire(g)
    PROVE  WorkerStep(g)
<1>1. pc[g] = "sync_expire" /\ UNCHANGED <<kafka, cur, outcome, topics>>
  BY DEF SyncExpire, Wait, history
<1>2. pc'[g] = "enrich" /\ Others(g)
  BY DEF SyncExpire, Wait, Others, IInv, Shape, TypeOK
<1> QED BY <1>1, <1>2, SilentMove

LEMMA StepFinHset ==
    ASSUME IInv, NEW g \in Gateway, FinHset(g)
    PROVE  WorkerStep(g)
<1>1. pc[g] = "fin_hset" /\ UNCHANGED <<kafka, cur, outcome, topics>>
  BY DEF FinHset, Wait, history
<1>2. pc'[g] = "fin_expire" /\ Others(g)
  BY DEF FinHset, Wait, Others, IInv, Shape, TypeOK
<1>3. Cur(g).type = "SESSION_ENDED"
  BY <1>1 DEF IInv, StagesOK, Staged
<1> QED BY <1>1, <1>2, <1>3, SilentMove

LEMMA StepFinExpire ==
    ASSUME IInv, NEW g \in Gateway, FinExpire(g)
    PROVE  WorkerStep(g)
<1>1. pc[g] = "fin_expire" /\ UNCHANGED <<kafka, cur, outcome, topics>>
  BY DEF FinExpire, Wait, history
<1>2. pc'[g] = "fin_enrich" /\ Others(g)
  BY DEF FinExpire, Wait, Others, IInv, Shape, TypeOK
<1>3. Cur(g).type = "SESSION_ENDED"
  BY <1>1 DEF IInv, StagesOK, Staged
<1> QED BY <1>1, <1>2, <1>3, SilentMove

LEMMA StepSyncEnrich ==
    ASSUME IInv, NEW g \in Gateway, SyncEnrich(g)
    PROVE  WorkerStep(g)
<1>1. pc[g] \notin Resting /\ UNCHANGED <<kafka, topics>>
  BY DEF SyncEnrich
<1>2. CASE ShouldTriggerScoring(Cur(g), Counted(g)[Key(g)])
  <2>1. pc'[g] = "context" /\ cur' = cur /\ outcome' = outcome /\ Others(g)
    BY <1>2 DEF SyncEnrich, Forget, Others, IInv, Shape, TypeOK
  <2> QED BY <1>1, <2>1, SilentMove
<1>3. CASE ~ShouldTriggerScoring(Cur(g), Counted(g)[Key(g)])
  <2>1. Return(g, "quiet") /\ ~Urgent(Cur(g))
    BY <1>3 DEF SyncEnrich, ShouldTriggerScoring
  <2>2. Earned(g, "quiet")
    BY <2>1 DEF Earned
  <2>3. TopicsGrow /\ ActionMatchesScore' /\ AlertsFollowActions'
    BY <1>1, TopicsSame, PublishedKept DEF topics, IInv
  <2> QED BY <1>1, <2>1, <2>2, <2>3, SilentEnd DEF Outcome
<1> QED BY <1>2, <1>3

LEMMA StepFinEnrich ==
    ASSUME IInv, NEW g \in Gateway, FinEnrich(g)
    PROVE  WorkerStep(g)
<1>1. pc[g] = "fin_enrich" /\ UNCHANGED <<kafka, topics>> /\ Return(g, "ended")
  BY DEF FinEnrich
<1>2. Earned(g, "ended")
  BY <1>1 DEF Earned, IInv, StagesOK, Staged
<1>3. TopicsGrow /\ ActionMatchesScore' /\ AlertsFollowActions'
  BY <1>1, TopicsSame, PublishedKept DEF topics, IInv
<1> QED BY <1>1, <1>2, <1>3, SilentEnd DEF Outcome

LEMMA StepReadContext ==
    ASSUME IInv, NEW g \in Gateway, ReadContext(g)
    PROVE  WorkerStep(g)
<1>1. pc[g] \notin Resting /\ UNCHANGED <<kafka, cur, outcome, topics>>
  BY DEF ReadContext, history
<1>2. pc'[g] \in {"publish_dlq", "infer"} /\ Others(g)
  BY DEF ReadContext, Raise, Forget, Others, IInv, Shape, TypeOK
<1> QED BY <1>1, <1>2, SilentMove

LEMMA StepInfer ==
    ASSUME IInv, NEW g \in Gateway, Infer(g)
    PROVE  WorkerStep(g)
<1>1. pc[g] \notin Resting /\ UNCHANGED <<kafka, cur, outcome, topics>>
  BY DEF Infer, history
<1>2. pc'[g] \in {"publish_dlq", "publish_score"} /\ Others(g)
  BY DEF Infer, Raise, Forget, Others, IInv, Shape, TypeOK
<1> QED BY <1>1, <1>2, SilentMove

LEMMA StepRedisFault ==
    ASSUME IInv, NEW g \in Gateway, RedisFault(g)
    PROVE  WorkerStep(g)
<1>1. pc[g] \notin Resting /\ UNCHANGED <<kafka, cur, outcome, topics>>
  BY DEF RedisFault, history
<1>2. pc'[g] \in {"publish_dlq"} /\ Others(g)
  BY DEF RedisFault, Raise, Forget, Others, IInv, Shape, TypeOK
<1> QED BY <1>1, <1>2, SilentMove

LEMMA StepTritonFault ==
    ASSUME IInv, NEW g \in Gateway, TritonFault(g)
    PROVE  WorkerStep(g)
<1>1. pc[g] \notin Resting /\ UNCHANGED <<kafka, cur, outcome, topics>>
  BY DEF TritonFault, history
<1>2. pc'[g] \in {"publish_dlq"} /\ Others(g)
  BY DEF TritonFault, Raise, Forget, Others, IInv, Shape, TypeOK
<1> QED BY <1>1, <1>2, SilentMove

LEMMA StepKafkaFault ==
    ASSUME IInv, NEW g \in Gateway, KafkaFault(g)
    PROVE  WorkerStep(g)
<1>1. pc[g] \notin Resting /\ UNCHANGED <<kafka, topics>>
  BY DEF KafkaFault
<1>2. CASE Raise(g) /\ cur' = cur /\ outcome' = outcome
  <2>1. pc'[g] = "publish_dlq" /\ Others(g)
    BY <1>2 DEF Raise, Forget, Others, IInv, Shape, TypeOK
  <2> QED BY <1>1, <1>2, <2>1, SilentMove
<1>3. CASE Die(g, "lost")
  <2>1. Earned(g, "lost")
    BY DEF Earned
  <2>2. TopicsGrow /\ ActionMatchesScore' /\ AlertsFollowActions'
    BY <1>1, TopicsSame, PublishedKept DEF topics, IInv
  <2> QED BY <1>1, <1>3, <2>1, <2>2, SilentEnd DEF Outcome
<1> QED BY <1>2, <1>3 DEF KafkaFault

LEMMA StepPublishScore ==
    ASSUME IInv, NEW g \in Gateway, PublishScore(g)
    PROVE  WorkerStep(g)
<1>1. /\ pc[g] = "publish_score" /\ pc' = [pc EXCEPT ![g] = "publish_action"]
      /\ UNCHANGED <<kafka, cur, verdict, outcome, actions, dlq, alerts>>
      /\ scores' = Append(scores, ScoreOf(g))
  BY DEF PublishScore, Wait, history
<1>2. TopicsGrow
  BY <1>1, PublishGrows DEF IInv
<1>3. ActionMatchesScore' /\ AlertsFollowActions'
  BY <1>1, <1>2, PublishedKept DEF IInv
<1>4. Others(g) /\ pc'[g] = "publish_action"
  BY <1>1 DEF Others, IInv, Shape, TypeOK
<1>5. Staged(g)'
  <2>1. scores \in Seq(ScoreMsg) /\ ScoreOf(g) \in ScoreMsg
    <3>1. cur[g] \in Ref
      BY <1>1, InHand DEF IInv
    <3> QED BY <3>1 DEF ScoreOf, ScoreMsg, IInv, Shape, TypeOK
  <2>2. \E j \in DOMAIN scores' : scores'[j] = ScoreOf(g)
    BY <1>1, <2>1, AppendGrows
  <2>3. ScoreOf(g)' = ScoreOf(g)
    BY <1>1 DEF ScoreOf
  <2> QED BY <1>4, <2>2, <2>3 DEF Staged
<1> QED BY <1>1, <1>2, <1>3, <1>4, <1>5 DEF WorkerStep

LEMMA StepPublishAction ==
    ASSUME IInv, NEW g \in Gateway, PublishAction(g)
    PROVE  WorkerStep(g)
<1>1. /\ pc[g] = "publish_action" /\ actions' = Append(actions, ActionOf(g))
      /\ UNCHANGED <<kafka, scores, dlq, alerts>>
  BY DEF PublishAction
<1>2. TopicsGrow
  BY <1>1, PublishGrows DEF IInv
<1>3. /\ ActionMatchesScore' /\ AlertsFollowActions'
      /\ \E i \in DOMAIN actions' : actions'[i] = ActionOf(g)
  BY <1>1, <1>2, PublishedAction
<1>4. Earned(g, "scored")
  BY <1>3 DEF Earned, NowInActions, ActionOf
<1>5. CASE Return(g, "scored")
  BY <1>1, <1>2, <1>3, <1>4, <1>5, SilentEnd DEF Outcome
<1>6. CASE ~Return(g, "scored")
  <2>1. /\ NeedsAlert(ActionOf(g).action)
        /\ pc' = [pc EXCEPT ![g] = "webhook"]
        /\ outcome' = [outcome EXCEPT ![cur[g]] = "scored"]
        /\ UNCHANGED <<cur, verdict>>
    BY <1>6 DEF PublishAction
  <2>2. Others(g) /\ pc'[g] = "webhook"
    BY <2>1 DEF Others, IInv, Shape, TypeOK
  <2>3. Staged(g)'
    BY <1>3, <2>1, <2>2 DEF Staged, NeedsAlert, ActionOf
  <2>4. Ends(g, "scored")
    BY <2>1 DEF Ends
  <2> QED BY <1>1, <1>2, <1>3, <1>4, <2>2, <2>3, <2>4 DEF WorkerStep, Outcome
<1> QED BY <1>5, <1>6

LEMMA StepSendAlertWebhook ==
    ASSUME IInv, NEW g \in Gateway, SendAlertWebhook(g)
    PROVE  WorkerStep(g)
<1>1. /\ pc[g] = "webhook" /\ Return(g, "scored")
      /\ UNCHANGED <<kafka, scores, actions, dlq>>
      /\ alerts' = alerts \/ alerts' = alerts \union {cur[g]}
  BY DEF SendAlertWebhook
<1>2. TopicsGrow
  BY <1>1, TopicsSame
<1>3. PICK i \in DOMAIN actions : actions[i].ref = cur[g] /\ actions[i].action # "APPROVE"
  BY <1>1 DEF IInv, StagesOK, Staged
<1>4. ActionMatchesScore' /\ AlertsFollowActions'
  BY <1>1, <1>3 DEF IInv, ActionMatchesScore, AlertsFollowActions
<1>5. Earned(g, "scored")
  BY <1>1, <1>3 DEF Earned, NowInActions
<1> QED BY <1>1, <1>2, <1>4, <1>5, SilentEnd DEF Outcome

LEMMA StepPublishDlq ==
    ASSUME IInv, NEW g \in Gateway, PublishDlq(g)
    PROVE  WorkerStep(g)
<1>1. /\ pc[g] = "publish_dlq" /\ UNCHANGED <<kafka, scores, actions, alerts>>
      /\ dlq' = dlq \/ dlq' = Append(dlq, cur[g])
  BY DEF PublishDlq
<1>2. TopicsGrow
  BY <1>1, PublishGrows DEF IInv
<1>3. ActionMatchesScore' /\ AlertsFollowActions'
  BY <1>1, <1>2, PublishedKept DEF IInv
<1>4. CASE ~DlqEnabled
  <2>1. Return(g, "dropped") /\ Earned(g, "dropped")
    BY <1>4 DEF PublishDlq, Earned
  <2> QED BY <1>1, <1>2, <1>3, <2>1, SilentEnd DEF Outcome
<1>5. CASE DlqEnabled /\ Cur(g).form = "keyless"
  <2>1. Die(g, "poison") /\ Earned(g, "poison")
    BY <1>5 DEF PublishDlq, Earned
  <2> QED BY <1>1, <1>2, <1>3, <2>1, SilentEnd DEF Outcome
<1>6. CASE DlqEnabled /\ Cur(g).form # "keyless"
  <2>1. Return(g, "dlq") /\ dlq' = Append(dlq, cur[g])
    BY <1>6 DEF PublishDlq
  <2>2. NowInDlq(cur[g])
    <3>1. dlq \in Seq(Ref) /\ cur[g] \in Ref
      <4>1. cur[g] \in Ref
        BY <1>1, InHand DEF IInv
      <4> QED BY <4>1 DEF IInv, Shape, TypeOK
    <3> QED BY <2>1, <3>1, AppendGrows DEF NowInDlq
  <2>3. Earned(g, "dlq")
    BY <2>2 DEF Earned
  <2> QED BY <1>1, <1>2, <1>3, <2>1, <2>3, SilentEnd DEF Outcome
<1> QED BY <1>4, <1>5, <1>6

LEMMA StepKafkaLostAck ==
    ASSUME IInv, NEW g \in Gateway, KafkaLostAck(g)
    PROVE  WorkerStep(g)
<1>1. /\ pc[g] \notin Resting
      /\ UNCHANGED <<kafka, pc, cur, verdict, alerts, outcome>>
      /\ scores' = scores \/ scores' = Append(scores, ScoreOf(g))
      /\ \/ actions' = actions
         \/ pc[g] = "publish_action" /\ actions' = Append(actions, ActionOf(g)) /\ scores' = scores
      /\ dlq' = dlq \/ dlq' = Append(dlq, cur[g])
  BY DEF KafkaLostAck, worker
<1>2. TopicsGrow
  BY <1>1, PublishGrows DEF IInv
<1>3. ActionMatchesScore' /\ AlertsFollowActions'
  <2>1. CASE actions' = actions
    BY <1>1, <1>2, <2>1, PublishedKept DEF IInv
  <2>2. CASE actions' # actions
    BY <1>1, <1>2, <2>2, PublishedAction
  <2> QED BY <2>1, <2>2
<1>4. Others(g)
  BY <1>1 DEF Others
<1>5. Staged(g)'
  <2>1. LogGrows
    BY <1>1, LogSame DEF kafka
  <2> QED BY <1>1, <1>2, <2>1, StagedKept DEF IInv, StagesOK
<1> QED BY <1>1, <1>2, <1>3, <1>4, <1>5 DEF WorkerStep
-------------------------------------------------------------------------------
(* Every other action: the relay, the group, fetching, and the process *)

LEMMA StagesKept ==
    ASSUME IInv, LogGrows, TopicsGrow,
           \A h \in Gateway : \/ pc'[h] \in Resting
                              \/ pc'[h] = pc[h] /\ cur'[h] = cur[h] /\ verdict'[h] = verdict[h]
    PROVE  StagesOK'
<1> SUFFICES ASSUME NEW h \in Gateway PROVE Staged(h)'
  BY DEF StagesOK
<1>1. CASE pc'[h] \in Resting
  BY <1>1 DEF Staged
<1>2. CASE pc'[h] = pc[h] /\ cur'[h] = cur[h] /\ verdict'[h] = verdict[h]
  BY <1>2, StagedKept DEF IInv, StagesOK
<1> QED BY <1>1, <1>2

\* Outcomes that no topic has to bear out.
Unpublished(r, how) ==
    \/ how \in {"skipped", "lost"}
    \/ how = "poison" /\ EventAt(r).form # "valid"
    \/ how = "ended" /\ EventAt(r).type = "SESSION_ENDED"
    \/ how = "ignored" /\ EntityKey(EventAt(r)) = None

LEMMA OutcomeNew ==
    ASSUME OutcomeOK, TopicsGrow, LogGrows,
           \A r \in Ref : \/ outcome'[r] = outcome[r]
                          \/ r \in Relayed /\ Unpublished(r, outcome'[r])
    PROVE  OutcomeOK'
<1> SUFFICES ASSUME NEW r \in Ref
             PROVE  /\ outcome'[r] # "none" => r \in Relayed'
                    /\ outcome'[r] = "scored" => InActions(r)'
                    /\ outcome'[r] = "dlq" => InDlq(r)'
                    /\ outcome'[r] = "dropped" => ~DlqEnabled
                    /\ outcome'[r] = "poison" => EventAt(r)'.form # "valid"
                    /\ outcome'[r] = "ended" => EventAt(r)'.type = "SESSION_ENDED"
                    /\ outcome'[r] = "ignored" => EntityKey(EventAt(r)') = None
                    /\ outcome'[r] = "quiet" => ~Urgent(EventAt(r)')
  BY DEF OutcomeOK
<1>1. CASE outcome'[r] = outcome[r]
  BY <1>1, InTopicsKept DEF OutcomeOK, LogGrows
<1>2. CASE r \in Relayed /\ Unpublished(r, outcome'[r])
  BY <1>2 DEF LogGrows, Unpublished
<1> QED BY <1>1, <1>2

\* A step that neither publishes nor records an outcome, and reaches no record
\* that was not already accounted for.
LEMMA StandIInv ==
    ASSUME IInv, Shape', LogGrows, UNCHANGED <<topics, cur, verdict, outcome>>,
           \A h \in Gateway : pc'[h] = pc[h] \/ pc'[h] \in Resting,
           \A r \in Ref : r.o < committed'[r.p] \/ r.o < position'[r.p]
                            => r.o < committed[r.p] \/ r.o < position[r.p]
    PROVE  IInv'
<1>1. TopicsGrow /\ actions' = actions /\ alerts' = alerts
  BY TopicsSame DEF topics
<1>2. ActionMatchesScore' /\ AlertsFollowActions'
  BY <1>1, PublishedKept DEF IInv
<1>3. StagesOK'
  BY <1>1, StagesKept
<1>4. OutcomeOK'
  BY <1>1, OutcomeKept DEF IInv
<1>5. PassedHasOutcome'
  BY DEF IInv, PassedHasOutcome, InFlight
<1> QED BY <1>2, <1>3, <1>4, <1>5 DEF IInv

LEMMA RelayIInv ==
    ASSUME IInv, Shape', NEW ev \in Event, Relay(ev)
    PROVE  IInv'
<1>1. LogGrows
  BY RelayGrows DEF IInv
<1>2. UNCHANGED <<topics, pc, cur, verdict, outcome, committed, position>>
  BY DEF Relay, worker, history
<1> QED BY <1>1, <1>2, StandIInv

LEMMA AutoCommitIInv ==
    ASSUME IInv, Shape', NEW g \in Gateway, AutoCommit(g)
    PROVE  IInv'
<1>1. LogGrows
  BY LogSame DEF AutoCommit
<1>2. UNCHANGED <<topics, pc, cur, verdict, outcome, position>> /\ committed' = CommittedBy(g)
  BY DEF AutoCommit, worker, history
<1>3. \A r \in Ref : r.o < committed'[r.p] => r.o < committed[r.p] \/ r.o < position[r.p]
  BY <1>2 DEF CommittedBy, Ref
<1> QED BY <1>1, <1>2, <1>3, StandIInv

LEMMA RevokeIInv ==
    ASSUME IInv, Shape', NEW p \in Partition, Revoke(p)
    PROVE  IInv'
<1>1. LogGrows
  BY LogSame DEF Revoke
<1>2. UNCHANGED <<topics, pc, cur, verdict, outcome>>
  BY DEF Revoke, worker
<1>3. \A r \in Ref : r.o < committed'[r.p] \/ r.o < position'[r.p]
                       => r.o < committed[r.p] \/ r.o < position[r.p]
  BY DEF Revoke, IInv, Shape, TypeOK, Ref, NoOffset
<1> QED BY <1>1, <1>2, <1>3, StandIInv

LEMMA StoreWriterIInv ==
    ASSUME IInv, Shape', NEW e \in Entity, Expire(e) \/ UpsertHset(e) \/ UpsertExpire(e)
    PROVE  IInv'
<1>1. UNCHANGED <<topics, pc, cur, verdict, outcome, log, committed, position>>
  BY DEF Expire, UpsertHset, UpsertExpire, kafka, worker, history
<1> QED BY <1>1, LogSame, StandIInv

LEMMA StartIInv ==
    ASSUME IInv, Shape', NEW g \in Gateway, Start(g)
    PROVE  IInv'
<1>1. UNCHANGED <<topics, cur, verdict, outcome, log, committed, position>>
  BY DEF Start, kafka, history
<1>2. \A h \in Gateway : pc'[h] = pc[h] \/ pc'[h] \in Resting
  BY DEF Start, IInv, Shape, TypeOK
<1> QED BY <1>1, <1>2, LogSame, StandIInv

\* What latest skips is recorded as skipped, unless it was handled before.
LEMMA AssignIInv ==
    ASSUME IInv, Shape', NEW g \in Gateway, NEW p \in Partition, Assign(g, p)
    PROVE  IInv'
<1>1. /\ UNCHANGED <<topics, pc, cur, verdict, log, committed>>
      /\ position' = [position EXCEPT ![p] = StartPosition(p)]
      /\ \A r \in Ref : outcome'[r] = outcome[r] \/ (r \in Relayed /\ outcome'[r] = "skipped")
      /\ \A r \in Ref : /\ r.p = p /\ r \in Relayed /\ committed[p] = NoOffset
                        => outcome'[r] # "none" \/ InFlight(r)
  BY DEF Assign, worker
<1>2. LogGrows /\ TopicsGrow /\ actions' = actions /\ alerts' = alerts
  BY <1>1, LogSame, TopicsSame DEF topics
<1>3. StagesOK'
  BY <1>1, <1>2, StagesKept
<1>4. OutcomeOK'
  BY <1>1, <1>2, OutcomeNew DEF IInv, Unpublished
<1>5. PassedHasOutcome'
  <2> SUFFICES ASSUME NEW r \in Ref, r.o < committed'[r.p] \/ r.o < position'[r.p]
               PROVE  outcome'[r] # "none" \/ InFlight(r)'
    BY DEF PassedHasOutcome
  <2>1. InFlight(r)' <=> InFlight(r)
    BY <1>1 DEF InFlight
  <2>2. CASE r.o < committed[r.p] \/ r.o < position[r.p]
    BY <1>1, <2>1, <2>2 DEF IInv, PassedHasOutcome
  <2>3. CASE r.p = p /\ r.o < StartPosition(p) /\ ~(r.o < committed[p])
    <3>1. committed[p] = NoOffset /\ r.o < Len(log[p]) + 1
      BY <2>3 DEF StartPosition
    <3>2. r \in Relayed
      <4>1. Len(log[p]) \in Nat
        BY DEF IInv, Shape, TypeOK
      <4> QED BY <2>3, <3>1, <4>1 DEF Relayed, Ref
    <3> QED BY <1>1, <2>1, <2>3, <3>1, <3>2
  <2>4. r.p \in Partition
    BY DEF Ref
  <2> QED BY <1>1, <2>2, <2>3, <2>4 DEF IInv, Shape, TypeOK
<1>6. ActionMatchesScore' /\ AlertsFollowActions'
  BY <1>2, PublishedKept DEF IInv
<1> QED BY <1>3, <1>4, <1>5, <1>6 DEF IInv
\* What advancing the position past the next record newly has to account for.
LEMMA AdvancedReaches ==
    ASSUME Shape, NEW g \in Gateway, NEW p \in Partition, Handed(g, p),
           position' = Advanced(p) \/ position' = position,
           NEW r \in Ref, r.o < position'[r.p]
    PROVE  r.o < position[r.p] \/ r = Next1(p)
<1>1. position \in [Partition -> Nat] /\ r.p \in Partition /\ r.o \in Nat
  BY DEF Shape, TypeOK, Ref
<1>2. CASE r.p = p
  <2>1. r.o < position[p] \/ r.o = position[p]
    BY <1>1, <1>2 DEF Advanced
  <2>2. r = [p |-> r.p, o |-> r.o]
    BY DEF Ref
  <2> QED BY <1>2, <2>1, <2>2 DEF Next1
<1>3. CASE r.p # p
  BY <1>1, <1>3 DEF Advanced
<1> QED BY <1>2, <1>3

LEMMA FetchIInv ==
    ASSUME IInv, Shape', NEW g \in Gateway, NEW p \in Partition, Fetch(g, p)
    PROVE  IInv'
<1> DEFINE r == Next1(p)
           ev == EventAt(r)
<1>1. /\ Handed(g, p) /\ position' = Advanced(p) /\ pc[g] = "idle"
      /\ UNCHANGED <<log, committed, verdict, topics>>
  BY DEF Fetch, Handed
<1>2. r \in Ref /\ r \in Relayed
  BY <1>1, NextRecord DEF IInv
<1>3. LogGrows /\ TopicsGrow /\ actions' = actions /\ alerts' = alerts
  BY <1>1, LogSame, TopicsSame DEF topics
<1>4. ActionMatchesScore' /\ AlertsFollowActions'
  BY <1>3, PublishedKept DEF IInv
<1>5. CASE ev.form = "valid" /\ EntityKey(ev) = None
  <2>1. pc' = pc /\ cur' = cur
    BY <1>5 DEF Fetch
  <2>2. PICK how \in {"ended", "ignored"} :
          outcome' = [outcome EXCEPT ![r] = how] /\ Unpublished(r, how)
    BY <1>5 DEF Fetch, Unpublished
  <2>3. StagesOK'
    BY <1>1, <1>3, <2>1, StagesKept
  <2>4. /\ outcome'[r] = how
        /\ \A q \in Ref : q # r => outcome'[q] = outcome[q]
    BY <1>2, <2>2 DEF IInv, Shape, TypeOK
  <2>5. OutcomeOK'
    BY <1>2, <1>3, <2>2, <2>4, OutcomeNew DEF IInv
  <2>6. PassedHasOutcome'
    <3> SUFFICES ASSUME NEW q \in Ref, q.o < committed'[q.p] \/ q.o < position'[q.p]
                 PROVE  outcome'[q] # "none" \/ InFlight(q)'
      BY DEF PassedHasOutcome
    <3>1. q.o < committed[q.p] \/ q.o < position[q.p] \/ q = r
      BY <1>1, AdvancedReaches DEF IInv
    <3> QED BY <2>1, <2>4, <3>1 DEF IInv, PassedHasOutcome, InFlight
  <2> QED BY <1>4, <2>3, <2>5, <2>6 DEF IInv
<1>6. CASE ~(ev.form = "valid" /\ EntityKey(ev) = None)
  <2>1. /\ pc' = [pc EXCEPT ![g] = FirstStep(ev)]
        /\ cur' = [cur EXCEPT ![g] = r]
        /\ outcome' = outcome
    BY <1>6 DEF Fetch
  <2>2. /\ pc'[g] = FirstStep(ev) /\ cur'[g] = r
        /\ \A h \in Gateway : h # g => pc'[h] = pc[h] /\ cur'[h] = cur[h]
    BY <2>1 DEF IInv, Shape, TypeOK
  <2>3. StagesOK'
    <3> SUFFICES ASSUME NEW h \in Gateway PROVE Staged(h)'
      BY DEF StagesOK
    <3>1. CASE h = g
      <4>1. Cur(g)' = ev
        BY <1>1, <2>2 DEF Cur, EventAt
      <4> QED BY <2>2, <3>1, <4>1 DEF Staged, FirstStep
    <3>2. CASE h # g
      BY <1>1, <1>3, <2>2, <3>2, StagedKept DEF IInv, StagesOK
    <3> QED BY <3>1, <3>2
  <2>4. OutcomeOK'
    BY <1>3, <2>1, OutcomeKept DEF IInv
  <2>5. PassedHasOutcome'
    <3> SUFFICES ASSUME NEW q \in Ref, q.o < committed'[q.p] \/ q.o < position'[q.p]
                 PROVE  outcome'[q] # "none" \/ InFlight(q)'
      BY DEF PassedHasOutcome
    <3>1. q.o < committed[q.p] \/ q.o < position[q.p] \/ q = r
      BY <1>1, AdvancedReaches DEF IInv
    <3>2. CASE q = r
      BY <2>2, <3>2 DEF InFlight
    <3>3. CASE q.o < committed[q.p] \/ q.o < position[q.p]
      <4>1. outcome[q] # "none" \/ InFlight(q)
        BY <3>3 DEF IInv, PassedHasOutcome
      <4>2. InFlight(q) => InFlight(q)'
        <5> SUFFICES ASSUME NEW h \in Gateway, cur[h] = q PROVE cur'[h] = q
          BY DEF InFlight
        <5>1. h # g
          BY <1>1, RefAssumption DEF IInv, Shape, ControlOK
        <5> QED BY <2>2, <5>1
      <4> QED BY <2>1, <4>1, <4>2
    <3> QED BY <3>1, <3>2, <3>3
  <2> QED BY <1>4, <2>3, <2>4, <2>5 DEF IInv
<1> QED BY <1>5, <1>6

LEMMA FetchUndecodableIInv ==
    ASSUME IInv, Shape', NEW g \in Gateway, NEW p \in Partition, FetchUndecodable(g, p)
    PROVE  IInv'
<1> DEFINE r == Next1(p)
<1>1. /\ Handed(g, p) /\ EventAt(r).form = "undecodable"
      /\ position' = Advanced(p) \/ position' = position
      /\ UNCHANGED <<log, committed, cur, verdict, topics>>
      /\ pc' = [pc EXCEPT ![g] = "dead"]
      /\ outcome' = [outcome EXCEPT ![r] = "poison"]
  BY DEF FetchUndecodable
<1>2. r \in Ref /\ r \in Relayed
  BY <1>1, NextRecord DEF IInv
<1>3. LogGrows /\ TopicsGrow /\ actions' = actions /\ alerts' = alerts
  BY <1>1, LogSame, TopicsSame DEF topics
<1>4. ActionMatchesScore' /\ AlertsFollowActions'
  BY <1>3, PublishedKept DEF IInv
<1>5. StagesOK'
  <2>1. \A h \in Gateway : pc'[h] \in Resting \/ pc'[h] = pc[h]
    BY <1>1 DEF IInv, Shape, TypeOK
  <2> QED BY <1>1, <1>3, <2>1, StagesKept
<1>6. outcome'[r] = "poison" /\ \A q \in Ref : q # r => outcome'[q] = outcome[q]
  BY <1>1, <1>2 DEF IInv, Shape, TypeOK
<1>7. OutcomeOK'
  BY <1>1, <1>2, <1>3, <1>6, OutcomeNew DEF IInv, Unpublished
<1>8. PassedHasOutcome'
  <2> SUFFICES ASSUME NEW q \in Ref, q.o < committed'[q.p] \/ q.o < position'[q.p]
               PROVE  outcome'[q] # "none" \/ InFlight(q)'
    BY DEF PassedHasOutcome
  <2>1. q.o < committed[q.p] \/ q.o < position[q.p] \/ q = r
    BY <1>1, AdvancedReaches DEF IInv
  <2> QED BY <1>1, <1>6, <2>1 DEF IInv, PassedHasOutcome, InFlight
<1> QED BY <1>4, <1>5, <1>7, <1>8 DEF IInv

\* The worker goes, with or without a last commit: the record in its hands is
\* accounted for as lost, whatever it had in hand elsewhere stays accounted for.
LEMMA GoneIInv ==
    ASSUME IInv, Shape', NEW g \in Gateway, Gone(g),
           committed' = committed \/ committed' = CommittedBy(g)
    PROVE  IInv'
<1>1. /\ UNCHANGED <<log, topics>>
      /\ \A h \in Gateway : \/ pc'[h] \in Resting
                            \/ pc'[h] = pc[h] /\ cur'[h] = cur[h] /\ verdict'[h] = verdict[h]
      /\ \A h \in Gateway : h # g => cur'[h] = cur[h]
      /\ outcome' = [r \in Ref |-> IF cur[g] = r /\ outcome[r] = "none"
                                   THEN "lost" ELSE outcome[r]]
  BY DEF Gone, Forget, IInv, Shape, TypeOK
<1>2. LogGrows /\ TopicsGrow /\ actions' = actions /\ alerts' = alerts
  BY <1>1, LogSame, TopicsSame DEF topics
<1>3. ActionMatchesScore' /\ AlertsFollowActions'
  BY <1>2, PublishedKept DEF IInv
<1>4. StagesOK'
  BY <1>1, <1>2, StagesKept
<1>5. OutcomeOK'
  <2>1. \A r \in Ref : outcome'[r] = outcome[r] \/ (cur[g] = r /\ outcome'[r] = "lost")
    BY <1>1
  <2>2. \A r \in Ref : cur[g] = r => r \in Relayed
    BY RefAssumption DEF IInv, Shape, ControlOK
  <2> QED BY <1>2, <2>1, <2>2, OutcomeNew DEF IInv, Unpublished
<1>6. PassedHasOutcome'
  <2> SUFFICES ASSUME NEW r \in Ref, r.o < committed'[r.p] \/ r.o < position'[r.p]
               PROVE  outcome'[r] # "none" \/ InFlight(r)'
    BY DEF PassedHasOutcome
  <2>1. r.o < committed[r.p] \/ r.o < position[r.p]
    <3>1. r.p \in Partition /\ r.o \in Nat
      BY DEF Ref
    <3>2. r.o < position'[r.p] => r.o < position[r.p]
      BY <3>1 DEF Gone, NoOffset
    <3>3. r.o < committed'[r.p] => r.o < committed[r.p] \/ r.o < position[r.p]
      BY <3>1 DEF CommittedBy
    <3> QED BY <3>2, <3>3
  <2>2. outcome[r] # "none" \/ InFlight(r)
    BY <2>1 DEF IInv, PassedHasOutcome
  <2>3. CASE outcome[r] # "none"
    BY <1>1, <2>3
  <2>4. ASSUME NEW h \in Gateway, cur[h] = r
        PROVE  outcome'[r] # "none" \/ InFlight(r)'
    BY <1>1, <2>4 DEF InFlight
  <2> QED BY <2>2, <2>3, <2>4 DEF InFlight
<1> QED BY <1>3, <1>4, <1>5, <1>6 DEF IInv

-------------------------------------------------------------------------------
(* The inductive invariant *)

LEMMA IInvInit == Init => IInv
<1> SUFFICES ASSUME Init PROVE IInv
  OBVIOUS
<1>1. Shape
  BY ShapeInit
<1>2. OutcomeOK /\ StagesOK
  BY DEF Init, OutcomeOK, StagesOK, Staged
<1>3. PassedHasOutcome
  BY DEF Init, PassedHasOutcome, NoOffset, Ref
<1>4. ActionMatchesScore /\ AlertsFollowActions
  BY DEF Init, ActionMatchesScore, AlertsFollowActions
<1> QED BY <1>1, <1>2, <1>3, <1>4 DEF IInv

LEMMA IInvNext == IInv /\ [Next]_vars => IInv'
<1> SUFFICES ASSUME IInv, [Next]_vars PROVE IInv'
  OBVIOUS
<1>0. Shape'
  BY ShapeNext DEF IInv
<1>1. ASSUME NEW ev \in Event, Relay(ev) PROVE IInv'
  BY <1>0, <1>1, RelayIInv
<1>2. CASE Group
  BY <1>0, <1>2, AssignIInv, AutoCommitIInv, RevokeIInv DEF Group
<1>3. ASSUME NEW g \in Gateway, Work(g) PROVE IInv'
  <2>1. ASSUME NEW p \in Partition, Fetch(g, p) \/ FetchUndecodable(g, p) PROVE IInv'
    BY <1>0, <2>1, FetchIInv, FetchUndecodableIInv
  <2>2. CASE WorkerStep(g)
    BY <1>0, <2>2, WorkerStepIInv
  <2> QED
    BY <1>3, <2>1, <2>2, StepSyncRead, StepSyncHset, StepSyncExpire, StepSyncEnrich,
       StepReadContext, StepInfer, StepPublishScore, StepPublishAction, StepSendAlertWebhook,
       StepPublishDlq, StepFinHset, StepFinExpire, StepFinEnrich
    DEF Work
<1>4. ASSUME NEW g \in Gateway, CallFault(g) PROVE IInv'
  <2>1. WorkerStep(g)
    BY <1>4, StepRedisFault, StepTritonFault, StepKafkaFault, StepKafkaLostAck DEF CallFault
  <2> QED BY <1>0, <2>1, WorkerStepIInv
<1>5. ASSUME NEW g \in Gateway, Process(g) PROVE IInv'
  <2>1. CASE Crash(g)
    BY <1>0, <2>1, GoneIInv DEF Crash
  <2>2. CASE Stop(g)
    BY <1>0, <2>2, GoneIInv DEF Stop
  <2>3. CASE Start(g)
    BY <1>0, <2>3, StartIInv
  <2> QED BY <1>5, <2>1, <2>2, <2>3 DEF Process
<1>6. CASE StoreWriter
  BY <1>0, <1>6, StoreWriterIInv DEF StoreWriter
<1>7. CASE UNCHANGED vars
  <2>1. UNCHANGED <<topics, pc, cur, verdict, outcome, log, committed, position>>
    BY <1>7 DEF vars, kafka, worker, history
  <2> QED BY <1>0, <2>1, LogSame, StandIInv
<1> QED BY <1>1, <1>2, <1>3, <1>4, <1>5, <1>6, <1>7 DEF Next

\* The inductive invariant holds in every reachable state: what the program
\* counter, the offsets and the recorded outcomes say about records and topics.
THEOREM Invariance == Spec => []IInv
BY IInvInit, IInvNext, PTL DEF Spec

\* Offset accounting, for any number of gateways and partitions and any mix of
\* crashes, cancelled shutdowns, rebalances and lost commits: an offset the
\* group has passed belongs to a record that ended in a recorded way or that a
\* live worker still has in hand.
THEOREM OffsetsAccounted == Spec => []PassedHasOutcome
<1>1. IInv => PassedHasOutcome
  BY DEF IInv
<1> QED BY <1>1, Invariance, PTL

\* No action message is ever in its topic without the score it was derived
\* from, and it is the evaluator's action for that score.
THEOREM ActionsMatchScores == Spec => []ActionMatchesScore
<1>1. IInv => ActionMatchesScore
  BY DEF IInv
<1> QED BY <1>1, Invariance, PTL

\* No webhook call gets through for a record without a BLOCK or ALERT action in
\* the topic.
THEOREM AlertsAreDecided == Spec => []AlertsFollowActions
<1>1. IInv => AlertsFollowActions
  BY DEF IInv
<1> QED BY <1>1, Invariance, PTL

\* An urgent event that is done with was either decided or dead-lettered,
\* whatever the counters, the feature hash and the failed calls were.
LEMMA OutcomesDecide == IInv => EscalationDecided
<1> SUFFICES ASSUME IInv, NEW r \in Relayed,
                    EventAt(r).form = "valid", EntityKey(EventAt(r)) # None,
                    EventAt(r).type # "SESSION_ENDED", Urgent(EventAt(r)),
                    outcome[r] \notin {"none", "lost", "skipped"}
             PROVE  InActions(r) \/ InDlq(r) \/ (outcome[r] = "dropped" /\ ~DlqEnabled)
  BY DEF EscalationDecided
<1>1. r \in Ref
  BY DEF Relayed
<1>2. outcome[r] \in {"scored", "dlq", "dropped"}
  BY <1>1 DEF IInv, OutcomeOK, Shape, TypeOK, Outcome
<1> QED BY <1>1, <1>2 DEF IInv, OutcomeOK

\* No agent escalation and no CRITICAL event is done with, in a live worker,
\* without an action or a DLQ message, if there is a DLQ.
THEOREM UrgentDecided == Spec => []EscalationDecided
BY OutcomesDecide, Invariance, PTL
===============================================================================
