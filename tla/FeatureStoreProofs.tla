-------------------------- MODULE FeatureStoreProofs --------------------------
(***************************************************************************)
(* What holds of the feature store with one gateway, for every set of      *)
(* events, partitions and entities and every other fault: undisturbed, it  *)
(* implements FeatureStoreSpec, and each expiry and each PUT costs at most *)
(* one CRITICAL event its way through it.                                  *)
(***************************************************************************)
EXTENDS FdsEventPipelineProofs, PipelineProperties, FiniteSetTheorems

OneGateway == \A g, h \in Gateway : g = h

\* What worker g relies on while nobody else writes its hash.
Holds(g) == pc[g] = "sync_hset" => seen[g] = store[Key(g)]

Undisturbed ==
    /\ upserting = {}
    /\ \A g \in Gateway : Holds(g)

WriterInv == SingleWriter => Undisturbed

\* The configuration in which the store has a single writer for good.
OneWriter ==
    /\ OneGateway
    /\ MaxFault["expiry"] = 0
    /\ MaxFault["upsert"] = 0

Disturbs == \E e \in Entity : Expire(e) \/ UpsertHset(e)

CalmFaults == fault'["expiry"] = fault["expiry"] /\ fault'["upsert"] = fault["upsert"]

-------------------------------------------------------------------------------
(* Which steps disturb the single writer *)

LEMMA SpendCalm ==
    ASSUME Shape, NEW k \in FaultKind \ {"expiry", "upsert"}, Spend(k)
    PROVE  CalmFaults
BY DEF Spend, CalmFaults, Shape, TypeOK, FaultKind

LEMMA WorkCalm ==
    ASSUME Shape, NEW g \in Gateway, Work(g)
    PROVE  fault' = fault
BY DEF Work, Fetch, FetchUndecodable, SyncRead, SyncHset, SyncExpire, SyncEnrich, ReadContext,
       Infer, PublishScore, PublishAction, SendAlertWebhook, PublishDlq, FinHset, FinExpire,
       FinEnrich, history

\* Only an expiry or a PUT counts against the single writer.
LEMMA FaultStep ==
    ASSUME Shape, [Next]_vars
    PROVE  Disturbs \/ CalmFaults
<1>0. \A k \in FaultKind \ {"expiry", "upsert"} : Spend(k) => CalmFaults
  BY SpendCalm
<1>1. ASSUME NEW ev \in Event, Relay(ev) PROVE CalmFaults
  BY <1>1 DEF Relay, history, CalmFaults
<1>2. CASE Group
  BY <1>0, <1>2 DEF Group, Assign, AutoCommit, Revoke, history, CalmFaults, FaultKind
<1>3. ASSUME NEW g \in Gateway, Work(g) PROVE CalmFaults
  BY <1>3, WorkCalm DEF CalmFaults
<1>4. ASSUME NEW g \in Gateway, CallFault(g) PROVE CalmFaults
  BY <1>0, <1>4 DEF CallFault, RedisFault, TritonFault, KafkaFault, KafkaLostAck, FaultKind
<1>5. ASSUME NEW g \in Gateway, Process(g) PROVE CalmFaults
  BY <1>0, <1>5 DEF Process, Crash, Stop, Start, history, CalmFaults, FaultKind
<1>6. CASE StoreWriter
  BY <1>6 DEF StoreWriter, UpsertExpire, history, Disturbs, CalmFaults
<1>7. CASE UNCHANGED vars
  BY <1>7 DEF vars, history, CalmFaults
<1> QED BY <1>1, <1>2, <1>3, <1>4, <1>5, <1>6, <1>7 DEF Next

\* After a step that leaves a single writer there was one before, and the step
\* was neither an expiry nor a PUT.
LEMMA WriterBefore ==
    ASSUME Shape, [Next]_vars, SingleWriter'
    PROVE  SingleWriter /\ ~Disturbs
<1>1. ~Disturbs
  BY DEF Disturbs, Expire, UpsertHset, Spend, SingleWriter, Shape, TypeOK, FaultKind
<1> QED BY <1>1, FaultStep DEF SingleWriter, CalmFaults

LEMMA WriterAfter ==
    ASSUME Shape, [Next]_vars, OneWriter, SingleWriter
    PROVE  SingleWriter'
<1>1. ~Disturbs
  BY DEF Disturbs, Expire, UpsertHset, Spend, OneWriter, Shape, TypeOK, FaultKind
<1> QED BY <1>1, FaultStep DEF SingleWriter, CalmFaults

-------------------------------------------------------------------------------
(* What the single writer read is still what the hash holds *)

LEMMA HoldsKept ==
    ASSUME Shape, LogGrows, NEW g \in Gateway, Holds(g), store' = store,
           pc'[g] = pc[g], cur'[g] = cur[g], seen'[g] = seen[g]
    PROVE  Holds(g)'
<1>1. CASE pc[g] = "sync_hset"
  <2>1. cur[g] \in Relayed
    BY <1>1, InHand DEF Resting
  <2>2. Key(g)' = Key(g)
    BY <2>1 DEF LogGrows, Cur, EventAt, Key
  <2> QED BY <2>2 DEF Holds
<1>2. CASE pc[g] # "sync_hset"
  BY <1>2 DEF Holds
<1> QED BY <1>1, <1>2

\* Where g goes on with the record in hand.
LEMMA SameRecord ==
    ASSUME Shape, NEW g \in Gateway, pc[g] \in Handling, log' = log, cur' = cur
    PROVE  /\ Cur(g)' = Cur(g) /\ Key(g)' = Key(g) /\ Key(g) \in Entity
           /\ Cur(g) \in FdsEvent
BY InHand DEF Cur, Key, EventAt, Handling, Resting

LEMMA HoldsWorker ==
    ASSUME Shape, NEW g \in Gateway, Holds(g), Work(g) \/ CallFault(g) \/ Process(g)
    PROVE  Holds(g)'
<1>1. CASE SyncRead(g)
  <2>1. pc[g] \in Handling /\ log' = log /\ cur' = cur
    BY <1>1 DEF SyncRead, Wait, Handling, Step, kafka
  <2>2. seen'[g] = store[Key(g)] /\ store' = store
    BY <1>1 DEF SyncRead, redis, Shape, TypeOK
  <2> QED BY <2>1, <2>2, SameRecord DEF Holds
<1>2. CASE KafkaLostAck(g)
  <2>1. UNCHANGED <<log, pc, cur, seen, store>>
    BY <1>2 DEF KafkaLostAck, kafka, worker, redis
  <2> QED BY <2>1, LogSame, HoldsKept
<1>3. ASSUME NEW p \in Partition, Fetch(g, p) \/ FetchUndecodable(g, p) PROVE Holds(g)'
  BY <1>3 DEF Fetch, FetchUndecodable, Handed, FirstStep, Holds, Shape, TypeOK
<1>4. CASE \/ SyncHset(g) \/ SyncExpire(g) \/ SyncEnrich(g) \/ ReadContext(g) \/ Infer(g)
           \/ PublishScore(g) \/ PublishAction(g) \/ SendAlertWebhook(g) \/ PublishDlq(g)
           \/ FinHset(g) \/ FinExpire(g) \/ FinEnrich(g)
  BY <1>4 DEF SyncHset, SyncExpire, SyncEnrich, ReadContext, Infer, PublishScore, PublishAction,
     SendAlertWebhook, PublishDlq, FinHset, FinExpire, FinEnrich, Wait, Return, Raise, Die, Holds,
     Shape, TypeOK
<1>5. CASE RedisFault(g) \/ TritonFault(g) \/ KafkaFault(g) \/ Process(g)
  BY <1>5 DEF RedisFault, TritonFault, KafkaFault, Process, Crash, Stop, Start, Gone, Raise, Die,
     Holds, Shape, TypeOK
<1> QED BY <1>1, <1>2, <1>3, <1>4, <1>5 DEF Work, CallFault

LEMMA UpsertingWorker ==
    ASSUME NEW g \in Gateway, Work(g) \/ CallFault(g) \/ Process(g)
    PROVE  log' = log /\ upserting' = upserting
<1>1. CASE Work(g)
  BY <1>1 DEF Work, Fetch, FetchUndecodable, SyncRead, SyncHset, SyncExpire, SyncEnrich,
     ReadContext, Infer, PublishScore, PublishAction, SendAlertWebhook, PublishDlq, FinHset,
     FinExpire, FinEnrich, kafka, redis
<1>2. CASE CallFault(g)
  BY <1>2 DEF CallFault, RedisFault, TritonFault, KafkaFault, KafkaLostAck, kafka, redis
<1>3. CASE Process(g)
  BY <1>3 DEF Process, Crash, Stop, Start, Gone, kafka, redis
<1> QED BY <1>1, <1>2, <1>3

LEMMA UndisturbedKept ==
    ASSUME Shape, Undisturbed, LogGrows, UNCHANGED <<worker, store, upserting>>
    PROVE  Undisturbed'
BY HoldsKept DEF Undisturbed, worker

LEMMA WriterInvNext ==
    ASSUME Shape, WriterInv, [Next]_vars
    PROVE  WriterInv'
<1> SUFFICES ASSUME SingleWriter'
             PROVE  Undisturbed'
  BY DEF WriterInv
<1>0. SingleWriter /\ ~Disturbs /\ Undisturbed
  BY WriterBefore DEF WriterInv
<1>1. ASSUME NEW ev \in Event, Relay(ev) PROVE Undisturbed'
  <2>1. LogGrows
    BY <1>1, RelayGrows
  <2> QED BY <1>0, <1>1, <2>1, UndisturbedKept DEF Relay, redis
<1>2. CASE Group
  <2>1. UNCHANGED <<log, worker, redis>>
    BY <1>2 DEF Group, Assign, AutoCommit, Revoke
  <2> QED BY <1>0, <2>1, LogSame, UndisturbedKept DEF redis
<1>3. ASSUME NEW g \in Gateway, Work(g) \/ CallFault(g) \/ Process(g) PROVE Undisturbed'
  BY <1>0, <1>3, HoldsWorker, UpsertingWorker DEF SingleWriter, Undisturbed
<1>4. CASE StoreWriter
  BY <1>0, <1>4 DEF StoreWriter, UpsertExpire, Disturbs, Undisturbed
<1>5. CASE UNCHANGED vars
  BY <1>0, <1>5, LogSame, UndisturbedKept DEF vars, kafka, redis
<1> QED BY <1>1, <1>2, <1>3, <1>4, <1>5 DEF Next

LEMMA WriterInvInit == Init => WriterInv
BY DEF Init, WriterInv, Undisturbed, Holds

-------------------------------------------------------------------------------
(* The CRITICAL flag on its way from the event to the action *)

\* The app weight the mapper derives from the flag reaches the threshold.
Detectable == MaliciousAppWeightThreshold <= 92

Carrying == {"sync_expire", "enrich", "context", "infer", "publish_score", "publish_action"}

\* The flag of the record in g's hand is where the next step will look for it.
Carried(g) ==
    /\ pc[g] \in {"sync_expire", "enrich", "context"} /\ Cur(g).critical => store[Key(g)].app = 1
    /\ pc[g] = "infer" /\ Cur(g).critical => seen[g].app = 1
    /\ pc[g] \in {"publish_score", "publish_action"} /\ Cur(g).critical =>
          verdict[g].flag = "CRITICAL"

\* CriticalBlocked counts the events that went out without BLOCK; what is
\* inductive counts with them the one in hand whose flag has been lost.
Unsafe == Softened \union {cur[g] : g \in {h \in Gateway : ~Carried(h)}}

ActionsRelayed == \A i \in DOMAIN actions : actions[i].ref \in Relayed

BlockInv ==
    /\ ActionsRelayed
    /\ OneGateway => /\ IsFiniteSet(Unsafe)
                     /\ Cardinality(Unsafe) <= fault["expiry"] + fault["upsert"]

\* Counting: a set that loses elements, or wins one that is paid for.
LEMMA CountShrinks ==
    ASSUME NEW S, NEW T, NEW n \in Nat, IsFiniteSet(S), Cardinality(S) <= n, T \subseteq S
    PROVE  IsFiniteSet(T) /\ Cardinality(T) \in Nat /\ Cardinality(T) <= n
<1>1. IsFiniteSet(T) /\ Cardinality(T) <= Cardinality(S)
  BY FS_Subset
<1>2. Cardinality(T) \in Nat /\ Cardinality(S) \in Nat
  BY <1>1, FS_CardinalityType
<1> QED BY <1>1, <1>2

LEMMA CountAdds ==
    ASSUME NEW S, NEW T, NEW x, NEW n \in Nat, IsFiniteSet(S), Cardinality(S) <= n,
           T \subseteq S \union {x}
    PROVE  IsFiniteSet(T) /\ Cardinality(T) \in Nat /\ Cardinality(T) <= n + 1
<1>1. Cardinality(S) \in Nat
  BY FS_CardinalityType
<1>2. /\ IsFiniteSet(S \union {x})
      /\ Cardinality(S \union {x})
           = IF x \in S THEN Cardinality(S) ELSE Cardinality(S) + 1
  BY FS_AddElement
<1>3. Cardinality(S \union {x}) <= n + 1
  BY <1>1, <1>2
<1> QED BY <1>2, <1>3, CountShrinks

LEMMA CarriesNothing ==
    ASSUME NEW g \in Gateway, pc'[g] \notin Carrying
    PROVE  Carried(g)'
BY DEF Carried, Carrying

\* The flags in the hashes and what the workers hold are what they were.
LEMMA CarriedKept ==
    ASSUME Shape, LogGrows, NEW g \in Gateway, Carried(g), UNCHANGED worker,
           \A e \in Entity : store'[e].app = store[e].app
    PROVE  Carried(g)'
<1>1. CASE pc[g] \in Carrying
  <2>1. cur[g] \in Relayed /\ Key(g) \in Entity
    BY <1>1, InHand DEF Carrying, Resting, Handling, Step
  <2>2. Cur(g)' = Cur(g) /\ Key(g)' = Key(g)
    BY <2>1 DEF LogGrows, Cur, EventAt, Key, worker
  <2> QED BY <2>1, <2>2 DEF Carried, worker
<1>2. CASE pc[g] \notin Carrying
  BY <1>2, CarriesNothing DEF worker
<1> QED BY <1>1, <1>2

LEMMA CarriedSyncHset ==
    ASSUME Shape, NEW g \in Gateway, SyncHset(g)
    PROVE  Carried(g)'
<1>1. pc[g] \in Handling /\ log' = log /\ cur' = cur
  BY DEF SyncHset, Wait, Handling, Step, kafka
<1>2. pc'[g] = "sync_expire"
  BY DEF SyncHset, Wait, Shape, TypeOK
<1>3. Cur(g).critical => store'[Key(g)].app = 1
  <2>1. store[Key(g)] \in Hash /\ store'[Key(g)] = Synced(store[Key(g)], seen[g], Cur(g))
    BY <1>1, SameRecord DEF SyncHset, Shape, TypeOK
  <2> QED BY <2>1 DEF Synced, SyncedApp, Hash
<1> QED BY <1>1, <1>2, <1>3, SameRecord DEF Carried

LEMMA CarriedSyncExpire ==
    ASSUME Shape, NEW g \in Gateway, Carried(g), SyncExpire(g)
    PROVE  Carried(g)'
<1>1. pc[g] \in Handling /\ log' = log /\ cur' = cur
  BY DEF SyncExpire, Wait, Handling, Step, kafka
<1>2. pc[g] = "sync_expire" /\ pc'[g] = "enrich"
  BY DEF SyncExpire, Wait, Shape, TypeOK
<1>3. store'[Key(g)].app = store[Key(g)].app
  <2>1. store[Key(g)] \in Hash /\ store'[Key(g)] = WithTtl(store[Key(g)], "full")
    BY <1>1, SameRecord DEF SyncExpire, Shape, TypeOK
  <2> QED BY <2>1 DEF WithTtl, Hash
<1> QED BY <1>1, <1>2, <1>3, SameRecord DEF Carried

LEMMA CarriedSyncEnrich ==
    ASSUME Shape, NEW g \in Gateway, Carried(g), SyncEnrich(g), pc'[g] = "context"
    PROVE  Carried(g)'
<1>1. pc[g] = "enrich" /\ log' = log /\ store' = store
  BY DEF SyncEnrich, kafka
<1>2. cur' = cur
  BY DEF SyncEnrich, Return, Shape, TypeOK
<1>3. pc[g] \in Handling
  BY <1>1 DEF Handling, Step
<1> QED BY <1>1, <1>2, <1>3, SameRecord DEF Carried

LEMMA CarriedReadContext ==
    ASSUME Shape, NEW g \in Gateway, Carried(g), ReadContext(g), pc'[g] = "infer"
    PROVE  Carried(g)'
<1>1. pc[g] = "context" /\ log' = log /\ cur' = cur
  BY DEF ReadContext, kafka
<1>2. seen'[g] = store[Key(g)]
  BY DEF ReadContext, Raise, Shape, TypeOK
<1>3. pc[g] \in Handling
  BY <1>1 DEF Handling, Step
<1> QED BY <1>1, <1>2, <1>3, SameRecord DEF Carried

\* The flag comes back as the weight the mapper gives an active malicious app.
LEMMA CarriedInfer ==
    ASSUME Detectable, Shape, NEW g \in Gateway, Carried(g), Infer(g), pc'[g] = "publish_score"
    PROVE  Carried(g)'
<1>1. pc[g] = "infer" /\ log' = log /\ cur' = cur
  BY DEF Infer, kafka
<1>2. PICK ml \in MLScore :
        verdict'[g].flag = FdsFlag(ToScoringRequest(Cur(g), seen[g]), Clamp(ml))
  <2>1. \E ml \in MLScore :
           \/ verdict' = [verdict EXCEPT ![g] =
                 [score |-> FdsScore(ToScoringRequest(Cur(g), seen[g]), Clamp(ml)),
                  flag |-> FdsFlag(ToScoringRequest(Cur(g), seen[g]), Clamp(ml))]]
           \/ Raise(g)
    BY Zenon DEF Infer
  <2>2. ~Raise(g)
    BY DEF Raise, Shape, TypeOK
  <2> QED BY <2>1, <2>2 DEF Shape, TypeOK
<1>3. seen[g].app = 1 => CriticalOverride(ToScoringRequest(Cur(g), seen[g]))
  BY ThresholdsAssumption DEF Detectable, CriticalOverride, ToScoringRequest
<1>4. pc[g] \in Handling
  BY <1>1 DEF Handling, Step
<1> QED BY <1>1, <1>2, <1>3, <1>4, SameRecord DEF Carried, FdsFlag

LEMMA CarriedPublishScore ==
    ASSUME Shape, NEW g \in Gateway, Carried(g), PublishScore(g)
    PROVE  Carried(g)'
<1>1. pc[g] \in Handling /\ log' = log /\ cur' = cur
  BY DEF PublishScore, Wait, Handling, Step, kafka
<1>2. pc[g] = "publish_score" /\ pc'[g] = "publish_action" /\ verdict' = verdict
  BY DEF PublishScore, Wait, Shape, TypeOK
<1> QED BY <1>1, <1>2, SameRecord DEF Carried

\* A worker that may have lost the flag had lost it before, for the same record.
LEMMA CarriedWorker ==
    ASSUME Detectable, Shape, NEW g \in Gateway, Work(g) \/ CallFault(g) \/ Process(g),
           ~Carried(g)'
    PROVE  ~Carried(g) /\ cur'[g] = cur[g]
<1>0. pc'[g] \in Carrying
  BY CarriesNothing
<1>1. CASE SyncHset(g) \/ SyncExpire(g) \/ PublishScore(g)
  BY <1>1, CarriedSyncHset, CarriedSyncExpire, CarriedPublishScore
  DEF SyncHset, SyncExpire, PublishScore
<1>2. CASE SyncEnrich(g)
  <2>1. pc'[g] = "context" /\ cur' = cur
    BY <1>0, <1>2 DEF SyncEnrich, Return, Carrying, Shape, TypeOK
  <2> QED BY <1>2, <2>1, CarriedSyncEnrich
<1>3. CASE ReadContext(g)
  <2>1. pc'[g] = "infer" /\ cur' = cur
    BY <1>0, <1>3 DEF ReadContext, Raise, Carrying, Shape, TypeOK
  <2> QED BY <1>3, <2>1, CarriedReadContext
<1>4. CASE Infer(g)
  <2>1. pc'[g] = "publish_score" /\ cur' = cur
    BY <1>0, <1>4 DEF Infer, Raise, Carrying, Shape, TypeOK
  <2> QED BY <1>4, <2>1, CarriedInfer
<1>5. CASE KafkaLostAck(g)
  <2>1. UNCHANGED <<log, worker, store>>
    BY <1>5 DEF KafkaLostAck, kafka, redis
  <2> QED BY <2>1, LogSame, CarriedKept DEF worker
<1>6. ASSUME NEW p \in Partition, Fetch(g, p) \/ FetchUndecodable(g, p) PROVE FALSE
  BY <1>0, <1>6 DEF Fetch, FetchUndecodable, Handed, FirstStep, Carrying, Shape, TypeOK
<1>7. ~\/ SyncRead(g) \/ PublishAction(g) \/ SendAlertWebhook(g) \/ PublishDlq(g)
       \/ FinHset(g) \/ FinExpire(g) \/ FinEnrich(g)
       \/ RedisFault(g) \/ TritonFault(g) \/ KafkaFault(g) \/ Process(g)
  BY <1>0 DEF SyncRead, PublishAction, SendAlertWebhook, PublishDlq, FinHset, FinExpire, FinEnrich,
     RedisFault, TritonFault, KafkaFault, Process, Crash, Stop, Start, Gone, Return, Raise, Die,
     Wait, Carrying, Shape, TypeOK
<1> QED BY <1>1, <1>2, <1>3, <1>4, <1>5, <1>6, <1>7 DEF Work, CallFault

\* Only the action send adds to the topic, and it sends BLOCK for a flag that
\* has been carried all the way.
LEMMA SentWorker ==
    ASSUME NEW g \in Gateway, Work(g) \/ CallFault(g) \/ Process(g)
    PROVE  \/ actions' = actions
           \/ pc[g] = "publish_action" /\ actions' = Append(actions, ActionOf(g))
<1>1. CASE Work(g)
  BY <1>1 DEF Work, Fetch, FetchUndecodable, SyncRead, SyncHset, SyncExpire, SyncEnrich,
     ReadContext, Infer, PublishScore, PublishAction, SendAlertWebhook, PublishDlq, FinHset,
     FinExpire, FinEnrich, topics
<1>2. CASE CallFault(g)
  BY <1>2 DEF CallFault, RedisFault, TritonFault, KafkaFault, KafkaLostAck, topics
<1>3. CASE Process(g)
  BY <1>3 DEF Process, Crash, Stop, Start, Gone, topics
<1> QED BY <1>1, <1>2, <1>3

LEMMA SoftenedKept ==
    ASSUME ActionsRelayed, LogGrows, actions' = actions
    PROVE  ActionsRelayed' /\ Softened' \subseteq Softened
<1>1. ActionsRelayed'
  BY DEF ActionsRelayed, LogGrows
<1>2. Softened' \subseteq Softened
  <2> SUFFICES ASSUME NEW r \in Softened' PROVE r \in Softened
    OBVIOUS
  <2>1. PICK i \in DOMAIN actions : actions[i].ref = r /\ actions[i].action # "BLOCK"
    BY DEF Softened
  <2>2. r \in Relayed
    BY <2>1 DEF ActionsRelayed
  <2> QED BY <2>1, <2>2 DEF Softened, LogGrows
<1> QED BY <1>1, <1>2

LEMMA SoftenedSent ==
    ASSUME Shape, ActionsRelayed, NEW g \in Gateway, log' = log,
           pc[g] = "publish_action", actions' = Append(actions, ActionOf(g))
    PROVE  ActionsRelayed' /\ Softened' \subseteq Unsafe
<1>1. cur[g] \in Relayed /\ ActionOf(g) \in ActionMsg /\ actions \in Seq(ActionMsg)
  BY InHand, ActionOfType DEF Resting, Shape, TypeOK
<1>2. /\ \A i \in DOMAIN actions : actions'[i] = actions[i]
      /\ \A i \in DOMAIN actions' : i \in DOMAIN actions \/ actions'[i] = ActionOf(g)
  BY <1>1, AppendGrows DEF Grows
<1>3. ActionOf(g).ref = cur[g]
  BY DEF ActionOf
<1>4. Relayed' = Relayed /\ \A r \in Relayed : EventAt(r)' = EventAt(r)
  BY DEF Relayed, EventAt
<1>5. ActionsRelayed'
  BY <1>1, <1>2, <1>3, <1>4 DEF ActionsRelayed
<1>6. Softened' \subseteq Unsafe
  <2> SUFFICES ASSUME NEW r \in Softened' PROVE r \in Unsafe
    OBVIOUS
  <2>1. PICK i \in DOMAIN actions' : actions'[i].ref = r /\ actions'[i].action # "BLOCK"
    BY DEF Softened
  <2>2. r \in Relayed /\ EventAt(r).critical
    BY <1>4 DEF Softened
  <2>3. CASE i \in DOMAIN actions
    BY <1>2, <2>1, <2>2, <2>3 DEF Softened, Unsafe
  <2>4. CASE actions'[i] = ActionOf(g)
    <3>1. r = cur[g] /\ verdict[g].flag # "CRITICAL"
      BY <1>3, <2>1, <2>4 DEF ActionOf, RuleAction
    <3>2. ~Carried(g)
      BY <2>2, <3>1 DEF Carried, Cur
    <3> QED BY <3>1, <3>2 DEF Unsafe
  <2> QED BY <1>2, <2>1, <2>3, <2>4
<1> QED BY <1>5, <1>6

LEMMA UnsafeWorker ==
    ASSUME Detectable, OneGateway, Shape, ActionsRelayed, NEW g \in Gateway,
           Work(g) \/ CallFault(g) \/ Process(g)
    PROVE  ActionsRelayed' /\ Unsafe' \subseteq Unsafe
<1>1. log' = log
  BY UpsertingWorker
<1>2. ActionsRelayed' /\ Softened' \subseteq Unsafe
  BY <1>1, SentWorker, SoftenedSent, SoftenedKept, LogSame DEF Unsafe
<1>3. \A h \in Gateway : ~Carried(h)' => ~Carried(h) /\ cur'[h] = cur[h]
  BY CarriedWorker DEF OneGateway
<1> QED BY <1>2, <1>3 DEF Unsafe

\* Where no worker acts and the flags in the hashes stay.
LEMMA UnsafeStand ==
    ASSUME Shape, ActionsRelayed, LogGrows, actions' = actions, UNCHANGED worker,
           \A e \in Entity : store'[e].app = store[e].app
    PROVE  ActionsRelayed' /\ Unsafe' \subseteq Unsafe
<1>1. ActionsRelayed' /\ Softened' \subseteq Softened
  BY SoftenedKept
<1>2. \A h \in Gateway : ~Carried(h)' => ~Carried(h) /\ cur'[h] = cur[h]
  BY CarriedKept DEF worker
<1> QED BY <1>1, <1>2 DEF Unsafe

\* An expiry or a PUT may take the flag of the record in hand, of no other.
LEMMA UnsafeDisturbed ==
    ASSUME OneGateway, Shape, ActionsRelayed, Disturbs
    PROVE  ActionsRelayed' /\ \E x : Unsafe' \subseteq Unsafe \union {x}
<1>1. UNCHANGED <<log, actions, worker>>
  BY DEF Disturbs, Expire, UpsertHset, kafka, topics
<1>2. ActionsRelayed' /\ Softened' \subseteq Softened
  BY <1>1, LogSame, SoftenedKept
<1>3. \E x : \A h \in Gateway : cur'[h] = x
  BY DEF OneGateway
<1> QED BY <1>2, <1>3 DEF Unsafe

LEMMA DisturbCosts ==
    ASSUME Shape
    PROVE  /\ fault["expiry"] + fault["upsert"] \in Nat
           /\ Disturbs => fault'["expiry"] + fault'["upsert"] = fault["expiry"] + fault["upsert"] + 1
<1>1. fault \in [FaultKind -> Nat] /\ {"expiry", "upsert"} \subseteq FaultKind
  BY DEF Shape, TypeOK, FaultKind
<1>2. ASSUME Disturbs PROVE \E k \in {"expiry", "upsert"} : fault' = [fault EXCEPT ![k] = @ + 1]
  BY <1>2 DEF Disturbs, Expire, UpsertHset, Spend
<1> QED BY <1>1, <1>2

LEMMA BlockInvNext ==
    ASSUME Detectable, OneGateway, Shape, Shape', BlockInv, [Next]_vars
    PROVE  BlockInv'
<1> DEFINE n == fault["expiry"] + fault["upsert"]
<1>0. n \in Nat /\ ActionsRelayed /\ IsFiniteSet(Unsafe) /\ Cardinality(Unsafe) <= n
  BY DisturbCosts DEF BlockInv
<1>1. CASE Disturbs
  <2>1. n' = n + 1
    BY <1>1, DisturbCosts
  <2>2. ActionsRelayed' /\ \E x : Unsafe' \subseteq Unsafe \union {x}
    BY <1>0, <1>1, UnsafeDisturbed
  <2>3. IsFiniteSet(Unsafe') /\ Cardinality(Unsafe') <= n + 1
    <3> HIDE DEF n
    <3> QED BY <1>0, <2>2, CountAdds
  <2> QED BY <2>1, <2>2, <2>3 DEF BlockInv
<1>2. CASE ~Disturbs
  <2>1. n' = n
    BY <1>2, FaultStep DEF CalmFaults
  <2>2. ActionsRelayed' /\ Unsafe' \subseteq Unsafe
    <3>1. ASSUME NEW ev \in Event, Relay(ev) PROVE ActionsRelayed' /\ Unsafe' \subseteq Unsafe
      <4>1. LogGrows
        BY <3>1, RelayGrows
      <4> QED BY <1>0, <3>1, <4>1, UnsafeStand DEF Relay, redis, topics
    <3>2. CASE Group
      <4>1. UNCHANGED <<log, worker, redis, topics>>
        BY <3>2 DEF Group, Assign, AutoCommit, Revoke
      <4> QED BY <1>0, <4>1, LogSame, UnsafeStand DEF redis, topics
    <3>3. ASSUME NEW g \in Gateway, Work(g) \/ CallFault(g) \/ Process(g)
          PROVE  ActionsRelayed' /\ Unsafe' \subseteq Unsafe
      BY <1>0, <3>3, UnsafeWorker
    <3>4. CASE StoreWriter
      <4>1. PICK e \in Entity : UpsertExpire(e)
        BY <1>2, <3>4 DEF StoreWriter, Disturbs
      <4>2. \A f \in Entity : store'[f].app = store[f].app
        <5>1. store[e] \in Hash /\ store \in [Entity -> Hash]
          BY DEF Shape, TypeOK
        <5>2. \A ttl \in Ttl : WithTtl(store[e], ttl).app = store[e].app
          BY <5>1 DEF WithTtl, Hash
        <5>3. \/ store' = store
              \/ store' = [store EXCEPT ![e] = WithTtl(store[e], "full")]
          BY <4>1 DEF UpsertExpire
        <5> QED BY <5>1, <5>2, <5>3 DEF Ttl
      <4>3. UNCHANGED <<log, actions, worker>>
        BY <4>1 DEF UpsertExpire, kafka, topics
      <4> QED BY <1>0, <4>2, <4>3, LogSame, UnsafeStand
    <3>5. CASE UNCHANGED vars
      BY <1>0, <3>5, LogSame, UnsafeStand DEF vars, kafka, redis, topics
    <3> QED BY <3>1, <3>2, <3>3, <3>4, <3>5 DEF Next
  <2>3. IsFiniteSet(Unsafe') /\ Cardinality(Unsafe') <= n
    <3> HIDE DEF n
    <3> QED BY <1>0, <2>2, CountShrinks
  <2> QED BY <2>1, <2>2, <2>3 DEF BlockInv
<1> QED BY <1>1, <1>2

LEMMA BlockInvInit == Init => BlockInv
<1> SUFFICES ASSUME Init PROVE BlockInv
  OBVIOUS
<1>1. Unsafe = {} /\ ActionsRelayed
  BY DEF Init, Unsafe, Softened, Carried, ActionsRelayed
<1>2. fault["expiry"] = 0 /\ fault["upsert"] = 0
  BY DEF Init, FaultKind
<1> QED BY <1>1, <1>2, FS_EmptySet DEF BlockInv

LEMMA InvariantBlocks ==
    ASSUME OneGateway, Shape, BlockInv
    PROVE  Cardinality(Softened) <= fault["expiry"] + fault["upsert"]
<1> DEFINE n == fault["expiry"] + fault["upsert"]
<1>1. n \in Nat /\ IsFiniteSet(Unsafe) /\ Cardinality(Unsafe) <= n
  BY DisturbCosts DEF BlockInv
<1>2. Softened \subseteq Unsafe
  BY DEF Unsafe
<1> HIDE DEF n
<1>3. Cardinality(Softened) <= n
  BY <1>1, <1>2, CountShrinks
<1> QED BY <1>3 DEF n

\* The flag the relay sets reaches the decision through Redis alone.  With one
\* gateway each expiry and each PUT takes it from the one record in hand and
\* from no later one, whatever calls fail, records are replayed or processes
\* die in between, provided the app weight threshold does not exceed the 0.92
\* the mapper derives from the flag.
THEOREM CriticalIsBlocked ==
    ASSUME Detectable
    PROVE  Spec => []CriticalBlocked
<1>1. CASE OneGateway
  <2>1. Init => Shape /\ BlockInv
    BY ShapeInit, BlockInvInit
  <2>2. (Shape /\ BlockInv) /\ [Next]_vars => (Shape /\ BlockInv)'
    BY <1>1, ShapeNext, BlockInvNext
  <2>3. Shape /\ BlockInv => CriticalBlocked
    BY <1>1, InvariantBlocks DEF CriticalBlocked
  <2> QED BY <2>1, <2>2, <2>3, PTL DEF Spec
<1>2. CASE ~OneGateway
  <2>1. CriticalBlocked
    BY <1>2 DEF CriticalBlocked, OneGateway
  <2> QED BY <2>1, PTL
<1> QED BY <1>1, <1>2

-------------------------------------------------------------------------------
(* The hashes implement the abstract store *)

LEMMA StoreInit == Init => Store!Init
BY DEF Init, Store!Init, Store!Entity, Entity, Missing

LEMMA StoreSame ==
    ASSUME store' = store
    PROVE  UNCHANGED Store!vars
BY DEF Store!vars

\* A change of TTLs alone is invisible.
LEMMA StoreTtl ==
    ASSUME Shape, NEW g \in Gateway, NEW ttl \in Ttl,
           store' = [store EXCEPT ![Key(g)] = WithTtl(@, ttl)]
    PROVE  UNCHANGED Store!vars
<1>1. \A e \in Entity : store[e] \in Hash /\ store'[e] \in {store[e], WithTtl(store[e], ttl)}
  BY DEF Shape, TypeOK
<1>2. \A e \in Entity : /\ store'[e].live = store[e].live /\ store'[e].kw = store[e].kw
                        /\ store'[e].app = store[e].app /\ store'[e].sum = store[e].sum
  BY <1>1 DEF WithTtl, Hash
<1> QED BY <1>2 DEF Store!vars

LEMMA StoreSync ==
    ASSUME Shape, NEW g \in Gateway, Holds(g), SyncHset(g)
    PROVE  Store!Next
<1> DEFINE k == Key(g)
<1>0. PICK ev \in Event : ev = Cur(g)
  BY InHand DEF SyncHset, Wait, Resting
<1>1. pc[g] = "sync_hset" /\ k \in Entity /\ ev \in FdsEvent
      /\ k # None
  BY <1>0, InHand DEF SyncHset, Wait, Handling, Resting, Step, Shape, ControlOK, Key
<1>2. store \in [Entity -> Hash] /\ store' = [store EXCEPT ![k] = Synced(store[k], store[k], ev)]
  BY <1>0, <1>1 DEF SyncHset, Holds, Shape, TypeOK
<1>3. \A e \in Entity : e # k => store'[e] = store[e]
  BY <1>2
<1>4. /\ store'[k].live
      /\ store'[k].kw = store[k].kw + ev.hits
      /\ store'[k].app = IF ev.critical \/ ev.appActive THEN 1 ELSE store[k].app
      /\ store'[k].sum = SyncedSum(store[k], ev)
  BY <1>1, <1>2 DEF Synced, SyncedKw, SyncedApp, Hash
<1>5. k = Store!EntityKey(ev) /\ k # None
  BY <1>0, <1>1 DEF Store!EntityKey, EntityKey, Key
<1>6. {e \in Entity : store'[e].live} = {e \in Entity : store[e].live} \union {k}
  BY <1>1, <1>3, <1>4
<1>7. [e \in Entity |-> store'[e].kw]
        = [[e \in Entity |-> store[e].kw] EXCEPT ![k] = @ + ev.hits]
  BY <1>1, <1>3, <1>4
<1>8. [e \in Entity |-> store'[e].app]
        = IF ev.critical \/ ev.appActive THEN [[e \in Entity |-> store[e].app] EXCEPT ![k] = 1]
          ELSE [e \in Entity |-> store[e].app]
  BY <1>1, <1>3, <1>4
<1>9. [e \in Entity |-> store'[e].sum]
        = [[e \in Entity |-> store[e].sum] EXCEPT ![k] = SyncedSum(store[k], ev)]
  BY <1>1, <1>3, <1>4
<1>10. [e \in Entity |-> store'[e].sum]
         = CASE ev.sum # "absent" -> [[e \in Entity |-> store[e].sum] EXCEPT ![k] = ev.sum]
             [] ev.sum = "absent" /\ [e \in Entity |-> store[e].sum][k] = "absent" ->
                  [[e \in Entity |-> store[e].sum] EXCEPT ![k] = "number"]
             [] OTHER -> [e \in Entity |-> store[e].sum]
  BY <1>1, <1>9 DEF SyncedSum
<1>11. Store!Sync(ev)
  BY <1>1, <1>5, <1>6, <1>7, <1>8, <1>10 DEF Store!Sync
<1> QED BY <1>11 DEF Store!Next

LEMMA StoreFinalize ==
    ASSUME Shape, NEW g \in Gateway, FinHset(g)
    PROVE  Store!Next
<1> DEFINE k == Key(g)
<1>0. PICK ev \in Event : ev = Cur(g)
  BY InHand DEF FinHset, Wait, Resting
<1>1. k \in Entity /\ k # None
  BY InHand DEF FinHset, Wait, Handling, Resting, Step, Shape, ControlOK, Key
<1>2. store \in [Entity -> Hash] /\ store' = [store EXCEPT ![k] = Finalized(store[k])]
  BY DEF FinHset, Shape, TypeOK
<1>3. \A e \in Entity : /\ store'[e].live <=> store[e].live \/ e = k
                        /\ store'[e].kw = store[e].kw /\ store'[e].app = store[e].app
                        /\ store'[e].sum = store[e].sum
  BY <1>1, <1>2 DEF Finalized, Hash
<1>4. k = Store!EntityKey(ev)
  BY <1>0 DEF Store!EntityKey, EntityKey, Key
<1>5. {e \in Entity : store'[e].live} = {e \in Entity : store[e].live} \union {k}
  BY <1>1, <1>3
<1>6. Store!Finalize(ev)
  BY <1>1, <1>3, <1>4, <1>5 DEF Store!Finalize
<1> QED BY <1>6 DEF Store!Next

LEMMA StoreStep ==
    ASSUME Shape, SingleWriter, Undisturbed, ~Disturbs, [Next]_vars
    PROVE  [Store!Next]_(Store!vars)
<1>1. ASSUME NEW g \in Gateway, SyncHset(g) PROVE Store!Next
  BY <1>1, StoreSync DEF Undisturbed
<1>2. ASSUME NEW g \in Gateway, FinHset(g) PROVE Store!Next
  BY <1>2, StoreFinalize
<1>3. ASSUME NEW g \in Gateway, SyncExpire(g) \/ FinExpire(g) PROVE UNCHANGED Store!vars
  BY <1>3, StoreTtl DEF SyncExpire, FinExpire, Ttl
<1>4. ASSUME NEW g \in Gateway, Work(g),
             ~SyncHset(g), ~FinHset(g), ~SyncExpire(g), ~FinExpire(g)
      PROVE  store' = store
  BY <1>4 DEF Work, Fetch, FetchUndecodable, SyncRead, SyncEnrich, ReadContext, Infer,
     PublishScore, PublishAction, SendAlertWebhook, PublishDlq, FinEnrich, redis
<1>5. ASSUME NEW g \in Gateway, CallFault(g) \/ Process(g)
      PROVE  store' = store \/ UNCHANGED Store!vars
  <2>1. CASE RedisFault(g)
    <3>1. ASSUME NEW ttl \in {"full", "end"}, store' = [store EXCEPT ![Key(g)] = WithTtl(@, ttl)]
          PROVE  UNCHANGED Store!vars
      BY <3>1, StoreTtl DEF Ttl
    <3> QED BY <2>1, <3>1 DEF RedisFault
  <2>2. CASE TritonFault(g) \/ KafkaFault(g) \/ KafkaLostAck(g) \/ Process(g)
    BY <2>2 DEF TritonFault, KafkaFault, KafkaLostAck, Process, Crash, Stop, Start, Gone, redis
  <2> QED BY <1>5, <2>1, <2>2 DEF CallFault
<1>6. ASSUME NEW ev \in Event, Relay(ev) PROVE store' = store
  BY <1>6 DEF Relay, redis
<1>7. ASSUME Group PROVE store' = store
  BY <1>7 DEF Group, Assign, AutoCommit, Revoke, redis
<1>8. ASSUME StoreWriter PROVE store' = store
  BY <1>8 DEF StoreWriter, UpsertExpire, Disturbs, Undisturbed
<1>9. ASSUME UNCHANGED vars PROVE store' = store
  BY <1>9 DEF vars, redis
<1>10. ASSUME NEW g \in Gateway, Work(g) PROVE Store!Next \/ UNCHANGED Store!vars
  <2>1. CASE SyncHset(g)
    BY <1>1, <2>1
  <2>2. CASE FinHset(g)
    BY <1>2, <2>2
  <2>3. CASE SyncExpire(g) \/ FinExpire(g)
    BY <1>3, <2>3
  <2>4. CASE ~SyncHset(g) /\ ~FinHset(g) /\ ~SyncExpire(g) /\ ~FinExpire(g)
    <3>1. store' = store
      BY <1>4, <1>10, <2>4
    <3> QED BY <3>1, StoreSame
  <2> QED BY <2>1, <2>2, <2>3, <2>4
<1>11. CASE store' = store
  BY <1>11, StoreSame
<1> QED
  <2>1. \/ store' = store \/ UNCHANGED Store!vars
        \/ \E g \in Gateway : Work(g)
    BY <1>5, <1>6, <1>7, <1>8, <1>9 DEF Next
  <2> QED BY <1>10, <1>11, <2>1

\* One gateway that nobody disturbs: although an event is folded into its hash
\* by separate commands, any of which may fail, and although any record may be
\* handed out again, every step is one whole event folded in once, or nothing.
THEOREM AtomicStore ==
    ASSUME OneWriter
    PROVE  Spec => StoreIsAtomic
<1>1. Init => Shape /\ SingleWriter /\ WriterInv /\ Store!Init
  BY ShapeInit, WriterInvInit, StoreInit
  DEF Init, SingleWriter, OneWriter, OneGateway, FaultKind
<1>2. (Shape /\ SingleWriter /\ WriterInv) /\ [Next]_vars => (Shape /\ SingleWriter /\ WriterInv)'
  BY ShapeNext, WriterAfter, WriterInvNext
<1>3. Shape /\ SingleWriter /\ WriterInv /\ (SingleWriter)' /\ Shape' /\ [Next]_vars
        => [Store!Next]_(Store!vars)
  BY WriterBefore, StoreStep DEF WriterInv
<1> QED BY <1>1, <1>2, <1>3, PTL DEF Spec, StoreIsAtomic, Store!Spec
===============================================================================
