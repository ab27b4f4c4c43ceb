----------------------------- MODULE DeliveryProofs -----------------------------
(***************************************************************************)
(* What crashes, stops, rebalances and failed calls can do to deliveries,  *)
(* counted, for every set of gateways, partitions, events and every fault  *)
(* budget: hashes left without a TTL, urgent events lost, actions sent     *)
(* again, session hashes left behind; and no keyword hit is lost.          *)
(***************************************************************************)
EXTENDS FeatureStoreProofs, WellFoundedInduction

-------------------------------------------------------------------------------
(* Faults are counted *)

LEMMA SpendCounts ==
    ASSUME Shape, NEW k \in FaultKind, Spend(k)
    PROVE  fault'[k] = fault[k] + 1 /\ \A j \in FaultKind \ {k} : fault'[j] = fault[j]
BY DEF Spend, Shape, TypeOK

FaultsGrown == \A k \in FaultKind : fault[k] <= fault'[k]

LEMMA SpendGrows ==
    ASSUME Shape, NEW k \in FaultKind, Spend(k)
    PROVE  FaultsGrown
<1>1. fault'[k] = fault[k] + 1 /\ \A j \in FaultKind \ {k} : fault'[j] = fault[j]
  BY SpendCounts
<1>2. \A j \in FaultKind : fault[j] \in Nat
  BY DEF Shape, TypeOK
<1> QED BY <1>1, <1>2 DEF FaultsGrown

LEMMA SameFaults ==
    ASSUME Shape, fault' = fault
    PROVE  FaultsGrown
BY DEF FaultsGrown, Shape, TypeOK

LEMMA FaultsGrow ==
    ASSUME Shape, [Next]_vars
    PROVE  FaultsGrown
<1>0. \A k \in FaultKind : Spend(k) => FaultsGrown
  BY SpendGrows
<1>1. ASSUME NEW ev \in Event, Relay(ev) PROVE FaultsGrown
  BY <1>1, SameFaults DEF Relay, history
<1>2. CASE Group
  BY <1>0, <1>2, SameFaults DEF Group, Assign, AutoCommit, Revoke, history, FaultKind
<1>3. ASSUME NEW g \in Gateway, Work(g) PROVE FaultsGrown
  BY <1>3, WorkCalm, SameFaults
<1>4. ASSUME NEW g \in Gateway, CallFault(g) PROVE FaultsGrown
  BY <1>0, <1>4 DEF CallFault, RedisFault, TritonFault, KafkaFault, KafkaLostAck, FaultKind
<1>5. ASSUME NEW g \in Gateway, Process(g) PROVE FaultsGrown
  BY <1>0, <1>5, SameFaults DEF Process, Crash, Stop, Start, history, FaultKind
<1>6. CASE StoreWriter
  BY <1>0, <1>6, SameFaults DEF StoreWriter, Expire, UpsertHset, UpsertExpire, history, FaultKind
<1>7. CASE UNCHANGED vars
  BY <1>7, SameFaults DEF vars, history
<1> QED BY <1>1, <1>2, <1>3, <1>4, <1>5, <1>6, <1>7 DEF Next

-------------------------------------------------------------------------------
(* A hash without a TTL is about to get one, or has been paid for *)

Expiring == {"sync_expire", "fin_expire"}

\* What can come between HSET and EXPIRE.
Costly == {"crash", "stop", "redis", "upsert"}
Cost == fault["crash"] + fault["stop"] + fault["redis"] + fault["upsert"]

UndyingOK == IsFiniteSet(Undying) /\ Cardinality(Undying) <= Cost

LEMMA CostGrows ==
    ASSUME Shape, Shape', [Next]_vars
    PROVE  Cost \in Nat /\ Cost' \in Nat /\ Cost <= Cost'
<1>1. FaultsGrown
  BY FaultsGrow
<1>2. \A k \in Costly : fault[k] \in Nat /\ fault'[k] \in Nat /\ fault[k] <= fault'[k]
  BY <1>1 DEF Shape, TypeOK, FaultsGrown, FaultKind, Costly
<1> QED BY <1>2 DEF Cost, Costly

LEMMA CostPaid ==
    ASSUME Shape, NEW k \in Costly, Spend(k)
    PROVE  Cost' = Cost + 1
<1>1. fault'[k] = fault[k] + 1 /\ \A j \in FaultKind \ {k} : fault'[j] = fault[j]
  BY SpendCounts DEF FaultKind, Costly
<1>2. \A j \in FaultKind : fault[j] \in Nat
  BY DEF Shape, TypeOK
<1> QED BY <1>1, <1>2 DEF Cost, Costly, FaultKind

\* A step that makes no hash outside X immortal and lets no worker drop the
\* EXPIRE of one.
LEMMA UndyingBut ==
    ASSUME Shape, LogGrows, NEW X,
           \A e \in Entity \ X :
              store'[e].live /\ store'[e].ttl = "none" =>
                 \/ store[e].live /\ store[e].ttl = "none"
                 \/ \E g \in Gateway : (pc[g] \in Expiring /\ Key(g) = e)',
           \A h \in Gateway :
              pc[h] \in Expiring /\ Key(h) \notin X => pc'[h] = pc[h] /\ cur'[h] = cur[h]
    PROVE  Undying' \subseteq Undying \union X
<1> SUFFICES ASSUME NEW e \in Undying', e \notin X PROVE e \in Undying
  OBVIOUS
<1>1. /\ e \in Entity /\ store'[e].live /\ store'[e].ttl = "none"
      /\ \A g \in Gateway : ~(pc[g] \in Expiring /\ Key(g) = e)'
  BY DEF Undying, Expiring
<1>2. store[e].live /\ store[e].ttl = "none"
  BY <1>1
<1>3. ASSUME NEW g \in Gateway, pc[g] \in Expiring, Key(g) = e PROVE FALSE
  <2>1. pc'[g] = pc[g] /\ cur'[g] = cur[g]
    BY <1>3
  <2>2. cur[g] \in Relayed
    BY <1>3, InHand DEF Expiring, Resting
  <2>3. Key(g)' = Key(g)
    BY <2>1, <2>2 DEF LogGrows, Key, Cur, EventAt
  <2> QED BY <1>1, <1>3, <2>1, <2>3
<1> QED BY <1>1, <1>2, <1>3 DEF Undying, Expiring

LEMMA UndyingStands ==
    ASSUME Shape, LogGrows, store' = store,
           \A h \in Gateway : pc[h] \in Expiring => pc'[h] = pc[h] /\ cur'[h] = cur[h]
    PROVE  Undying' \subseteq Undying
<1>1. Undying' \subseteq Undying \union {}
  BY UndyingBut
<1> QED BY <1>1

LEMMA UndyingHset ==
    ASSUME Shape, NEW g \in Gateway, SyncHset(g) \/ FinHset(g)
    PROVE  Undying' \subseteq Undying
<1>1. LogGrows /\ cur' = cur /\ log' = log
  BY LogSame DEF SyncHset, FinHset, kafka
<1>2. /\ pc[g] \notin Expiring /\ pc'[g] \in Expiring
      /\ \A h \in Gateway \ {g} : pc'[h] = pc[h]
  BY DEF SyncHset, FinHset, Wait, Expiring, Shape, TypeOK
<1>3. \A e \in Entity \ {Key(g)} : store'[e] = store[e]
  BY DEF SyncHset, FinHset, Shape, TypeOK
<1>4. Key(g)' = Key(g)
  BY <1>1 DEF Key, Cur, EventAt
<1>5. Undying' \subseteq Undying \union {}
  BY <1>1, <1>2, <1>3, <1>4, UndyingBut
<1> QED BY <1>5

\* EXPIRE, whoever sends it, and DEL end the life without a TTL.
LEMMA UndyingExpired ==
    ASSUME Shape, LogGrows, NEW x,
           \A e \in Entity \ {x} : store'[e] = store[e],
           x \in Entity => ~store'[x].live \/ store'[x].ttl # "none",
           \A h \in Gateway :
              pc[h] \in Expiring /\ Key(h) # x => pc'[h] = pc[h] /\ cur'[h] = cur[h]
    PROVE  Undying' \subseteq Undying
<1>1. Undying' \subseteq Undying \union {x}
  BY UndyingBut
<1>2. x \notin Undying'
  BY DEF Undying
<1> QED BY <1>1, <1>2

LEMMA TtlGiven ==
    ASSUME Shape, NEW x \in Entity, NEW ttl \in {"full", "end"},
           store' = [store EXCEPT ![x] = WithTtl(@, ttl)]
    PROVE  /\ ~store'[x].live \/ store'[x].ttl # "none"
           /\ \A e \in Entity \ {x} : store'[e] = store[e]
<1>1. store[x] \in Hash /\ store'[x] = WithTtl(store[x], ttl)
  BY DEF Shape, TypeOK
<1>2. \A e \in Entity \ {x} : store'[e] = store[e]
  BY DEF Shape, TypeOK
<1> QED BY <1>1, <1>2 DEF WithTtl, Hash

LEMMA UndyingWork ==
    ASSUME Shape, NEW g \in Gateway, Work(g)
    PROVE  Undying' \subseteq Undying
<1>1. CASE SyncHset(g) \/ FinHset(g)
  BY <1>1, UndyingHset
<1>2. CASE SyncExpire(g) \/ FinExpire(g)
  <2>1. Key(g) \in Entity
    BY <1>2, InHand DEF SyncExpire, FinExpire, Wait, Resting, Handling, Step
  <2>2. /\ ~store'[Key(g)].live \/ store'[Key(g)].ttl # "none"
        /\ \A e \in Entity \ {Key(g)} : store'[e] = store[e]
    BY <1>2, <2>1, TtlGiven DEF SyncExpire, FinExpire
  <2>3. /\ LogGrows /\ cur' = cur
        /\ \A h \in Gateway \ {g} : pc'[h] = pc[h]
    BY <1>2, LogSame DEF SyncExpire, FinExpire, Wait, kafka, Shape, TypeOK
  <2> QED BY <2>2, <2>3, UndyingExpired
<1>3. CASE \/ \E p \in Partition : Fetch(g, p) \/ FetchUndecodable(g, p)
           \/ SyncRead(g) \/ SyncEnrich(g) \/ ReadContext(g) \/ Infer(g)
           \/ PublishScore(g) \/ PublishAction(g) \/ SendAlertWebhook(g) \/ PublishDlq(g)
           \/ FinEnrich(g)
  <2>1. log' = log /\ store' = store
    BY <1>3 DEF Fetch, FetchUndecodable, SyncRead, SyncEnrich, ReadContext, Infer, PublishScore,
       PublishAction, SendAlertWebhook, PublishDlq, FinEnrich, kafka, redis
  <2>2. pc[g] \notin Expiring
    BY <1>3 DEF Fetch, FetchUndecodable, Handed, SyncRead, SyncEnrich, ReadContext, Infer,
       PublishScore, PublishAction, SendAlertWebhook, PublishDlq, FinEnrich, Wait, Expiring
  <2>3. \A h \in Gateway \ {g} : pc'[h] = pc[h] /\ cur'[h] = cur[h]
    BY <1>3 DEF Fetch, FetchUndecodable, SyncRead, SyncEnrich, ReadContext, Infer, PublishScore,
       PublishAction, SendAlertWebhook, PublishDlq, FinEnrich, Wait, Return, Raise, Die, worker,
       Shape, TypeOK
  <2> QED BY <2>1, <2>2, <2>3, LogSame, UndyingStands
<1> QED BY <1>1, <1>2, <1>3 DEF Work

\* A failed call or a lost worker may leave the one hash it was about to EXPIRE.
LEMMA UndyingFault ==
    ASSUME Shape, NEW g \in Gateway, RedisFault(g) \/ Crash(g) \/ Stop(g)
    PROVE  \E k \in Costly : Spend(k) /\ Undying' \subseteq Undying \union {Key(g)}
<1>1. \E k \in Costly : Spend(k)
  BY DEF RedisFault, Crash, Stop, Costly
<1>2. LogGrows /\ \A h \in Gateway \ {g} : pc'[h] = pc[h] /\ cur'[h] = cur[h]
  BY LogSame DEF RedisFault, Crash, Stop, Gone, Raise, kafka, Shape, TypeOK
<1>3. \A e \in Entity \ {Key(g)} : store'[e] = store[e]
  BY DEF RedisFault, Crash, Stop, Gone, redis, Shape, TypeOK
<1>4. Undying' \subseteq Undying \union {Key(g)}
  BY <1>2, <1>3, UndyingBut
<1> QED BY <1>1, <1>4

LEMMA UndyingWriter ==
    ASSUME Shape, NEW x \in Entity, Expire(x) \/ UpsertHset(x) \/ UpsertExpire(x)
    PROVE  \/ Undying' \subseteq Undying
           \/ Spend("upsert") /\ Undying' \subseteq Undying \union {x}
<1>1. LogGrows /\ worker' = worker
  BY LogSame DEF Expire, UpsertHset, UpsertExpire, kafka
<1>2. \A e \in Entity \ {x} : store'[e] = store[e]
  BY DEF Expire, UpsertHset, UpsertExpire, Shape, TypeOK
<1>3. CASE UpsertHset(x)
  <2>1. Undying' \subseteq Undying \union {x}
    BY <1>1, <1>2, UndyingBut DEF worker
  <2> QED BY <1>3, <2>1 DEF UpsertHset
<1>4. CASE Expire(x)
  <2>1. ~store'[x].live
    BY <1>4 DEF Expire, Missing, Shape, TypeOK
  <2> QED BY <1>1, <1>2, <2>1, UndyingExpired DEF worker
<1>5. CASE UpsertExpire(x)
  <2>1. CASE store' = store
    BY <1>1, <2>1, UndyingStands DEF worker
  <2>2. CASE store' = [store EXCEPT ![x] = WithTtl(@, "full")]
    BY <1>1, <1>2, <2>2, TtlGiven, UndyingExpired DEF worker
  <2> QED BY <1>5, <2>1, <2>2 DEF UpsertExpire
<1> QED BY <1>3, <1>4, <1>5

LEMMA UndyingStep ==
    ASSUME Shape, [Next]_vars
    PROVE  \/ Undying' \subseteq Undying
           \/ \E k \in Costly : \E x : Spend(k) /\ Undying' \subseteq Undying \union {x}
<1>1. ASSUME NEW ev \in Event, Relay(ev) PROVE Undying' \subseteq Undying
  <2>1. LogGrows
    BY <1>1, RelayGrows
  <2> QED BY <1>1, <2>1, UndyingStands DEF Relay, redis, worker
<1>2. CASE Group \/ UNCHANGED vars
  <2>1. UNCHANGED <<log, worker, redis>>
    BY <1>2 DEF Group, Assign, AutoCommit, Revoke, vars, kafka
  <2> QED BY <2>1, LogSame, UndyingStands DEF redis, worker
<1>3. ASSUME NEW g \in Gateway,
             TritonFault(g) \/ KafkaFault(g) \/ KafkaLostAck(g) \/ Start(g)
      PROVE  Undying' \subseteq Undying
  <2>1. log' = log /\ store' = store
    BY <1>3 DEF TritonFault, KafkaFault, KafkaLostAck, Start, kafka, redis
  <2>2. pc[g] \in Expiring => pc'[g] = pc[g] /\ cur'[g] = cur[g]
    BY <1>3 DEF TritonFault, KafkaFault, KafkaLostAck, Start, Expiring, worker
  <2>3. \A h \in Gateway \ {g} : pc'[h] = pc[h] /\ cur'[h] = cur[h]
    BY <1>3 DEF TritonFault, KafkaFault, KafkaLostAck, Start, Raise, Die, worker, Shape, TypeOK
  <2> QED BY <2>1, <2>2, <2>3, LogSame, UndyingStands
<1>4. CASE StoreWriter
  BY <1>4, UndyingWriter DEF StoreWriter, Costly
<1> QED BY <1>1, <1>2, <1>3, <1>4, UndyingWork, UndyingFault DEF Next, CallFault, Process

LEMMA UndyingNext ==
    ASSUME Shape, Shape', UndyingOK, [Next]_vars
    PROVE  UndyingOK'
<1>1. Cost \in Nat /\ Cost' \in Nat /\ Cost <= Cost'
  BY CostGrows
<1>2. CASE Undying' \subseteq Undying
  <2>1. IsFiniteSet(Undying') /\ Cardinality(Undying') \in Nat /\ Cardinality(Undying') <= Cost
    BY <1>1, <1>2, CountShrinks DEF UndyingOK
  <2> QED BY <1>1, <2>1 DEF UndyingOK
<1>3. ASSUME NEW k \in Costly, NEW x, Spend(k), Undying' \subseteq Undying \union {x}
      PROVE  UndyingOK'
  <2>1. IsFiniteSet(Undying') /\ Cardinality(Undying') <= Cost + 1
    BY <1>1, <1>3, CountAdds DEF UndyingOK
  <2>2. Cost' = Cost + 1
    BY <1>3, CostPaid
  <2> QED BY <2>1, <2>2 DEF UndyingOK
<1> QED BY <1>2, <1>3, UndyingStep

LEMMA UndyingInit == Init => UndyingOK
<1> SUFFICES ASSUME Init PROVE UndyingOK
  OBVIOUS
<1>1. Undying = {}
  BY DEF Init, Undying, Missing
<1>2. Cost = 0
  BY DEF Init, Cost, FaultKind
<1> QED BY <1>1, <1>2, FS_EmptySet DEF UndyingOK

\* A hash without a TTL would never be deleted.  Between HSET and EXPIRE there
\* is an await, at which any other worker, a PUT's second half or an expiry may
\* come in.  However they do, each failed Redis call, each lost worker and each
\* PUT leaves at most one hash without a TTL and without a worker that is about
\* to send its EXPIRE.
THEOREM UndyingPaidFor == Spec => []UndyingBounded
<1>1. Init => Shape /\ UndyingOK
  BY ShapeInit, UndyingInit
<1>2. (Shape /\ UndyingOK) /\ [Next]_vars => (Shape /\ UndyingOK)'
  BY ShapeNext, UndyingNext
<1>3. UndyingOK => UndyingBounded
  BY DEF UndyingOK, UndyingBounded, Cost
<1> QED BY <1>1, <1>2, <1>3, PTL DEF Spec

-------------------------------------------------------------------------------
(* Losses *)

Lost == {r \in Ref : outcome[r] = "lost"}

\* What takes a record out of a worker's hand for good.
Deadly == {"crash", "stop", "kafka"}
Deaths == fault["crash"] + fault["stop"] + fault["kafka"]

LossesOK == IsFiniteSet(Lost) /\ Cardinality(Lost) <= Deaths

LEMMA DeathsGrow ==
    ASSUME Shape, Shape', [Next]_vars
    PROVE  Deaths \in Nat /\ Deaths' \in Nat /\ Deaths <= Deaths'
<1>1. FaultsGrown
  BY FaultsGrow
<1>2. \A k \in Deadly : fault[k] \in Nat /\ fault'[k] \in Nat /\ fault[k] <= fault'[k]
  BY <1>1 DEF Shape, TypeOK, FaultsGrown, FaultKind, Deadly
<1> QED BY <1>2 DEF Deaths, Deadly

LEMMA DeathsPaid ==
    ASSUME Shape, NEW k \in Deadly, Spend(k)
    PROVE  Deaths' = Deaths + 1
<1>1. fault'[k] = fault[k] + 1 /\ \A j \in FaultKind \ {k} : fault'[j] = fault[j]
  BY SpendCounts DEF FaultKind, Deadly
<1>2. \A j \in FaultKind : fault[j] \in Nat
  BY DEF Shape, TypeOK
<1> QED BY <1>1, <1>2 DEF Deaths, Deadly, FaultKind

\* Only a process that goes and a failed DLQ send lose a record, and it is the
\* one in hand.
LEMMA LostStep ==
    ASSUME Shape, [Next]_vars
    PROVE  \/ Lost' \subseteq Lost
           \/ \E k \in Deadly : \E x : Spend(k) /\ Lost' \subseteq Lost \union {x}
<1>0. outcome \in [Ref -> Outcome]
  BY DEF Shape, TypeOK
<1>1. CASE (\E ev \in Event : Relay(ev)) \/ StoreWriter \/ UNCHANGED vars
  BY <1>1 DEF Relay, StoreWriter, Expire, UpsertHset, UpsertExpire, vars, history, Lost
<1>2. CASE Group
  <2>1. \A r \in Ref : outcome'[r] = outcome[r] \/ outcome'[r] = "skipped"
    BY <1>2 DEF Group, Assign, AutoCommit, Revoke, history
  <2> QED BY <2>1 DEF Lost
<1>3. ASSUME NEW g \in Gateway, Work(g) PROVE Lost' \subseteq Lost
  <2>1. \A r \in Ref : outcome'[r] = outcome[r] \/ outcome'[r] # "lost"
    BY <1>0, <1>3 DEF Work, Fetch, FetchUndecodable, SyncRead, SyncHset, SyncExpire, SyncEnrich,
       ReadContext, Infer, PublishScore, PublishAction, SendAlertWebhook, PublishDlq, FinHset,
       FinExpire, FinEnrich, Return, Die, history
  <2> QED BY <2>1 DEF Lost
<1>4. ASSUME NEW g \in Gateway, RedisFault(g) \/ TritonFault(g) \/ KafkaLostAck(g) \/ Start(g)
      PROVE  Lost' \subseteq Lost
  BY <1>4 DEF RedisFault, TritonFault, KafkaLostAck, Start, history, Lost
<1>5. ASSUME NEW g \in Gateway, KafkaFault(g) \/ Crash(g) \/ Stop(g)
      PROVE  \E k \in Deadly : Spend(k) /\ Lost' \subseteq Lost \union {cur[g]}
  <2>1. \E k \in Deadly : Spend(k)
    BY <1>5 DEF KafkaFault, Crash, Stop, Deadly
  <2>2. \A r \in Ref : outcome'[r] = outcome[r] \/ r = cur[g]
    BY <1>0, <1>5 DEF KafkaFault, Die, Crash, Stop, Gone
  <2> QED BY <2>1, <2>2 DEF Lost
<1> QED BY <1>1, <1>2, <1>3, <1>4, <1>5 DEF Next, CallFault, Process

LEMMA LossesNext ==
    ASSUME Shape, Shape', LossesOK, [Next]_vars
    PROVE  LossesOK'
<1>1. Deaths \in Nat /\ Deaths' \in Nat /\ Deaths <= Deaths'
  BY DeathsGrow
<1>2. CASE Lost' \subseteq Lost
  <2>1. IsFiniteSet(Lost') /\ Cardinality(Lost') \in Nat /\ Cardinality(Lost') <= Deaths
    BY <1>1, <1>2, CountShrinks DEF LossesOK
  <2> QED BY <1>1, <2>1 DEF LossesOK
<1>3. ASSUME NEW k \in Deadly, NEW x, Spend(k), Lost' \subseteq Lost \union {x}
      PROVE  LossesOK'
  <2>1. IsFiniteSet(Lost') /\ Cardinality(Lost') <= Deaths + 1
    BY <1>1, <1>3, CountAdds DEF LossesOK
  <2>2. Deaths' = Deaths + 1
    BY <1>3, DeathsPaid
  <2> QED BY <2>1, <2>2 DEF LossesOK
<1> QED BY <1>2, <1>3, LostStep

LEMMA LossesInit == Init => LossesOK
<1> SUFFICES ASSUME Init PROVE LossesOK
  OBVIOUS
<1>1. Lost = {}
  BY DEF Init, Lost
<1>2. Deaths = 0
  BY DEF Init, Deaths, FaultKind
<1> QED BY <1>1, <1>2, FS_EmptySet DEF LossesOK

\* With a DLQ, an urgent event that was passed, is in nobody's hand and is
\* neither decided nor dead-lettered is a loss.
LEMMA AbandonedAreLost ==
    ASSUME IInv, DlqEnabled
    PROVE  Abandoned \subseteq Lost
<1> SUFFICES ASSUME NEW r \in Abandoned PROVE outcome[r] = "lost" /\ r \in Ref
  BY DEF Lost
<1>1. r \in Relayed /\ r \in Ref
  BY DEF Abandoned, Relayed
<1>2. outcome[r] # "none"
  BY <1>1 DEF IInv, PassedHasOutcome, Abandoned
<1>3. EscalationDecided
  BY OutcomesDecide
<1> QED BY <1>1, <1>2, <1>3 DEF Abandoned, EscalationDecided

LEMMA LossesBound ==
    ASSUME IInv, LossesOK
    PROVE  LossesBounded
<1> SUFFICES ASSUME DlqEnabled PROVE Cardinality(Abandoned) <= Deaths
  BY DEF LossesBounded, Deaths
<1>1. Deaths \in Nat
  BY DEF IInv, Shape, TypeOK, Deaths, FaultKind
<1> QED BY <1>1, AbandonedAreLost, CountShrinks DEF LossesOK

\* What reaches neither the actions nor the DLQ, although the group has passed
\* it and it is urgent, is what a crash, a stop or a failed DLQ send took out of
\* a worker's hand: one event each, whatever commits, rebalances, replays and
\* failing calls surround them.
THEOREM LossesPaidFor == Spec => []LossesBounded
<1>1. Init => IInv /\ LossesOK
  BY IInvInit, LossesInit
<1>2. (IInv /\ LossesOK) /\ [Next]_vars => (IInv /\ LossesOK)'
  <2> SUFFICES ASSUME IInv, LossesOK, [Next]_vars PROVE IInv' /\ LossesOK'
    OBVIOUS
  <2>1. IInv'
    BY IInvNext
  <2> QED BY <2>1, LossesNext DEF IInv
<1>3. IInv /\ LossesOK => LossesBounded
  BY LossesBound
<1> QED BY <1>1, <1>2, <1>3, PTL DEF Spec

-------------------------------------------------------------------------------
(* One action per delivery *)

\* The places in the handler from which the action may still be sent.
Undecided == {"sync_read", "sync_hset", "sync_expire", "enrich", "context", "infer",
              "publish_score", "publish_action"}

Carriers(r) == {g \in Gateway : cur[g] = r /\ pc[g] \in Undecided}

\* The group has still to hand out r, as things stand.
Due(r) == IF position[r.p] <= r.o THEN 1 ELSE 0

Allowed == 1 + Restarts + fault["kafka"]

\* DuplicatesBounded counts actions that are out.  What is inductive counts
\* those to come too: one for each worker that has the record in hand, and one
\* if the owner's position has not passed it.
Spent(r) == ActionsFor(r) + Cardinality(Carriers(r)) + Due(r)

DeliveredOK == \A r \in Ref : IsFiniteSet(Carriers(r)) /\ Spent(r) <= Allowed

LEMMA CountsType ==
    ASSUME Shape, NEW r \in Ref, IsFiniteSet(Carriers(r))
    PROVE  /\ ActionsFor(r) \in Nat
           /\ Cardinality(Carriers(r)) \in Nat
           /\ Due(r) \in 0..1
           /\ Allowed \in Nat
<1>1. ActionsFor(r) \in Nat
  <2> DEFINE S == {i \in DOMAIN actions : actions[i].ref = r}
  <2>1. DOMAIN actions = 1..Len(actions) /\ Len(actions) \in Nat
    BY DEF Shape, TypeOK
  <2>2. IsFiniteSet(1..Len(actions))
    BY <2>1, FS_Interval
  <2>3. IsFiniteSet(S)
    BY <2>1, <2>2, FS_Subset
  <2>4. Cardinality(S) \in Nat
    BY <2>3, FS_CardinalityType
  <2> QED BY <2>4 DEF ActionsFor
<1>2. Cardinality(Carriers(r)) \in Nat
  BY FS_CardinalityType
<1>3. Allowed \in Nat
  BY DEF Allowed, Restarts, Shape, TypeOK, FaultKind
<1> QED BY <1>1, <1>2, <1>3 DEF Due

LEMMA AllowedGrows ==
    ASSUME Shape, Shape', FaultsGrown
    PROVE  Allowed <= Allowed' /\ Allowed' \in Nat
<1>1. \A k \in FaultKind : fault[k] \in Nat /\ fault'[k] \in Nat /\ fault[k] <= fault'[k]
  BY DEF Shape, TypeOK, FaultsGrown
<1> QED BY <1>1 DEF Allowed, Restarts, FaultKind

\* A fault that is paid for allows one action more.
LEMMA AllowedMore ==
    ASSUME Shape, NEW k \in {"crash", "stop", "rebalance", "kafka"}, Spend(k)
    PROVE  Allowed' = Allowed + 1
<1>1. fault'[k] = fault[k] + 1 /\ \A j \in FaultKind \ {k} : fault'[j] = fault[j]
  BY SpendCounts DEF FaultKind
<1>2. \A j \in FaultKind : fault[j] \in Nat
  BY DEF Shape, TypeOK
<1> QED BY <1>1, <1>2 DEF Allowed, Restarts, FaultKind

\* A worker that no longer has its record in hand, or that is past the action.
LEMMA CarrierLeaves ==
    ASSUME NEW g \in Gateway, pc'[g] \notin Undecided,
           \A h \in Gateway \ {g} : pc'[h] = pc[h] /\ cur'[h] = cur[h],
           NEW r \in Ref
    PROVE  Carriers(r)' = Carriers(r) \ {g}
BY DEF Carriers

LEMMA ActionsAppended ==
    ASSUME Shape, NEW m \in ActionMsg, actions' = Append(actions, m), NEW r \in Ref
    PROVE  ActionsFor(r)' = ActionsFor(r) + (IF r = m.ref THEN 1 ELSE 0)
<1> DEFINE S == {i \in DOMAIN actions : actions[i].ref = r}
           T == {i \in DOMAIN actions' : actions'[i].ref = r}
           n == Len(actions) + 1
<1>1. /\ DOMAIN actions = 1..Len(actions) /\ Len(actions) \in Nat
      /\ DOMAIN actions' = 1..n
      /\ \A i \in DOMAIN actions : actions'[i] = actions[i]
      /\ actions'[n] = m
  BY DEF Shape, TypeOK
<1>2. IsFiniteSet(S)
  <2>1. IsFiniteSet(1..Len(actions))
    BY <1>1, FS_Interval
  <2> QED BY <1>1, <2>1, FS_Subset
<1>3. n \notin S /\ T = IF r = m.ref THEN S \cup {n} ELSE S
  BY <1>1
<1>4. Cardinality(S \cup {n}) = Cardinality(S) + 1 /\ Cardinality(S) \in Nat
  BY <1>2, <1>3, FS_AddElement, FS_CardinalityType
<1>5. ActionsFor(r) = Cardinality(S) /\ ActionsFor(r)' = Cardinality(T)
  BY DEF ActionsFor
<1> HIDE DEF S, T, n
<1>6. CASE r = m.ref
  BY <1>3, <1>4, <1>5, <1>6
<1>7. CASE r # m.ref
  BY <1>3, <1>4, <1>5, <1>7
<1> QED BY <1>6, <1>7

\* No new action, no new carrier, no new delivery.
LEMMA BudgetKept ==
    ASSUME Shape, Shape', DeliveredOK, FaultsGrown, actions' = actions,
           \A h \in Gateway : pc'[h] \in Undecided => pc[h] \in Undecided /\ cur'[h] = cur[h],
           \A r \in Ref : position'[r.p] <= r.o => position[r.p] <= r.o
    PROVE  DeliveredOK'
<1> SUFFICES ASSUME NEW r \in Ref
             PROVE  (IsFiniteSet(Carriers(r)) /\ Spent(r) <= Allowed)'
  BY DEF DeliveredOK
<1>1. IsFiniteSet(Carriers(r)) /\ Spent(r) <= Allowed
  BY DEF DeliveredOK
<1>2. Carriers(r)' \subseteq Carriers(r)
  BY DEF Carriers
<1>3. IsFiniteSet(Carriers(r)') /\ Cardinality(Carriers(r)') <= Cardinality(Carriers(r))
  BY <1>1, <1>2, FS_Subset
<1>4. ActionsFor(r)' = ActionsFor(r)
  BY DEF ActionsFor
<1>5. Due(r)' <= Due(r)
  BY DEF Due
<1>6. Allowed <= Allowed' /\ Allowed' \in Nat
  BY AllowedGrows
<1>7. /\ ActionsFor(r) \in Nat /\ Cardinality(Carriers(r)) \in Nat /\ Due(r) \in 0..1
      /\ Allowed \in Nat
  BY <1>1, CountsType
<1>8. /\ Cardinality(Carriers(r)') \in Nat /\ Due(r)' \in 0..1 /\ Allowed' \in Nat
  BY <1>3, <1>6, FS_CardinalityType DEF Due
<1>9. Spent(r)' = ActionsFor(r)' + Cardinality(Carriers(r)') + Due(r)'
  BY DEF Spent
<1> QED BY <1>1, <1>3, <1>4, <1>5, <1>6, <1>7, <1>8, <1>9 DEF Spent

\* A worker is lost or a partition taken away: it may be handed out once more.
LEMMA BudgetRestart ==
    ASSUME Shape, DeliveredOK, actions' = actions,
           NEW k \in {"crash", "stop", "rebalance"}, Spend(k),
           \A h \in Gateway : pc'[h] \in Undecided => pc[h] \in Undecided /\ cur'[h] = cur[h]
    PROVE  DeliveredOK'
<1> SUFFICES ASSUME NEW r \in Ref
             PROVE  (IsFiniteSet(Carriers(r)) /\ Spent(r) <= Allowed)'
  BY DEF DeliveredOK
<1>1. IsFiniteSet(Carriers(r)) /\ Spent(r) <= Allowed
  BY DEF DeliveredOK
<1>2. Carriers(r)' \subseteq Carriers(r)
  BY DEF Carriers
<1>3. IsFiniteSet(Carriers(r)') /\ Cardinality(Carriers(r)') <= Cardinality(Carriers(r))
  BY <1>1, <1>2, FS_Subset
<1>4. ActionsFor(r)' = ActionsFor(r)
  BY DEF ActionsFor
<1>5. Allowed' = Allowed + 1
  BY AllowedMore
<1>6. /\ ActionsFor(r) \in Nat /\ Cardinality(Carriers(r)) \in Nat /\ Due(r) \in 0..1
      /\ Allowed \in Nat
  BY <1>1, CountsType
<1>7. Cardinality(Carriers(r)') \in Nat /\ Due(r)' \in 0..1
  BY <1>3, FS_CardinalityType DEF Due
<1>8. Spent(r)' = ActionsFor(r)' + Cardinality(Carriers(r)') + Due(r)'
  BY DEF Spent
<1> QED BY <1>1, <1>3, <1>4, <1>5, <1>6, <1>7, <1>8 DEF Spent

\* The delivery that was due is now in hand.
LEMMA BudgetFetch ==
    ASSUME Shape, Shape', DeliveredOK, NEW g \in Gateway, NEW p \in Partition, Fetch(g, p)
    PROVE  DeliveredOK'
<1>0. /\ FaultsGrown /\ actions' = actions
      /\ pc[g] = "idle" /\ Next1(p) \in Ref
      /\ \A h \in Gateway \ {g} : pc'[h] = pc[h] /\ cur'[h] = cur[h]
      /\ \/ pc' = pc /\ cur' = cur
         \/ cur'[g] = Next1(p)
  BY SameFaults, NextRecord DEF Fetch, Handed, topics, Shape, TypeOK
<1>1. \A r \in Ref : position'[r.p] <= r.o => position[r.p] <= r.o /\ r # Next1(p)
  <2>1. position' = [position EXCEPT ![p] = @ + 1] /\ position \in [Partition -> Nat]
    BY DEF Fetch, Advanced, Shape, TypeOK
  <2> QED BY <2>1 DEF Ref, Next1
<1>2. position[Next1(p).p] <= Next1(p).o
  BY DEF Next1, Shape, TypeOK
<1>3. CASE pc' = pc /\ cur' = cur
  BY <1>0, <1>1, <1>3, BudgetKept
<1>4. CASE cur'[g] = Next1(p)
  <2> SUFFICES ASSUME NEW r \in Ref
               PROVE  (IsFiniteSet(Carriers(r)) /\ Spent(r) <= Allowed)'
    BY DEF DeliveredOK
  <2>1. IsFiniteSet(Carriers(r)) /\ Spent(r) <= Allowed
    BY DEF DeliveredOK
  <2>2. /\ ActionsFor(r) \in Nat /\ Cardinality(Carriers(r)) \in Nat /\ Due(r) \in 0..1
        /\ Allowed \in Nat /\ Allowed' \in Nat /\ Allowed <= Allowed'
    BY <1>0, <2>1, CountsType, AllowedGrows
  <2>3. ActionsFor(r)' = ActionsFor(r)
    BY <1>0 DEF ActionsFor
  <2>4. Spent(r)' = ActionsFor(r)' + Cardinality(Carriers(r)') + Due(r)'
    BY DEF Spent
  <2>5. CASE r = Next1(p)
    <3>1. Due(r) = 1 /\ Due(r)' = 0
      BY <1>1, <1>2, <2>5 DEF Due
    <3>2. Carriers(r)' \subseteq Carriers(r) \cup {g}
      BY <1>0 DEF Carriers
    <3>3. /\ IsFiniteSet(Carriers(r) \cup {g})
          /\ Cardinality(Carriers(r) \cup {g}) <= Cardinality(Carriers(r)) + 1
          /\ Cardinality(Carriers(r) \cup {g}) \in Nat
      <4>1. /\ IsFiniteSet(Carriers(r) \cup {g})
            /\ Cardinality(Carriers(r) \cup {g})
                 = IF g \in Carriers(r) THEN Cardinality(Carriers(r))
                   ELSE Cardinality(Carriers(r)) + 1
        BY <2>1, FS_AddElement
      <4> QED BY <2>2, <4>1
    <3>4. /\ IsFiniteSet(Carriers(r)')
          /\ Cardinality(Carriers(r)') <= Cardinality(Carriers(r) \cup {g})
      BY <3>2, <3>3, FS_Subset
    <3>5. Cardinality(Carriers(r)') \in Nat
      BY <3>4, FS_CardinalityType
    <3> QED BY <2>1, <2>2, <2>3, <2>4, <3>1, <3>3, <3>4, <3>5 DEF Spent
  <2>6. CASE r # Next1(p)
    <3>1. Due(r)' <= Due(r) /\ Due(r)' \in 0..1
      BY <1>1 DEF Due
    <3>2. Carriers(r)' \subseteq Carriers(r)
      BY <1>0, <1>4, <2>6 DEF Carriers
    <3>3. /\ IsFiniteSet(Carriers(r)')
          /\ Cardinality(Carriers(r)') <= Cardinality(Carriers(r))
      BY <2>1, <3>2, FS_Subset
    <3>4. Cardinality(Carriers(r)') \in Nat
      BY <3>3, FS_CardinalityType
    <3> QED BY <2>1, <2>2, <2>3, <2>4, <3>1, <3>3, <3>4 DEF Spent
  <2> QED BY <2>5, <2>6
<1> QED BY <1>0, <1>3, <1>4

\* The action of a delivery in hand is out, and its worker past it.
LEMMA BudgetAction ==
    ASSUME Shape, Shape', DeliveredOK, NEW g \in Gateway, PublishAction(g)
    PROVE  DeliveredOK'
<1>0. /\ FaultsGrown /\ position' = position
      /\ pc[g] \in Undecided /\ pc'[g] \notin Undecided
      /\ \A h \in Gateway \ {g} : pc'[h] = pc[h] /\ cur'[h] = cur[h]
  BY SameFaults DEF PublishAction, Return, Undecided, kafka, Shape, TypeOK
<1>1. /\ ActionOf(g) \in ActionMsg /\ ActionOf(g).ref = cur[g]
      /\ actions' = Append(actions, ActionOf(g))
  BY InHand, ActionOfType DEF PublishAction, ActionOf, Resting
<1> SUFFICES ASSUME NEW r \in Ref
             PROVE  (IsFiniteSet(Carriers(r)) /\ Spent(r) <= Allowed)'
  BY DEF DeliveredOK
<1>2. IsFiniteSet(Carriers(r)) /\ Spent(r) <= Allowed
  BY DEF DeliveredOK
<1>3. /\ ActionsFor(r) \in Nat /\ Cardinality(Carriers(r)) \in Nat /\ Due(r) \in 0..1
      /\ Allowed \in Nat /\ Allowed' \in Nat /\ Allowed <= Allowed'
  BY <1>0, <1>2, CountsType, AllowedGrows
<1>4. Due(r)' = Due(r)
  BY <1>0 DEF Due
<1>5. ActionsFor(r)' = ActionsFor(r) + (IF r = cur[g] THEN 1 ELSE 0)
  BY <1>1, ActionsAppended
<1>6. Carriers(r)' = Carriers(r) \ {g}
  BY <1>0, CarrierLeaves
<1>7. IsFiniteSet(Carriers(r)') /\ Cardinality(Carriers(r)') \in Nat
      /\ Cardinality(Carriers(r)') = IF g \in Carriers(r) THEN Cardinality(Carriers(r)) - 1
                                     ELSE Cardinality(Carriers(r))
  BY <1>2, <1>6, FS_RemoveElement, FS_CardinalityType
<1>8. g \in Carriers(r) <=> r = cur[g]
  BY <1>0 DEF Carriers
<1>9. Spent(r)' = ActionsFor(r)' + Cardinality(Carriers(r)') + Due(r)'
  BY DEF Spent
<1>10. CASE r = cur[g]
  BY <1>2, <1>3, <1>4, <1>5, <1>7, <1>8, <1>9, <1>10 DEF Spent
<1>11. CASE r # cur[g]
  BY <1>2, <1>3, <1>4, <1>5, <1>7, <1>8, <1>9, <1>11 DEF Spent
<1> QED BY <1>10, <1>11

\* The broker has the action, the worker does not know: it may send it again.
LEMMA BudgetLostAck ==
    ASSUME Shape, Shape', DeliveredOK, NEW g \in Gateway, KafkaLostAck(g)
    PROVE  DeliveredOK'
<1>0. Spend("kafka") /\ UNCHANGED <<position, pc, cur>>
  BY DEF KafkaLostAck, kafka, worker
<1>1. Allowed' = Allowed + 1 /\ FaultsGrown
  BY <1>0, AllowedMore, SpendGrows DEF FaultKind
<1>2. CASE actions' = actions
  BY <1>0, <1>1, <1>2, BudgetKept
<1>3. CASE pc[g] = "publish_action" /\ actions' = Append(actions, ActionOf(g))
  <2>1. ActionOf(g) \in ActionMsg
    BY <1>3, InHand, ActionOfType DEF Resting
  <2> SUFFICES ASSUME NEW r \in Ref
               PROVE  (IsFiniteSet(Carriers(r)) /\ Spent(r) <= Allowed)'
    BY DEF DeliveredOK
  <2>2. IsFiniteSet(Carriers(r)) /\ Spent(r) <= Allowed
    BY DEF DeliveredOK
  <2>3. /\ ActionsFor(r) \in Nat /\ Cardinality(Carriers(r)) \in Nat /\ Due(r) \in 0..1
        /\ Allowed \in Nat
    BY <2>2, CountsType
  <2>4. Carriers(r)' = Carriers(r) /\ Due(r)' = Due(r)
    BY <1>0 DEF Carriers, Due
  <2>5. ActionsFor(r)' = ActionsFor(r) \/ ActionsFor(r)' = ActionsFor(r) + 1
    BY <1>3, <2>1, <2>3, ActionsAppended
  <2>6. Spent(r)' = ActionsFor(r)' + Cardinality(Carriers(r)') + Due(r)'
    BY DEF Spent
  <2> QED BY <1>1, <2>2, <2>3, <2>4, <2>5, <2>6 DEF Spent
<1> QED BY <1>2, <1>3 DEF KafkaLostAck

LEMMA BudgetWork ==
    ASSUME Shape, Shape', DeliveredOK, NEW g \in Gateway, Work(g)
    PROVE  DeliveredOK'
<1>1. FaultsGrown
  BY WorkCalm, SameFaults
<1>2. ASSUME NEW p \in Partition, Fetch(g, p) PROVE DeliveredOK'
  BY <1>2, BudgetFetch
<1>3. ASSUME NEW p \in Partition, FetchUndecodable(g, p) PROVE DeliveredOK'
  <2>1. \A r \in Ref : position'[r.p] <= r.o => position[r.p] <= r.o
    <3>1. position \in [Partition -> Nat] /\ position' \in {position, Advanced(p)}
      BY <1>3 DEF FetchUndecodable, Shape, TypeOK
    <3> QED BY <3>1 DEF Advanced, Ref
  <2>2. \A h \in Gateway : pc'[h] \in Undecided => pc[h] \in Undecided /\ cur'[h] = cur[h]
    BY <1>3 DEF FetchUndecodable, Undecided, Shape, TypeOK
  <2> QED BY <1>1, <1>3, <2>1, <2>2, BudgetKept DEF FetchUndecodable, topics
<1>4. CASE PublishAction(g)
  BY <1>4, BudgetAction
<1>5. CASE \/ SyncRead(g) \/ SyncHset(g) \/ SyncExpire(g) \/ SyncEnrich(g)
           \/ ReadContext(g) \/ Infer(g) \/ PublishScore(g) \/ SendAlertWebhook(g)
           \/ PublishDlq(g) \/ FinHset(g) \/ FinExpire(g) \/ FinEnrich(g)
  <2>1. position' = position /\ actions' = actions
    BY <1>5 DEF SyncRead, SyncHset, SyncExpire, SyncEnrich, ReadContext, Infer, PublishScore,
       SendAlertWebhook, PublishDlq, FinHset, FinExpire, FinEnrich, kafka, topics
  <2>2. \A h \in Gateway \ {g} : pc'[h] = pc[h] /\ cur'[h] = cur[h]
    BY <1>5 DEF SyncRead, SyncHset, SyncExpire, SyncEnrich, ReadContext, Infer, PublishScore,
       SendAlertWebhook, PublishDlq, FinHset, FinExpire, FinEnrich, Wait, Return, Raise, Die,
       Shape, TypeOK
  <2>3. pc'[g] \in Undecided => pc[g] \in Undecided /\ cur'[g] = cur[g]
    BY <1>5 DEF SyncRead, SyncHset, SyncExpire, SyncEnrich, ReadContext, Infer, PublishScore,
       SendAlertWebhook, PublishDlq, FinHset, FinExpire, FinEnrich, Wait, Return, Raise, Die,
       Undecided, Shape, TypeOK
  <2> QED BY <1>1, <2>1, <2>2, <2>3, BudgetKept
<1> QED BY <1>2, <1>3, <1>4, <1>5 DEF Work

LEMMA BudgetProcess ==
    ASSUME Shape, Shape', DeliveredOK, NEW g \in Gateway, Process(g)
    PROVE  DeliveredOK'
<1>1. \A h \in Gateway : pc'[h] \in Undecided => pc[h] \in Undecided /\ cur'[h] = cur[h]
  BY DEF Process, Crash, Stop, Start, Gone, Undecided, Shape, TypeOK
<1>2. actions' = actions
  BY DEF Process, Crash, Stop, Start, Gone, topics
<1>3. CASE Crash(g) \/ Stop(g)
  BY <1>1, <1>2, <1>3, BudgetRestart DEF Crash, Stop
<1>4. CASE Start(g)
  BY <1>1, <1>2, <1>4, SameFaults, BudgetKept DEF Start, kafka, history
<1> QED BY <1>3, <1>4 DEF Process

LEMMA DeliveredNext ==
    ASSUME Shape, Shape', DeliveredOK, [Next]_vars
    PROVE  DeliveredOK'
<1>0. FaultsGrown
  BY FaultsGrow
<1>1. CASE \/ \E ev \in Event : Relay(ev)
           \/ \E g \in Gateway : AutoCommit(g)
           \/ StoreWriter \/ UNCHANGED vars
  <2>1. UNCHANGED <<position, pc, cur, actions>>
    BY <1>1 DEF Relay, AutoCommit, StoreWriter, Expire, UpsertHset, UpsertExpire, vars, kafka,
       worker, topics
  <2> QED BY <1>0, <2>1, BudgetKept
<1>2. ASSUME NEW g \in Gateway, NEW p \in Partition, Assign(g, p) PROVE DeliveredOK'
  <2>1. UNCHANGED <<pc, cur, actions>>
    BY <1>2 DEF Assign, worker, topics
  <2>2. position[p] = 0 /\ \A q \in Partition \ {p} : position'[q] = position[q]
    BY <1>2 DEF Assign, Shape, TypeOK, OffsetsOK, NoOffset
  <2>3. \A r \in Ref : position'[r.p] <= r.o => position[r.p] <= r.o
    BY <2>2 DEF Ref
  <2> QED BY <1>0, <2>1, <2>3, BudgetKept
<1>3. ASSUME NEW p \in Partition, Revoke(p) PROVE DeliveredOK'
  BY <1>3, BudgetRestart DEF Revoke, worker, topics
<1>4. ASSUME NEW g \in Gateway, CallFault(g) PROVE DeliveredOK'
  <2>1. CASE KafkaLostAck(g)
    BY <2>1, BudgetLostAck
  <2>2. CASE RedisFault(g) \/ TritonFault(g) \/ KafkaFault(g)
    <3>1. UNCHANGED <<position, actions>>
      BY <2>2 DEF RedisFault, TritonFault, KafkaFault, kafka, topics
    <3>2. \A h \in Gateway : pc'[h] \in Undecided => pc[h] \in Undecided /\ cur'[h] = cur[h]
      BY <2>2 DEF RedisFault, TritonFault, KafkaFault, Raise, Die, Undecided, Shape, TypeOK
    <3> QED BY <1>0, <3>1, <3>2, BudgetKept
  <2> QED BY <1>4, <2>1, <2>2 DEF CallFault
<1> QED BY <1>1, <1>2, <1>3, <1>4, BudgetWork, BudgetProcess DEF Next, Group

LEMMA DeliveredInit == Init => DeliveredOK
<1> SUFFICES ASSUME Init, NEW r \in Ref
             PROVE  IsFiniteSet(Carriers(r)) /\ Spent(r) <= Allowed
  BY DEF DeliveredOK
<1>1. Carriers(r) = {}
  BY DEF Init, Carriers, Undecided
<1>2. {i \in DOMAIN actions : actions[i].ref = r} = {}
  BY DEF Init
<1>3. ActionsFor(r) = 0 /\ Cardinality(Carriers(r)) = 0 /\ IsFiniteSet(Carriers(r))
  BY <1>1, <1>2, FS_EmptySet DEF ActionsFor
<1>4. Allowed = 1
  BY DEF Init, Allowed, Restarts, FaultKind
<1> QED BY <1>3, <1>4 DEF Spent, Due

LEMMA BudgetBounds ==
    ASSUME Shape, DeliveredOK
    PROVE  DuplicatesBounded
<1> SUFFICES ASSUME NEW r \in Ref
             PROVE  ActionsFor(r) <= Allowed
  BY DEF DuplicatesBounded, Allowed
<1> QED BY CountsType DEF DeliveredOK, Spent

\* At-least-once delivery is no licence to repeat: however gateways, rebalances,
\* commits and failures interleave, an event has one action more than the
\* restarts, rebalances and lost acknowledgements that could repeat it.
THEOREM DuplicatesPaidFor == Spec => []DuplicatesBounded
<1>1. Init => Shape /\ DeliveredOK
  BY ShapeInit, DeliveredInit
<1>2. (Shape /\ DeliveredOK) /\ [Next]_vars => (Shape /\ DeliveredOK)'
  BY ShapeNext, DeliveredNext
<1>3. Shape /\ DeliveredOK => DuplicatesBounded
  BY BudgetBounds
<1> QED BY <1>1, <1>2, <1>3, PTL DEF Spec

-------------------------------------------------------------------------------
(* Order, as long as nobody is restarted *)

Orderly == Restarts + fault["redis"] = 0

Interrupts == {"crash", "stop", "rebalance", "redis"}

\* Every record is in the partition of its session.
PlacedOK == \A r \in Relayed : r.p = PartitionOf[EventAt(r).session]

\* The record in hand is the newest the owner of its partition was handed.
HeldOK ==
    \A g \in Gateway :
        cur[g] # None =>
            /\ owner[cur[g].p] = g
            /\ position[cur[g].p] = cur[g].o + 1
            /\ outcome[cur[g]] # "skipped"

\* What has been handled or skipped is behind the position.
BehindOK ==
    \A r \in Ref :
        outcome[r] \in {"scored", "quiet", "ended", "skipped"} => r.o < position[r.p]

\* A partition nobody owns has never been touched.
UntouchedOK ==
    \A p \in Partition :
        owner[p] = None =>
            /\ committed[p] = NoOffset
            /\ \A r \in Ref : r.p = p => outcome[r] = "none"

InOrder == HeldOK /\ BehindOK /\ UntouchedOK

LEMMA OrderlyBefore ==
    ASSUME Shape, [Next]_vars, Orderly'
    PROVE  Orderly /\ \A k \in Interrupts : ~Spend(k)
<1>1. FaultsGrown
  BY FaultsGrow
<1>2. \A k \in FaultKind : fault[k] \in Nat
  BY DEF Shape, TypeOK
<1>3. \A k \in Interrupts : fault'[k] = 0 /\ fault[k] = 0
  <2>1. Shape'
    BY ShapeNext
  <2>2. \A k \in FaultKind : fault'[k] \in Nat
    BY <2>1 DEF Shape, TypeOK
  <2>3. /\ fault'["crash"] \in Nat /\ fault'["stop"] \in Nat
        /\ fault'["rebalance"] \in Nat /\ fault'["redis"] \in Nat
    BY <2>2 DEF FaultKind
  <2>4. fault'["crash"] + fault'["stop"] + fault'["rebalance"] + fault'["redis"] = 0
    BY DEF Orderly, Restarts
  <2>5. \A a, b, c, d \in Nat : a + b + c + d = 0 => a = 0 /\ b = 0 /\ c = 0 /\ d = 0
    OBVIOUS
  <2>6. /\ fault'["crash"] = 0 /\ fault'["stop"] = 0
        /\ fault'["rebalance"] = 0 /\ fault'["redis"] = 0
    BY <2>3, <2>4, <2>5
  <2>7. \A k \in Interrupts : fault[k] \in Nat /\ fault[k] <= fault'[k]
    BY <1>1, <1>2 DEF FaultsGrown, FaultKind, Interrupts
  <2> QED BY <2>6, <2>7 DEF Interrupts
<1>4. \A k \in Interrupts : ~Spend(k)
  BY <1>2, <1>3, SpendCounts DEF FaultKind, Interrupts
<1>5. /\ fault["crash"] = 0 /\ fault["stop"] = 0
      /\ fault["rebalance"] = 0 /\ fault["redis"] = 0
  BY <1>3 DEF Interrupts
<1> QED BY <1>4, <1>5 DEF Orderly, Restarts

\* Only the relay writes to the event topic.
LEMMA LogStep ==
    ASSUME [Next]_vars, ~\E ev \in Event : Relay(ev)
    PROVE  log' = log
<1>1. CASE Group
  BY <1>1 DEF Group, Assign, AutoCommit, Revoke
<1>2. ASSUME NEW g \in Gateway, Work(g) PROVE log' = log
  BY <1>2 DEF Work, Fetch, FetchUndecodable, SyncRead, SyncHset, SyncExpire, SyncEnrich,
     ReadContext, Infer, PublishScore, PublishAction, SendAlertWebhook, PublishDlq, FinHset,
     FinExpire, FinEnrich, kafka
<1>3. ASSUME NEW g \in Gateway, CallFault(g) \/ Process(g) PROVE log' = log
  BY <1>3 DEF CallFault, RedisFault, TritonFault, KafkaFault, KafkaLostAck, Process, Crash, Stop,
     Start, Gone, kafka
<1>4. CASE StoreWriter
  BY <1>4 DEF StoreWriter, Expire, UpsertHset, UpsertExpire, kafka
<1>5. CASE UNCHANGED vars
  BY <1>5 DEF vars, kafka
<1> QED BY <1>1, <1>2, <1>3, <1>4, <1>5 DEF Next

LEMMA LogGrowsNext ==
    ASSUME Shape, [Next]_vars
    PROVE  LogGrows
BY RelayGrows, LogStep, LogSame

LEMMA PlacedNext ==
    ASSUME Shape, PlacedOK, [Next]_vars
    PROVE  PlacedOK'
<1>1. ASSUME NEW ev \in Event, Relay(ev) PROVE PlacedOK'
  <2> DEFINE p == PartitionOf[ev.session]
  <2>1. p \in Partition
    BY PipelineAssumption DEF FdsEvent
  <2>2. /\ \A q \in Partition : log[q] \in Seq(Event) /\ Len(log[q]) \in Nat
        /\ \A q \in Partition \ {p} : log'[q] = log[q]
        /\ log'[p] = Append(log[p], ev)
    BY <1>1, <2>1 DEF Shape, TypeOK, Relay
  <2>3. /\ Len(log'[p]) = Len(log[p]) + 1 /\ log'[p][Len(log[p]) + 1] = ev
        /\ \A i \in 1..Len(log[p]) : log'[p][i] = log[p][i]
    BY <2>1, <2>2
  <2> SUFFICES ASSUME NEW r \in Relayed'
               PROVE  r.p = PartitionOf[EventAt(r)'.session]
    BY DEF PlacedOK
  <2>4. r \in Ref /\ r.p \in Partition /\ r.o \in Nat /\ r.o >= 1 /\ r.o <= Len(log'[r.p])
    BY DEF Relayed, Ref
  <2>5. CASE r \in Relayed
    <3>1. EventAt(r)' = EventAt(r)
      BY <1>1, <2>5, RelayGrows DEF LogGrows
    <3> QED BY <2>5, <3>1 DEF PlacedOK
  <2>6. CASE r \notin Relayed
    <3>1. r.p = p /\ r.o = Len(log[p]) + 1
      BY <2>1, <2>2, <2>3, <2>4, <2>6 DEF Relayed
    <3> QED BY <2>3, <3>1 DEF EventAt
  <2> QED BY <2>5, <2>6
<1>2. CASE log' = log
  BY <1>2 DEF PlacedOK, Relayed, EventAt
<1> QED BY <1>1, <1>2, LogStep

\* A step of g between fetching and letting go: it keeps its record, or drops
\* it with an outcome.
LEMMA OrderMove ==
    ASSUME Shape, InOrder, NEW g \in Gateway, UNCHANGED <<owner, position, committed>>,
           \A h \in Gateway \ {g} : cur'[h] = cur[h],
           cur'[g] \in {cur[g], None},
           \/ outcome' = outcome
           \/ \E how \in Outcome \ {"skipped"} :
                 cur[g] # None /\ outcome' = [outcome EXCEPT ![cur[g]] = how]
    PROVE  InOrder'
<1>0. /\ outcome \in [Ref -> Outcome] /\ cur \in [Gateway -> Ref \union {None}]
      /\ position \in [Partition -> Nat] /\ g # None
  BY PipelineAssumption DEF Shape, TypeOK
<1>1. \A r \in Ref : \/ outcome'[r] = outcome[r]
                     \/ r = cur[g] /\ cur[g] # None /\ outcome'[r] # "skipped"
  BY <1>0
<1>2. HeldOK'
  <2> SUFFICES ASSUME NEW h \in Gateway, cur'[h] # None
               PROVE  /\ owner[cur'[h].p] = h
                      /\ position[cur'[h].p] = cur'[h].o + 1
                      /\ outcome'[cur'[h]] # "skipped"
    BY DEF HeldOK
  <2>1. cur'[h] = cur[h] /\ cur[h] \in Ref
    BY <1>0
  <2> QED BY <1>1, <2>1 DEF InOrder, HeldOK
<1>3. BehindOK'
  <2> SUFFICES ASSUME NEW r \in Ref, outcome'[r] \in {"scored", "quiet", "ended", "skipped"}
               PROVE  r.o < position[r.p]
    BY DEF BehindOK
  <2>1. CASE outcome'[r] = outcome[r]
    BY <2>1 DEF InOrder, BehindOK
  <2>2. CASE r = cur[g] /\ cur[g] # None
    <3>1. position[r.p] = r.o + 1
      BY <2>2 DEF InOrder, HeldOK
    <3> QED BY <3>1 DEF Ref
  <2> QED BY <1>1, <2>1, <2>2
<1>4. UntouchedOK'
  <2> SUFFICES ASSUME NEW p \in Partition, owner[p] = None
               PROVE  /\ committed[p] = NoOffset
                      /\ \A r \in Ref : r.p = p => outcome'[r] = "none"
    BY DEF UntouchedOK
  <2>1. \A r \in Ref : r.p = p => r # cur[g] \/ cur[g] = None
    BY <1>0 DEF InOrder, HeldOK
  <2> QED BY <1>1, <2>1 DEF InOrder, UntouchedOK
<1> QED BY <1>2, <1>3, <1>4 DEF InOrder

LEMMA OrderStand ==
    ASSUME InOrder, UNCHANGED <<owner, position, committed, cur, outcome>>
    PROVE  InOrder'
BY DEF InOrder, HeldOK, BehindOK, UntouchedOK

LEMMA OrderFetch ==
    ASSUME Shape, InOrder, NEW g \in Gateway, NEW p \in Partition, Fetch(g, p)
    PROVE  InOrder'
<1> DEFINE r0 == Next1(p)
<1>0. /\ outcome \in [Ref -> Outcome] /\ cur \in [Gateway -> Ref \union {None}]
      /\ position \in [Partition -> Nat] /\ g # None
      /\ r0 \in Ref /\ r0.p = p /\ r0.o = position[p]
  BY NextRecord, PipelineAssumption DEF Fetch, Shape, TypeOK, Next1
<1>1. /\ owner[p] = g /\ cur[g] = None /\ UNCHANGED <<owner, committed>>
      /\ position'[p] = position[p] + 1
      /\ \A q \in Partition \ {p} : position'[q] = position[q]
      /\ \A h \in Gateway \ {g} : cur'[h] = cur[h]
      /\ cur'[g] \in {None, r0}
  BY <1>0 DEF Fetch, Handed, Advanced, Shape, ControlOK, Resting
<1>2. \A r \in Ref : outcome'[r] = outcome[r] \/ (r = r0 /\ outcome'[r] # "skipped")
  <2>1. \/ outcome' = outcome
        \/ outcome' = [outcome EXCEPT ![r0] = "ended"]
        \/ outcome' = [outcome EXCEPT ![r0] = "ignored"]
    BY DEF Fetch
  <2> HIDE DEF r0
  <2> QED BY <1>0, <2>1
<1>3. outcome[r0] # "skipped"
  BY <1>0 DEF InOrder, BehindOK
<1> HIDE DEF r0
<1>4. HeldOK'
  <2> SUFFICES ASSUME NEW h \in Gateway, cur'[h] # None
               PROVE  /\ owner[cur'[h].p] = h
                      /\ position'[cur'[h].p] = cur'[h].o + 1
                      /\ outcome'[cur'[h]] # "skipped"
    BY <1>1 DEF HeldOK
  <2>1. CASE h = g
    <3>1. cur'[h] = r0
      BY <1>1, <2>1
    <3> QED BY <1>0, <1>1, <1>2, <1>3, <2>1, <3>1
  <2>2. CASE h # g
    <3>1. cur'[h] = cur[h] /\ cur[h] \in Ref /\ cur[h].p \in Partition
      BY <1>0, <1>1, <2>2 DEF Ref
    <3>2. owner[cur[h].p] = h /\ cur[h].p # p
      BY <1>1, <2>2, <3>1 DEF InOrder, HeldOK
    <3> QED BY <1>0, <1>1, <1>2, <3>1, <3>2 DEF InOrder, HeldOK
  <2> QED BY <2>1, <2>2
<1>5. BehindOK'
  <2> SUFFICES ASSUME NEW r \in Ref, outcome'[r] \in {"scored", "quiet", "ended", "skipped"}
               PROVE  r.o < position'[r.p]
    BY DEF BehindOK
  <2>1. r.p \in Partition /\ r.o \in Nat /\ position[r.p] \in Nat
        /\ position[r.p] <= position'[r.p]
    BY <1>0, <1>1 DEF Ref
  <2>2. CASE r = r0
    BY <1>0, <1>1, <2>1, <2>2
  <2>3. CASE r # r0
    <3>1. r.o < position[r.p]
      BY <1>2, <2>3 DEF InOrder, BehindOK
    <3>2. position'[r.p] \in Nat
      BY <1>0, <1>1, <2>1
    <3> QED BY <2>1, <3>1, <3>2
  <2> QED BY <2>2, <2>3
<1>6. UntouchedOK'
  BY <1>0, <1>1, <1>2 DEF InOrder, UntouchedOK
<1> QED BY <1>4, <1>5, <1>6 DEF InOrder

LEMMA OrderFetchUndecodable ==
    ASSUME Shape, InOrder, NEW g \in Gateway, NEW p \in Partition, FetchUndecodable(g, p)
    PROVE  InOrder'
<1> DEFINE r0 == Next1(p)
<1>0. /\ outcome \in [Ref -> Outcome] /\ cur \in [Gateway -> Ref \union {None}]
      /\ position \in [Partition -> Nat] /\ g # None
      /\ r0 \in Ref /\ r0.p = p /\ r0.o = position[p]
  BY NextRecord, PipelineAssumption DEF FetchUndecodable, Shape, TypeOK, Next1
<1>1. /\ owner[p] = g /\ cur[g] = None /\ UNCHANGED <<owner, committed, cur>>
      /\ position'[p] \in {position[p], position[p] + 1}
      /\ \A q \in Partition \ {p} : position'[q] = position[q]
  BY <1>0 DEF FetchUndecodable, Handed, Advanced, Shape, ControlOK, Resting
<1>2. \A r \in Ref : outcome'[r] = outcome[r] \/ (r = r0 /\ outcome'[r] = "poison")
  <2>1. outcome' = [outcome EXCEPT ![r0] = "poison"]
    BY DEF FetchUndecodable
  <2> HIDE DEF r0
  <2> QED BY <1>0, <2>1
<1> HIDE DEF r0
<1>4. HeldOK'
  <2> SUFFICES ASSUME NEW h \in Gateway, cur[h] # None
               PROVE  /\ owner[cur[h].p] = h
                      /\ position'[cur[h].p] = cur[h].o + 1
                      /\ outcome'[cur[h]] # "skipped"
    BY <1>1 DEF HeldOK
  <2>1. h # g /\ cur[h] \in Ref /\ cur[h].p \in Partition
    BY <1>0, <1>1 DEF Ref
  <2>2. owner[cur[h].p] = h /\ cur[h].p # p
    BY <1>1, <2>1 DEF InOrder, HeldOK
  <2> QED BY <1>1, <1>2, <2>1, <2>2 DEF InOrder, HeldOK
<1>5. BehindOK'
  <2> SUFFICES ASSUME NEW r \in Ref, outcome'[r] \in {"scored", "quiet", "ended", "skipped"}
               PROVE  r.o < position'[r.p]
    BY DEF BehindOK
  <2>1. r.p \in Partition /\ r.o \in Nat /\ position[r.p] \in Nat /\ position'[r.p] \in Nat
        /\ position[r.p] <= position'[r.p]
    BY <1>0, <1>1 DEF Ref
  <2>2. r.o < position[r.p]
    BY <1>2 DEF InOrder, BehindOK
  <2> QED BY <2>1, <2>2
<1>6. UntouchedOK'
  BY <1>0, <1>1, <1>2 DEF InOrder, UntouchedOK
<1> QED BY <1>4, <1>5, <1>6 DEF InOrder

\* A partition is assigned for the first time: it is read from its end.
LEMMA OrderAssign ==
    ASSUME Shape, InOrder, NEW g \in Gateway, NEW p \in Partition, Assign(g, p)
    PROVE  /\ InOrder'
           /\ position'[p] = Len(log[p]) + 1
           /\ \A r \in Relayed : r.p = p => outcome'[r] = "skipped"
<1>0. /\ outcome \in [Ref -> Outcome] /\ cur \in [Gateway -> Ref \union {None}]
      /\ position \in [Partition -> Nat] /\ g # None
      /\ log[p] \in Seq(Event) /\ Len(log[p]) \in Nat
  BY PipelineAssumption DEF Shape, TypeOK
<1>1. /\ owner[p] = None /\ committed[p] = NoOffset
      /\ \A r \in Ref : r.p = p => outcome[r] = "none" /\ ~InFlight(r)
  <2>1. owner[p] = None
    BY DEF Assign
  <2>2. \A r \in Ref : r.p = p => ~InFlight(r)
    BY <2>1, RefAssumption, PipelineAssumption DEF InOrder, HeldOK, InFlight
  <2> QED BY <2>1, <2>2 DEF InOrder, UntouchedOK
<1>2. /\ owner'[p] = g /\ UNCHANGED <<committed, cur>>
      /\ \A q \in Partition \ {p} : owner'[q] = owner[q] /\ position'[q] = position[q]
      /\ position'[p] = Len(log[p]) + 1
  BY <1>1 DEF Assign, StartPosition, worker, Shape, TypeOK
<1>3. /\ \A r \in Ref : r.p # p => outcome'[r] = outcome[r]
      /\ \A r \in Ref : r.p = p => outcome'[r] = IF r \in Relayed THEN "skipped" ELSE "none"
  BY <1>1 DEF Assign
<1>4. HeldOK'
  <2> SUFFICES ASSUME NEW h \in Gateway, cur[h] # None
               PROVE  /\ owner'[cur[h].p] = h
                      /\ position'[cur[h].p] = cur[h].o + 1
                      /\ outcome'[cur[h]] # "skipped"
    BY <1>2 DEF HeldOK
  <2>1. cur[h] \in Ref /\ cur[h].p \in Partition /\ h # None
    BY <1>0, PipelineAssumption DEF Ref
  <2>2. cur[h].p # p
    BY <1>1, <2>1 DEF InOrder, HeldOK
  <2> QED BY <1>2, <1>3, <2>1, <2>2 DEF InOrder, HeldOK
<1>5. BehindOK'
  <2> SUFFICES ASSUME NEW r \in Ref, outcome'[r] \in {"scored", "quiet", "ended", "skipped"}
               PROVE  r.o < position'[r.p]
    BY DEF BehindOK
  <2>1. r.p \in Partition /\ r.o \in Nat
    BY DEF Ref
  <2>2. CASE r.p = p
    BY <1>0, <1>2, <1>3, <2>1, <2>2 DEF Relayed
  <2>3. CASE r.p # p
    BY <1>2, <1>3, <2>1, <2>3 DEF InOrder, BehindOK
  <2> QED BY <2>2, <2>3
<1>6. UntouchedOK'
  BY <1>0, <1>2, <1>3 DEF InOrder, UntouchedOK
<1> QED BY <1>2, <1>3, <1>4, <1>5, <1>6, RefAssumption DEF InOrder, Relayed
\* Where the record in hand is known.
LEMMA InHandOnly ==
    ASSUME Shape, NEW g \in Gateway
    PROVE  pc[g] \notin Resting <=> cur[g] # None
BY DEF Shape, ControlOK

LEMMA OrderWork ==
    ASSUME Shape, InOrder, NEW g \in Gateway, Work(g)
    PROVE  InOrder'
<1>1. ASSUME NEW p \in Partition, Fetch(g, p) \/ FetchUndecodable(g, p) PROVE InOrder'
  BY <1>1, OrderFetch, OrderFetchUndecodable
<1>2. CASE \/ SyncRead(g) \/ SyncHset(g) \/ SyncExpire(g) \/ ReadContext(g) \/ Infer(g)
           \/ PublishScore(g) \/ FinHset(g) \/ FinExpire(g)
  <2>1. UNCHANGED <<owner, position, committed, cur, outcome>>
    BY <1>2 DEF SyncRead, SyncHset, SyncExpire, ReadContext, Infer, PublishScore, FinHset,
       FinExpire, kafka, history
  <2> QED BY <2>1, OrderStand
<1>3. CASE \/ SyncEnrich(g) \/ PublishAction(g) \/ SendAlertWebhook(g) \/ PublishDlq(g)
           \/ FinEnrich(g)
  <2>1. UNCHANGED <<owner, position, committed>>
    BY <1>3 DEF SyncEnrich, PublishAction, SendAlertWebhook, PublishDlq, FinEnrich, kafka
  <2>2. cur[g] # None
    BY <1>3, InHandOnly DEF SyncEnrich, PublishAction, SendAlertWebhook, PublishDlq, FinEnrich,
       Resting
  <2>3. /\ \A h \in Gateway \ {g} : cur'[h] = cur[h]
        /\ cur'[g] \in {cur[g], None}
    BY <1>3 DEF SyncEnrich, PublishAction, SendAlertWebhook, PublishDlq, FinEnrich, Return, Die,
       Shape, TypeOK
  <2>4. \/ outcome' = outcome
        \/ \E how \in Outcome \ {"skipped"} : outcome' = [outcome EXCEPT ![cur[g]] = how]
    BY <1>3 DEF SyncEnrich, PublishAction, SendAlertWebhook, PublishDlq, FinEnrich, Return, Die,
       Outcome
  <2> QED BY <2>1, <2>2, <2>3, <2>4, OrderMove
<1> QED BY <1>1, <1>2, <1>3 DEF Work

LEMMA OrderFault ==
    ASSUME Shape, InOrder, NEW g \in Gateway,
           TritonFault(g) \/ KafkaFault(g) \/ KafkaLostAck(g) \/ Start(g)
    PROVE  InOrder'
<1>1. CASE TritonFault(g) \/ KafkaLostAck(g) \/ Start(g)
  <2>1. UNCHANGED <<owner, position, committed, cur, outcome>>
    BY <1>1 DEF TritonFault, KafkaLostAck, Start, kafka, worker, history
  <2> QED BY <2>1, OrderStand
<1>2. CASE KafkaFault(g)
  <2>1. UNCHANGED <<owner, position, committed>> /\ cur[g] # None
    BY <1>2, InHandOnly DEF KafkaFault, kafka, Resting
  <2>2. /\ \A h \in Gateway \ {g} : cur'[h] = cur[h]
        /\ cur'[g] \in {cur[g], None}
    BY <1>2 DEF KafkaFault, Die, Shape, TypeOK
  <2>3. \/ outcome' = outcome
        \/ \E how \in Outcome \ {"skipped"} : outcome' = [outcome EXCEPT ![cur[g]] = how]
    BY <1>2 DEF KafkaFault, Die, Outcome
  <2> QED BY <2>1, <2>2, <2>3, OrderMove
<1> QED BY <1>1, <1>2

\* The owner commits its own positions only.
LEMMA OrderCommit ==
    ASSUME Shape, InOrder, NEW g \in Gateway, AutoCommit(g)
    PROVE  InOrder'
<1>1. UNCHANGED <<owner, position, cur, outcome>> /\ g # None
  BY PipelineAssumption DEF AutoCommit, worker, history
<1>2. \A p \in Partition : owner[p] = None => committed'[p] = committed[p]
  BY <1>1 DEF AutoCommit, CommittedBy
<1> QED BY <1>1, <1>2 DEF InOrder, HeldOK, BehindOK, UntouchedOK

LEMMA OrderNext ==
    ASSUME Shape, InOrder, Orderly', [Next]_vars
    PROVE  InOrder'
<1>0. \A k \in Interrupts : ~Spend(k)
  BY OrderlyBefore
<1>1. CASE (\E ev \in Event : Relay(ev)) \/ StoreWriter \/ UNCHANGED vars
  <2>1. UNCHANGED <<owner, position, committed, cur, outcome>>
    BY <1>1 DEF Relay, StoreWriter, Expire, UpsertHset, UpsertExpire, vars, kafka, worker, history
  <2> QED BY <2>1, OrderStand
<1>2. CASE Group
  BY <1>0, <1>2, OrderAssign, OrderCommit DEF Group, Revoke, Interrupts
<1>3. ASSUME NEW g \in Gateway, Work(g) PROVE InOrder'
  BY <1>3, OrderWork
<1>4. ASSUME NEW g \in Gateway, CallFault(g) \/ Process(g) PROVE InOrder'
  BY <1>0, <1>4, OrderFault DEF CallFault, Process, RedisFault, Crash, Stop, Interrupts
<1> QED BY <1>1, <1>2, <1>3, <1>4 DEF Next

LEMMA OrderInit == Init => InOrder /\ PlacedOK
<1>1. Init => InOrder
  BY RefAssumption DEF Init, InOrder, HeldOK, BehindOK, UntouchedOK
<1>2. Init => Relayed = {}
  BY DEF Init, Relayed, Ref
<1> QED BY <1>1, <1>2 DEF PlacedOK

\* What is inductive: the order holds until the first interruption.
OrderInv == /\ IInv /\ PlacedOK
            /\ Orderly => InOrder

LEMMA OrderInvInit == Init => OrderInv
BY IInvInit, OrderInit DEF OrderInv

LEMMA OrderInvNext ==
    ASSUME OrderInv, [Next]_vars
    PROVE  OrderInv'
<1>1. IInv' /\ Shape
  BY IInvNext DEF OrderInv, IInv
<1>2. PlacedOK'
  BY <1>1, PlacedNext DEF OrderInv
<1>3. ASSUME Orderly' PROVE InOrder'
  <2>1. Orderly
    BY <1>1, <1>3, OrderlyBefore
  <2> QED BY <1>1, <1>3, <2>1, OrderNext DEF OrderInv
<1> QED BY <1>1, <1>2, <1>3 DEF OrderInv

-------------------------------------------------------------------------------
(* Session hashes left behind *)

\* The places of the handler before and after the write of the session hash.
Writing == {"sync_read", "sync_hset", "sync_expire", "enrich",
            "fin_hset", "fin_expire", "fin_enrich"}
Shown == {"context", "infer", "publish_score", "publish_action", "webhook"}

InHold(r) == outcome[r] \in Handled \/ InFlight(r)

\* The position is never behind the committed offset, and while nothing has
\* been committed it is beyond every record that was handed out.
OffsetInv ==
    \A p \in Partition :
        owner[p] # None =>
            /\ committed[p] <= position[p]
            /\ committed[p] = NoOffset =>
                  \A r \in Ref : r.p = p /\ InHold(r) => r.o < position[p]

HandledValid == \A r \in Ref : outcome[r] \in Handled => EventAt(r).form = "valid"

\* StaleSessions is silent about a record between the write of the session hash
\* and its outcome; what is inductive speaks of it too.
Done(r) == outcome[r] \in Handled \/ \E g \in Gateway : pc[g] \in Shown /\ cur[g] = r

Overtaken ==
    {s \in Session \ {None} :
        \E r \in Relayed :
            /\ EventAt(r).session = s /\ Done(r)
            /\ session[s] = None \/ session[s].o < r.o
            /\ ~ComesAgain(r) /\ ~BeingWritten(s, r)}

\* g is about to write for a record the group will not hand out after it: its
\* partition has moved, or has come back at a later position.
Late(g) == pc[g] \in Writing /\ ~(owner[cur[g].p] = g /\ position[cur[g].p] <= cur[g].o + 1)

LateSessions == {Cur(g).session : g \in {h \in Gateway : Late(h)}}

\* A session that is behind was, when it was paid for, one of these.
Loose == Overtaken \union LateSessions

LooseOK == IsFiniteSet(Loose) /\ Cardinality(Loose) <= Restarts + fault["redis"]

StaleInv == IInv /\ PlacedOK /\ OffsetInv /\ HandledValid /\ LooseOK

\* Who can get an outcome Handled: the record in hand, past its parsing, or one
\* without a key, which the loop passes over.
LEMMA HandledStep ==
    ASSUME Shape, [Next]_vars, NEW r \in Ref, outcome'[r] \in Handled
    PROVE  \/ outcome[r] \in Handled
           \/ \E g \in Gateway : cur[g] = r /\ pc[g] \in Handling
           \/ \E g \in Gateway, p \in Partition :
                 /\ Fetch(g, p) /\ r = Next1(p)
                 /\ EventAt(r).form = "valid" /\ EntityKey(EventAt(r)) = None
<1>0. outcome \in [Ref -> Outcome]
  BY DEF Shape, TypeOK
<1>1. CASE (\E ev \in Event : Relay(ev)) \/ StoreWriter \/ UNCHANGED vars
  BY <1>1 DEF Relay, StoreWriter, Expire, UpsertHset, UpsertExpire, vars, history
<1>2. CASE Group
  BY <1>2 DEF Group, Assign, AutoCommit, Revoke, history, Handled
<1>3. ASSUME NEW g \in Gateway, NEW p \in Partition, Fetch(g, p)
      PROVE  \/ outcome[r] \in Handled
             \/ r = Next1(p) /\ EventAt(r).form = "valid" /\ EntityKey(EventAt(r)) = None
  BY <1>0, <1>3 DEF Fetch
<1>4. ASSUME NEW g \in Gateway, NEW p \in Partition, FetchUndecodable(g, p)
      PROVE  outcome[r] \in Handled
  BY <1>0, <1>4 DEF FetchUndecodable, Handled
<1>5. ASSUME NEW g \in Gateway, Work(g),
             ~\E p \in Partition : Fetch(g, p) \/ FetchUndecodable(g, p)
      PROVE  outcome[r] \in Handled \/ (cur[g] = r /\ pc[g] \in Handling)
  BY <1>0, <1>5 DEF Work, SyncRead, SyncHset, SyncExpire, SyncEnrich, ReadContext, Infer,
     PublishScore, PublishAction, SendAlertWebhook, PublishDlq, FinHset, FinExpire, FinEnrich,
     Return, Die, history, Handled, Handling, Step
<1>6. ASSUME NEW g \in Gateway, CallFault(g) \/ Process(g) PROVE outcome[r] \in Handled
  BY <1>0, <1>6 DEF CallFault, RedisFault, TritonFault, KafkaFault, KafkaLostAck, Die, Process,
     Crash, Stop, Gone, Start, history, Handled
<1> QED BY <1>1, <1>2, <1>3, <1>4, <1>5, <1>6 DEF Next

\* Who can get a record in hand.
LEMMA InFlightStep ==
    ASSUME Shape, [Next]_vars, NEW r \in Ref, InFlight(r)'
    PROVE  InFlight(r) \/ \E g \in Gateway, p \in Partition : Fetch(g, p) /\ r = Next1(p)
<1>0. /\ cur \in [Gateway -> Ref \union {None}] /\ r # None
      /\ \A g \in Gateway : g \in DOMAIN cur
  BY RefAssumption DEF Shape, TypeOK
<1>1. CASE (\E ev \in Event : Relay(ev)) \/ Group \/ StoreWriter \/ UNCHANGED vars
  BY <1>1 DEF Relay, Group, Assign, AutoCommit, Revoke, StoreWriter, Expire, UpsertHset,
     UpsertExpire, vars, worker, InFlight
<1>2. ASSUME NEW g \in Gateway, NEW p \in Partition, Fetch(g, p)
      PROVE  InFlight(r) \/ r = Next1(p)
  BY <1>0, <1>2 DEF Fetch, InFlight
<1>3. ASSUME NEW g \in Gateway, Work(g) \/ CallFault(g) \/ Process(g),
             ~\E p \in Partition : Fetch(g, p)
      PROVE  InFlight(r)
  <2>1. \A h \in Gateway : cur'[h] = cur[h] \/ cur'[h] = None
    BY <1>0, <1>3 DEF Work, FetchUndecodable, SyncRead, SyncHset, SyncExpire, SyncEnrich,
       ReadContext, Infer, PublishScore, PublishAction, SendAlertWebhook, PublishDlq, FinHset,
       FinExpire, FinEnrich, Return, Die, CallFault, RedisFault, TritonFault, KafkaFault,
       KafkaLostAck, Process, Crash, Stop, Gone, Start, worker
  <2> QED BY <1>0, <2>1 DEF InFlight
<1> QED BY <1>1, <1>2, <1>3 DEF Next

LEMMA HandledValidNext ==
    ASSUME IInv, HandledValid, [Next]_vars
    PROVE  HandledValid'
<1>1. Shape /\ LogGrows
  BY LogGrowsNext DEF IInv
<1> SUFFICES ASSUME NEW r \in Ref, outcome'[r] \in Handled PROVE EventAt(r)'.form = "valid"
  BY DEF HandledValid
<1>2. CASE outcome[r] \in Handled
  <2>1. r \in Relayed
    BY <1>2 DEF IInv, OutcomeOK, Handled
  <2> QED BY <1>1, <1>2, <2>1 DEF LogGrows, HandledValid
<1>3. ASSUME NEW g \in Gateway, cur[g] = r, pc[g] \in Handling
      PROVE  EventAt(r)'.form = "valid"
  <2>1. r \in Relayed /\ Cur(g).form = "valid"
    BY <1>1, <1>3, RefAssumption DEF Shape, ControlOK
  <2> QED BY <1>1, <1>3, <2>1 DEF LogGrows, Cur
<1>4. ASSUME NEW g \in Gateway, NEW p \in Partition, Fetch(g, p), r = Next1(p),
             EventAt(r).form = "valid"
      PROVE  EventAt(r)'.form = "valid"
  <2>1. r \in Relayed
    BY <1>1, <1>4, NextRecord DEF Fetch
  <2> QED BY <1>1, <1>4, <2>1 DEF LogGrows
<1> QED BY <1>1, <1>2, <1>3, <1>4, HandledStep

\* What is in hold was, or is the next record of a partition.
LEMMA InHoldStep ==
    ASSUME Shape, [Next]_vars, NEW r \in Ref, InHold(r)'
    PROVE  InHold(r) \/ \E g \in Gateway, p \in Partition : Fetch(g, p) /\ r = Next1(p)
BY HandledStep, InFlightStep DEF InHold, InFlight

LEMMA OffsetNext ==
    ASSUME IInv, OffsetInv, [Next]_vars
    PROVE  OffsetInv'
<1>0. /\ Shape /\ committed \in [Partition -> Nat] /\ position \in [Partition -> Nat]
      /\ owner \in [Partition -> Gateway \union {None}]
      /\ \A p \in Partition : log[p] \in Seq(Event) /\ Len(log[p]) \in Nat
      /\ \A r \in Ref : r.p \in Partition /\ r.o \in Nat
      /\ None \notin Gateway
  BY PipelineAssumption DEF IInv, Shape, TypeOK, Ref
<1>1. \A r \in Ref : InHold(r) => r \in Relayed
  BY <1>0, RefAssumption DEF InHold, InFlight, IInv, Shape, ControlOK, OutcomeOK, Handled
<1>2. ASSUME NEW g \in Gateway, NEW p \in Partition, Assign(g, p) PROVE OffsetInv'
  <2>1. /\ committed' = committed
        /\ owner' = [owner EXCEPT ![p] = g]
        /\ position' = [position EXCEPT ![p] = StartPosition(p)]
    BY <1>2 DEF Assign
  <2>2. \A r \in Ref : InHold(r)' => InHold(r)
    BY <1>2 DEF Assign, InHold, InFlight, worker, Handled
  <2>3. ASSUME committed[p] = NoOffset, NEW r \in Ref, r.p = p, InHold(r)
        PROVE  r.o < StartPosition(p)
    BY <1>0, <1>1, <2>3 DEF StartPosition, Relayed
  <2>4. committed[p] <= StartPosition(p)
    BY <1>0 DEF StartPosition, NoOffset
  <2>5. ASSUME NEW q \in Partition, owner'[q] # None
        PROVE  /\ committed'[q] <= position'[q]
               /\ committed'[q] = NoOffset =>
                     \A r \in Ref : r.p = q /\ InHold(r)' => r.o < position'[q]
    BY <1>0, <2>1, <2>2, <2>3, <2>4, <2>5 DEF OffsetInv
  <2> QED BY <2>5 DEF OffsetInv
<1>3. ASSUME NEW g \in Gateway, AutoCommit(g) PROVE OffsetInv'
  <2>1. UNCHANGED <<owner, position, outcome, cur>> /\ committed' = CommittedBy(g)
    BY <1>3 DEF AutoCommit, worker, history
  <2>2. \A r \in Ref : InHold(r)' => InHold(r)
    BY <2>1 DEF InHold, InFlight
  <2>3. \A q \in Partition : committed'[q] = committed[q] \/ committed'[q] = position[q]
    BY <2>1 DEF CommittedBy
  <2>4. \A q \in Partition : owner[q] # None => position[q] # NoOffset
    BY <1>0 DEF Shape, OffsetsOK
  <2> QED BY <1>0, <2>1, <2>2, <2>3, <2>4 DEF OffsetInv
<1>4. ASSUME NEW p \in Partition, Revoke(p) PROVE OffsetInv'
  <2>1. /\ UNCHANGED <<outcome, cur>> /\ owner'[p] = None
        /\ \A q \in Partition \ {p} :
              owner'[q] = owner[q] /\ position'[q] = position[q] /\ committed'[q] = committed[q]
    BY <1>0, <1>4 DEF Revoke, worker
  <2>2. \A r \in Ref : InHold(r)' => InHold(r)
    BY <2>1 DEF InHold, InFlight
  <2> QED BY <2>1, <2>2 DEF OffsetInv
<1>5. ASSUME NEW g \in Gateway, Gone(g), committed' = committed \/ committed' = CommittedBy(g),
             \A r \in Ref : InHold(r)' => InHold(r)
      PROVE  OffsetInv'
  <2>1. \A q \in Partition :
           owner'[q] # None =>
             owner[q] # None /\ position'[q] = position[q] /\ committed'[q] = committed[q]
    BY <1>5 DEF Gone, CommittedBy
  <2> QED BY <1>5, <2>1 DEF OffsetInv
<1>6. ASSUME NEW g \in Gateway, NEW p \in Partition, Handed(g, p),
             UNCHANGED <<owner, committed>>, position' = Advanced(p) \/ position' = position,
             \A r \in Ref : InHold(r)' => InHold(r) \/ (r = Next1(p) /\ position' = Advanced(p))
      PROVE  OffsetInv'
  <2>1. \A q \in Partition : position'[q] \in Nat /\ position[q] <= position'[q]
    BY <1>0, <1>6 DEF Advanced
  <2>2. position' = Advanced(p) => Next1(p).p = p /\ Next1(p).o < position'[p]
    BY <1>0 DEF Advanced, Next1
  <2>3. ASSUME NEW q \in Partition, owner[q] # None, committed[q] = NoOffset,
               NEW r \in Ref, r.p = q, InHold(r)'
        PROVE  r.o < position'[q]
    <3>1. CASE InHold(r)
      BY <1>0, <2>1, <2>3, <3>1 DEF OffsetInv
    <3>2. CASE r = Next1(p) /\ position' = Advanced(p)
      BY <2>2, <2>3, <3>2
    <3> QED BY <1>6, <2>3, <3>1, <3>2
  <2>4. \A q \in Partition : owner[q] # None => committed[q] <= position'[q]
    BY <1>0, <2>1 DEF OffsetInv
  <2> QED BY <1>6, <2>3, <2>4 DEF OffsetInv
<1>7. ASSUME UNCHANGED <<owner, committed, position>>, \A r \in Ref : InHold(r)' => InHold(r)
      PROVE  OffsetInv'
  BY <1>7 DEF OffsetInv
<1>8. ASSUME ~\E g \in Gateway, p \in Partition : Fetch(g, p), NEW r \in Ref, InHold(r)'
      PROVE  InHold(r)
  BY <1>0, <1>8, InHoldStep
<1>9. ASSUME NEW g \in Gateway, NEW p \in Partition, Fetch(g, p) PROVE OffsetInv'
  <2>1. /\ Handed(g, p) /\ UNCHANGED <<owner, committed>> /\ position' = Advanced(p)
    BY <1>9 DEF Fetch
  <2>2. \A r \in Ref : InHold(r)' => InHold(r) \/ r = Next1(p)
    BY <1>0, <1>9 DEF Fetch, InHold, InFlight, Shape, TypeOK
  <2> QED BY <1>6, <2>1, <2>2
<1>10. CASE \E g \in Gateway, p \in Partition : Fetch(g, p)
  BY <1>9, <1>10
<1>11. CASE ~\E g \in Gateway, p \in Partition : Fetch(g, p)
  <2>0. \A r \in Ref : InHold(r)' => InHold(r)
    BY <1>8, <1>11
  <2>1. CASE (\E ev \in Event : Relay(ev)) \/ StoreWriter \/ UNCHANGED vars
    BY <1>7, <2>0, <2>1 DEF Relay, StoreWriter, Expire, UpsertHset, UpsertExpire, vars, kafka
  <2>2. CASE Group
    BY <1>2, <1>3, <1>4, <2>2 DEF Group
  <2>3. ASSUME NEW g \in Gateway, NEW p \in Partition, FetchUndecodable(g, p) PROVE OffsetInv'
    BY <1>6, <2>0, <2>3 DEF FetchUndecodable
  <2>4. ASSUME NEW g \in Gateway, Work(g), ~\E p \in Partition : FetchUndecodable(g, p)
        PROVE  OffsetInv'
    <3>1. UNCHANGED <<owner, committed, position>>
      BY <1>11, <2>4 DEF Work, SyncRead, SyncHset, SyncExpire, SyncEnrich, ReadContext, Infer,
         PublishScore, PublishAction, SendAlertWebhook, PublishDlq, FinHset, FinExpire, FinEnrich,
         kafka
    <3> QED BY <1>7, <2>0, <3>1
  <2>5. ASSUME NEW g \in Gateway, CallFault(g) \/ Start(g) PROVE OffsetInv'
    BY <1>7, <2>0, <2>5 DEF CallFault, RedisFault, TritonFault, KafkaFault, KafkaLostAck, Start,
       kafka
  <2>6. ASSUME NEW g \in Gateway, Crash(g) \/ Stop(g) PROVE OffsetInv'
    BY <1>5, <2>0, <2>6 DEF Crash, Stop
  <2> QED BY <2>1, <2>2, <2>3, <2>4, <2>5, <2>6 DEF Next, Process
<1> QED BY <1>10, <1>11

\* A step that, for the sessions outside X, ends no record, leaves the hash and
\* takes away neither what is still to come nor who is about to write.
LEMMA OvertakenBut ==
    ASSUME Shape, LogGrows, NEW X,
           \A r \in Relayed' :
              Done(r)' /\ EventAt(r)'.session \notin X \union {None} => r \in Relayed /\ Done(r),
           \A s \in Session \ X : session'[s] = session[s],
           \A r \in Relayed :
              Done(r) /\ EventAt(r).session \notin X \union {None} /\ ComesAgain(r) =>
                 ComesAgain(r)' \/ BeingWritten(EventAt(r).session, r)',
           \A h \in Gateway :
              pc[h] \in Writing /\ Cur(h).session \notin X =>
                 pc'[h] \in Writing /\ cur'[h] = cur[h]
    PROVE  Overtaken' \subseteq Overtaken \union X
<1> SUFFICES ASSUME NEW s \in Overtaken', s \notin X PROVE s \in Overtaken
  OBVIOUS
<1>1. s \in Session /\ s # None
  BY DEF Overtaken
<1>2. PICK r \in Relayed' :
         /\ EventAt(r)'.session = s /\ Done(r)'
         /\ session'[s] = None \/ session'[s].o < r.o
         /\ ~ComesAgain(r)' /\ ~BeingWritten(s, r)'
  BY DEF Overtaken
<1>3. r \in Relayed /\ Done(r) /\ EventAt(r)' = EventAt(r)
  BY <1>1, <1>2 DEF LogGrows
<1>4. session'[s] = session[s]
  BY <1>1
<1>5. ~ComesAgain(r)
  BY <1>1, <1>2, <1>3
<1>6. ASSUME BeingWritten(s, r) PROVE FALSE
  <2>1. PICK g \in Gateway : pc[g] \in Writing /\ Cur(g).session = s /\ cur[g].o >= r.o
    BY <1>6 DEF BeingWritten, Writing
  <2>2. pc'[g] \in Writing /\ cur'[g] = cur[g]
    BY <2>1
  <2>3. cur[g] \in Relayed
    BY <2>1, InHand DEF Writing, Resting
  <2>4. Cur(g)' = Cur(g)
    BY <2>2, <2>3 DEF LogGrows, Cur, EventAt
  <2> QED BY <1>2, <2>1, <2>2, <2>4 DEF BeingWritten, Writing
<1> QED BY <1>1, <1>2, <1>3, <1>4, <1>5, <1>6 DEF Overtaken

LEMMA LateBut ==
    ASSUME Shape, LogGrows, NEW X,
           \A h \in Gateway :
              Late(h)' => \/ Late(h) /\ cur'[h] = cur[h]
                          \/ cur'[h] \in Relayed /\ EventAt(cur'[h]).session \in X
    PROVE  LateSessions' \subseteq LateSessions \union X
<1> SUFFICES ASSUME NEW h \in Gateway, Late(h)' PROVE Cur(h)'.session \in LateSessions \union X
  BY DEF LateSessions
<1>1. CASE Late(h) /\ cur'[h] = cur[h]
  <2>1. cur[h] \in Relayed
    BY <1>1, InHand DEF Late, Writing, Resting
  <2>2. Cur(h)' = Cur(h)
    BY <1>1, <2>1 DEF LogGrows, Cur, EventAt
  <2> QED BY <1>1, <2>2 DEF LateSessions
<1>2. CASE cur'[h] \in Relayed /\ EventAt(cur'[h]).session \in X
  <2>1. Cur(h)' = EventAt(cur'[h])
    BY <1>2 DEF LogGrows, Cur, EventAt
  <2> QED BY <1>2, <2>1
<1> QED BY <1>1, <1>2

LEMMA LooseBut ==
    ASSUME NEW X, Overtaken' \subseteq Overtaken \union X, LateSessions' \subseteq LateSessions \union X
    PROVE  Loose' \subseteq Loose \union X
BY DEF Loose

\* A step at which no partition moves and nobody begins to write.
LEMMA LooseMove ==
    ASSUME Shape, LogGrows, NEW X, UNCHANGED <<owner, position, committed>>,
           \A r \in Relayed' :
              Done(r)' /\ EventAt(r)'.session \notin X \union {None} => r \in Relayed /\ Done(r),
           \A s \in Session \ X : session'[s] = session[s],
           \A h \in Gateway : pc'[h] \in Writing => pc[h] \in Writing /\ cur'[h] = cur[h],
           \A h \in Gateway :
              pc[h] \in Writing /\ Cur(h).session \notin X =>
                 pc'[h] \in Writing /\ cur'[h] = cur[h]
    PROVE  Loose' \subseteq Loose \union X
<1>1. \A r \in Relayed : ComesAgain(r) => ComesAgain(r)'
  BY DEF ComesAgain
<1>2. Overtaken' \subseteq Overtaken \union X
  BY <1>1, OvertakenBut
<1>3. \A h \in Gateway : Late(h)' => Late(h) /\ cur'[h] = cur[h]
  BY DEF Late
<1>4. LateSessions' \subseteq LateSessions \union X
  BY <1>3, LateBut
<1> QED BY <1>2, <1>4, LooseBut

\* The same where the workers stand still.
LEMMA LooseStand ==
    ASSUME IInv, LogGrows, UNCHANGED <<owner, position, committed, pc, cur, session, outcome>>
    PROVE  Loose' \subseteq Loose
<1>1. \A r \in Relayed' : Done(r)' => r \in Relayed /\ Done(r)
  <2> SUFFICES ASSUME NEW r \in Relayed', Done(r)' PROVE r \in Relayed /\ Done(r)
    OBVIOUS
  <2>1. Done(r)
    BY DEF Done
  <2>2. r \in Ref
    BY DEF Relayed
  <2>3. CASE outcome[r] \in Handled
    BY <2>1, <2>2, <2>3 DEF IInv, OutcomeOK, Handled
  <2>4. ASSUME NEW g \in Gateway, pc[g] \in Shown, cur[g] = r PROVE r \in Relayed
    BY <2>4, InHand DEF IInv, Shown, Resting
  <2> QED BY <2>1, <2>3, <2>4 DEF Done
<1>2. Loose' \subseteq Loose \union {}
  BY <1>1, LooseMove DEF IInv
<1> QED BY <1>2

\* A step of g between its awaits: it stays on its side of the write of the
\* session hash and gives a record an outcome Handled only if it was shown.
LEMMA LooseWorker ==
    ASSUME IInv, NEW g \in Gateway, UNCHANGED <<log, owner, position, committed, session>>,
           \A h \in Gateway \ {g} : pc'[h] = pc[h] /\ cur'[h] = cur[h],
           pc'[g] \in Writing <=> pc[g] \in Writing,
           pc'[g] \in Shown => pc[g] \in Shown,
           cur'[g] = cur[g] \/ (pc[g] \notin Writing /\ pc'[g] \notin Shown),
           \A r \in Ref : outcome'[r] \in Handled => Done(r)
    PROVE  Loose' \subseteq Loose
<1>1. LogGrows /\ Relayed' = Relayed /\ \A r \in Relayed : r \in Ref
  BY LogSame DEF Relayed
<1>2. \A r \in Relayed : Done(r)' => Done(r)
  BY <1>1 DEF Done
<1>3. \A h \in Gateway : pc'[h] \in Writing <=> pc[h] \in Writing
  OBVIOUS
<1>4. \A h \in Gateway : pc[h] \in Writing => cur'[h] = cur[h]
  OBVIOUS
<1>5. Loose' \subseteq Loose \union {}
  BY <1>1, <1>2, <1>3, <1>4, LooseMove DEF IInv
<1> QED BY <1>5

\* The write of the session hash: from here on the session shows the record in
\* hand, which is the newest of its partition, or comes before those that will
\* be handed out again; or the worker was late.
LEMMA LooseWritten ==
    ASSUME IInv, PlacedOK, NEW g \in Gateway, SyncEnrich(g) \/ FinEnrich(g)
    PROVE  Loose' \subseteq Loose
<1> DEFINE s == Cur(g).session
<1>0. /\ UNCHANGED <<log, owner, position, committed>> /\ EnrichSession(g)
      /\ pc[g] \in Writing /\ pc'[g] \notin Writing
      /\ \A h \in Gateway \ {g} : pc'[h] = pc[h] /\ cur'[h] = cur[h]
      /\ cur'[g] \in {None, cur[g]}
      /\ \A r \in Ref : outcome'[r] = outcome[r] \/ r = cur[g]
  BY DEF SyncEnrich, FinEnrich, Return, kafka, Writing, IInv, Shape, TypeOK
<1>1. /\ Shape /\ LogGrows /\ Relayed' = Relayed
      /\ \A r \in Relayed : EventAt(r)' = EventAt(r) /\ r \in Ref /\ r # None
      /\ \A r \in Relayed : r.p \in Partition /\ r.o \in Nat
      /\ position \in [Partition -> Nat]
  BY <1>0, LogSame, RefAssumption DEF IInv, Relayed, EventAt, Shape, TypeOK, Ref
<1>2. cur[g] \in Relayed
  BY <1>0, <1>1, InHand DEF Writing, Resting
<1>3. \A r \in Relayed : Done(r)' => Done(r) \/ r = cur[g]
  BY <1>0, <1>1 DEF Done
<1>4. \A t \in Session \ {s} : session'[t] = session[t]
  BY <1>0, <1>1 DEF EnrichSession, Enriched, Shape, TypeOK
<1>5. Overtaken' \subseteq Overtaken \union {s}
  <2>1. \A r \in Relayed' :
           Done(r)' /\ EventAt(r)'.session \notin {s} \union {None} => r \in Relayed /\ Done(r)
    BY <1>1, <1>3 DEF Cur
  <2>2. \A r \in Relayed : ComesAgain(r) => ComesAgain(r)'
    BY <1>0 DEF ComesAgain
  <2>3. \A h \in Gateway :
           pc[h] \in Writing /\ Cur(h).session \notin {s} =>
              pc'[h] \in Writing /\ cur'[h] = cur[h]
    BY <1>0
  <2> QED BY <1>1, <1>4, <2>1, <2>2, <2>3, OvertakenBut
<1>6. LateSessions' \subseteq LateSessions \union {}
  <2>1. \A h \in Gateway : Late(h)' => Late(h) /\ cur'[h] = cur[h]
    BY <1>0 DEF Late
  <2> QED BY <1>1, <2>1, LateBut
<1>7. CASE Late(g)
  <2>1. s \in LateSessions
    BY <1>7 DEF LateSessions
  <2> QED BY <1>5, <1>6, <2>1 DEF Loose
<1>8. CASE ~Late(g)
  <2>1. owner[cur[g].p] = g /\ position[cur[g].p] <= cur[g].o + 1
    BY <1>0, <1>8 DEF Late
  <2>2. ASSUME s \in Overtaken' PROVE FALSE
    <3>1. PICK r \in Relayed :
             /\ EventAt(r).session = s /\ Done(r)'
             /\ session'[s] = None \/ session'[s].o < r.o
             /\ ~ComesAgain(r)'
      BY <1>1, <2>2 DEF Overtaken
    <3>2. s \in Session /\ s # None
      BY <2>2 DEF Overtaken
    <3>3. session'[s] = cur[g] /\ cur[g] # None
      BY <1>0, <1>1, <1>2, <3>2 DEF EnrichSession, Enriched, Shape, TypeOK
    <3>4. r.p = cur[g].p
      BY <1>2, <3>1 DEF PlacedOK, Cur
    <3>5. cur[g].o < r.o
      BY <3>1, <3>3
    <3>6. position[r.p] <= r.o
      BY <1>1, <1>2, <2>1, <3>4, <3>5
    <3>7. owner[r.p] # None
      BY <2>1, <3>4, PipelineAssumption
    <3> QED BY <1>0, <3>1, <3>6, <3>7 DEF ComesAgain
  <2> QED BY <1>5, <1>6, <2>2 DEF Loose
<1> QED BY <1>7, <1>8

\* A partition without an owner is read from its committed offset, which is
\* where its records were to come again.
LEMMA LooseAssign ==
    ASSUME IInv, NEW g \in Gateway, NEW p \in Partition, Assign(g, p)
    PROVE  Loose' \subseteq Loose
<1>0. /\ Shape /\ LogGrows /\ UNCHANGED <<log, committed, pc, cur, session>>
      /\ owner[p] = None /\ owner'[p] = g /\ position'[p] = StartPosition(p)
      /\ \A q \in Partition \ {p} : owner'[q] = owner[q] /\ position'[q] = position[q]
      /\ \A r \in Ref : outcome'[r] \in Handled => outcome[r] \in Handled
      /\ g # None /\ None \notin Gateway
  BY LogSame, PipelineAssumption DEF Assign, worker, redis, Handled, IInv, Shape, TypeOK
<1>1. Relayed' = Relayed /\ \A r \in Relayed : r \in Ref /\ r.p \in Partition
  BY <1>0 DEF Relayed, Ref
<1>2. \A r \in Relayed : Done(r)' => Done(r)
  BY <1>0, <1>1 DEF Done
<1>3. \A r \in Relayed : ComesAgain(r) => ComesAgain(r)'
  BY <1>0, <1>1 DEF ComesAgain, StartPosition
<1>4. Overtaken' \subseteq Overtaken \union {}
  BY <1>0, <1>1, <1>2, <1>3, OvertakenBut
<1>5. \A h \in Gateway : Late(h)' => Late(h) /\ cur'[h] = cur[h]
  <2> SUFFICES ASSUME NEW h \in Gateway, Late(h)' PROVE Late(h)
    BY <1>0
  <2>1. pc[h] \in Writing /\ cur[h] \in Relayed
    BY <1>0, InHand DEF Late, Writing, Resting
  <2> QED BY <1>0, <1>1, <2>1 DEF Late
<1>6. LateSessions' \subseteq LateSessions \union {}
  BY <1>0, <1>5, LateBut
<1> QED BY <1>4, <1>6 DEF Loose

\* A commit moves nothing: what is owned comes again from its position.
LEMMA LooseCommit ==
    ASSUME IInv, NEW g \in Gateway, AutoCommit(g)
    PROVE  Loose' \subseteq Loose
<1>0. /\ Shape /\ LogGrows /\ UNCHANGED <<log, owner, position, pc, cur, session, outcome>>
      /\ \A q \in Partition : owner[q] = None => committed'[q] = committed[q]
  BY LogSame, PipelineAssumption DEF AutoCommit, CommittedBy, worker, redis, history, IInv
<1>1. Relayed' = Relayed /\ \A r \in Relayed : r.p \in Partition
  BY <1>0 DEF Relayed, Ref
<1>2. \A r \in Relayed : Done(r)' => Done(r)
  BY <1>0 DEF Done
<1>3. \A r \in Relayed : ComesAgain(r) => ComesAgain(r)'
  BY <1>0, <1>1 DEF ComesAgain
<1>4. Overtaken' \subseteq Overtaken \union {}
  BY <1>0, <1>1, <1>2, <1>3, OvertakenBut
<1>5. LateSessions' \subseteq LateSessions \union {}
  <2>1. \A h \in Gateway : Late(h)' => Late(h) /\ cur'[h] = cur[h]
    BY <1>0 DEF Late
  <2> QED BY <1>0, <2>1, LateBut
<1> QED BY <1>4, <1>5 DEF Loose

\* Whoever owned a partition that is now without owner had committed something
\* or had no record of it to come again that was handled before.
LEMMA ComesAgainUnowned ==
    ASSUME IInv, OffsetInv, NEW r \in Relayed, Done(r), ComesAgain(r),
           owner'[r.p] = None,
           \/ committed'[r.p] = committed[r.p]
           \/ owner[r.p] # None /\ committed'[r.p] = position[r.p]
    PROVE  ComesAgain(r)'
<1>1. /\ r \in Ref /\ r.p \in Partition /\ r.o \in Nat
      /\ committed[r.p] \in Nat /\ position[r.p] \in Nat
  BY DEF Relayed, Ref, IInv, Shape, TypeOK
<1>2. CASE owner[r.p] = None
  BY <1>2 DEF ComesAgain
<1>3. CASE owner[r.p] # None
  <2>1. position[r.p] <= r.o /\ committed[r.p] <= position[r.p] /\ position[r.p] # NoOffset
    BY <1>1, <1>3 DEF ComesAgain, OffsetInv, IInv, Shape, OffsetsOK
  <2>2. InHold(r)
    BY DEF Done, InHold, InFlight
  <2>3. committed[r.p] # NoOffset
    BY <1>1, <1>3, <2>1, <2>2 DEF OffsetInv
  <2> QED BY <1>1, <2>1, <2>3 DEF ComesAgain
<1> QED BY <1>2, <1>3

\* A partition moves: the worker that has a record of it in hand is late now.
LEMMA LooseRevoke ==
    ASSUME IInv, OffsetInv, NEW p \in Partition, Revoke(p)
    PROVE  \E x : Loose' \subseteq Loose \union {x}
<1> DEFINE x == Cur(owner[p]).session
<1>0. /\ Shape /\ LogGrows /\ UNCHANGED <<log, pc, cur, session, outcome>>
      /\ owner[p] # None /\ owner'[p] = None
      /\ committed'[p] = position[p] \/ committed'[p] = committed[p]
      /\ \A q \in Partition \ {p} :
            owner'[q] = owner[q] /\ position'[q] = position[q] /\ committed'[q] = committed[q]
  BY LogSame DEF Revoke, worker, redis, IInv, Shape, TypeOK
<1>1. Relayed' = Relayed /\ \A r \in Relayed : r \in Ref /\ r.p \in Partition
  BY <1>0 DEF Relayed, Ref
<1>2. \A r \in Relayed : Done(r)' => Done(r)
  BY <1>0 DEF Done
<1>3. ASSUME NEW r \in Relayed, Done(r), ComesAgain(r) PROVE ComesAgain(r)'
  <2>1. CASE r.p = p
    BY <1>0, <1>3, <2>1, ComesAgainUnowned
  <2>2. CASE r.p # p
    BY <1>0, <1>1, <1>3, <2>2 DEF ComesAgain
  <2> QED BY <2>1, <2>2
<1>4. Overtaken' \subseteq Overtaken \union {}
  BY <1>0, <1>1, <1>2, <1>3, OvertakenBut
<1>5. ASSUME NEW h \in Gateway, Late(h)'
      PROVE  \/ Late(h) /\ cur'[h] = cur[h]
             \/ cur'[h] \in Relayed /\ EventAt(cur'[h]).session \in {x}
  <2>1. pc[h] \in Writing /\ cur[h] \in Relayed /\ cur'[h] = cur[h]
    BY <1>0, <1>5, InHand DEF Late, Writing, Resting
  <2>2. CASE cur[h].p = p /\ owner[p] = h
    BY <2>1, <2>2 DEF Cur
  <2>3. CASE cur[h].p # p \/ owner[p] # h
    BY <1>0, <1>1, <1>5, <2>1, <2>3 DEF Late
  <2> QED BY <2>2, <2>3
<1>6. LateSessions' \subseteq LateSessions \union {x}
  BY <1>0, <1>5, LateBut
<1>7. Loose' \subseteq Loose \union {x}
  BY <1>4, <1>6 DEF Loose
<1> QED BY <1>7

\* A worker goes, and with it the write that was under way.
LEMMA LooseGone ==
    ASSUME IInv, OffsetInv, NEW g \in Gateway, Gone(g),
           committed' = committed \/ committed' = CommittedBy(g)
    PROVE  \E x : Loose' \subseteq Loose \union {x}
<1> DEFINE x == Cur(g).session
<1>0. /\ Shape /\ LogGrows /\ UNCHANGED <<log, session>>
      /\ pc'[g] = "down" /\ \A h \in Gateway \ {g} : pc'[h] = pc[h] /\ cur'[h] = cur[h]
      /\ \A q \in Partition : owner[q] = g => owner'[q] = None
      /\ \A q \in Partition :
            owner[q] # g => /\ owner'[q] = owner[q] /\ position'[q] = position[q]
                            /\ committed'[q] = committed[q]
      /\ \A q \in Partition : committed'[q] = committed[q] \/ committed'[q] = position[q]
      /\ \A r \in Ref : outcome'[r] \in Handled => outcome[r] \in Handled
      /\ g # None
  BY LogSame, PipelineAssumption DEF Gone, CommittedBy, redis, Handled, IInv, Shape, TypeOK
<1>1. Relayed' = Relayed /\ \A r \in Relayed : r \in Ref /\ r.p \in Partition
  BY <1>0 DEF Relayed, Ref
<1>2. \A r \in Relayed : Done(r)' => Done(r)
  BY <1>0, <1>1 DEF Done, Shown
<1>3. ASSUME NEW r \in Relayed, Done(r), ComesAgain(r) PROVE ComesAgain(r)'
  <2>1. CASE owner[r.p] = g
    BY <1>0, <1>1, <1>3, <2>1, ComesAgainUnowned
  <2>2. CASE owner[r.p] # g
    BY <1>0, <1>1, <1>3, <2>2 DEF ComesAgain
  <2> QED BY <2>1, <2>2
<1>4. \A h \in Gateway :
         pc[h] \in Writing /\ Cur(h).session \notin {x} => pc'[h] \in Writing /\ cur'[h] = cur[h]
  BY <1>0
<1>5. Overtaken' \subseteq Overtaken \union {x}
  BY <1>0, <1>1, <1>2, <1>3, <1>4, OvertakenBut
<1>6. ASSUME NEW h \in Gateway, Late(h)' PROVE Late(h) /\ cur'[h] = cur[h]
  <2>1. h # g
    BY <1>0, <1>6 DEF Late, Writing
  <2>2. pc[h] \in Writing /\ cur'[h] = cur[h]
    BY <1>0, <1>6, <2>1 DEF Late
  <2>3. cur[h] \in Relayed
    BY <1>0, <2>2, InHand DEF Writing, Resting
  <2> QED BY <1>0, <1>1, <1>6, <2>1, <2>2, <2>3 DEF Late
<1>7. LateSessions' \subseteq LateSessions \union {}
  BY <1>0, <1>6, LateBut
<1>8. Loose' \subseteq Loose \union {x}
  BY <1>5, <1>7 DEF Loose
<1> QED BY <1>8

\* The next record is handed out: it was to come again, and is being written.
LEMMA LooseFetch ==
    ASSUME IInv, HandledValid, NEW g \in Gateway, NEW p \in Partition,
           Fetch(g, p) \/ FetchUndecodable(g, p)
    PROVE  Loose' \subseteq Loose
<1> DEFINE r0 == Next1(p)
           ev == EventAt(r0)
<1>0. /\ Shape /\ LogGrows /\ UNCHANGED <<log, owner, committed, session>>
      /\ pc[g] = "idle" /\ owner[p] = g /\ g # None
      /\ position' = Advanced(p) \/ position' = position
      /\ \A h \in Gateway \ {g} : pc'[h] = pc[h] /\ cur'[h] = cur[h]
      /\ position \in [Partition -> Nat]
  BY LogSame, PipelineAssumption DEF Fetch, FetchUndecodable, Handed, redis, IInv, Shape, TypeOK
<1>1. /\ Relayed' = Relayed
      /\ \A r \in Relayed : r \in Ref /\ r.p \in Partition /\ r.o \in Nat /\ EventAt(r)' = EventAt(r)
  BY <1>0 DEF Relayed, Ref, EventAt
<1>2. r0 \in Ref /\ r0 \in Relayed /\ r0.p = p /\ r0.o = position[p]
  BY <1>0, NextRecord DEF Fetch, FetchUndecodable, Next1
<1>3. pc'[g] \notin Shown /\ (pc'[g] \in Writing => Fetch(g, p) /\ cur'[g] = r0)
  BY <1>0 DEF Fetch, FetchUndecodable, FirstStep, Shown, Writing, IInv, Shape, TypeOK
<1>4. ASSUME NEW r \in Relayed, Done(r)', EventAt(r).session # None PROVE Done(r)
  <2>1. ASSUME NEW h \in Gateway, pc'[h] \in Shown, cur'[h] = r PROVE Done(r)
    BY <1>0, <1>3, <2>1 DEF Done
  <2>2. ASSUME outcome'[r] \in Handled PROVE outcome[r] \in Handled
    <3>1. \/ outcome'[r] = outcome[r] \/ outcome'[r] = "poison"
          \/ r = r0 /\ EntityKey(ev) = None
      BY <1>0, <1>1, <1>2 DEF Fetch, FetchUndecodable, IInv, Shape, TypeOK
    <3> QED BY <1>4, <2>2, <3>1 DEF EntityKey, Handled
  <2> QED BY <1>4, <2>1, <2>2 DEF Done
<1>5. ASSUME NEW r \in Relayed, Done(r), EventAt(r).session # None
      PROVE  EventAt(r).form = "valid"
  BY <1>0, <1>1, <1>5 DEF Done, HandledValid, Shape, ControlOK, Shown, Handling, Step, Cur
<1>6. ASSUME NEW r \in Relayed, Done(r), EventAt(r).session # None, ComesAgain(r)
      PROVE  ComesAgain(r)' \/ BeingWritten(EventAt(r).session, r)'
  <2>1. CASE r.p # p \/ position' = position
    BY <1>0, <1>1, <1>6, <2>1 DEF ComesAgain, Advanced
  <2>2. CASE r.p = p /\ position[p] < r.o
    BY <1>0, <1>1, <1>6, <2>2 DEF ComesAgain, Advanced
  <2>3. CASE r.p = p /\ position[p] = r.o
    <3>1. r = r0
      BY <1>1, <1>2, <2>3 DEF Ref
    <3>2. ev.form = "valid" /\ EntityKey(ev) # None
      BY <1>5, <1>6, <3>1 DEF EntityKey
    <3>3. pc'[g] \in Writing /\ cur'[g] = r0
      BY <1>0, <3>2 DEF Fetch, FetchUndecodable, FirstStep, Writing, IInv, Shape, TypeOK
    <3>4. Cur(g)'.session = EventAt(r)'.session /\ cur'[g].o >= r.o
      BY <1>1, <1>2, <3>1, <3>3 DEF Cur, EventAt
    <3> QED BY <3>3, <3>4 DEF BeingWritten, Writing
  <2> QED BY <1>0, <1>1, <1>2, <1>6, <2>1, <2>2, <2>3 DEF ComesAgain
<1>7. \A h \in Gateway : pc[h] \in Writing => pc'[h] \in Writing /\ cur'[h] = cur[h]
  BY <1>0 DEF Writing
<1>8. Overtaken' \subseteq Overtaken \union {}
  BY <1>0, <1>1, <1>4, <1>6, <1>7, OvertakenBut
<1>9. ASSUME NEW h \in Gateway, Late(h)' PROVE Late(h) /\ cur'[h] = cur[h]
  <2>1. CASE h = g
    <3>1. Fetch(g, p) /\ cur'[g] = r0
      BY <1>3, <1>9, <2>1 DEF Late
    <3>2. position'[p] = position[p] + 1
      BY <1>0, <3>1 DEF Fetch, Advanced
    <3> QED BY <1>0, <1>2, <1>9, <2>1, <3>1, <3>2 DEF Late
  <2>2. CASE h # g
    <3>1. pc[h] \in Writing /\ cur'[h] = cur[h]
      BY <1>0, <1>9, <2>2 DEF Late
    <3>2. cur[h] \in Relayed
      BY <1>0, <3>1, InHand DEF Writing, Resting
    <3>3. CASE cur[h].p = p
      BY <1>0, <2>2, <3>1, <3>3 DEF Late
    <3>4. CASE cur[h].p # p
      BY <1>0, <1>1, <1>9, <3>1, <3>2, <3>4 DEF Late, Advanced
    <3> QED BY <3>3, <3>4
  <2> QED BY <2>1, <2>2
<1>10. LateSessions' \subseteq LateSessions \union {}
  BY <1>0, <1>9, LateBut
<1> QED BY <1>8, <1>10 DEF Loose

LEMMA LooseWork ==
    ASSUME StaleInv, NEW g \in Gateway, Work(g)
    PROVE  Loose' \subseteq Loose
<1>0. IInv /\ Shape /\ g \in DOMAIN pc /\ g \in DOMAIN cur
  BY DEF StaleInv, IInv, Shape, TypeOK
<1>1. ASSUME NEW p \in Partition, Fetch(g, p) \/ FetchUndecodable(g, p)
      PROVE  Loose' \subseteq Loose
  BY <1>1, LooseFetch DEF StaleInv
<1>2. CASE SyncEnrich(g) \/ FinEnrich(g)
  BY <1>2, LooseWritten DEF StaleInv
<1>3. CASE SyncRead(g) \/ SyncHset(g) \/ SyncExpire(g) \/ FinHset(g) \/ FinExpire(g)
  <2>1. /\ UNCHANGED <<log, owner, position, committed, session, cur, outcome>>
        /\ \A h \in Gateway \ {g} : pc'[h] = pc[h]
        /\ pc[g] \in Writing /\ pc'[g] \in Writing /\ pc'[g] \notin Shown
    BY <1>0, <1>3 DEF SyncRead, SyncHset, SyncExpire, FinHset, FinExpire, Wait, kafka, redis,
       history, Writing, Shown, Shape, TypeOK
  <2>2. \A r \in Ref : outcome'[r] \in Handled => Done(r)
    BY <2>1 DEF Done
  <2> QED BY <1>0, <2>1, <2>2, LooseWorker
<1>4. CASE ReadContext(g) \/ Infer(g) \/ PublishScore(g)
  <2>1. /\ UNCHANGED <<log, owner, position, committed, session, cur, outcome>>
        /\ \A h \in Gateway \ {g} : pc'[h] = pc[h]
        /\ pc[g] \notin Writing /\ pc[g] \in Shown /\ pc'[g] \notin Writing
    BY <1>0, <1>4 DEF ReadContext, Infer, PublishScore, Wait, Raise, kafka, redis, history,
       Writing, Shown, Shape, TypeOK
  <2>2. \A r \in Ref : outcome'[r] \in Handled => Done(r)
    BY <2>1 DEF Done
  <2> QED BY <1>0, <2>1, <2>2, LooseWorker
<1>5. CASE PublishAction(g) \/ SendAlertWebhook(g) \/ PublishDlq(g)
  <2>1. /\ UNCHANGED <<log, owner, position, committed, session>>
        /\ \A h \in Gateway \ {g} : pc'[h] = pc[h] /\ cur'[h] = cur[h]
        /\ pc[g] \notin Writing /\ pc'[g] \notin Writing
        /\ pc'[g] \in Shown => pc[g] \in Shown /\ cur'[g] = cur[g]
    BY <1>0, <1>5 DEF PublishAction, SendAlertWebhook, PublishDlq, Return, Die, kafka, redis,
       Writing, Shown, Shape, TypeOK
  <2>2. \A r \in Ref : \/ outcome'[r] = outcome[r]
                       \/ outcome'[r] \in {"dlq", "dropped", "poison"}
                       \/ r = cur[g] /\ pc[g] \in Shown
    BY <1>0, <1>5 DEF PublishAction, SendAlertWebhook, PublishDlq, Return, Die, Shown, Shape, TypeOK
  <2>3. \A r \in Ref : outcome'[r] \in Handled => Done(r)
    BY <2>2 DEF Done, Handled
  <2> QED BY <1>0, <2>1, <2>3, LooseWorker
<1> QED BY <1>1, <1>2, <1>3, <1>4, <1>5 DEF Work

LEMMA LooseFault ==
    ASSUME StaleInv, NEW g \in Gateway,
           TritonFault(g) \/ KafkaFault(g) \/ KafkaLostAck(g) \/ Start(g)
    PROVE  Loose' \subseteq Loose
<1>0. IInv /\ Shape /\ g \in DOMAIN pc /\ g \in DOMAIN cur
  BY DEF StaleInv, IInv, Shape, TypeOK
<1>1. /\ UNCHANGED <<log, owner, position, committed, session>>
      /\ \A h \in Gateway \ {g} : pc'[h] = pc[h] /\ cur'[h] = cur[h]
      /\ pc[g] \notin Writing /\ pc'[g] \notin Writing
      /\ pc'[g] \in Shown => pc[g] \in Shown /\ cur'[g] = cur[g]
  BY <1>0 DEF TritonFault, KafkaFault, KafkaLostAck, Start, Raise, Die, kafka, worker, redis,
     Writing, Shown, Shape, TypeOK
<1>2. \A r \in Ref : outcome'[r] = outcome[r] \/ outcome'[r] = "lost"
  BY <1>0 DEF TritonFault, KafkaFault, KafkaLostAck, Start, Die, history, Shape, TypeOK
<1>3. \A r \in Ref : outcome'[r] \in Handled => Done(r)
  BY <1>2 DEF Done, Handled
<1> QED BY <1>0, <1>1, <1>3, LooseWorker

\* A failed Redis call takes the write of one session with it, or leaves an
\* older event in the hash of one.
LEMMA LooseRedis ==
    ASSUME StaleInv, NEW g \in Gateway, RedisFault(g)
    PROVE  \E x : Loose' \subseteq Loose \union {x}
<1> DEFINE x == Cur(g).session
<1>0. /\ IInv /\ Shape /\ LogGrows /\ Relayed' = Relayed
      /\ UNCHANGED <<log, owner, position, committed, cur, outcome>>
      /\ pc'[g] = "publish_dlq" /\ \A h \in Gateway \ {g} : pc'[h] = pc[h]
      /\ \A s \in Session \ {x} : session'[s] = session[s]
  BY LogSame DEF RedisFault, Raise, Enriched, kafka, StaleInv, IInv, Shape, TypeOK, Relayed
<1>1. \A r \in Relayed : Done(r)' => Done(r)
  BY <1>0 DEF Done, Shown
<1>2. \A h \in Gateway : pc'[h] \in Writing => pc[h] \in Writing /\ cur'[h] = cur[h]
  BY <1>0 DEF Writing
<1>3. \A h \in Gateway :
         pc[h] \in Writing /\ Cur(h).session \notin {x} => pc'[h] \in Writing /\ cur'[h] = cur[h]
  BY <1>0
<1>4. Loose' \subseteq Loose \union {x}
  BY <1>0, <1>1, <1>2, <1>3, LooseMove
<1> QED BY <1>4

LEMMA LooseStep ==
    ASSUME StaleInv, [Next]_vars
    PROVE  \/ Loose' \subseteq Loose
           \/ \E k \in Interrupts : \E x : Spend(k) /\ Loose' \subseteq Loose \union {x}
<1>0. IInv /\ Shape /\ LogGrows
  BY LogGrowsNext DEF StaleInv, IInv
<1>1. CASE \/ \E ev \in Event : Relay(ev)
           \/ \E g \in Gateway : AutoCommit(g)
           \/ StoreWriter
           \/ UNCHANGED vars
  <2>1. CASE ~\E g \in Gateway : AutoCommit(g)
    <3>1. UNCHANGED <<owner, position, committed, pc, cur, session, outcome>>
      BY <1>1, <2>1 DEF Relay, StoreWriter, Expire, UpsertHset, UpsertExpire, vars, kafka, worker,
         redis, history
    <3> QED BY <1>0, <3>1, LooseStand
  <2>2. ASSUME NEW g \in Gateway, AutoCommit(g) PROVE Loose' \subseteq Loose
    BY <2>2, LooseCommit DEF StaleInv
  <2> QED BY <2>1, <2>2
<1>2. ASSUME NEW g \in Gateway, NEW p \in Partition, Assign(g, p) PROVE Loose' \subseteq Loose
  BY <1>0, <1>2, LooseAssign
<1>3. ASSUME NEW p \in Partition, Revoke(p)
      PROVE  \E k \in Interrupts : \E x : Spend(k) /\ Loose' \subseteq Loose \union {x}
  BY <1>3, LooseRevoke DEF Revoke, StaleInv, Interrupts
<1>4. ASSUME NEW g \in Gateway, RedisFault(g)
      PROVE  \E k \in Interrupts : \E x : Spend(k) /\ Loose' \subseteq Loose \union {x}
  BY <1>4, LooseRedis DEF RedisFault, Interrupts
<1>5. ASSUME NEW g \in Gateway, Crash(g) \/ Stop(g)
      PROVE  \E k \in Interrupts : \E x : Spend(k) /\ Loose' \subseteq Loose \union {x}
  <2>1. \E k \in Interrupts : Spend(k)
    BY <1>5 DEF Crash, Stop, Interrupts
  <2>2. Gone(g) /\ (committed' = committed \/ committed' = CommittedBy(g))
    BY <1>5 DEF Crash, Stop
  <2> QED BY <2>1, <2>2, LooseGone DEF StaleInv
<1> QED BY <1>1, <1>2, <1>3, <1>4, <1>5, LooseWork, LooseFault DEF Next, Group, CallFault, Process

LEMMA RestartsGrow ==
    ASSUME Shape, Shape', [Next]_vars
    PROVE  /\ Restarts + fault["redis"] \in Nat
           /\ (Restarts + fault["redis"])' \in Nat
           /\ Restarts + fault["redis"] <= (Restarts + fault["redis"])'
<1>1. FaultsGrown
  BY FaultsGrow
<1>2. \A k \in Interrupts : fault[k] \in Nat /\ fault'[k] \in Nat /\ fault[k] <= fault'[k]
  BY <1>1 DEF Shape, TypeOK, FaultsGrown, FaultKind, Interrupts
<1> QED BY <1>2 DEF Restarts, Interrupts

LEMMA RestartsPaid ==
    ASSUME Shape, NEW k \in Interrupts, Spend(k)
    PROVE  (Restarts + fault["redis"])' = (Restarts + fault["redis"]) + 1
<1>1. fault'[k] = fault[k] + 1 /\ \A j \in FaultKind \ {k} : fault'[j] = fault[j]
  BY SpendCounts DEF FaultKind, Interrupts
<1>2. \A j \in Interrupts : fault[j] \in Nat
  BY DEF Shape, TypeOK, FaultKind, Interrupts
<1>3. \A j \in Interrupts \ {k} : fault'[j] = fault[j]
  BY <1>1 DEF FaultKind, Interrupts
<1>4. CASE k = "crash"
  BY <1>1, <1>2, <1>3, <1>4 DEF Restarts, Interrupts
<1>5. CASE k = "stop"
  BY <1>1, <1>2, <1>3, <1>5 DEF Restarts, Interrupts
<1>6. CASE k = "rebalance"
  BY <1>1, <1>2, <1>3, <1>6 DEF Restarts, Interrupts
<1>7. CASE k = "redis"
  BY <1>1, <1>2, <1>3, <1>7 DEF Restarts, Interrupts
<1> QED BY <1>4, <1>5, <1>6, <1>7 DEF Interrupts

LEMMA StaleInvNext ==
    ASSUME StaleInv, [Next]_vars
    PROVE  StaleInv'
<1> DEFINE n == Restarts + fault["redis"]
<1>0. IInv /\ Shape /\ IInv' /\ Shape'
  BY IInvNext DEF StaleInv, IInv
<1>1. PlacedOK' /\ OffsetInv' /\ HandledValid'
  BY <1>0, PlacedNext, OffsetNext, HandledValidNext DEF StaleInv
<1>2. n \in Nat /\ n' \in Nat /\ n <= n'
  BY <1>0, RestartsGrow
<1>3. IsFiniteSet(Loose) /\ Cardinality(Loose) <= n
  BY DEF StaleInv, LooseOK
<1>4. IsFiniteSet(Loose') /\ Cardinality(Loose') <= n'
  <2>1. CASE Loose' \subseteq Loose
    <3> HIDE DEF n
    <3>1. IsFiniteSet(Loose') /\ Cardinality(Loose') \in Nat /\ Cardinality(Loose') <= n
      BY <1>2, <1>3, <2>1, CountShrinks
    <3> QED BY <1>2, <3>1
  <2>2. ASSUME NEW k \in Interrupts, NEW x, Spend(k), Loose' \subseteq Loose \union {x}
        PROVE  IsFiniteSet(Loose') /\ Cardinality(Loose') <= n'
    <3>1. n' = n + 1
      BY <1>0, <2>2, RestartsPaid
    <3> HIDE DEF n
    <3>2. IsFiniteSet(Loose') /\ Cardinality(Loose') <= n + 1
      BY <1>2, <1>3, <2>2, CountAdds
    <3> QED BY <3>1, <3>2
  <2> QED BY <2>1, <2>2, LooseStep
<1> QED BY <1>0, <1>1, <1>4 DEF StaleInv, LooseOK

LEMMA StaleInvInit == Init => StaleInv
<1> SUFFICES ASSUME Init PROVE StaleInv
  OBVIOUS
<1>1. IInv /\ PlacedOK
  BY IInvInit, OrderInit
<1>2. OffsetInv /\ HandledValid
  BY DEF Init, OffsetInv, HandledValid, Handled
<1>3. Relayed = {} /\ \A g \in Gateway : ~Late(g)
  BY DEF Init, Relayed, Ref, Late, Writing
<1>4. Loose = {}
  BY <1>3 DEF Loose, Overtaken, LateSessions
<1>5. Restarts + fault["redis"] = 0
  BY DEF Init, Restarts, FaultKind
<1> QED BY <1>1, <1>2, <1>4, <1>5, FS_EmptySet DEF StaleInv, LooseOK

LEMMA StaleSessionsBound ==
    ASSUME StaleInv
    PROVE  StaleSessionsBounded
<1> DEFINE n == Restarts + fault["redis"]
<1>1. StaleSessions \subseteq Loose
  BY DEF StaleSessions, Loose, Overtaken, Done
<1>2. n \in Nat
  BY DEF StaleInv, IInv, Shape, TypeOK, Restarts, FaultKind
<1>3. IsFiniteSet(Loose) /\ Cardinality(Loose) <= n
  BY DEF StaleInv, LooseOK
<1> HIDE DEF n
<1>4. Cardinality(StaleSessions) <= n
  BY <1>1, <1>2, <1>3, CountShrinks
<1> QED BY <1>4 DEF StaleSessionsBounded, n

\* Nothing in Redis orders the writes of a session hash, the last HSET wins.
\* That an older event nearly never stays on top rests on the topic: one
\* partition for a session, one owner for a partition, one record at a time, and
\* replays that come forward again.  A worker that goes, a Redis call that fails
\* and a partition that moves under a record leave one session each to the rest.
THEOREM StaleSessionsPaidFor == Spec => []StaleSessionsBounded
BY StaleInvInit, StaleInvNext, StaleSessionsBound, PTL DEF Spec

-------------------------------------------------------------------------------
(* The keyword count against the sum over the log *)

\* The keyword hits of a set of records, one by one: their number is the sum.
Marks(S) == {m \in S \X Nat : m[2] \in 1..EventAt(m[1]).hits}

Readable(S) == \A r \in S : EventAt(r).hits \in Nat

LEMMA MarksAdd ==
    ASSUME NEW S, NEW x, EventAt(x).hits \in Nat, IsFiniteSet(Marks(S))
    PROVE  /\ IsFiniteSet(Marks(S \union {x}))
           /\ Cardinality(Marks(S \union {x}))
                = Cardinality(Marks(S)) + (IF x \in S THEN 0 ELSE EventAt(x).hits)
<1> DEFINE h == EventAt(x).hits
           own == {x} \X (1..h)
<1>1. IsFiniteSet(own) /\ Cardinality(own) = h
  <2>1. IsFiniteSet({x}) /\ Cardinality({x}) = 1
    BY FS_Singleton
  <2>2. IsFiniteSet(1..h) /\ Cardinality(1..h) = h
    <3>1. 1 \in Int /\ h \in Int
      OBVIOUS
    <3>2. IsFiniteSet(1..h) /\ Cardinality(1..h) = IF 1 > h THEN 0 ELSE h - 1 + 1
      BY <3>1, FS_Interval, Zenon
    <3> QED BY <3>2
  <2>3. IsFiniteSet(own) /\ Cardinality(own) = 1 * h
    BY <2>1, <2>2, FS_Product
  <2> QED BY <2>3
<1>2. Marks(S \union {x}) = Marks(S) \union own
  BY DEF Marks
<1>3. Cardinality(Marks(S)) \in Nat
  BY FS_CardinalityType
<1>4. CASE x \in S
  <2>1. S \union {x} = S
    BY <1>4
  <2> QED BY <1>3, <1>4, <2>1
<1>5. CASE x \notin S
  <2>1. Marks(S) \cap own = {}
    BY <1>5 DEF Marks
  <2>2. /\ IsFiniteSet(Marks(S) \union own)
        /\ Cardinality(Marks(S) \union own)
             = Cardinality(Marks(S)) + Cardinality(own) - Cardinality(Marks(S) \cap own)
    BY <1>1, FS_Union
  <2>3. Cardinality(Marks(S) \cap own) = 0
    BY <2>1, FS_EmptySet
  <2>4. Cardinality(Marks(S) \union own) = Cardinality(Marks(S)) + h
    <3>1. \A a \in Nat : a + h - 0 = a + h
      OBVIOUS
    <3> HIDE DEF own, h
    <3> QED BY <1>1, <1>3, <2>2, <2>3, <3>1
  <2> QED BY <1>2, <1>5, <2>2, <2>4, Zenon
<1> QED BY <1>4, <1>5

\* Every subset of a finite set is good if the empty one is, and each other one
\* is as soon as it is without some element of its own.
LEMMA SubsetInduction ==
    ASSUME NEW S, IsFiniteSet(S), NEW Good, {} \in Good,
           \A T \in SUBSET S : T # {} => \E x \in T : T \ {x} \in Good => T \in Good
    PROVE  SUBSET S \subseteq Good
<1> DEFINE Bad == (SUBSET S) \ Good
<1> SUFFICES ASSUME Bad # {} PROVE FALSE
  OBVIOUS
<1>1. IsWellFoundedOn(StrictSubsetOrdering(S), SUBSET S)
  <2>1. FiniteSubsetsOf(S) = SUBSET S
    BY FS_FiniteSubsetsOfFinite
  <2>2. IsWellFoundedOn(StrictSubsetOrdering(S), FiniteSubsetsOf(S))
    BY FS_StrictSubsetOrderingWellFounded
  <2> QED BY <2>1, <2>2, Zenon
<1>2. PICK T \in Bad : \A U \in Bad : <<U, T>> \notin StrictSubsetOrdering(S)
  <2>1. Bad \subseteq SUBSET S
    OBVIOUS
  <2> HIDE DEF Bad
  <2> QED BY <1>1, <2>1, WFMin
<1>3. PICK x \in T : T \ {x} \in Good => T \in Good
  BY <1>2
<1>4. T \ {x} \in Bad
  BY <1>2, <1>3
<1>5. <<T \ {x}, T>> \in StrictSubsetOrdering(S)
  BY <1>2, <1>3 DEF StrictSubsetOrdering
<1> QED BY <1>2, <1>4, <1>5

LEMMA MarksFinite ==
    ASSUME NEW S, IsFiniteSet(S), Readable(S)
    PROVE  \A T \in SUBSET S : IsFiniteSet(Marks(T))
<1> DEFINE Good == {T \in SUBSET S : IsFiniteSet(Marks(T))}
<1>1. {} \in Good
  <2>1. Marks({}) = {}
    BY DEF Marks
  <2> QED BY <2>1, FS_EmptySet
<1>2. ASSUME NEW T \in SUBSET S, NEW x \in T, T \ {x} \in Good PROVE T \in Good
  <2>1. EventAt(x).hits \in Nat /\ (T \ {x}) \union {x} = T
    BY DEF Readable
  <2>2. IsFiniteSet(Marks((T \ {x}) \union {x}))
    BY <1>2, <2>1, MarksAdd
  <2> QED BY <2>1, <2>2
<1>3. SUBSET S \subseteq Good
  <2>1. \A T \in SUBSET S : T # {} => \E x \in T : T \ {x} \in Good => T \in Good
    BY <1>2
  <2> HIDE DEF Good
  <2> QED BY <1>1, <2>1, SubsetInduction
<1> QED BY <1>3

\* One record of a set, and what remains.
Pick(T) == CHOOSE x \in T : TRUE

SumStep(it, T) == IF T = {} THEN 0 ELSE EventAt(Pick(T)).hits + it[T \ {Pick(T)}]

LEMMA MarksStep ==
    ASSUME NEW S, IsFiniteSet(S), Readable(S), NEW it, NEW T \in SUBSET S,
           T # {} => it[T \ {Pick(T)}] = Cardinality(Marks(T \ {Pick(T)}))
    PROVE  SumStep(it, T) = Cardinality(Marks(T))
<1>1. CASE T = {}
  <2>1. Marks(T) = {}
    BY <1>1 DEF Marks
  <2> QED BY <1>1, <2>1, FS_EmptySet DEF SumStep
<1>2. CASE T # {}
  <2>1. Pick(T) \in T
    BY <1>2 DEF Pick
  <2> DEFINE x == Pick(T)
             U == T \ {x}
  <2>2. EventAt(x).hits \in Nat /\ U \union {x} = T /\ x \notin U /\ U \in SUBSET S
    BY <2>1 DEF Readable
  <2>3. IsFiniteSet(Marks(U)) /\ Cardinality(Marks(U)) \in Nat
    BY <2>2, MarksFinite, FS_CardinalityType
  <2>4. Cardinality(Marks(U \union {x})) = Cardinality(Marks(U)) + EventAt(x).hits
    <3> HIDE DEF U, x
    <3> QED BY <2>2, <2>3, MarksAdd
  <2>5. SumStep(it, T) = EventAt(x).hits + Cardinality(Marks(U))
    BY <1>2 DEF SumStep
  <2>6. Cardinality(Marks(T)) = Cardinality(Marks(U)) + EventAt(x).hits
    BY <2>2, <2>4, Zenon
  <2> HIDE DEF U, x
  <2> QED BY <2>2, <2>3, <2>5, <2>6
<1> QED BY <1>1, <1>2

\* What MapThenSumSet computes by a recursion over the subsets is the number of
\* marks: that number satisfies the recursion, and nothing else does.
LEMMA SumIsMarks ==
    ASSUME NEW S, IsFiniteSet(S), Readable(S)
    PROVE  MapThenSumSet(LAMBDA r : EventAt(r).hits, S) = Cardinality(Marks(S))
<1> DEFINE Eq(f) == f = [T \in SUBSET S |-> SumStep(f, T)]
           count == [T \in SUBSET S |-> Cardinality(Marks(T))]
<1>1. MapThenSumSet(LAMBDA r : EventAt(r).hits, S) = (CHOOSE f : Eq(f))[S]
  BY DEF MapThenSumSet, MapThenFoldSet, SumStep, Pick
<1>2. Eq(count)
  <2>1. ASSUME NEW T \in SUBSET S PROVE count[T] = SumStep(count, T)
    <3>1. T # {} => count[T \ {Pick(T)}] = Cardinality(Marks(T \ {Pick(T)}))
      OBVIOUS
    <3>2. SumStep(count, T) = Cardinality(Marks(T))
      <4> HIDE DEF count
      <4> QED BY <3>1, MarksStep
    <3> QED BY <3>2
  <2> QED BY <2>1
<1>3. PICK f : Eq(f) /\ f = CHOOSE g : Eq(g)
  <2> HIDE DEF Eq
  <2> QED BY <1>2
<1> DEFINE Good == {T \in SUBSET S : f[T] = Cardinality(Marks(T))}
<1>4. \A T \in SUBSET S : f[T] = SumStep(f, T)
  BY <1>3
<1>5. SUBSET S \subseteq Good
  <2>1. ASSUME NEW T \in SUBSET S, T # {} => T \ {Pick(T)} \in Good PROVE T \in Good
    <3>1. T # {} => f[T \ {Pick(T)}] = Cardinality(Marks(T \ {Pick(T)}))
      BY <2>1
    <3>2. SumStep(f, T) = Cardinality(Marks(T))
      BY <3>1, MarksStep
    <3> QED BY <1>4, <3>2
  <2>2. {} \in Good
    BY <2>1
  <2>3. \A T \in SUBSET S : T # {} => Pick(T) \in T
    BY DEF Pick
  <2> HIDE DEF Good
  <2>4. \A T \in SUBSET S : T # {} => \E x \in T : T \ {x} \in Good => T \in Good
    BY <2>1, <2>3
  <2> QED BY <2>2, <2>4, SubsetInduction
<1>6. f[S] = Cardinality(Marks(S))
  BY <1>5
<1> QED BY <1>1, <1>3, <1>6

\* The outcomes of records handled to their end, and the places in the handler
\* where the event in hand is already in the hash.
Evaluated == {"scored", "quiet"}
Folded == {"sync_expire", "enrich", "context", "infer", "publish_score", "publish_action", "webhook"}

\* The records whose keywords entity e's hash must have.
Credited(e) ==
    {r \in Relayed :
        /\ EntityKey(EventAt(r)) = e
        /\ outcome[r] \in Evaluated \/ \E g \in Gateway : cur[g] = r /\ pc[g] \in Folded}

Covered(e) ==
    /\ IsFiniteSet(Credited(e))
    /\ Cardinality(Marks(Credited(e))) <= store[e].kw

KeywordInv == SingleWriter => \A e \in Entity : Covered(e)

LEMMA RelayedReadable ==
    ASSUME Shape, NEW S \in SUBSET Relayed
    PROVE  Readable(S)
<1> SUFFICES ASSUME NEW r \in S PROVE EventAt(r).hits \in Nat
  BY DEF Readable
<1>1. log[r.p] \in Seq(Event) /\ r.o \in 1..Len(log[r.p])
  BY DEF Shape, TypeOK, Relayed, Ref
<1>2. EventAt(r) \in FdsEvent
  BY <1>1, PipelineAssumption DEF EventAt
<1> QED BY <1>2 DEF FdsEvent

\* A step that hands over no record to the hash or to its end.
NothingFolded ==
    /\ \A g \in Gateway : pc'[g] \in Folded => pc[g] \in Folded /\ cur'[g] = cur[g]
    /\ \A r \in Ref : outcome'[r] \in Evaluated =>
          outcome[r] \in Evaluated \/ \E g \in Gateway : cur[g] = r /\ pc[g] \in Folded

KwSame == \A e \in Entity : store'[e].kw = store[e].kw

\* The marks of records the log had before the step are what they were.
LEMMA MarksSame ==
    ASSUME LogGrows, NEW S \in SUBSET Relayed
    PROVE  Marks(S)' = Marks(S)
BY DEF LogGrows, Marks

LEMMA CreditedShrinks ==
    ASSUME IInv, LogGrows, NothingFolded, NEW e \in Entity
    PROVE  Credited(e)' \subseteq Credited(e)
<1> SUFFICES ASSUME NEW r \in Credited(e)' PROVE r \in Credited(e)
  OBVIOUS
<1>1. /\ r \in Ref /\ EntityKey(EventAt(r)') = e
      /\ outcome'[r] \in Evaluated \/ \E g \in Gateway : cur'[g] = r /\ pc'[g] \in Folded
  BY DEF Credited, Relayed
<1>2. outcome[r] \in Evaluated \/ \E g \in Gateway : cur[g] = r /\ pc[g] \in Folded
  BY <1>1 DEF NothingFolded
<1>3. r \in Relayed
  <2>1. CASE outcome[r] \in Evaluated
    BY <1>1, <2>1 DEF IInv, OutcomeOK, Evaluated
  <2>2. CASE \E g \in Gateway : cur[g] = r /\ pc[g] \in Folded
    BY <2>2, InHand DEF IInv, Folded, Resting
  <2> QED BY <1>2, <2>1, <2>2
<1>4. EntityKey(EventAt(r)) = e
  BY <1>1, <1>3 DEF LogGrows
<1> QED BY <1>2, <1>3, <1>4 DEF Credited

LEMMA CoveredKept ==
    ASSUME IInv, LogGrows, NothingFolded, KwSame, NEW e \in Entity, Covered(e)
    PROVE  Covered(e)'
<1>1. PICK D : D = Credited(e)'
  OBVIOUS
<1>2. D \in SUBSET Credited(e) /\ Credited(e) \in SUBSET Relayed
  BY <1>1, CreditedShrinks DEF Credited
<1>3. Marks(D)' = Marks(D)
  BY <1>2, MarksSame
<1>4. IsFiniteSet(D)
  BY <1>2, FS_Subset DEF Covered
<1>5. Readable(Credited(e))
  BY <1>2, RelayedReadable DEF IInv
<1>6. /\ IsFiniteSet(Marks(Credited(e))) /\ Cardinality(Marks(Credited(e))) \in Nat
      /\ IsFiniteSet(Marks(D)) /\ Cardinality(Marks(D)) \in Nat
  BY <1>2, <1>5, MarksFinite, FS_CardinalityType DEF Covered
<1>7. Cardinality(Marks(D)) <= Cardinality(Marks(Credited(e)))
  <2>1. Marks(D) \in SUBSET Marks(Credited(e))
    BY <1>2 DEF Marks
  <2> QED BY <1>6, <2>1, FS_Subset
<1>8. store[e].kw \in Int /\ store'[e].kw = store[e].kw
  BY DEF KwSame, IInv, Shape, TypeOK, Hash
<1>9. Cardinality(Marks(D)) <= store'[e].kw
  BY <1>6, <1>7, <1>8 DEF Covered
<1>10. Cardinality(Marks(D)') <= store'[e].kw
  BY <1>3, <1>9
<1> QED BY <1>1, <1>4, <1>10 DEF Covered

\* The HSET of sync_from_event adds the hits of the record in hand to the count
\* it read, which with a single writer still is the count in the hash.
LEMMA CoveredSync ==
    ASSUME IInv, NEW g \in Gateway, Holds(g), SyncHset(g), NEW e \in Entity, Covered(e)
    PROVE  Covered(e)'
<1>1. /\ pc[g] = "sync_hset" /\ UNCHANGED <<log, cur, outcome>>
      /\ \A h \in Gateway \ {g} : pc'[h] = pc[h]
  BY DEF SyncHset, Wait, kafka, history, IInv, Shape, TypeOK
<1>2. cur[g] \in Relayed /\ Key(g) \in Entity /\ Cur(g) \in FdsEvent
  BY <1>1, InHand DEF IInv, Resting, Handling, Step
<1>3. LogGrows
  BY <1>1, LogSame
<1>4. PICK D : D = Credited(e)'
  OBVIOUS
<1>5. Credited(e) \in SUBSET Relayed
  BY DEF Credited
<1>6. \A r \in D : /\ r \in Relayed /\ EntityKey(EventAt(r)) = e
                   /\ r \in Credited(e) \/ r = cur[g]
  BY <1>1, <1>4 DEF Credited, Relayed, EventAt
<1>7. Marks(D)' = Marks(D)
  BY <1>3, <1>6, MarksSame
<1>8. Readable(Credited(e)) /\ IsFiniteSet(Marks(Credited(e)))
  BY <1>5, RelayedReadable, MarksFinite DEF IInv, Covered
<1>9. Cardinality(Marks(Credited(e))) \in Nat /\ store[e].kw \in Int
  BY <1>8, FS_CardinalityType DEF IInv, Shape, TypeOK, Hash
<1>10. CASE e # Key(g)
  <2>1. D \in SUBSET Credited(e)
    BY <1>6, <1>10 DEF Key, Cur
  <2>2. store'[e] = store[e]
    BY <1>10 DEF SyncHset, IInv, Shape, TypeOK
  <2>3. IsFiniteSet(D) /\ Marks(D) \in SUBSET Marks(Credited(e))
    BY <2>1, FS_Subset DEF Covered, Marks
  <2>4. Cardinality(Marks(D)) \in Nat /\ Cardinality(Marks(D)) <= Cardinality(Marks(Credited(e)))
    BY <1>8, <2>3, FS_Subset, FS_CardinalityType
  <2>5. Cardinality(Marks(D)') <= store'[e].kw
    BY <1>7, <1>9, <2>2, <2>4 DEF Covered
  <2> QED BY <1>4, <2>3, <2>5 DEF Covered
<1>11. CASE e = Key(g)
  <2> DEFINE x == cur[g]
             U == Credited(e) \union {x}
  <2>1. store'[e].kw = store[e].kw + EventAt(x).hits
    <3>1. store[e] \in Hash /\ seen[g] = store[e]
      BY <1>1, <1>11 DEF Holds, IInv, Shape, TypeOK
    <3>2. store'[e] = Synced(store[e], seen[g], Cur(g))
      BY <1>11 DEF SyncHset, IInv, Shape, TypeOK
    <3> QED BY <3>1, <3>2 DEF Synced, SyncedKw, Hash, Cur
  <2>2. EventAt(x).hits \in Nat
    BY <1>2 DEF Cur, FdsEvent
  <2>3. /\ IsFiniteSet(Marks(U)) /\ Cardinality(Marks(U)) \in Nat
        /\ Cardinality(Marks(U))
             = Cardinality(Marks(Credited(e))) + (IF x \in Credited(e) THEN 0 ELSE EventAt(x).hits)
    BY <1>8, <2>2, MarksAdd, FS_CardinalityType
  <2>4. IsFiniteSet(U)
    BY FS_AddElement DEF Covered
  <2>5. D \in SUBSET U /\ Marks(D) \in SUBSET Marks(U)
    BY <1>6 DEF Marks
  <2>6. IsFiniteSet(D) /\ Cardinality(Marks(D)) \in Nat /\ Cardinality(Marks(D)) <= Cardinality(Marks(U))
    BY <2>3, <2>4, <2>5, FS_Subset, FS_CardinalityType
  <2>7. Cardinality(Marks(Credited(e))) <= store[e].kw
    BY DEF Covered
  <2>8. Cardinality(Marks(D)) <= store'[e].kw
    <3> HIDE DEF U, x
    <3> QED BY <1>9, <2>1, <2>2, <2>3, <2>6, <2>7
  <2>9. Cardinality(Marks(D)') <= store'[e].kw
    BY <1>7, <2>8
  <2> QED BY <1>4, <2>6, <2>9 DEF Covered
<1> QED BY <1>10, <1>11

\* Only sync_from_event and the decision that follows it lead to a record whose
\* keywords the hash must have.
LEMMA WorkFoldsNothing ==
    ASSUME Shape, NEW g \in Gateway, Work(g), ~SyncHset(g)
    PROVE  NothingFolded
<1>1. CASE SyncExpire(g) \/ SyncEnrich(g) \/ ReadContext(g) \/ Infer(g) \/ PublishScore(g)
           \/ PublishAction(g) \/ SendAlertWebhook(g)
  <2>1. pc[g] \in Folded /\ \A h \in Gateway \ {g} : pc'[h] = pc[h] /\ cur'[h] = cur[h]
    BY <1>1 DEF SyncExpire, SyncEnrich, ReadContext, Infer, PublishScore, PublishAction,
       SendAlertWebhook, Wait, Return, Raise, Folded, Shape, TypeOK
  <2>2. pc'[g] \in Folded => cur'[g] = cur[g]
    BY <1>1 DEF SyncExpire, SyncEnrich, ReadContext, Infer, PublishScore, PublishAction,
       SendAlertWebhook, Wait, Return, Raise, Folded, Shape, TypeOK
  <2>3. \A r \in Ref \ {cur[g]} : outcome'[r] = outcome[r]
    BY <1>1 DEF SyncExpire, SyncEnrich, ReadContext, Infer, PublishScore, PublishAction,
       SendAlertWebhook, Return, history, Shape, TypeOK
  <2> QED BY <2>1, <2>2, <2>3 DEF NothingFolded
<1>2. CASE \/ \E p \in Partition : Fetch(g, p) \/ FetchUndecodable(g, p)
           \/ SyncRead(g) \/ PublishDlq(g) \/ FinHset(g) \/ FinExpire(g) \/ FinEnrich(g)
  <2>1. pc'[g] \notin Folded /\ \A h \in Gateway \ {g} : pc'[h] = pc[h] /\ cur'[h] = cur[h]
    <3>1. ASSUME NEW p \in Partition, Fetch(g, p) \/ FetchUndecodable(g, p)
          PROVE  pc'[g] \notin Folded /\ \A h \in Gateway \ {g} : pc'[h] = pc[h] /\ cur'[h] = cur[h]
      BY <3>1 DEF Fetch, FetchUndecodable, Handed, FirstStep, Folded, Shape, TypeOK
    <3>2. CASE SyncRead(g) \/ PublishDlq(g) \/ FinHset(g) \/ FinExpire(g) \/ FinEnrich(g)
      BY <3>2 DEF SyncRead, PublishDlq, FinHset, FinExpire, FinEnrich, Wait, Return, Die, Folded,
         Shape, TypeOK
    <3> QED BY <1>2, <3>1, <3>2
  <2>2. \A r \in Ref : outcome'[r] \in Evaluated => outcome[r] \in Evaluated
    <3>1. ASSUME NEW p \in Partition, Fetch(g, p) \/ FetchUndecodable(g, p)
          PROVE  \A r \in Ref : outcome'[r] \in Evaluated => outcome[r] \in Evaluated
      BY <3>1 DEF Fetch, FetchUndecodable, Evaluated, Shape, TypeOK
    <3>2. CASE SyncRead(g) \/ PublishDlq(g) \/ FinHset(g) \/ FinExpire(g) \/ FinEnrich(g)
      BY <3>2 DEF SyncRead, PublishDlq, FinHset, FinExpire, FinEnrich, Return, Die, history,
         Evaluated, Shape, TypeOK
    <3> QED BY <1>2, <3>1, <3>2
  <2> QED BY <2>1, <2>2 DEF NothingFolded
<1> QED BY <1>1, <1>2 DEF Work

LEMMA FaultFoldsNothing ==
    ASSUME Shape, NEW g \in Gateway, CallFault(g) \/ Process(g)
    PROVE  NothingFolded
<1>1. \A h \in Gateway : pc'[h] \in Folded => pc[h] \in Folded /\ cur'[h] = cur[h]
  <2>1. CASE CallFault(g)
    BY <2>1 DEF CallFault, RedisFault, TritonFault, KafkaFault, KafkaLostAck, Raise, Die, worker,
       Folded, Shape, TypeOK
  <2>2. CASE Process(g)
    BY <2>2 DEF Process, Crash, Stop, Start, Gone, Folded, Shape, TypeOK
  <2> QED BY <2>1, <2>2
<1>2. \A r \in Ref : outcome'[r] \in Evaluated => outcome[r] \in Evaluated
  <2>1. CASE CallFault(g)
    BY <2>1 DEF CallFault, RedisFault, TritonFault, KafkaFault, KafkaLostAck, Die, Evaluated,
       Shape, TypeOK
  <2>2. CASE Process(g)
    BY <2>2 DEF Process, Crash, Stop, Start, Gone, history, Evaluated, Shape, TypeOK
  <2> QED BY <2>1, <2>2
<1> QED BY <1>1, <1>2 DEF NothingFolded

LEMMA NothingFoldedNext ==
    ASSUME Shape, [Next]_vars, ~\E g \in Gateway : SyncHset(g)
    PROVE  NothingFolded
<1>1. ASSUME NEW ev \in Event, Relay(ev) PROVE NothingFolded
  BY <1>1 DEF Relay, worker, history, NothingFolded
<1>2. CASE Group
  <2>1. worker' = worker
    BY <1>2 DEF Group, Assign, AutoCommit, Revoke
  <2>2. \A r \in Ref : outcome'[r] \in Evaluated => outcome[r] \in Evaluated
    BY <1>2 DEF Group, Assign, AutoCommit, Revoke, history, Evaluated
  <2> QED BY <2>1, <2>2 DEF NothingFolded, worker
<1>3. ASSUME NEW g \in Gateway, Work(g) \/ CallFault(g) \/ Process(g) PROVE NothingFolded
  BY <1>3, WorkFoldsNothing, FaultFoldsNothing
<1>4. CASE StoreWriter
  BY <1>4 DEF StoreWriter, Expire, UpsertHset, UpsertExpire, worker, history, NothingFolded
<1>5. CASE UNCHANGED vars
  BY <1>5 DEF vars, worker, history, NothingFolded
<1> QED BY <1>1, <1>2, <1>3, <1>4, <1>5 DEF Next

\* Every other command leaves the count alone: EXPIRE and the end of a session
\* do, and with a single writer nobody deletes a hash or PUTs one.
LEMMA KwSameNext ==
    ASSUME Shape, [Next]_vars, upserting = {}, ~Disturbs, ~\E g \in Gateway : SyncHset(g)
    PROVE  KwSame
<1>1. \A h \in Hash, ttl \in {"full", "end"} :
        WithTtl(h, ttl).kw = h.kw /\ Finalized(h).kw = h.kw
  BY DEF WithTtl, Finalized, Hash
<1>2. ASSUME NEW g \in Gateway, SyncExpire(g) \/ FinHset(g) \/ FinExpire(g) PROVE KwSame
  <2> SUFFICES ASSUME NEW e \in Entity PROVE store'[e].kw = store[e].kw
    BY DEF KwSame
  <2>1. store[e] \in Hash /\ DOMAIN store = Entity
    BY DEF Shape, TypeOK
  <2>2. \/ store'[e] = store[e]
        \/ \E ttl \in {"full", "end"} : store'[e] = WithTtl(store[e], ttl)
        \/ store'[e] = Finalized(store[e])
    BY <1>2, <2>1 DEF SyncExpire, FinHset, FinExpire
  <2> QED BY <1>1, <2>1, <2>2
<1>3. ASSUME NEW g \in Gateway, Work(g) PROVE KwSame
  <2>1. CASE SyncExpire(g) \/ FinHset(g) \/ FinExpire(g)
    BY <1>2, <2>1
  <2>2. CASE ~(SyncExpire(g) \/ FinHset(g) \/ FinExpire(g))
    <3>1. store' = store
      BY <1>3, <2>2 DEF Work, Fetch, FetchUndecodable, SyncRead, SyncEnrich, ReadContext, Infer,
         PublishScore, PublishAction, SendAlertWebhook, PublishDlq, FinEnrich, redis
    <3> QED BY <3>1 DEF KwSame
  <2> QED BY <2>1, <2>2
<1>4. ASSUME NEW g \in Gateway, CallFault(g) \/ Process(g) PROVE KwSame
  <2>1. CASE RedisFault(g)
    <3> SUFFICES ASSUME NEW e \in Entity PROVE store'[e].kw = store[e].kw
      BY DEF KwSame
    <3>1. store[e] \in Hash /\ DOMAIN store = Entity
      BY DEF Shape, TypeOK
    <3>2. \/ store'[e] = store[e]
          \/ \E ttl \in {"full", "end"} : store'[e] = WithTtl(store[e], ttl)
      BY <2>1, <3>1 DEF RedisFault
    <3> QED BY <1>1, <3>1, <3>2
  <2>2. CASE TritonFault(g) \/ KafkaFault(g) \/ KafkaLostAck(g) \/ Process(g)
    BY <2>2 DEF TritonFault, KafkaFault, KafkaLostAck, Process, Crash, Stop, Start, Gone, redis,
       KwSame
  <2> QED BY <1>4, <2>1, <2>2 DEF CallFault
<1>5. ASSUME NEW ev \in Event, Relay(ev) PROVE KwSame
  BY <1>5 DEF Relay, redis, KwSame
<1>6. CASE Group
  BY <1>6 DEF Group, Assign, AutoCommit, Revoke, redis, KwSame
<1>7. ~StoreWriter
  BY DEF StoreWriter, Disturbs, UpsertExpire
<1>8. CASE UNCHANGED vars
  BY <1>8 DEF vars, redis, KwSame
<1> QED BY <1>3, <1>4, <1>5, <1>6, <1>7, <1>8 DEF Next

CountInv == IInv /\ WriterInv /\ KeywordInv

LEMMA CountInvInit == Init => CountInv
<1> SUFFICES ASSUME Init PROVE KeywordInv
  BY IInvInit, WriterInvInit DEF CountInv
<1> SUFFICES ASSUME NEW e \in Entity PROVE Covered(e)
  BY DEF KeywordInv
<1>1. Credited(e) = {} /\ store[e].kw = 0
  BY DEF Init, Credited, Relayed, Ref, Missing
<1>2. Marks({}) = {}
  BY DEF Marks
<1> QED BY <1>1, <1>2, FS_EmptySet DEF Covered

LEMMA CountInvNext ==
    ASSUME CountInv, [Next]_vars
    PROVE  CountInv'
<1>1. Shape
  BY DEF CountInv, IInv
<1>2. IInv' /\ WriterInv'
  BY <1>1, IInvNext, WriterInvNext DEF CountInv
<1>3. ASSUME SingleWriter', NEW e \in Entity PROVE Covered(e)'
  <2>1. SingleWriter /\ ~Disturbs /\ Undisturbed /\ Covered(e)
    BY <1>1, <1>3, WriterBefore DEF CountInv, WriterInv, KeywordInv
  <2>2. ASSUME NEW g \in Gateway, SyncHset(g) PROVE Covered(e)'
    BY <2>1, <2>2, CoveredSync DEF CountInv, Undisturbed
  <2>3. CASE ~\E g \in Gateway : SyncHset(g)
    <3>1. LogGrows /\ NothingFolded /\ KwSame
      BY <1>1, <2>1, <2>3, LogGrowsNext, NothingFoldedNext, KwSameNext DEF Undisturbed
    <3> QED BY <2>1, <3>1, CoveredKept DEF CountInv
  <2> QED BY <2>2, <2>3
<1> QED BY <1>2, <1>3 DEF CountInv, KeywordInv

LEMMA CountShowsSum == CountInv => KeywordsNotUndercounted
<1> SUFFICES ASSUME CountInv, SingleWriter, NEW e \in Entity
             PROVE  LET handled == {r \in Relayed : /\ outcome[r] \in {"scored", "quiet"}
                                                    /\ EntityKey(EventAt(r)) = e}
                    IN  store[e].kw >= MapThenSumSet(LAMBDA r : EventAt(r).hits, handled)
  BY DEF KeywordsNotUndercounted
<1> DEFINE handled == {r \in Relayed : outcome[r] \in {"scored", "quiet"} /\ EntityKey(EventAt(r)) = e}
<1>1. Covered(e)
  BY DEF CountInv, KeywordInv
<1>2. handled \in SUBSET Credited(e) /\ Credited(e) \in SUBSET Relayed
  BY DEF Credited, Evaluated
<1>3. IsFiniteSet(handled) /\ IsFiniteSet(Credited(e))
  BY <1>1, <1>2, FS_Subset DEF Covered
<1>4. Readable(handled) /\ Readable(Credited(e))
  BY <1>2, RelayedReadable DEF CountInv, IInv
<1>5. MapThenSumSet(LAMBDA r : EventAt(r).hits, handled) = Cardinality(Marks(handled))
  <2> HIDE DEF handled
  <2> QED BY <1>3, <1>4, SumIsMarks
<1>6. Cardinality(Marks(handled)) <= Cardinality(Marks(Credited(e)))
  <2>1. IsFiniteSet(Marks(Credited(e)))
    BY <1>3, <1>4, MarksFinite
  <2>2. Marks(handled) \in SUBSET Marks(Credited(e))
    BY <1>2 DEF Marks
  <2> QED BY <2>1, <2>2, FS_Subset
<1>7. /\ Cardinality(Marks(Credited(e))) \in Nat /\ Cardinality(Marks(handled)) \in Nat
      /\ store[e].kw \in Int
  BY <1>3, <1>4, MarksFinite, FS_CardinalityType DEF CountInv, IInv, Shape, TypeOK, Hash
<1>8. store[e].kw >= Cardinality(Marks(handled))
  <2> HIDE DEF handled
  <2> QED BY <1>1, <1>6, <1>7 DEF Covered
<1> QED BY <1>5, <1>8

\* sync_from_event reads the count, adds the hits of its event and writes the
\* sum back, in three awaits.  With a single writer no record it handled to the
\* end is missing from the count, whatever calls fail, records are replayed or
\* processes die in between: a replay counts twice, never less than once.
THEOREM KeywordsKept == Spec => []KeywordsNotUndercounted
BY CountInvInit, CountInvNext, CountShowsSum, PTL DEF Spec
===============================================================================
