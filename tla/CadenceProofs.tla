----------------------------- MODULE CadenceProofs -----------------------------
(***************************************************************************)
(* The in-memory STT counter against the log: with every record in one     *)
(* partition and nothing lost, the counter is the number of STT partial    *)
(* events the log has since the last session end, for every number of      *)
(* gateways, every set of events and every length of the log.              *)
(***************************************************************************)
EXTENDS DeliveryProofs

OnePartition == \A p, q \in Partition : p = q

\* A record that counts for entity e.
Counts(p, o, e) ==
    /\ log[p][o].form = "valid"
    /\ outcome[[p |-> p, o |-> o]] # "skipped"
    /\ EntityKey(log[p][o]) = e

\* The STT partial events of e among the first n records of p, from the last
\* session end of e on.
SinceEnd(p, e, n) ==
    {o \in 1..n :
        /\ Counts(p, o, e) /\ log[p][o].type = "STT_PARTIAL"
        /\ \A b \in 1..n : Counts(p, b, e) /\ log[p][b].type = "SESSION_ENDED" => b < o}

\* In these places the record in hand has not reached the counter yet.
Uncounted == {"sync_read", "sync_hset", "sync_expire", "enrich",
              "fin_hset", "fin_expire", "fin_enrich"}

\* How far g's counters have come in partition p.
Through(g, p) == IF pc[g] \in Uncounted THEN position[p] - 2 ELSE position[p] - 1

CountedOK ==
    \A g \in Gateway, p \in Partition, e \in Entity \ {None} :
        counters[g][e] = IF owner[p] = g THEN Cardinality(SinceEnd(p, e, Through(g, p))) ELSE 0

WithinOK == \A p \in Partition : position[p] <= Len(log[p]) + 1

\* On the way to the counter; such a record was never handled before.
Syncing == {"sync_read", "sync_hset", "sync_expire", "enrich"}

SyncingOK ==
    \A g \in Gateway :
        pc[g] \in Syncing => Cur(g).type # "SESSION_ENDED" /\ outcome[cur[g]] # "quiet"

\* The records the cadence is about, and whether it falls on them.
Paced(r) ==
    LET ev == EventAt(r) IN ev.form = "valid" /\ ev.type = "STT_PARTIAL" /\ ~Urgent(ev)

OnBeat(r) == ScoreEveryN > 0 /\ SttSoFar(r) % ScoreEveryN = 0

\* Decided to be scored: done with, or on its way.
Chosen(r) == outcome[r] = "scored" \/ \E g \in Gateway : pc[g] \in Shown /\ cur[g] = r

CadentOK ==
    \A r \in Relayed :
        Paced(r) => /\ Chosen(r) => OnBeat(r)
                    /\ outcome[r] = "quiet" => ~OnBeat(r)

Cadence == WithinOK /\ SyncingOK /\ CountedOK /\ CadentOK

\* Nothing becomes skipped or stops to be, among the records of a partition
\* that has an owner.
SkippedSame ==
    \A r \in Ref : owner[r.p] # None => (outcome'[r] = "skipped" <=> outcome[r] = "skipped")

-------------------------------------------------------------------------------
(* Counting in the log *)

LEMMA SinceEndFinite ==
    ASSUME NEW p, NEW e, NEW n \in Nat
    PROVE  IsFiniteSet(SinceEnd(p, e, n)) /\ Cardinality(SinceEnd(p, e, n)) \in Nat
<1>1. IsFiniteSet(1..n)
  BY FS_Interval
<1>2. SinceEnd(p, e, n) \subseteq 1..n
  BY DEF SinceEnd
<1> QED BY <1>1, <1>2, FS_Subset, FS_CardinalityType

\* A record that is neither an STT partial event nor a session end of e.
LEMMA SinceEndOther ==
    ASSUME NEW p, NEW e, NEW n \in Nat,
           ~Counts(p, n + 1, e) \/ log[p][n + 1].type \notin {"STT_PARTIAL", "SESSION_ENDED"}
    PROVE  SinceEnd(p, e, n + 1) = SinceEnd(p, e, n)
<1>1. 1..(n + 1) = (1..n) \cup {n + 1}
  OBVIOUS
<1> QED BY <1>1 DEF SinceEnd

LEMMA SinceEndStt ==
    ASSUME NEW p, NEW e, NEW n \in Nat,
           Counts(p, n + 1, e), log[p][n + 1].type = "STT_PARTIAL"
    PROVE  Cardinality(SinceEnd(p, e, n + 1)) = Cardinality(SinceEnd(p, e, n)) + 1
<1>1. 1..(n + 1) = (1..n) \cup {n + 1} /\ \A b \in 1..n : b < n + 1
  OBVIOUS
<1>2. SinceEnd(p, e, n + 1) = SinceEnd(p, e, n) \cup {n + 1}
  BY <1>1 DEF SinceEnd
<1>3. n + 1 \notin SinceEnd(p, e, n)
  BY DEF SinceEnd
<1> QED BY <1>2, <1>3, SinceEndFinite, FS_AddElement

LEMMA SinceEndEnd ==
    ASSUME NEW p, NEW e, NEW n \in Nat,
           Counts(p, n + 1, e), log[p][n + 1].type = "SESSION_ENDED"
    PROVE  Cardinality(SinceEnd(p, e, n + 1)) = 0
<1>1. SinceEnd(p, e, n + 1) = {}
  BY DEF SinceEnd
<1> QED BY <1>1, FS_EmptySet

LEMMA SinceEndNone ==
    ASSUME NEW p, NEW e, NEW n \in Nat, \A o \in 1..n : ~Counts(p, o, e)
    PROVE  Cardinality(SinceEnd(p, e, n)) = 0
<1>1. SinceEnd(p, e, n) = {}
  BY DEF SinceEnd
<1> QED BY <1>1, FS_EmptySet

\* What has been counted stays: the log only grows, what is skipped is fixed.
LEMMA SinceEndKept ==
    ASSUME Shape, LogGrows, SkippedSame, NEW p \in Partition, owner[p] # None, NEW e,
           NEW n \in Nat, n <= Len(log[p])
    PROVE  SinceEnd(p, e, n)' = SinceEnd(p, e, n)
<1>1. \A o \in 1..n : [p |-> p, o |-> o] \in Relayed
  <2>1. Len(log[p]) \in Nat /\ Len(log[p]) <= MaxLog /\ MaxLog \in Nat
    BY PipelineAssumption DEF Shape, TypeOK, OffsetsOK
  <2> QED BY <2>1 DEF Relayed, Ref
<1>2. \A o \in 1..n : log'[p][o] = log[p][o]
  BY <1>1 DEF LogGrows, EventAt
<1>3. \A o \in 1..n : Counts(p, o, e)' <=> Counts(p, o, e)
  BY <1>1, <1>2 DEF Counts, SkippedSame, Relayed
<1> QED BY <1>2, <1>3 DEF SinceEnd

\* The reference count of the property is this one.
LEMMA SttSoFarCounts ==
    ASSUME NEW r \in Relayed, EventAt(r).type # "SESSION_ENDED"
    PROVE  SttSoFar(r) = Cardinality(SinceEnd(r.p, EntityKey(EventAt(r)), r.o))
<1> DEFINE ev == EventAt(r)
           same(o) == /\ log[r.p][o].form = "valid"
                      /\ outcome[[p |-> r.p, o |-> o]] # "skipped"
                      /\ EntityKey(log[r.p][o]) = EntityKey(ev)
           ends == {o \in 1..(r.o - 1) : same(o) /\ log[r.p][o].type = "SESSION_ENDED"}
           S == {o \in 1..r.o : /\ same(o) /\ log[r.p][o].type = "STT_PARTIAL"
                                /\ \A b \in ends : b < o}
<1>1. r.o \in Nat /\ r.o >= 1
  BY DEF Relayed, Ref
<1>2. \A o \in 1..r.o : same(o) <=> Counts(r.p, o, EntityKey(ev))
  BY DEF Counts
<1>3. 1..r.o = (1..(r.o - 1)) \cup {r.o}
  BY <1>1
<1>4. \A b \in 1..r.o :
        Counts(r.p, b, EntityKey(ev)) /\ log[r.p][b].type = "SESSION_ENDED" <=> b \in ends
  BY <1>1, <1>2, <1>3 DEF EventAt
<1>5. S = SinceEnd(r.p, EntityKey(ev), r.o)
  <2>1. ends \subseteq 1..r.o
    BY <1>3
  <2> HIDE DEF ends
  <2>2. \A o \in 1..r.o :
          (\A b \in ends : b < o)
            <=> (\A b \in 1..r.o : Counts(r.p, b, EntityKey(ev))
                                   /\ log[r.p][b].type = "SESSION_ENDED" => b < o)
    BY <1>4, <2>1
  <2> HIDE DEF same, ev
  <2> QED BY <1>2, <2>2 DEF SinceEnd
<1>6. SttSoFar(r) = Cardinality(S)
  BY DEF SttSoFar
<1> QED BY <1>5, <1>6
-------------------------------------------------------------------------------
(* Steps that count nothing *)

LEMMA ThroughType ==
    ASSUME OnePartition, Shape, InOrder, WithinOK, NEW g \in Gateway, NEW p \in Partition,
           owner[p] = g
    PROVE  /\ Through(g, p) \in Nat /\ Through(g, p) <= Len(log[p])
           /\ pc[g] \in Uncounted => cur[g].p = p /\ Through(g, p) = cur[g].o - 1
<1>1. /\ position[p] \in Nat /\ position[p] # 0 /\ position[p] <= Len(log[p]) + 1
      /\ Len(log[p]) \in Nat
  BY PipelineAssumption DEF Shape, TypeOK, OffsetsOK, NoOffset, WithinOK
<1>2. CASE pc[g] \in Uncounted
  <2>1. cur[g] # None /\ cur[g] \in Ref
    BY <1>2, InHand, RefAssumption DEF Uncounted, Resting
  <2>2. cur[g].p = p /\ cur[g].o \in Nat /\ cur[g].o >= 1
    BY <2>1 DEF OnePartition, Ref
  <2>3. position[p] = cur[g].o + 1
    BY <2>1, <2>2 DEF InOrder, HeldOK
  <2> QED BY <1>1, <1>2, <2>2, <2>3 DEF Through
<1>3. CASE pc[g] \notin Uncounted
  BY <1>1, <1>3 DEF Through
<1> QED BY <1>2, <1>3

LEMMA CountedMove ==
    ASSUME OnePartition, Shape, InOrder, WithinOK, CountedOK, LogGrows, SkippedSame,
           UNCHANGED <<owner, position, counters>>,
           \A g \in Gateway : pc'[g] \in Uncounted <=> pc[g] \in Uncounted
    PROVE  CountedOK'
<1> SUFFICES ASSUME NEW g \in Gateway, NEW p \in Partition, NEW e \in Entity \ {None}
             PROVE  counters[g][e] = IF owner[p] = g
                                     THEN Cardinality(SinceEnd(p, e, Through(g, p))') ELSE 0
  BY DEF CountedOK
<1>1. CASE owner[p] = g
  <2>1. Through(g, p)' = Through(g, p)
    BY DEF Through
  <2>2. PICK n \in Nat : n = Through(g, p) /\ n <= Len(log[p])
    BY <1>1, ThroughType
  <2>3. SinceEnd(p, e, n)' = SinceEnd(p, e, n)
    BY <1>1, <2>2, SinceEndKept, PipelineAssumption
  <2>4. SinceEnd(p, e, Through(g, p))' = SinceEnd(p, e, n)'
    BY <2>1, <2>2 DEF SinceEnd, Counts
  <2> QED BY <1>1, <2>2, <2>3, <2>4 DEF CountedOK
<1>2. CASE owner[p] # g
  BY <1>2 DEF CountedOK
<1> QED BY <1>1, <1>2

LEMMA OnBeatKept ==
    ASSUME Shape, LogGrows, SkippedSame, NEW r \in Relayed, owner[r.p] # None
    PROVE  (OnBeat(r)' <=> OnBeat(r)) /\ (Paced(r)' <=> Paced(r))
<1>1. r.p \in Partition /\ r.o \in Nat /\ r.o >= 1 /\ EventAt(r)' = EventAt(r)
  BY DEF Relayed, Ref, LogGrows
<1>2. \A o \in 1..r.o : [p |-> r.p, o |-> o] \in Relayed /\ [p |-> r.p, o |-> o] \in Ref
  <2>1. r.o <= Len(log[r.p]) /\ Len(log[r.p]) \in Nat /\ r.o \in 1..MaxLog /\ MaxLog \in Nat
    BY <1>1, PipelineAssumption DEF Relayed, Ref, Shape, TypeOK
  <2> QED BY <1>1, <2>1 DEF Relayed, Ref
<1>3. \A o \in 1..r.o : log'[r.p][o] = log[r.p][o]
  BY <1>2 DEF LogGrows, EventAt
<1>4. \A o \in 1..r.o : outcome'[[p |-> r.p, o |-> o]] = "skipped"
                          <=> outcome[[p |-> r.p, o |-> o]] = "skipped"
  BY <1>2 DEF SkippedSame
<1>5. SttSoFar(r)' = SttSoFar(r)
  <2> DEFINE same(o) == /\ log[r.p][o].form = "valid"
                        /\ outcome[[p |-> r.p, o |-> o]] # "skipped"
                        /\ EntityKey(log[r.p][o]) = EntityKey(EventAt(r))
             ends == {o \in 1..(r.o - 1) : same(o) /\ log[r.p][o].type = "SESSION_ENDED"}
             S == {o \in 1..r.o : /\ same(o) /\ log[r.p][o].type = "STT_PARTIAL"
                                  /\ \A b \in ends : b < o}
  <2>1. \A o \in 1..r.o : same(o)' <=> same(o)
    BY <1>1, <1>3, <1>4
  <2>2. 1..(r.o - 1) \subseteq 1..r.o
    BY <1>1
  <2>3. ends' = ends
    <3> HIDE DEF same
    <3> QED BY <1>3, <2>1, <2>2
  <2>4. S' = S
    <3> HIDE DEF same, ends
    <3> QED BY <1>3, <2>1, <2>3
  <2>5. SttSoFar(r) = Cardinality(S) /\ SttSoFar(r)' = Cardinality(S')
    BY DEF SttSoFar
  <2> QED BY <2>4, <2>5
<1> QED BY <1>1, <1>5 DEF OnBeat, Paced

\* A record that was decided is in a partition with an owner.
LEMMA ChosenOwned ==
    ASSUME Shape, InOrder, NEW r \in Relayed, Chosen(r) \/ outcome[r] = "quiet"
    PROVE  owner[r.p] # None
<1>1. r \in Ref /\ r.p \in Partition /\ r # None
  BY RefAssumption DEF Relayed, Ref
<1>2. CASE outcome[r] # "none"
  BY <1>1, <1>2 DEF InOrder, UntouchedOK
<1>3. CASE \E g \in Gateway : cur[g] = r
  BY <1>1, <1>3, PipelineAssumption DEF InOrder, HeldOK
<1> QED BY <1>2, <1>3 DEF Chosen

\* Nothing new is decided.
LEMMA CadentKept ==
    ASSUME Shape, InOrder, CadentOK, LogGrows, SkippedSame,
           \A r \in Relayed' : Chosen(r)' => r \in Relayed /\ Chosen(r),
           \A r \in Relayed' : outcome'[r] = "quiet" => r \in Relayed /\ outcome[r] = "quiet"
    PROVE  CadentOK'
<1> SUFFICES ASSUME NEW r \in Relayed', Paced(r)'
             PROVE  /\ Chosen(r)' => OnBeat(r)'
                    /\ outcome'[r] = "quiet" => ~OnBeat(r)'
  BY DEF CadentOK
<1>1. ASSUME Chosen(r)' PROVE OnBeat(r)'
  <2>1. r \in Relayed /\ Chosen(r)
    BY <1>1
  <2>2. owner[r.p] # None
    BY <2>1, ChosenOwned
  <2> QED BY <2>1, <2>2, OnBeatKept DEF CadentOK
<1>2. ASSUME outcome'[r] = "quiet" PROVE ~OnBeat(r)'
  <2>1. r \in Relayed /\ outcome[r] = "quiet"
    BY <1>2
  <2>2. owner[r.p] # None
    BY <2>1, ChosenOwned
  <2> QED BY <2>1, <2>2, OnBeatKept DEF CadentOK
<1> QED BY <1>1, <1>2

-------------------------------------------------------------------------------
(* What is skipped *)

LEMMA SkippedWork ==
    ASSUME Shape, InOrder, NEW g \in Gateway, Work(g)
    PROVE  SkippedSame
<1>0. outcome \in [Ref -> Outcome]
  BY DEF Shape, TypeOK
<1>1. ASSUME NEW p \in Partition, Fetch(g, p) \/ FetchUndecodable(g, p) PROVE SkippedSame
  <2>1. PICK r0 \in Ref : r0 = Next1(p)
    BY <1>1, NextRecord DEF Fetch, FetchUndecodable
  <2>2. outcome[r0] # "skipped"
    <3>1. r0.p = p /\ r0.o = position[p] /\ position[p] \in Nat
      BY <2>1 DEF Next1, Shape, TypeOK
    <3> QED BY <3>1 DEF InOrder, BehindOK
  <2>3. \/ outcome' = outcome
        \/ \E how \in {"ended", "ignored", "poison"} : outcome' = [outcome EXCEPT ![r0] = how]
    BY <1>1, <2>1 DEF Fetch, FetchUndecodable
  <2>4. \A r \in Ref : outcome'[r] = outcome[r] \/ (r = r0 /\ outcome'[r] # "skipped")
    BY <1>0, <2>3
  <2> QED BY <2>2, <2>4 DEF SkippedSame
<1>2. CASE \/ SyncRead(g) \/ SyncHset(g) \/ SyncExpire(g) \/ ReadContext(g) \/ Infer(g)
           \/ PublishScore(g) \/ FinHset(g) \/ FinExpire(g)
  BY <1>2 DEF SkippedSame, SyncRead, SyncHset, SyncExpire, ReadContext, Infer, PublishScore,
     FinHset, FinExpire, history
<1>3. CASE \/ SyncEnrich(g) \/ PublishAction(g) \/ SendAlertWebhook(g) \/ PublishDlq(g)
           \/ FinEnrich(g)
  <2>1. cur[g] \in Ref /\ outcome[cur[g]] # "skipped"
    <3>1. cur[g] # None /\ cur[g] \in Ref
      BY <1>3, InHand, RefAssumption DEF SyncEnrich, PublishAction, SendAlertWebhook, PublishDlq,
         FinEnrich, Resting
    <3> QED BY <3>1 DEF InOrder, HeldOK
  <2>2. \/ outcome' = outcome
        \/ \E how \in Outcome \ {"skipped"} : outcome' = [outcome EXCEPT ![cur[g]] = how]
    BY <1>3 DEF SyncEnrich, PublishAction, SendAlertWebhook, PublishDlq, FinEnrich, Return, Die,
       Outcome
  <2>3. \A r \in Ref : outcome'[r] = outcome[r] \/ (r = cur[g] /\ outcome'[r] # "skipped")
    BY <1>0, <2>2
  <2> QED BY <2>1, <2>3 DEF SkippedSame
<1> QED BY <1>1, <1>2, <1>3 DEF Work

LEMMA SkippedFault ==
    ASSUME Shape, InOrder, NEW g \in Gateway,
           TritonFault(g) \/ KafkaFault(g) \/ KafkaLostAck(g) \/ Start(g)
    PROVE  SkippedSame
<1>0. outcome \in [Ref -> Outcome]
  BY DEF Shape, TypeOK
<1>1. \/ outcome' = outcome
      \/ pc[g] = "publish_dlq" /\ outcome' = [outcome EXCEPT ![cur[g]] = "lost"]
  BY DEF TritonFault, KafkaFault, KafkaLostAck, Start, Die, history
<1>2. CASE outcome' = outcome
  BY <1>2 DEF SkippedSame
<1>3. CASE pc[g] = "publish_dlq" /\ outcome' = [outcome EXCEPT ![cur[g]] = "lost"]
  <2>1. cur[g] \in Ref /\ cur[g] # None
    BY <1>3, InHand, RefAssumption DEF Resting
  <2>2. outcome[cur[g]] # "skipped"
    BY <2>1 DEF InOrder, HeldOK
  <2>3. \A r \in Ref : outcome'[r] = outcome[r] \/ (r = cur[g] /\ outcome'[r] = "lost")
    BY <1>0, <1>3
  <2> QED BY <2>2, <2>3 DEF SkippedSame
<1> QED BY <1>1, <1>2, <1>3
-------------------------------------------------------------------------------
(* One lemma per kind of step *)

LEMMA SyncingKept ==
    ASSUME Shape, SyncingOK, LogGrows,
           \A h \in Gateway : pc'[h] \in Syncing => pc[h] \in Syncing /\ cur'[h] = cur[h],
           \A h \in Gateway : pc[h] \in Syncing /\ outcome'[cur[h]] = "quiet"
                              => outcome[cur[h]] = "quiet" \/ pc'[h] \notin Syncing
    PROVE  SyncingOK'
<1> SUFFICES ASSUME NEW g \in Gateway, pc'[g] \in Syncing
             PROVE  Cur(g)'.type # "SESSION_ENDED" /\ outcome'[cur'[g]] # "quiet"
  BY DEF SyncingOK
<1>1. pc[g] \in Syncing /\ cur'[g] = cur[g] /\ cur[g] \in Relayed
  BY InHand DEF Syncing, Resting
<1>2. Cur(g)' = Cur(g)
  BY <1>1 DEF LogGrows, Cur, EventAt
<1> QED BY <1>1, <1>2 DEF SyncingOK

\* A step that moves no offset and no counter, chooses nothing new, and leaves
\* each worker on its side of the counter.
LEMMA CadenceMove ==
    ASSUME OnePartition, Shape, InOrder, Cadence, log' = log, SkippedSame,
           UNCHANGED <<owner, position, counters>>,
           \A h \in Gateway : pc'[h] \in Uncounted <=> pc[h] \in Uncounted,
           \A h \in Gateway : pc'[h] \in Syncing => pc[h] \in Syncing /\ cur'[h] = cur[h],
           \A h \in Gateway : pc'[h] \in Shown => pc[h] \in Shown /\ cur'[h] = cur[h],
           \A r \in Ref : outcome'[r] = "quiet" => outcome[r] = "quiet",
           \A r \in Ref : outcome'[r] = "scored" => Chosen(r)
    PROVE  Cadence'
<1>0. LogGrows /\ Relayed' = Relayed
  BY LogSame DEF Relayed
<1>1. WithinOK'
  BY DEF Cadence, WithinOK
<1>2. CountedOK'
  BY <1>0, CountedMove DEF Cadence
<1>3. SyncingOK'
  <2>1. \A h \in Gateway : pc[h] \in Syncing => cur[h] \in Ref
    BY InHand DEF Syncing, Resting
  <2> QED BY <1>0, <2>1, SyncingKept DEF Cadence
<1>4. CadentOK'
  <2>1. \A r \in Relayed : r \in Ref /\ (Chosen(r)' => Chosen(r))
    BY DEF Chosen, Relayed
  <2> QED BY <1>0, <2>1, CadentKept DEF Cadence
<1> QED BY <1>1, <1>2, <1>3, <1>4 DEF Cadence

LEMMA CadenceRelay ==
    ASSUME OnePartition, IInv, InOrder, Cadence, NEW ev \in Event, Relay(ev)
    PROVE  Cadence'
<1>0. /\ Shape /\ LogGrows /\ SkippedSame
      /\ UNCHANGED <<owner, position, pc, cur, counters, outcome>>
  BY RelayGrows DEF IInv, Relay, worker, history, SkippedSame
<1>1. WithinOK'
  <2>1. \A q \in Partition : Len(log[q]) \in Nat /\ Len(log'[q]) \in Nat /\ position[q] \in Nat
                             /\ Len(log[q]) <= Len(log'[q])
    BY <1>0, PipelineAssumption DEF Shape, TypeOK, Relay
  <2> QED BY <1>0, <2>1 DEF Cadence, WithinOK
<1>2. CountedOK'
  BY <1>0, CountedMove DEF Cadence
<1>3. SyncingOK'
  BY <1>0, SyncingKept DEF Cadence
<1>4. \A r \in Relayed' : outcome[r] # "none" \/ Chosen(r) => r \in Relayed
  <2>1. \A g \in Gateway : pc[g] \in Shown => cur[g] \in Relayed
    BY <1>0, InHand DEF Shown, Resting
  <2> QED BY <2>1 DEF Chosen, IInv, OutcomeOK, Relayed
<1>5. CadentOK'
  <2>1. \A r \in Relayed' : Chosen(r)' <=> Chosen(r)
    BY <1>0 DEF Chosen
  <2> QED BY <1>0, <1>4, <2>1, CadentKept DEF Cadence
<1> QED BY <1>1, <1>2, <1>3, <1>5 DEF Cadence

LEMMA CadenceAssign ==
    ASSUME OnePartition, Shape, InOrder, Cadence, NEW g \in Gateway, NEW p \in Partition,
           Assign(g, p)
    PROVE  Cadence'
<1>0. /\ UNCHANGED <<log, pc, cur, counters>> /\ Relayed' = Relayed
      /\ position'[p] = Len(log[p]) + 1 /\ owner[p] = None /\ owner'[p] = g
      /\ \A r \in Relayed : outcome'[r] = "skipped"
      /\ \A q \in Partition : q = p
      /\ Len(log[p]) \in Nat
  <2>1. position'[p] = Len(log[p]) + 1
        /\ \A r \in Relayed : r.p = p => outcome'[r] = "skipped"
    BY OrderAssign
  <2>2. \A r \in Relayed : r.p = p
    BY DEF OnePartition, Relayed, Ref
  <2>3. UNCHANGED <<log, pc, cur, counters>> /\ owner[p] = None /\ owner'[p] = g
    BY DEF Assign, worker, Shape, TypeOK
  <2>4. Relayed' = Relayed /\ Len(log[p]) \in Nat
    BY <2>3 DEF Relayed, Shape, TypeOK
  <2> QED BY <2>1, <2>2, <2>3, <2>4 DEF OnePartition
<1>1. \A h \in Gateway : cur[h] = None /\ pc[h] \in Resting
  <2>1. \A h \in Gateway : cur[h] = None
    <3> SUFFICES ASSUME NEW h \in Gateway, cur[h] # None PROVE FALSE
      OBVIOUS
    <3>1. cur[h] \in Ref /\ cur[h].p = p
      BY <1>0 DEF Shape, TypeOK, Ref
    <3>2. owner[p] = h
      BY <3>1 DEF InOrder, HeldOK
    <3> QED BY <1>0, <3>2, PipelineAssumption
  <2> QED BY <2>1, InHandOnly
<1>2. WithinOK'
  BY <1>0 DEF WithinOK
<1>3. SyncingOK'
  BY <1>0, <1>1 DEF SyncingOK, Syncing, Resting
<1>4. CadentOK'
  BY <1>0, <1>1 DEF CadentOK, Chosen, Shown, Resting
<1>5. CountedOK'
  <2> SUFFICES ASSUME NEW h \in Gateway, NEW e \in Entity \ {None}
               PROVE  counters'[h][e] = IF owner'[p] = h
                                        THEN Cardinality(SinceEnd(p, e, Through(h, p))') ELSE 0
    BY <1>0 DEF CountedOK
  <2>1. counters'[h][e] = 0
    BY <1>0, PipelineAssumption DEF Cadence, CountedOK
  <2>2. Through(h, p)' = Len(log[p])
    BY <1>0, <1>1 DEF Through, Uncounted, Resting
  <2>3. \A o \in 1..Len(log[p]) : outcome'[[p |-> p, o |-> o]] = "skipped"
    <3>1. Len(log[p]) <= MaxLog /\ MaxLog \in Nat
      BY PipelineAssumption DEF Shape, OffsetsOK
    <3>2. \A o \in 1..Len(log[p]) : [p |-> p, o |-> o] \in Relayed
      BY <1>0, <3>1 DEF Relayed, Ref
    <3> QED BY <1>0, <3>2
  <2>4. SinceEnd(p, e, Through(h, p))' = {}
    BY <2>2, <2>3 DEF SinceEnd, Counts
  <2> QED BY <2>1, <2>4, FS_EmptySet
<1> QED BY <1>2, <1>3, <1>4, <1>5 DEF Cadence

LEMMA CadenceFetch ==
    ASSUME OnePartition, Shape, InOrder, Cadence, NEW g \in Gateway, NEW p \in Partition,
           Fetch(g, p) \/ FetchUndecodable(g, p)
    PROVE  Cadence'
<1>0. /\ UNCHANGED <<log, owner, counters>> /\ Relayed' = Relayed /\ LogGrows
      /\ SkippedSame /\ \A q \in Partition : q = p
      /\ \A h \in Gateway \ {g} : pc'[h] = pc[h] /\ cur'[h] = cur[h]
  <2>1. SkippedSame
    BY SkippedWork DEF Work
  <2>2. UNCHANGED <<log, owner, counters>>
        /\ \A h \in Gateway \ {g} : pc'[h] = pc[h] /\ cur'[h] = cur[h]
    BY DEF Fetch, FetchUndecodable, Shape, TypeOK
  <2> QED BY <2>1, <2>2, LogSame DEF OnePartition, Relayed
<1>1. /\ pc[g] = "idle" /\ owner[p] = g /\ position[p] <= Len(log[p])
      /\ position[p] \in Nat /\ position[p] # 0 /\ Len(log[p]) \in Nat
  BY PipelineAssumption DEF Fetch, FetchUndecodable, Handed, Shape, TypeOK, OffsetsOK, NoOffset
<1>a. PICK n \in Nat : n + 1 = position[p] /\ n + 1 <= Len(log[p]) /\ n <= Len(log[p])
  <2>1. position[p] - 1 \in Nat
    BY <1>1
  <2> QED BY <1>1, <2>1
<1>2. PICK r0 \in Ref : /\ r0 = Next1(p) /\ r0.p = p /\ r0.o = position[p]
                        /\ r0 \in Relayed /\ EventAt(r0) = log[p][position[p]]
  BY NextRecord DEF Fetch, FetchUndecodable, Next1, EventAt
<1>3. \/ /\ pc'[g] \in Uncounted /\ cur'[g] = r0 /\ outcome' = outcome
         /\ position'[p] = position[p] + 1
         /\ pc'[g] \in Syncing => EventAt(r0).type # "SESSION_ENDED"
      \/ /\ pc'[g] \notin Uncounted \cup Shown
         /\ position'[p] \in {position[p], position[p] + 1}
         /\ EventAt(r0).form # "valid" \/ EntityKey(EventAt(r0)) = None
         /\ \A r \in Ref : outcome'[r] = outcome[r] \/ outcome'[r] \in {"ended", "ignored", "poison"}
  <2>1. CASE Fetch(g, p)
    <3>1. position'[p] = position[p] + 1
      BY <2>1 DEF Fetch, Advanced, Shape, TypeOK
    <3>2. CASE EventAt(r0).form = "valid" /\ EntityKey(EventAt(r0)) = None
      <4>1. /\ pc' = pc
            /\ \A r \in Ref : \/ outcome'[r] = outcome[r]
                              \/ outcome'[r] \in {"ended", "ignored"}
        BY <1>2, <2>1, <3>2 DEF Fetch, Shape, TypeOK
      <4> QED BY <1>1, <3>1, <3>2, <4>1 DEF Uncounted, Shown
    <3>3. CASE ~(EventAt(r0).form = "valid" /\ EntityKey(EventAt(r0)) = None)
      <4>1. pc'[g] = FirstStep(EventAt(r0)) /\ cur'[g] = r0 /\ outcome' = outcome
        BY <1>2, <2>1, <3>3 DEF Fetch, Shape, TypeOK
      <4> QED BY <3>1, <4>1 DEF FirstStep, Uncounted, Shown, Syncing
    <3> QED BY <3>2, <3>3
  <2>2. CASE FetchUndecodable(g, p)
    <3>1. EventAt(r0).form = "undecodable" /\ pc'[g] = "dead"
          /\ \A r \in Ref : outcome'[r] = outcome[r] \/ outcome'[r] = "poison"
      BY <1>2, <2>2 DEF FetchUndecodable, Shape, TypeOK
    <3>2. position'[p] \in {position[p], position[p] + 1}
      BY <2>2 DEF FetchUndecodable, Advanced, Shape, TypeOK
    <3> QED BY <3>1, <3>2 DEF Uncounted, Shown
  <2> QED BY <2>1, <2>2
<1>4. WithinOK'
  BY <1>0, <1>1, <1>3 DEF WithinOK
<1>5. CountedOK'
  <2> SUFFICES ASSUME NEW h \in Gateway, NEW e \in Entity \ {None}
               PROVE  counters[h][e] = IF owner[p] = h
                                       THEN Cardinality(SinceEnd(p, e, Through(h, p))') ELSE 0
    BY <1>0 DEF CountedOK
  <2>1. CASE h # g
    BY <1>1, <2>1 DEF Cadence, CountedOK
  <2>2. CASE h = g
    <3>1. counters[g][e] = Cardinality(SinceEnd(p, e, n))
      BY <1>1, <1>a DEF Cadence, CountedOK, Through, Uncounted
    <3>2. /\ SinceEnd(p, e, n)' = SinceEnd(p, e, n)
          /\ SinceEnd(p, e, n + 1)' = SinceEnd(p, e, n + 1)
      BY <1>0, <1>1, <1>a, SinceEndKept, PipelineAssumption
    <3>3. PICK m : m = Through(g, p)'
      OBVIOUS
    <3>4. \/ m = n
          \/ m = n + 1 /\ SinceEnd(p, e, n + 1) = SinceEnd(p, e, n)
      <4>1. CASE pc'[g] \in Uncounted
        <5>1. position'[p] = position[p] + 1
          BY <1>3, <4>1
        <5> QED BY <1>1, <1>a, <3>3, <4>1, <5>1 DEF Through
      <4>2. CASE pc'[g] \notin Uncounted
        <5>1. ~Counts(p, n + 1, e)
          BY <1>2, <1>3, <1>a, <4>2 DEF Counts
        <5>2. m = n \/ m = n + 1
          BY <1>1, <1>3, <1>a, <3>3, <4>2 DEF Through
        <5> QED BY <1>a, <5>1, <5>2, SinceEndOther
      <4> QED BY <4>1, <4>2
    <3>5. SinceEnd(p, e, Through(g, p))' = SinceEnd(p, e, m)'
      BY <3>3 DEF SinceEnd, Counts
    <3> QED BY <1>1, <2>2, <3>1, <3>2, <3>4, <3>5
  <2> QED BY <2>1, <2>2
<1>6. SyncingOK'
  <2> SUFFICES ASSUME NEW h \in Gateway, pc'[h] \in Syncing
               PROVE  Cur(h)'.type # "SESSION_ENDED" /\ outcome'[cur'[h]] # "quiet"
    BY DEF SyncingOK
  <2>1. CASE h = g
    <3>1. /\ cur'[g] = r0 /\ outcome' = outcome
          /\ EventAt(r0).type # "SESSION_ENDED"
      BY <1>3, <2>1 DEF Syncing, Uncounted
    <3>2. outcome[r0] # "quiet"
      BY <1>1, <1>2 DEF InOrder, BehindOK
    <3>3. EventAt(r0)' = EventAt(r0)
      BY <1>0 DEF EventAt
    <3>4. Cur(h)' = EventAt(r0)'
      BY <2>1, <3>1 DEF Cur, EventAt
    <3> QED BY <2>1, <3>1, <3>2, <3>3, <3>4
  <2>2. CASE h # g
    <3>1. pc[h] \in Syncing /\ cur'[h] = cur[h] /\ cur[h] \in Ref
      BY <1>0, <2>2, InHand DEF Syncing, Resting
    <3>2. Cur(h)' = Cur(h)
      BY <1>0, <3>1 DEF Cur, EventAt
    <3> QED BY <1>3, <3>1, <3>2 DEF Cadence, SyncingOK
  <2> QED BY <2>1, <2>2
<1>7. CadentOK'
  <2>1. /\ pc'[g] \notin Shown
        /\ \A r \in Ref : /\ outcome'[r] = "quiet" => outcome[r] = "quiet"
                          /\ outcome'[r] = "scored" => outcome[r] = "scored"
    BY <1>3 DEF Uncounted, Shown
  <2>2. \A r \in Relayed : r \in Ref /\ (Chosen(r)' => Chosen(r))
    BY <1>0, <2>1 DEF Chosen, Relayed
  <2> QED BY <1>0, <2>1, <2>2, CadentKept DEF Cadence
<1> QED BY <1>4, <1>5, <1>6, <1>7 DEF Cadence

\* What the record in hand adds to the count of its entity.
LEMMA CountNow ==
    ASSUME OnePartition, Shape, InOrder, Cadence, NEW g \in Gateway,
           pc[g] \in {"enrich", "fin_enrich"}, NEW e \in Entity \ {None}
    PROVE  LET k == Cardinality(SinceEnd(cur[g].p, e, cur[g].o)) IN
           /\ e # Key(g) => k = counters[g][e]
           /\ Cur(g).type \notin {"STT_PARTIAL", "SESSION_ENDED"} => k = counters[g][e]
           /\ e = Key(g) /\ Cur(g).type = "STT_PARTIAL" => k = counters[g][e] + 1
           /\ e = Key(g) /\ Cur(g).type = "SESSION_ENDED" => k = 0
<1>1. /\ cur[g] \in Ref /\ cur[g] # None /\ cur[g].p \in Partition
      /\ cur[g].o \in Nat /\ cur[g].o >= 1
      /\ Cur(g).form = "valid" /\ outcome[cur[g]] # "skipped"
      /\ owner[cur[g].p] = g
  <2>1. cur[g] \in Ref /\ cur[g] # None
    BY InHand, RefAssumption DEF Resting
  <2>2. Cur(g).form = "valid"
    BY DEF Handling, Step, Shape, ControlOK
  <2>3. owner[cur[g].p] = g /\ outcome[cur[g]] # "skipped"
    BY <2>1 DEF InOrder, HeldOK
  <2> QED BY <2>1, <2>2, <2>3 DEF Ref
<1>2. PICK p \in Partition : p = cur[g].p
  BY <1>1
<1>3. PICK n \in Nat : n = cur[g].o - 1 /\ n + 1 = cur[g].o
  BY <1>1
<1>4. counters[g][e] = Cardinality(SinceEnd(p, e, n))
  <2>1. Through(g, p) = n
    BY <1>1, <1>2, <1>3, ThroughType DEF Uncounted, Cadence
  <2> QED BY <1>1, <1>2, <2>1 DEF Cadence, CountedOK
<1>5. log[p][n + 1] = Cur(g) /\ cur[g] = [p |-> p, o |-> n + 1]
  BY <1>1, <1>2, <1>3 DEF Cur, EventAt, Ref
<1>6. Counts(p, n + 1, e) <=> e = Key(g)
  BY <1>1, <1>5 DEF Counts, Key
<1>7. e # Key(g) \/ Cur(g).type \notin {"STT_PARTIAL", "SESSION_ENDED"}
        => Cardinality(SinceEnd(p, e, n + 1)) = counters[g][e]
  BY <1>4, <1>5, <1>6, SinceEndOther
<1>8. e = Key(g) /\ Cur(g).type = "STT_PARTIAL"
        => Cardinality(SinceEnd(p, e, n + 1)) = counters[g][e] + 1
  BY <1>4, <1>5, <1>6, SinceEndStt
<1>9. e = Key(g) /\ Cur(g).type = "SESSION_ENDED"
        => Cardinality(SinceEnd(p, e, n + 1)) = 0
  BY <1>5, <1>6, SinceEndEnd
<1> QED BY <1>2, <1>3, <1>7, <1>8, <1>9

\* The record in hand reaches the counter.
LEMMA CountedEnrich ==
    ASSUME OnePartition, IInv, InOrder, Cadence, NEW g \in Gateway, SyncEnrich(g) \/ FinEnrich(g)
    PROVE  CountedOK' /\ WithinOK'
<1>0. /\ Shape /\ UNCHANGED <<log, owner, position>> /\ LogGrows /\ SkippedSame
      /\ pc[g] \in {"enrich", "fin_enrich"} /\ pc'[g] \notin Uncounted
      /\ \A h \in Gateway \ {g} : pc'[h] = pc[h] /\ counters'[h] = counters[h]
  <2>1. Shape
    BY DEF IInv
  <2>2. UNCHANGED <<log, owner, position>> /\ pc[g] \in {"enrich", "fin_enrich"}
    BY DEF SyncEnrich, FinEnrich, kafka
  <2>3. /\ pc'[g] \notin Uncounted
        /\ \A h \in Gateway \ {g} : pc'[h] = pc[h] /\ counters'[h] = counters[h]
    BY <2>1 DEF SyncEnrich, FinEnrich, Return, Uncounted, Shape, TypeOK
  <2> QED BY <2>1, <2>2, <2>3, LogSame, SkippedWork DEF Work
<1>1. /\ cur[g] \in Ref /\ cur[g] # None /\ cur[g] \in Relayed /\ Key(g) \in Entity
      /\ owner[cur[g].p] = g /\ position[cur[g].p] = cur[g].o + 1
  <2>1. cur[g] \in Ref /\ cur[g] # None /\ cur[g] \in Relayed /\ Key(g) \in Entity
    BY <1>0, InHand, RefAssumption DEF Resting, Handling, Step
  <2> QED BY <2>1 DEF InOrder, HeldOK
<1>2. PICK p \in Partition : p = cur[g].p /\ \A q \in Partition : q = p
  BY <1>1 DEF OnePartition, Ref
<1>3. PICK n \in Nat : n = cur[g].o /\ n <= Len(log[p])
  BY <1>1, <1>2 DEF Relayed, Ref
<1>4. Through(g, p)' = n
  BY <1>0, <1>1, <1>2, <1>3 DEF Through
<1>5. \A e \in Entity \ {None} : counters'[g][e] = Cardinality(SinceEnd(p, e, n))
  <2> SUFFICES ASSUME NEW e \in Entity \ {None}
               PROVE  counters'[g][e] = Cardinality(SinceEnd(p, e, n))
    OBVIOUS
  <2>0. /\ counters \in [Gateway -> [Entity -> Nat]]
        /\ Cur(g).type \in {"STT_PARTIAL", "SESSION_ENDED"}
           \/ Cur(g).type \notin {"STT_PARTIAL", "SESSION_ENDED"}
    BY <1>0 DEF Shape, TypeOK
  <2>1. LET k == Cardinality(SinceEnd(p, e, n)) IN
        /\ e # Key(g) => k = counters[g][e]
        /\ Cur(g).type \notin {"STT_PARTIAL", "SESSION_ENDED"} => k = counters[g][e]
        /\ e = Key(g) /\ Cur(g).type = "STT_PARTIAL" => k = counters[g][e] + 1
        /\ e = Key(g) /\ Cur(g).type = "SESSION_ENDED" => k = 0
    BY <1>0, <1>2, <1>3, CountNow
  <2>2. CASE SyncEnrich(g)
    <3>1. Cur(g).type # "SESSION_ENDED"
      BY <2>2 DEF SyncEnrich, Cadence, SyncingOK, Syncing
    <3>2. counters'[g] = Counted(g)
      BY <2>0, <2>2 DEF SyncEnrich
    <3>3. Counted(g)[e] = IF Cur(g).type = "STT_PARTIAL" /\ e = Key(g)
                          THEN counters[g][e] + 1 ELSE counters[g][e]
      BY <2>0 DEF Counted
    <3> QED BY <2>1, <3>1, <3>2, <3>3
  <2>3. CASE FinEnrich(g)
    <3>1. Cur(g).type = "SESSION_ENDED"
      BY <2>3 DEF FinEnrich, IInv, StagesOK, Staged
    <3>2. counters'[g] = Popped(g)
      BY <2>0, <2>3 DEF FinEnrich
    <3>3. Popped(g)[e] = IF e = Key(g) THEN 0 ELSE counters[g][e]
      BY <2>0 DEF Popped
    <3> QED BY <2>1, <3>1, <3>2, <3>3
  <2> QED BY <2>2, <2>3
<1>6. CountedOK'
  <2> SUFFICES ASSUME NEW h \in Gateway, NEW e \in Entity \ {None}
               PROVE  counters'[h][e] = IF owner[p] = h
                                        THEN Cardinality(SinceEnd(p, e, Through(h, p))') ELSE 0
    BY <1>0, <1>2 DEF CountedOK
  <2>1. CASE h # g
    BY <1>0, <1>1, <1>2, <2>1 DEF Cadence, CountedOK
  <2>2. CASE h = g
    <3>1. SinceEnd(p, e, n)' = SinceEnd(p, e, n)
      BY <1>0, <1>1, <1>2, <1>3, SinceEndKept, PipelineAssumption
    <3>2. SinceEnd(p, e, Through(g, p))' = SinceEnd(p, e, n)'
      BY <1>4 DEF SinceEnd, Counts
    <3> QED BY <1>1, <1>2, <1>5, <2>2, <3>1, <3>2
  <2> QED BY <2>1, <2>2
<1>7. WithinOK'
  BY <1>0 DEF Cadence, WithinOK
<1> QED BY <1>6, <1>7
\* The decision: what the counter says is what the log says.
LEMMA CadentDecided ==
    ASSUME OnePartition, IInv, InOrder, Cadence, NEW g \in Gateway, SyncEnrich(g)
    PROVE  CadentOK'
<1>0. /\ Shape /\ log' = log /\ LogGrows /\ SkippedSame /\ Relayed' = Relayed
      /\ pc[g] = "enrich"
      /\ \A h \in Gateway \ {g} : pc'[h] = pc[h] /\ cur'[h] = cur[h]
      /\ \A r \in Ref \ {cur[g]} : outcome'[r] = outcome[r]
  <2>1. Shape
    BY DEF IInv
  <2>2. log' = log /\ pc[g] = "enrich"
    BY DEF SyncEnrich, kafka
  <2>3. /\ \A h \in Gateway \ {g} : pc'[h] = pc[h] /\ cur'[h] = cur[h]
        /\ \A r \in Ref \ {cur[g]} : outcome'[r] = outcome[r]
    BY <2>1 DEF SyncEnrich, Return, Shape, TypeOK
  <2> QED BY <2>1, <2>2, <2>3, LogSame, SkippedWork DEF Work, Relayed
<1>1. /\ cur[g] \in Ref /\ cur[g] # None /\ cur[g] \in Relayed
      /\ Key(g) \in Entity \ {None} /\ owner[cur[g].p] = g
  <2>1. cur[g] \in Ref /\ cur[g] # None /\ cur[g] \in Relayed /\ Key(g) \in Entity
    BY <1>0, InHand, RefAssumption DEF Resting, Handling, Step
  <2>2. Key(g) # None
    BY <1>0 DEF Handling, Step, Shape, ControlOK, Key
  <2>3. owner[cur[g].p] = g
    BY <2>1 DEF InOrder, HeldOK
  <2> QED BY <2>1, <2>2, <2>3
<1>2. outcome[cur[g]] # "quiet"
  BY <1>0 DEF Cadence, SyncingOK, Syncing
<1>3. Paced(cur[g]) =>
        (OnBeat(cur[g]) <=> ShouldTriggerScoring(Cur(g), Counted(g)[Key(g)]))
  <2> SUFFICES ASSUME Paced(cur[g])
               PROVE  OnBeat(cur[g]) <=> ShouldTriggerScoring(Cur(g), Counted(g)[Key(g)])
    OBVIOUS
  <2>1. Cur(g).type = "STT_PARTIAL" /\ ~Urgent(Cur(g))
    BY DEF Paced, Cur
  <2>2. SttSoFar(cur[g]) = counters[g][Key(g)] + 1
    <3>1. SttSoFar(cur[g]) = Cardinality(SinceEnd(cur[g].p, Key(g), cur[g].o))
      BY <1>1, <2>1, SttSoFarCounts DEF Cur, Key
    <3> QED BY <1>0, <1>1, <2>1, <3>1, CountNow
  <2>3. Counted(g)[Key(g)] = counters[g][Key(g)] + 1
    BY <1>0, <1>1, <2>1 DEF Counted, Shape, TypeOK
  <2> QED BY <2>1, <2>2, <2>3 DEF OnBeat, ShouldTriggerScoring
<1>4. \A h \in Gateway \ {g} : cur[h] # cur[g]
  BY <1>1 DEF InOrder, HeldOK
<1> SUFFICES ASSUME NEW r \in Relayed, Paced(r)'
             PROVE  /\ Chosen(r)' => OnBeat(r)'
                    /\ outcome'[r] = "quiet" => ~OnBeat(r)'
  BY <1>0 DEF CadentOK
<1>5. CASE r = cur[g]
  <2>1. (OnBeat(r)' <=> OnBeat(r)) /\ Paced(r)
    BY <1>0, <1>1, <1>5, OnBeatKept, PipelineAssumption
  <2>2. CASE ShouldTriggerScoring(Cur(g), Counted(g)[Key(g)])
    <3>1. outcome'[r] # "quiet"
      BY <1>2, <1>5, <2>2 DEF SyncEnrich
    <3> QED BY <1>3, <1>5, <2>1, <2>2, <3>1
  <2>3. CASE ~ShouldTriggerScoring(Cur(g), Counted(g)[Key(g)])
    <3>1. outcome'[r] = "quiet" /\ cur'[g] = None
      BY <1>0, <1>1, <1>5, <2>3 DEF SyncEnrich, Return, Shape, TypeOK
    <3>2. ~Chosen(r)'
      BY <1>0, <1>1, <1>4, <1>5, <3>1 DEF Chosen
    <3> QED BY <1>3, <1>5, <2>1, <2>3, <3>2
  <2> QED BY <2>2, <2>3
<1>6. CASE r # cur[g]
  <2>1. r \in Ref /\ r # None
    BY RefAssumption DEF Relayed
  <2>2. outcome'[r] = outcome[r] /\ (Chosen(r)' => Chosen(r))
    <3>1. cur'[g] \in {cur[g], None}
      BY <1>0 DEF SyncEnrich, Return, Shape, TypeOK
    <3> QED BY <1>0, <1>6, <2>1, <3>1 DEF Chosen
  <2>3. CASE Chosen(r) \/ outcome[r] = "quiet"
    <3>1. owner[r.p] # None
      BY <1>0, <2>3, ChosenOwned
    <3>2. (OnBeat(r)' <=> OnBeat(r)) /\ Paced(r)
      BY <1>0, <3>1, OnBeatKept
    <3> QED BY <2>2, <3>2 DEF Cadence, CadentOK
  <2> QED BY <2>2, <2>3
<1> QED BY <1>5, <1>6

LEMMA CadenceEnrich ==
    ASSUME OnePartition, IInv, InOrder, Cadence, NEW g \in Gateway, SyncEnrich(g) \/ FinEnrich(g)
    PROVE  Cadence'
<1>0. Shape /\ log' = log /\ LogGrows /\ SkippedSame /\ Relayed' = Relayed
  <2>1. Shape /\ log' = log
    BY DEF IInv, SyncEnrich, FinEnrich, kafka
  <2> QED BY <2>1, LogSame, SkippedWork DEF Work, Relayed
<1>1. CountedOK' /\ WithinOK'
  BY CountedEnrich
<1>2. SyncingOK'
  <2>1. /\ pc'[g] \notin Syncing /\ cur[g] \in Ref /\ cur[g] # None
        /\ \A h \in Gateway \ {g} : pc'[h] = pc[h] /\ cur'[h] = cur[h]
        /\ \A r \in Ref \ {cur[g]} : outcome'[r] = outcome[r]
    BY <1>0, InHand, RefAssumption DEF SyncEnrich, FinEnrich, Return, Syncing, Resting, Shape,
       TypeOK
  <2>2. \A h \in Gateway : pc[h] \in Syncing => cur[h] \in Ref
    BY <1>0, InHand DEF Syncing, Resting
  <2>3. \A h \in Gateway \ {g} : cur[h] # cur[g]
    BY <2>1 DEF InOrder, HeldOK
  <2> QED BY <1>0, <2>1, <2>2, <2>3, SyncingKept DEF Cadence
<1>3. CASE SyncEnrich(g)
  BY <1>1, <1>2, <1>3, CadentDecided DEF Cadence
<1>4. CASE FinEnrich(g)
  <2>1. /\ pc'[g] = "idle"
        /\ \A h \in Gateway \ {g} : pc'[h] = pc[h] /\ cur'[h] = cur[h]
        /\ \A r \in Ref : outcome'[r] = outcome[r] \/ outcome'[r] = "ended"
    BY <1>0, <1>4 DEF FinEnrich, Return, Shape, TypeOK
  <2>2. \A r \in Relayed : r \in Ref /\ (Chosen(r)' => Chosen(r))
    BY <2>1 DEF Chosen, Relayed, Shown
  <2>3. CadentOK'
    BY <1>0, <2>1, <2>2, CadentKept DEF Cadence
  <2> QED BY <1>1, <1>2, <2>3 DEF Cadence
<1> QED BY <1>3, <1>4

LEMMA CadenceWork ==
    ASSUME OnePartition, IInv, InOrder, Cadence, NEW g \in Gateway, Work(g)
    PROVE  Cadence'
<1>0. Shape /\ SkippedSame
  BY SkippedWork DEF IInv
<1>1. ASSUME NEW p \in Partition, Fetch(g, p) \/ FetchUndecodable(g, p) PROVE Cadence'
  BY <1>0, <1>1, CadenceFetch
<1>2. CASE SyncEnrich(g) \/ FinEnrich(g)
  BY <1>2, CadenceEnrich
<1>3. CASE \/ SyncRead(g) \/ SyncHset(g) \/ SyncExpire(g) \/ ReadContext(g) \/ Infer(g)
           \/ PublishScore(g) \/ PublishAction(g) \/ SendAlertWebhook(g) \/ PublishDlq(g)
           \/ FinHset(g) \/ FinExpire(g)
  <2>1. UNCHANGED <<log, owner, position, counters>>
    BY <1>3 DEF SyncRead, SyncHset, SyncExpire, ReadContext, Infer, PublishScore, PublishAction,
       SendAlertWebhook, PublishDlq, FinHset, FinExpire, kafka
  <2>2. \A h \in Gateway \ {g} : pc'[h] = pc[h] /\ cur'[h] = cur[h]
    BY <1>0, <1>3 DEF SyncRead, SyncHset, SyncExpire, ReadContext, Infer, PublishScore,
       PublishAction, SendAlertWebhook, PublishDlq, FinHset, FinExpire, Wait, Return, Raise, Die,
       Shape, TypeOK
  <2>3. /\ pc'[g] \in Uncounted <=> pc[g] \in Uncounted
        /\ pc'[g] \in Syncing => pc[g] \in Syncing /\ cur'[g] = cur[g]
        /\ pc'[g] \in Shown => pc[g] \in Shown /\ cur'[g] = cur[g]
    BY <1>0, <1>3 DEF SyncRead, SyncHset, SyncExpire, ReadContext, Infer, PublishScore,
       PublishAction, SendAlertWebhook, PublishDlq, FinHset, FinExpire, Wait, Return, Raise, Die,
       Uncounted, Syncing, Shown, Shape, TypeOK
  <2>4. \A r \in Ref : \/ outcome'[r] = outcome[r]
                       \/ outcome'[r] \in {"dlq", "dropped", "poison"}
                       \/ outcome'[r] = "scored" /\ r = cur[g] /\ pc[g] \in Shown
    BY <1>0, <1>3 DEF SyncRead, SyncHset, SyncExpire, ReadContext, Infer, PublishScore,
       PublishAction, SendAlertWebhook, PublishDlq, FinHset, FinExpire, Return, Die, history,
       Shown, Shape, TypeOK
  <2>5. /\ \A r \in Ref : outcome'[r] = "quiet" => outcome[r] = "quiet"
        /\ \A r \in Ref : outcome'[r] = "scored" => Chosen(r)
    BY <2>4 DEF Chosen
  <2> QED BY <1>0, <2>1, <2>2, <2>3, <2>5, CadenceMove
<1> QED BY <1>1, <1>2, <1>3 DEF Work

LEMMA CadenceFault ==
    ASSUME OnePartition, Shape, InOrder, Cadence, NEW g \in Gateway,
           TritonFault(g) \/ KafkaFault(g) \/ KafkaLostAck(g) \/ Start(g)
    PROVE  Cadence'
<1>1. SkippedSame
  BY SkippedFault
<1>2. UNCHANGED <<log, owner, position, counters>>
  BY DEF TritonFault, KafkaFault, KafkaLostAck, Start, kafka, worker
<1>3. \A h \in Gateway \ {g} : pc'[h] = pc[h] /\ cur'[h] = cur[h]
  BY DEF TritonFault, KafkaFault, KafkaLostAck, Start, Raise, Die, worker, Shape, TypeOK
<1>4. /\ pc'[g] \in Uncounted <=> pc[g] \in Uncounted
      /\ pc'[g] \in Syncing => pc[g] \in Syncing /\ cur'[g] = cur[g]
      /\ pc'[g] \in Shown => pc[g] \in Shown /\ cur'[g] = cur[g]
  BY DEF TritonFault, KafkaFault, KafkaLostAck, Start, Raise, Die, worker, Uncounted, Syncing,
     Shown, Shape, TypeOK
<1>5. \A r \in Ref : outcome'[r] = outcome[r] \/ outcome'[r] = "lost"
  BY DEF TritonFault, KafkaFault, KafkaLostAck, Start, Die, history, Shape, TypeOK
<1>6. /\ \A r \in Ref : outcome'[r] = "quiet" => outcome[r] = "quiet"
      /\ \A r \in Ref : outcome'[r] = "scored" => Chosen(r)
  BY <1>5 DEF Chosen
<1> QED BY <1>1, <1>2, <1>3, <1>4, <1>6, CadenceMove

LEMMA CadenceNext ==
    ASSUME OnePartition, IInv, InOrder, Cadence, Orderly', [Next]_vars
    PROVE  Cadence'
<1>0. Shape /\ \A k \in Interrupts : ~Spend(k)
  BY OrderlyBefore DEF IInv
<1>1. ASSUME NEW ev \in Event, Relay(ev) PROVE Cadence'
  BY <1>1, CadenceRelay
<1>2. ASSUME NEW g \in Gateway, NEW p \in Partition, Assign(g, p) PROVE Cadence'
  BY <1>0, <1>2, CadenceAssign
<1>3. CASE (\E g \in Gateway : AutoCommit(g)) \/ StoreWriter \/ UNCHANGED vars
  <2>1. UNCHANGED <<log, owner, position, counters, pc, cur, outcome>>
    BY <1>3 DEF AutoCommit, StoreWriter, Expire, UpsertHset, UpsertExpire, vars, kafka, worker,
       history
  <2> QED BY <1>0, <2>1, CadenceMove DEF SkippedSame, Chosen
<1>4. CASE Group
  BY <1>0, <1>2, <1>3, <1>4 DEF Group, Revoke, Interrupts
<1>5. ASSUME NEW g \in Gateway, Work(g) PROVE Cadence'
  BY <1>5, CadenceWork
<1>6. ASSUME NEW g \in Gateway, CallFault(g) \/ Process(g) PROVE Cadence'
  BY <1>0, <1>6, CadenceFault DEF CallFault, Process, RedisFault, Crash, Stop, Interrupts
<1> QED BY <1>1, <1>3, <1>4, <1>5, <1>6 DEF Next

CadenceInv == OrderInv /\ (Orderly => Cadence)

LEMMA CadenceInit == Init => CadenceInv
<1>1. Init => Relayed = {}
  BY DEF Init, Relayed, Ref
<1>2. Init => WithinOK /\ SyncingOK
  BY DEF Init, WithinOK, SyncingOK, Syncing, NoOffset
<1>3. Init => CountedOK
  BY PipelineAssumption DEF Init, CountedOK
<1> QED BY <1>1, <1>2, <1>3, OrderInvInit DEF CadenceInv, Cadence, CadentOK

LEMMA CadenceInvNext ==
    ASSUME OnePartition, CadenceInv, [Next]_vars
    PROVE  CadenceInv'
<1>1. OrderInv' /\ Shape
  BY OrderInvNext DEF CadenceInv, OrderInv, IInv
<1>2. ASSUME Orderly' PROVE Cadence'
  <2>1. Orderly
    BY <1>1, <1>2, OrderlyBefore
  <2> QED BY <1>2, <2>1, CadenceNext DEF CadenceInv, OrderInv
<1> QED BY <1>1, <1>2 DEF CadenceInv

LEMMA CadenceShows == CadenceInv => CadenceMatchesLog
<1> SUFFICES ASSUME CadenceInv, NEW r \in Relayed, Orderly, Paced(r)
             PROVE  /\ outcome[r] = "scored" => ScoreEveryN > 0 /\ SttSoFar(r) % ScoreEveryN = 0
                    /\ outcome[r] = "quiet" => ScoreEveryN = 0 \/ SttSoFar(r) % ScoreEveryN # 0
  BY DEF CadenceMatchesLog, Orderly, Paced
<1>1. /\ outcome[r] = "scored" => OnBeat(r)
      /\ outcome[r] = "quiet" => ~OnBeat(r)
  BY DEF CadenceInv, Cadence, CadentOK, Chosen
<1> QED BY <1>1, ScoreEveryNAssumption DEF OnBeat

\* The counters live in the worker's memory and are touched at one await of one
\* record at a time; the log is what was agreed on.  With every record in one
\* partition, and while nobody is restarted and Redis answers, the two agree
\* on every event, whoever else works, fails or publishes in between.
THEOREM CadenceFollowsLog ==
    ASSUME OnePartition
    PROVE  Spec => []CadenceMatchesLog
<1>1. CadenceInv /\ [Next]_vars => CadenceInv'
  BY CadenceInvNext
<1> QED BY <1>1, CadenceInit, CadenceShows, PTL DEF Spec
===============================================================================
