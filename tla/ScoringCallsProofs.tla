-------------------------- MODULE ScoringCallsProofs --------------------------
(***************************************************************************)
(* The callers of score in one process, for every number of clients, calls *)
(* and faults, every limit and window, every body, event and model score.  *)
(***************************************************************************)
EXTENDS ScoringCalls, FiniteSetTheorems, TLAPS

\* The lemmas about the limiter, over the limiter's variables of this module.
Bounds == INSTANCE RateLimiterProofs

Outcome == {200, 500}
Status == {0, 200, 401, 422, 429, 500}

CallRecord ==
    [client : Client \union {None}, body : Body \union {None}, keyed : BOOLEAN,
     since : Nat, nth : Nat, wait : {"none", "fetch", "infer"}, ctx : ContextFeatures,
     status : Status, tritonFailed : BOOLEAN]

WorkerRecord ==
    [wait : {"none", "context", "fetch", "infer"}, ev : Event \union {None},
     req : ScoringRequest \union {None}, ctx : ContextFeatures,
     flag : Flag \union {"none"}, rules : SUBSET Rule, untouched : BOOLEAN]

CallsTypeOK ==
    /\ call \in [Slot -> CallRecord]
    /\ wk \in WorkerRecord
    /\ store \in [Entity -> Hash]
    /\ events \in Nat
    /\ fault \in [FaultKind -> Nat]

\* Who waits has a body and, for the hash, a key.
CallWaits(k) ==
    /\ call[k].wait # "none" =>
          /\ k \in Admitted
          /\ call[k].body \in Body
          /\ call[k].body.form \in {"garbage", "plain"}
          /\ call[k].status = 0
    /\ call[k].wait = "fetch" => CallKey(k) # None

WaitOK ==
    /\ \A k \in Slot : CallWaits(k)
    /\ wk.wait # "none" =>
          /\ wk.ev \in Event
          /\ wk.ev.form = "valid"
          /\ EntityKey(wk.ev) # None
    /\ wk.wait \in {"fetch", "infer"} => wk.req \in ScoringRequest

\* No step of this module sets the wall clock.
LimiterOK == Bounds!IInv /\ back = 0 /\ forward = 0

Used == {k \in Slot : call[k] # NoCall}

\* The calls are numbered in the order they came.
UsedOK ==
    /\ IsFiniteSet(Used)
    /\ \A k \in Used : call[k].nth \in 1..Cardinality(Used) /\ call[k].client \in Client

\* f[n] is the call that made the n-th admission of c.
Numbering(c, f) ==
    /\ \A k \in Slot :
          k \in Admitted /\ call[k].client = c <=> \E n \in DOMAIN f : f[n] = k
    /\ \A n \in DOMAIN f : call[f[n]].since = at[c][n]
    /\ \A m, n \in DOMAIN f : m < n => call[f[m]].nth < call[f[n]].nth

\* The admissions of the limiter are the calls that got past it, in order.
NumberedOK ==
    RateLimitEnabled =>
        \A c \in Client : \E f \in [1..Len(at[c]) -> Slot] : Numbering(c, f)

CallsInv ==
    /\ CallsTypeOK
    /\ WaitOK
    /\ LimiterOK
    /\ UsedOK
    /\ NumberedOK
    /\ RefusedForOwnCalls

-------------------------------------------------------------------------------
(* What the steps do to the calls *)

\* The features a read may return are numbers.
LEMMA FetchedType ==
    ASSUME NEW session \in Session \union {None}, NEW e \in Entity, NEW h \in Hash
    PROVE  /\ MockFeatures(session, e) \in ContextFeatures
           /\ Fetched(session, e, h) \subseteq ContextFeatures
<1>1. MockFeatures(session, e) \in ContextFeatures
  BY CallsAssumption DEF CallsAssumption, MockFeatures, ContextFeatures
<1>2. ASSUME NEW ctx \in Fetched(session, e, h) PROVE ctx \in ContextFeatures
  BY <1>1, CallsAssumption DEF CallsAssumption, Fetched, ContextFeatures, Hash
<1> QED BY <1>1, <1>2

\* Any other step of the calls resumes one that waits for its hash or for
\* Triton, and answers it with 200 or 500 or lets it wait for Triton.  A score
\* from the engine is valid when the critical score is.
Resumed(k, x) ==
    /\ call[k].wait # "none"
    /\ call' = [call EXCEPT ![k] = x]
    /\ x \in CallRecord
    /\ x.client = call[k].client /\ x.body = call[k].body
    /\ x.since = call[k].since /\ x.nth = call[k].nth
    /\ \/ x.wait = "infer" /\ x.status = 0
       \/ x.wait = "none" /\ x.status \in Outcome
    /\ x.status = 500 /\ CriticalScore \in 0..100 => x.tritonFailed \/ x.body.form = "garbage"
    /\ UNCHANGED <<limiter, wk, store, events>>

LEMMA ResumeEffect ==
    ASSUME CallsTypeOK, WaitOK, NEW k \in Slot,
           Fetch(k) \/ FetchFault(k) \/ Infer(k) \/ InferFault(k)
    PROVE  Resumed(k, call'[k])
<1>1. call[k] \in CallRecord
  BY DEF CallsTypeOK
<1>2. CASE Fetch(k) \/ FetchFault(k)
  <2>1. call[k].body \in ScoreBody /\ CallKey(k) \in Entity
        /\ call[k].body.session \in Session \union {None} /\ store[CallKey(k)] \in Hash
    BY <1>2, CallsAssumption
    DEF CallsAssumption, Fetch, FetchFault, WaitOK, CallWaits, CallsTypeOK, CallKey, ResolveEntityKey, ScoreBody,
        Entity
  <2>2. PICK ctx \in ContextFeatures :
          call' = [call EXCEPT ![k].ctx = ctx, ![k].wait = "infer"]
    BY <1>2, <2>1, FetchedType DEF Fetch, FetchFault
  <2> DEFINE x == [call[k] EXCEPT !.ctx = ctx, !.wait = "infer"]
  <2>3. call' = [call EXCEPT ![k] = x] /\ call'[k] = x
    BY <2>2 DEF CallsTypeOK
  <2>4. /\ x \in CallRecord
        /\ x.client = call[k].client /\ x.body = call[k].body
        /\ x.since = call[k].since /\ x.nth = call[k].nth
        /\ x.wait = "infer" /\ x.status = call[k].status
    BY <1>1 DEF CallRecord
  <2>5. call[k].wait # "none" /\ call[k].status = 0 /\ UNCHANGED <<limiter, wk, store, events>>
    BY <1>2 DEF Fetch, FetchFault, WaitOK, CallWaits
  <2>6. x.status = 0 /\ (x.status = 500 => FALSE)
    BY <2>4, <2>5
  <2> HIDE DEF x
  <2>7. /\ (x.wait = "infer" /\ x.status = 0) \/ (x.wait = "none" /\ x.status \in Outcome)
        /\ x.status = 500 /\ CriticalScore \in 0..100 => x.tritonFailed \/ x.body.form = "garbage"
    BY <2>4, <2>6, Zenon
  <2> QED BY <2>3, <2>4, <2>5, <2>7, Zenon DEF Resumed
<1>3. CASE Infer(k)
  <2>1. PICK ml \in MLScore :
          LET valid == FdsScore(RequestOf(call[k].body), Clamp(ml)) \in 0..100
          IN  Answered(k, IF call[k].body.form = "plain" /\ valid THEN 200 ELSE 500)
    BY <1>3, Zenon DEF Infer
  <2> DEFINE code == IF /\ call[k].body.form = "plain"
                        /\ FdsScore(RequestOf(call[k].body), Clamp(ml)) \in 0..100
                     THEN 200 ELSE 500
  <2>0. code \in Status /\ code \in Outcome
    BY DEF Status, Outcome
  <2>5. call' = [call EXCEPT ![k].status = code, ![k].wait = "none"]
    BY <2>1, Zenon DEF Answered
  <2>6. code = 500 /\ CriticalScore \in 0..100 => call[k].body.form = "garbage"
    <3>1. ml \in Int /\ call[k].body.form \in {"garbage", "plain"}
      BY <1>3, CallsAssumption DEF CallsAssumption, Infer, WaitOK, CallWaits
    <3>2. CriticalScore \in 0..100 => FdsScore(RequestOf(call[k].body), Clamp(ml)) \in 0..100
      BY <3>1 DEF FdsScore, Clamp
    <3> QED BY <3>1, <3>2
  <2> HIDE DEF code
  <2> DEFINE x == [call[k] EXCEPT !.status = code, !.wait = "none"]
  <2>2. call' = [call EXCEPT ![k] = x] /\ call'[k] = x
    BY <2>5 DEF CallsTypeOK
  <2>3. /\ x \in CallRecord
        /\ x.client = call[k].client /\ x.body = call[k].body
        /\ x.since = call[k].since /\ x.nth = call[k].nth
        /\ x.wait = "none" /\ x.status = code
    BY <1>1, <2>0 DEF CallRecord
  <2>4. call[k].wait # "none" /\ UNCHANGED <<limiter, wk, store, events>>
    BY <1>3 DEF Infer
  <2> HIDE DEF x
  <2> QED BY <2>0, <2>2, <2>3, <2>4, <2>6 DEF Resumed
<1>4. CASE InferFault(k)
  BY <1>1, <1>4 DEF Resumed, InferFault, CallsTypeOK, CallRecord, Status, Outcome
<1> QED BY <1>2, <1>3, <1>4

\* A new call is turned away before the limiter, admitted by it, or refused.
TurnedAway(x) ==
    /\ \/ x.status = 401
       \/ x.status = 422 /\ x.body.form = "broken"
    /\ x.wait = "none"
    /\ UNCHANGED limiter

LetIn(x) ==
    /\ \/ x.status = 422 /\ x.wait = "none"
       \/ x.status = 0 /\ x.wait \in {"fetch", "infer"} /\ x.body.form # "invalid"
    /\ x.body.form # "broken"
    /\ x.wait = "fetch" => ResolveEntityKey(x.body.session, x.body.user) # None
    /\ RateLimitEnabled => Limiter!Admit(x.client)
    /\ ~RateLimitEnabled => UNCHANGED limiter

RateLimited(x) ==
    /\ x.status = 429 /\ x.wait = "none"
    /\ RateLimitEnabled /\ Limiter!Refuse(x.client)

Received(k, x) ==
    /\ call[k] = NoCall
    /\ call' = [call EXCEPT ![k] = x]
    /\ x \in CallRecord
    /\ x.client \in Client /\ x.body \in Body
    /\ x.since = time
    /\ x.nth = 1 + Cardinality({j \in Slot : call[j] # NoCall})
    /\ TurnedAway(x) \/ LetIn(x) \/ RateLimited(x)
    /\ UNCHANGED <<wk, store, events, fault>>

LEMMA ReceiveEffect ==
    ASSUME CallsTypeOK, NEW k \in Slot, Receive(k), time \in Nat,
           IsFiniteSet({j \in Slot : call[j] # NoCall})
    PROVE  Received(k, call'[k])
<1> DEFINE used == Cardinality({j \in Slot : call[j] # NoCall})
<1>0. used \in Nat
  BY FS_CardinalityType
<1> HIDE DEF used
<1>1. PICK c \in Client, body \in Body, keyed \in BOOLEAN :
        IF body.form = "broken" THEN Refused(k, Arriving(c, body, keyed), 422)
        ELSE Guarded(k, Arriving(c, body, keyed))
  BY Zenon DEF Receive
<1> DEFINE new == Arriving(c, body, keyed)
           answered(status) == [new EXCEPT !.status = status]
           waiting(wait) == [new EXCEPT !.wait = wait]
<1>2. new = [client |-> c, body |-> body, keyed |-> keyed, since |-> time, nth |-> 1 + used,
             wait |-> "none", ctx |-> NoContext, status |-> 0, tritonFailed |-> FALSE]
  <2>1. new = [NoCall EXCEPT !.client = c, !.body = body, !.keyed = keyed, !.since = time,
                             !.nth = 1 + used]
    BY Zenon DEF Arriving, used
  <2> HIDE DEF new
  <2> QED BY <2>1 DEF NoCall
<1> HIDE DEF new
<1>3. NoContext \in ContextFeatures /\ 1 + used \in Nat /\ 0 \in Status
  BY <1>0 DEF NoContext, ContextFeatures, Status
<1>4. ASSUME NEW status \in Status
      PROVE  /\ answered(status) \in CallRecord
             /\ answered(status).client = c /\ answered(status).body = body
             /\ answered(status).since = time /\ answered(status).nth = 1 + used
             /\ answered(status).wait = "none" /\ answered(status).status = status
  BY <1>2, <1>3 DEF CallRecord
<1>5. ASSUME NEW wait \in {"fetch", "infer"}
      PROVE  /\ waiting(wait) \in CallRecord
             /\ waiting(wait).client = c /\ waiting(wait).body = body
             /\ waiting(wait).since = time /\ waiting(wait).nth = 1 + used
             /\ waiting(wait).wait = wait /\ waiting(wait).status = 0
  BY <1>2, <1>3 DEF CallRecord
<1>6. /\ call[k] = NoCall /\ UNCHANGED <<wk, store, events, fault>>
      /\ call \in [Slot -> CallRecord]
  BY DEF Receive, CallsTypeOK
<1> DEFINE Ours(x) == /\ x \in CallRecord /\ x.client = c /\ x.body = body
                      /\ x.since = time /\ x.nth = 1 + used
<1>7. ASSUME NEW x, call' = [call EXCEPT ![k] = x], Ours(x),
             TurnedAway(x) \/ LetIn(x) \/ RateLimited(x)
      PROVE  Received(k, call'[k])
  BY <1>6, <1>7 DEF Received, used
<1>8. CASE body.form = "broken"
  <2>1. Refused(k, Arriving(c, body, keyed), 422)
    BY <1>1, <1>8, Zenon
  <2>2. call' = [call EXCEPT ![k] = answered(422)] /\ UNCHANGED limiter
    BY <2>1, Zenon DEF Refused, new
  <2>3. 422 \in Status
    BY DEF Status
  <2> DEFINE x == answered(422)
  <2>4. Ours(x) /\ x.wait = "none" /\ x.status = 422 /\ call' = [call EXCEPT ![k] = x]
    BY <1>4, <2>2, <2>3
  <2> HIDE DEF x, Ours
  <2> QED BY <1>7, <1>8, <2>2, <2>4 DEF TurnedAway, Ours
<1>9. CASE body.form # "broken" /\ ~KeyAccepted(keyed)
  <2>1. Guarded(k, Arriving(c, body, keyed))
    BY <1>1, <1>9, Zenon
  <2>2. call' = [call EXCEPT ![k] = answered(401)] /\ UNCHANGED limiter
    <3>1. new.keyed = keyed
      BY <1>2
    <3>2. Refused(k, new, 401)
      BY <1>9, <2>1, <3>1, Zenon DEF Guarded, new
    <3> QED BY <3>2, Zenon DEF Refused
  <2>3. 401 \in Status
    BY DEF Status
  <2> DEFINE x == answered(401)
  <2>4. Ours(x) /\ x.wait = "none" /\ x.status = 401 /\ call' = [call EXCEPT ![k] = x]
    BY <1>4, <2>2, <2>3
  <2> HIDE DEF x, Ours
  <2> QED BY <1>7, <2>2, <2>4 DEF TurnedAway
<1>10. CASE body.form # "broken" /\ KeyAccepted(keyed)
  <2>1. Limited(k, new)
    <3>1. new.keyed = keyed
      BY <1>2
    <3>2. Guarded(k, new)
      BY <1>1, <1>10, Zenon DEF new
    <3> QED BY <1>10, <3>1, <3>2, Zenon DEF Guarded
  <2>2. new.client = c /\ new.body = body
    BY <1>2
  <2>3. CASE RateLimitEnabled /\ Limiter!Refuse(c) /\ call' = [call EXCEPT ![k] = answered(429)]
    <3> DEFINE x == answered(429)
    <3>1. 429 \in Status
      BY DEF Status
    <3>2. Ours(x) /\ x.wait = "none" /\ x.status = 429 /\ call' = [call EXCEPT ![k] = x]
      BY <1>4, <2>3, <3>1
    <3> HIDE DEF x
    <3> QED BY <1>7, <2>3, <3>2 DEF RateLimited
  <2>4. ASSUME call' = [call EXCEPT ![k] = Enter(new)],
               RateLimitEnabled => Limiter!Admit(c), ~RateLimitEnabled => UNCHANGED limiter
        PROVE  Received(k, call'[k])
    <3>1. call'[k] = Enter(new)
      BY <1>6, <2>4
    <3>2. CASE body.form = "invalid"
      <4> DEFINE x == answered(422)
      <4>1. Enter(new) = x
        BY <2>2, <3>2, Zenon DEF Enter
      <4>2. 422 \in Status
        BY DEF Status
      <4>3. Ours(x) /\ x.wait = "none" /\ x.status = 422 /\ call' = [call EXCEPT ![k] = x]
        BY <1>4, <2>4, <4>1, <4>2
      <4> HIDE DEF x
      <4> QED BY <1>7, <1>10, <2>4, <4>3 DEF LetIn
    <3>3. CASE body.form # "invalid"
      <4>1. PICK wait \in {"fetch", "infer"} :
              /\ Enter(new) = waiting(wait)
              /\ wait = "fetch" => ResolveEntityKey(body.session, body.user) # None
        <5>1. CASE ResolveEntityKey(body.session, body.user) = None
          BY <2>2, <3>3, <5>1, Zenon DEF Enter
        <5>2. CASE ResolveEntityKey(body.session, body.user) # None
          BY <2>2, <3>3, <5>2, Zenon DEF Enter
        <5> QED BY <5>1, <5>2
      <4> HIDE DEF waiting
      <4> QED BY <1>5, <1>7, <1>10, <2>4, <3>1, <3>3, <4>1 DEF LetIn
    <3> QED BY <3>2, <3>3
  <2> QED BY <2>1, <2>2, <2>3, <2>4, Zenon DEF Limited
<1> QED BY <1>8, <1>9, <1>10

-------------------------------------------------------------------------------
(* Types, and what a waiting call or worker has in hand *)

\* The writes keep a hash a hash.
LEMMA TtlType ==
    ASSUME NEW h \in Hash, NEW ttl \in Ttl
    PROVE  WithTtl(h, ttl) \in Hash
BY DEF WithTtl, Hash

LEMMA SyncedType ==
    ASSUME NEW h \in Hash, NEW ev \in Event
    PROVE  Synced(h, h, ev) \in Hash /\ Synced(h, h, ev).live
<1>1. ev \in FdsEvent
  BY CallsAssumption DEF CallsAssumption
<1>2. /\ SyncedKw(h, ev) \in Int /\ SyncedApp(h, ev) \in Int /\ SyncedSum(h, ev) \in Sum
  BY <1>1 DEF FdsEvent, Hash, SyncedKw, SyncedApp, SyncedSum, Sum
<1> QED BY <1>2 DEF Synced, Hash

LEMMA FinalizedType ==
    ASSUME NEW h \in Hash
    PROVE  Finalized(h) \in Hash
BY DEF Finalized, Hash

LEMMA UpsertedType ==
    ASSUME NEW h \in Hash, NEW body \in PutBody
    PROVE  Upserted(h, body) \in Hash
<1>1. ASSUME NEW kw \in Int, NEW app \in Int, NEW sum \in Sum
      PROVE  [h EXCEPT !.live = TRUE, !.kw = kw, !.app = app, !.sum = sum] \in Hash
  BY DEF Hash
<1>2. /\ (IF body.kw = None THEN h.kw ELSE body.kw) \in Int
      /\ (IF body.app = None THEN h.app ELSE body.app) \in Int
      /\ (IF body.sum THEN "number" ELSE h.sum) \in Sum
  BY DEF PutBody, Hash, Sum
<1> QED BY <1>1, <1>2 DEF Upserted

\* What the other steps do to the store and to the worker's record.
StoreWrite(e, h) == store' = [store EXCEPT ![e] = h] /\ h \in Hash

LEMMA WorkerSyncEffect ==
    ASSUME CallsTypeOK, NEW ev \in Event, WorkerSync(ev) \/ WorkerEnd(ev)
    PROVE  /\ StoreWrite(EntityKey(ev), store'[EntityKey(ev)])
           /\ \/ wk' = NoRecord
              \/ /\ wk' = [NoRecord EXCEPT !.wait = "context", !.ev = ev]
                 /\ store'[EntityKey(ev)].live
           /\ wk.wait = "none" /\ ev.form = "valid" /\ EntityKey(ev) # None
           /\ events' \in Nat
           /\ UNCHANGED <<limiter, call, fault>>
<1> DEFINE e == EntityKey(ev)
<1>0. /\ wk.wait = "none" /\ ev.form = "valid" /\ EntityKey(ev) # None
      /\ events' \in Nat /\ UNCHANGED <<limiter, call, fault>>
  BY DEF WorkerSync, WorkerEnd, CallsTypeOK
<1>1. e \in Entity /\ store[e] \in Hash
  BY <1>0, CallsAssumption DEF CallsAssumption, CallsTypeOK, EntityKey, Entity, FdsEvent
<1>2. ASSUME NEW h \in Hash, store' = [store EXCEPT ![e] = h]
      PROVE  StoreWrite(e, store'[e]) /\ store'[e] = h
  BY <1>1, <1>2 DEF StoreWrite, CallsTypeOK
<1>3. CASE WorkerSync(ev)
  <2> DEFINE g == Synced(store[e], store[e], ev)
             h == WithTtl(g, "full")
  <2>1. store' = [store EXCEPT ![e] = h]
    BY <1>3 DEF WorkerSync
  <2>2. h \in Hash /\ h.live
    <3>1. g \in Hash /\ g.live /\ "full" \in Ttl
      BY <1>1, SyncedType DEF Ttl
    <3> HIDE DEF g
    <3>2. h \in Hash
      BY <3>1, TtlType
    <3>3. h.live = g.live
      BY <3>1 DEF WithTtl, Hash
    <3> QED BY <3>1, <3>2, <3>3
  <2> HIDE DEF h, e
  <2>3. StoreWrite(e, store'[e]) /\ store'[e].live
    BY <1>2, <2>1, <2>2
  <2>4. wk' = NoRecord \/ wk' = [NoRecord EXCEPT !.wait = "context", !.ev = ev]
    BY <1>3, Zenon DEF WorkerSync
  <2> QED BY <1>0, <2>3, <2>4 DEF e
<1>4. CASE WorkerEnd(ev)
  <2> DEFINE g == Finalized(store[e])
             h == WithTtl(g, "end")
  <2>1. store' = [store EXCEPT ![e] = h] /\ wk' = NoRecord
    BY <1>4 DEF WorkerEnd
  <2>2. h \in Hash
    <3>1. g \in Hash /\ "end" \in Ttl
      BY <1>1, FinalizedType DEF Ttl
    <3> HIDE DEF g
    <3> QED BY <3>1, TtlType
  <2> HIDE DEF h, e
  <2> QED BY <1>0, <1>2, <2>1, <2>2 DEF e
<1> QED BY <1>3, <1>4

LEMMA OthersEffect ==
    ASSUME CallsTypeOK, NEW e \in Entity, Put(e) \/ Expire(e)
    PROVE  /\ StoreWrite(e, store'[e]) \/ UNCHANGED store
           /\ UNCHANGED wk \/ wk' = [wk EXCEPT !.untouched = FALSE]
           /\ wk.wait # "none" /\ e = Key => UNCHANGED store \/ ~wk'.untouched
           /\ fault' \in [FaultKind -> Nat]
           /\ UNCHANGED <<limiter, call, events>>
<1>0. UNCHANGED <<limiter, call, events>> /\ fault' \in [FaultKind -> Nat]
  BY DEF Put, Expire, Spend, CallsTypeOK
<1>1. ASSUME NEW h \in Hash, store' = [store EXCEPT ![e] = h]
      PROVE  StoreWrite(e, store'[e])
  BY <1>1 DEF StoreWrite, CallsTypeOK
<1>2. ASSUME Touch(e)
      PROVE  /\ UNCHANGED wk \/ wk' = [wk EXCEPT !.untouched = FALSE]
             /\ wk.wait # "none" /\ e = Key => ~wk'.untouched
  BY <1>2 DEF Touch, CallsTypeOK, WorkerRecord
<1>3. CASE Put(e)
  <2>1. PICK body \in PutBodies :
          \/ store' = [store EXCEPT ![e] = WithTtl(Upserted(@, body), "full")] /\ Touch(e)
          \/ UNCHANGED <<store, wk>>
    BY <1>3, Zenon DEF Put
  <2> DEFINE g == Upserted(store[e], body)
             h == WithTtl(g, "full")
  <2>2. h \in Hash
    <3>1. g \in Hash /\ "full" \in Ttl
      BY CallsAssumption, UpsertedType DEF CallsAssumption, CallsTypeOK, Ttl
    <3> HIDE DEF g
    <3> QED BY <3>1, TtlType
  <2>3. CASE store' = [store EXCEPT ![e] = h] /\ Touch(e)
    <3> HIDE DEF h
    <3> QED BY <1>0, <1>1, <1>2, <2>2, <2>3
  <2>4. CASE UNCHANGED <<store, wk>>
    BY <1>0, <2>4
  <2> QED BY <2>1, <2>3, <2>4
<1>4. CASE Expire(e)
  <2>1. store' = [store EXCEPT ![e] = Missing] /\ Touch(e)
    BY <1>4 DEF Expire
  <2>2. Missing \in Hash
    BY DEF Missing, Hash, Sum, Ttl
  <2> QED BY <1>0, <1>1, <1>2, <2>1, <2>2
<1> QED BY <1>3, <1>4

\* get_context_features, score and what fails in them, of the worker's record.
WorkerSteps ==
    \/ wk' = NoRecord
    \/ /\ wk.wait = "context"
       /\ ~Unreadable(store[Key]) /\ ~RequestRaises(wk.ev, store[Key])
       /\ wk' = [wk EXCEPT !.wait = "fetch", !.req = ToScoringRequest(wk.ev, store[Key])]
    \/ /\ wk.wait = "fetch"
       /\ \E ctx \in ContextFeatures :
             \/ /\ ctx \in Fetched(wk.ev.session, Key, store[Key])
                /\ wk' = [wk EXCEPT !.wait = "infer", !.ctx = ctx]
             \/ wk' = [wk EXCEPT !.wait = "infer", !.ctx = ctx, !.untouched = FALSE]
    \/ /\ wk.wait = "infer"
       /\ \E ml \in MLScore :
             wk' = [wk EXCEPT !.wait = "none", !.flag = FdsFlag(wk.req, Clamp(ml)),
                              !.rules = MatchedRules(wk.req, wk.ctx)]

\* The two functions that resolve an entity's key agree on the worker's events.
LEMMA KeysAgree == ResolveEntityKey(wk.ev.session, wk.ev.user) = Key
BY DEF ResolveEntityKey, Key, EntityKey

LEMMA KeyType ==
    ASSUME CallsTypeOK, WaitOK, wk.wait # "none"
    PROVE  /\ wk.ev \in FdsEvent /\ Key \in Entity /\ store[Key] \in Hash
           /\ wk.ev.session \in Session \union {None}
BY CallsAssumption
DEF CallsAssumption, CallsTypeOK, WaitOK, CallWaits, Key, EntityKey, Entity, FdsEvent

LEMMA WorkerEffect ==
    ASSUME CallsTypeOK, WaitOK, WorkerContext \/ WorkerFetch \/ WorkerInfer \/ WorkerFault
    PROVE  /\ WorkerSteps
           /\ wk.wait # "none"
           /\ fault' \in [FaultKind -> Nat]
           /\ UNCHANGED <<limiter, call, store, events>>
<1>1. CASE WorkerContext
  <2>1. WorkerSteps
    BY <1>1, Zenon DEF WorkerContext, WorkerSteps
  <2> QED BY <1>1, <2>1 DEF WorkerContext, CallsTypeOK
<1>2. CASE WorkerFetch
  <2>1. PICK ctx \in Fetched(wk.ev.session, Key, store[Key]) :
          wk' = [wk EXCEPT !.wait = "infer", !.ctx = ctx]
    BY <1>2, KeysAgree, Zenon DEF WorkerFetch
  <2>2. wk.wait = "fetch" /\ ctx \in ContextFeatures
    BY <1>2, KeyType, FetchedType DEF WorkerFetch
  <2>3. WorkerSteps
    BY <2>1, <2>2, Zenon DEF WorkerSteps
  <2> QED BY <1>2, <2>3 DEF WorkerFetch, CallsTypeOK
<1>3. CASE WorkerInfer
  <2>1. WorkerSteps
    BY <1>3, Zenon DEF WorkerInfer, WorkerSteps
  <2> QED BY <1>3, <2>1 DEF WorkerInfer, CallsTypeOK
<1>4. CASE WorkerFault
  <2>1. CASE wk' = NoRecord
    BY <1>4, <2>1 DEF WorkerFault, WorkerSteps, Spend, CallsTypeOK
  <2>2. CASE wk' # NoRecord
    <3> DEFINE ctx == MockFeatures(wk.ev.session, Key)
    <3>1. /\ wk.wait = "fetch" /\ Spend("redis")
          /\ wk' = [wk EXCEPT !.wait = "infer", !.ctx = ctx, !.untouched = FALSE]
          /\ UNCHANGED <<limiter, call, store, events>>
      BY <1>4, <2>2, KeysAgree, Zenon DEF WorkerFault
    <3>2. ctx \in ContextFeatures
      BY <3>1, KeyType, FetchedType
    <3>3. WorkerSteps
      BY <3>1, <3>2, Zenon DEF WorkerSteps
    <3>4. wk.wait # "none" /\ fault' \in [FaultKind -> Nat]
      <4>1. fault' = [fault EXCEPT !["redis"] = fault["redis"] + 1]
        BY <3>1, Zenon DEF Spend
      <4> QED BY <3>1, <4>1 DEF CallsTypeOK, FaultKind
    <3> QED BY <3>1, <3>3, <3>4, Zenon
  <2> QED BY <2>1, <2>2
<1> QED BY <1>1, <1>2, <1>3, <1>4

LEMMA RequestType ==
    ASSUME NEW ev \in FdsEvent, NEW h \in Hash, ~RequestRaises(ev, h)
    PROVE  ToScoringRequest(ev, h) \in ScoringRequest
<1>1. KeywordFlag(ev, h) \in Int
  <2>1. (IF h.live THEN h.kw ELSE ev.hits) \in Int
    BY DEF FdsEvent, Hash
  <2> QED BY <2>1 DEF KeywordFlag
<1>2. /\ (IF h.app = 1 THEN 92 ELSE ev.weight) \in Int
      /\ ev.count \in Int /\ ev.txn \in {"DOMESTIC", "OVERSEAS"}
  BY DEF FdsEvent, Hash, RequestRaises
<1> QED BY <1>1, <1>2 DEF ToScoringRequest, ScoringRequest

LEMMA VerdictType ==
    ASSUME NEW req, NEW ctx, NEW ml
    PROVE  FdsFlag(req, ml) \in Flag /\ MatchedRules(req, ctx) \subseteq Rule
BY DEF FdsFlag, ScoreToFlag, Flag, MatchedRules

\* Every step that is not one of a call leaves the calls alone, and the other
\* way round.
CallStep == \E k \in Slot : Received(k, call'[k]) \/ Resumed(k, call'[k])

LEMMA NextCases ==
    ASSUME CallsTypeOK, WaitOK, time \in Nat, IsFiniteSet(Used), [Next]_vars
    PROVE  \/ /\ CallStep /\ UNCHANGED <<wk, store, events>>
              /\ fault' \in [FaultKind -> Nat]
           \/ /\ UNCHANGED <<call, limiter>>
              /\ \/ \E ev \in Event : WorkerSync(ev) \/ WorkerEnd(ev)
                 \/ WorkerContext \/ WorkerFetch \/ WorkerInfer \/ WorkerFault
                 \/ \E e \in Entity : Put(e) \/ Expire(e)
                 \/ UNCHANGED <<wk, store, events, fault>>
           \/ Tick
<1>1. CASE \E k \in Slot : Receive(k)
  <2>1. PICK k \in Slot : Receive(k)
    BY <1>1
  <2>2. Received(k, call'[k])
    BY <2>1, ReceiveEffect DEF Used
  <2> QED BY <2>2 DEF CallStep, Received, CallsTypeOK
<1>2. CASE \E k \in Slot : Fetch(k) \/ FetchFault(k) \/ Infer(k) \/ InferFault(k)
  <2>1. PICK k \in Slot : Fetch(k) \/ FetchFault(k) \/ Infer(k) \/ InferFault(k)
    BY <1>2
  <2>2. Resumed(k, call'[k])
    BY <2>1, ResumeEffect
  <2>3. fault' \in [FaultKind -> Nat]
    <3>1. ASSUME NEW kind \in FaultKind, Spend(kind) PROVE fault' \in [FaultKind -> Nat]
      BY <3>1 DEF Spend, CallsTypeOK
    <3>2. {"redis", "triton"} \subseteq FaultKind
      BY DEF FaultKind
    <3> QED BY <2>1, <3>1, <3>2 DEF Fetch, FetchFault, Infer, InferFault, CallsTypeOK
  <2> QED BY <2>2, <2>3 DEF CallStep, Resumed
<1>3. CASE \E ev \in Event : WorkerSync(ev) \/ WorkerEnd(ev)
  BY <1>3 DEF WorkerSync, WorkerEnd
<1>4. CASE WorkerContext \/ WorkerFetch \/ WorkerInfer \/ WorkerFault
  BY <1>4, WorkerEffect
<1>5. CASE \E e \in Entity : Put(e) \/ Expire(e)
  BY <1>5, OthersEffect
<1>6. CASE Tick
  BY <1>6
<1>7. CASE UNCHANGED vars
  BY <1>7 DEF vars
<1> QED BY <1>1, <1>2, <1>3, <1>4, <1>5, <1>6, <1>7, Zenon DEF Next

\* A new call is the last one in the order of arrival, and joins the admitted
\* ones if it was let in.
LEMMA ReceivedSets ==
    ASSUME CallsTypeOK, UsedOK, NEW k \in Slot, NEW x, Received(k, x)
    PROVE  /\ call'[k] = x /\ \A j \in Slot \ {k} : call'[j] = call[j]
           /\ x # NoCall /\ k \notin Used /\ k \notin Admitted
           /\ Used' = Used \union {k} /\ IsFiniteSet(Used')
           /\ Cardinality(Used) \in Nat
           /\ x.nth = Cardinality(Used) + 1 /\ Cardinality(Used') = x.nth
           /\ LetIn(x) => Admitted' = Admitted \union {k}
           /\ ~LetIn(x) => Admitted' = Admitted
<1>1. /\ call[k] = NoCall /\ x \in CallRecord
      /\ call' = [call EXCEPT ![k] = x]
      /\ x.nth = 1 + Cardinality(Used)
  BY Zenon DEF Received, Used
<1>2. Cardinality(Used) \in Nat
  BY FS_CardinalityType DEF UsedOK
<1>3. call'[k] = x /\ \A j \in Slot \ {k} : call'[j] = call[j]
  BY <1>1 DEF CallsTypeOK
<1>4. x # NoCall
  <2>1. NoCall.nth = 0
    BY DEF NoCall
  <2> QED BY <1>1, <1>2, <2>1
<1>5. k \notin Used /\ Used' = Used \union {k}
  BY <1>1, <1>3, <1>4 DEF Used
<1>6. IsFiniteSet(Used') /\ Cardinality(Used') = Cardinality(Used) + 1
  BY <1>5, FS_AddElement DEF UsedOK
<1>7. k \notin Admitted
  BY <1>1 DEF Admitted
<1>8. Admitted' \ {k} = Admitted /\ Admitted \subseteq Slot
  BY <1>3, <1>7 DEF Admitted
<1>9. k \in Admitted' <=> x.status \notin {401, 429} /\ x.body.form # "broken"
  BY <1>3, <1>4 DEF Admitted
<1>10. x.status \notin {401, 429} /\ x.body.form # "broken" <=> LetIn(x)
  <2>1. LetIn(x) => x.status \in {0, 422} /\ x.body.form # "broken"
    BY DEF LetIn
  <2>2. TurnedAway(x) => x.status = 401 \/ x.body.form = "broken"
    BY DEF TurnedAway
  <2>3. RateLimited(x) => x.status = 429
    BY DEF RateLimited
  <2>4. TurnedAway(x) \/ LetIn(x) \/ RateLimited(x)
    BY Zenon DEF Received
  <2> HIDE DEF LetIn, TurnedAway, RateLimited
  <2> QED BY <2>1, <2>2, <2>3, <2>4
<1>11. /\ LetIn(x) => Admitted' = Admitted \union {k}
       /\ ~LetIn(x) => Admitted' = Admitted
  <2> HIDE DEF LetIn
  <2> QED BY <1>7, <1>8, <1>9, <1>10
<1>12. x.nth = Cardinality(Used) + 1 /\ Cardinality(Used') = x.nth
  BY <1>1, <1>2, <1>6
<1> QED BY <1>2, <1>3, <1>4, <1>5, <1>6, <1>7, <1>11, <1>12, Zenon

\* Resuming a call changes neither who has come nor who was admitted.
LEMMA ResumedSets ==
    ASSUME CallsTypeOK, UsedOK, WaitOK, NEW k \in Slot, NEW x, Resumed(k, x)
    PROVE  /\ call'[k] = x /\ \A j \in Slot \ {k} : call'[j] = call[j]
           /\ k \in Admitted
           /\ x.status \in {0, 200, 500}
           /\ x # NoCall /\ call[k] # NoCall
           /\ Used' = Used /\ Admitted' = Admitted
           /\ \A j \in Slot : /\ call'[j].client = call[j].client
                              /\ call'[j].nth = call[j].nth
                              /\ call'[j].since = call[j].since
                              /\ call'[j].body = call[j].body
<1>1. /\ call' = [call EXCEPT ![k] = x] /\ call[k].wait # "none"
      /\ x.client = call[k].client /\ x.body = call[k].body
      /\ x.since = call[k].since /\ x.nth = call[k].nth
      /\ x.status \in {0, 200, 500}
  BY DEF Resumed, Outcome
<1>2. call'[k] = x /\ \A j \in Slot \ {k} : call'[j] = call[j]
  BY <1>1 DEF CallsTypeOK
<1>3. k \in Admitted /\ call[k] # NoCall
  BY <1>1 DEF WaitOK, CallWaits, Admitted
<1>4. x # NoCall
  <2>1. k \in Used /\ call[k].nth \in 1..Cardinality(Used) /\ Cardinality(Used) \in Nat
    BY <1>3, FS_CardinalityType DEF Used, UsedOK
  <2>2. NoCall.nth = 0
    BY DEF NoCall
  <2> QED BY <1>1, <2>1, <2>2
<1>5. Used' = Used
  BY <1>2, <1>3, <1>4 DEF Used
<1>6. k \in Admitted'
  BY <1>1, <1>2, <1>3, <1>4 DEF Admitted
<1>7. Admitted' = Admitted
  <2>1. Admitted' \ {k} = Admitted \ {k}
    BY <1>2 DEF Admitted
  <2> QED BY <1>3, <1>6, <2>1
<1>8. \A j \in Slot : /\ call'[j].client = call[j].client
                     /\ call'[j].nth = call[j].nth
                     /\ call'[j].since = call[j].since
                     /\ call'[j].body = call[j].body
  BY <1>1, <1>2
<1> QED BY <1>1, <1>2, <1>3, <1>4, <1>5, <1>7, <1>8, Zenon

LEMMA NoRecordType == NoRecord \in WorkerRecord /\ NoRecord.wait = "none" /\ NoRecord.flag = "none"
<1>1. NoContext \in ContextFeatures
  BY DEF NoContext, ContextFeatures
<1> QED BY <1>1 DEF NoRecord, WorkerRecord

\* What the worker has in hand stays typed, and whole while it waits.
WkOK ==
    /\ wk \in WorkerRecord
    /\ wk.wait # "none" => wk.ev \in Event /\ wk.ev.form = "valid" /\ EntityKey(wk.ev) # None
    /\ wk.wait \in {"fetch", "infer"} => wk.req \in ScoringRequest

LEMMA WkStep ==
    ASSUME CallsTypeOK, WaitOK,
           \/ \E ev \in Event : WorkerSync(ev) \/ WorkerEnd(ev)
           \/ WorkerContext \/ WorkerFetch \/ WorkerInfer \/ WorkerFault
           \/ \E e \in Entity : Put(e) \/ Expire(e)
           \/ UNCHANGED wk
    PROVE  WkOK'
<1>0. WkOK /\ wk \in WorkerRecord
  BY DEF WkOK, CallsTypeOK, WaitOK, CallWaits
<1>1. CASE wk' = NoRecord
  BY <1>1, NoRecordType DEF WkOK
<1>2. CASE UNCHANGED wk
  BY <1>0, <1>2 DEF WkOK
<1>3. CASE wk' = [wk EXCEPT !.untouched = FALSE]
  BY <1>0, <1>3 DEF WkOK, WorkerRecord
<1>4. ASSUME NEW ev \in Event, ev.form = "valid", EntityKey(ev) # None,
             wk' = [NoRecord EXCEPT !.wait = "context", !.ev = ev]
      PROVE  WkOK'
  <2>1. NoContext \in ContextFeatures
    BY DEF NoContext, ContextFeatures
  <2> QED BY <1>4, <2>1 DEF WkOK, NoRecord, WorkerRecord
<1>5. CASE \E ev \in Event : WorkerSync(ev) \/ WorkerEnd(ev)
  BY <1>1, <1>4, <1>5, WorkerSyncEffect
<1>6. CASE \E e \in Entity : Put(e) \/ Expire(e)
  BY <1>2, <1>3, <1>6, OthersEffect
<1>7. CASE WorkerSteps /\ wk.wait # "none"
  <2>1. CASE wk.wait = "context" /\ wk' # NoRecord
    <3>1. /\ wk' = [wk EXCEPT !.wait = "fetch", !.req = ToScoringRequest(wk.ev, store[Key])]
          /\ ~RequestRaises(wk.ev, store[Key])
      BY <1>7, <2>1, Zenon DEF WorkerSteps
    <3>2. ToScoringRequest(wk.ev, store[Key]) \in ScoringRequest
      BY <2>1, <3>1, KeyType, RequestType
    <3> QED BY <1>0, <2>1, <3>1, <3>2 DEF WkOK, WorkerRecord
  <2>2. CASE wk.wait = "fetch" /\ wk' # NoRecord
    <3>1. PICK ctx \in ContextFeatures :
            \/ wk' = [wk EXCEPT !.wait = "infer", !.ctx = ctx]
            \/ wk' = [wk EXCEPT !.wait = "infer", !.ctx = ctx, !.untouched = FALSE]
      BY <1>7, <2>2, Zenon DEF WorkerSteps
    <3> QED BY <1>0, <2>2, <3>1 DEF WkOK, WorkerRecord
  <2>3. CASE wk.wait = "infer" /\ wk' # NoRecord
    <3>1. PICK ml \in MLScore :
            wk' = [wk EXCEPT !.wait = "none", !.flag = FdsFlag(wk.req, Clamp(ml)),
                             !.rules = MatchedRules(wk.req, wk.ctx)]
      BY <1>7, <2>3, Zenon DEF WorkerSteps
    <3>2. /\ FdsFlag(wk.req, Clamp(ml)) \in Flag
          /\ MatchedRules(wk.req, wk.ctx) \in SUBSET Rule
      BY VerdictType
    <3> QED BY <1>0, <2>3, <3>1, <3>2 DEF WkOK, WorkerRecord
  <2> QED BY <1>1, <1>7, <2>1, <2>2, <2>3, Zenon DEF WorkerSteps
<1> QED BY <1>2, <1>5, <1>6, <1>7, WorkerEffect

\* The types of the calls, the store and the budgets.
LEMMA TypeStep ==
    ASSUME CallsTypeOK, WaitOK, time \in Nat, IsFiniteSet(Used), [Next]_vars
    PROVE  CallsTypeOK'
<1>1. CASE CallStep /\ UNCHANGED <<wk, store, events>> /\ fault' \in [FaultKind -> Nat]
  <2>1. PICK k \in Slot, x \in CallRecord : call' = [call EXCEPT ![k] = x]
    BY <1>1 DEF CallStep, Received, Resumed
  <2> QED BY <1>1, <2>1 DEF CallsTypeOK
<1>2. ASSUME NEW e, StoreWrite(e, store'[e]) \/ UNCHANGED store
      PROVE  store' \in [Entity -> Hash]
  BY <1>2 DEF StoreWrite, CallsTypeOK
<1>3. CASE UNCHANGED call /\ \E ev \in Event : WorkerSync(ev) \/ WorkerEnd(ev)
  <2>1. wk' \in WorkerRecord
    BY <1>3, WkStep DEF WkOK
  <2>2. store' \in [Entity -> Hash] /\ events' \in Nat /\ UNCHANGED fault
    BY <1>2, <1>3, WorkerSyncEffect
  <2> QED BY <1>3, <2>1, <2>2 DEF CallsTypeOK
<1>4. CASE WorkerContext \/ WorkerFetch \/ WorkerInfer \/ WorkerFault
  <2>1. wk' \in WorkerRecord
    BY <1>4, WkStep DEF WkOK
  <2> QED BY <1>4, <2>1, WorkerEffect DEF CallsTypeOK
<1>5. CASE \E e \in Entity : Put(e) \/ Expire(e)
  <2>1. wk' \in WorkerRecord
    BY <1>5, WkStep DEF WkOK
  <2>2. /\ store' \in [Entity -> Hash] /\ fault' \in [FaultKind -> Nat]
        /\ UNCHANGED <<call, events>>
    BY <1>2, <1>5, OthersEffect
  <2> QED BY <2>1, <2>2 DEF CallsTypeOK
<1>6. CASE UNCHANGED <<call, wk, store, events, fault>>
  BY <1>6 DEF CallsTypeOK
<1>7. CASE Tick
  BY <1>6, <1>7 DEF Tick
<1> QED BY <1>1, <1>3, <1>4, <1>5, <1>6, <1>7, NextCases

LEMMA WaitStep ==
    ASSUME CallsTypeOK, WaitOK, UsedOK, time \in Nat, [Next]_vars
    PROVE  WaitOK'
<1>1. ASSUME UNCHANGED call, NEW k \in Slot PROVE CallWaits(k)'
  BY <1>1 DEF WaitOK, CallWaits, Admitted, CallKey
<1>2. ASSUME CallStep, NEW j \in Slot PROVE CallWaits(j)'
  <2>1. PICK k \in Slot : Received(k, call'[k]) \/ Resumed(k, call'[k])
    BY <1>2 DEF CallStep
  <2> DEFINE x == call'[k]
  <2>2. CASE Received(k, x)
    <3>1. /\ \A i \in Slot \ {k} : call'[i] = call[i]
          /\ Admitted \subseteq Admitted'
          /\ LetIn(x) => k \in Admitted'
      BY <2>2, ReceivedSets DEF UsedOK
    <3>2. CASE j # k
      BY <3>1, <3>2 DEF WaitOK, CallWaits, CallKey
    <3>3. CASE j = k
      <4>1. x.body \in Body /\ (TurnedAway(x) \/ LetIn(x) \/ RateLimited(x))
        BY <2>2, Zenon DEF Received
      <4>2. CASE x.wait = "none"
        BY <3>3, <4>2 DEF CallWaits
      <4>3. CASE LetIn(x) /\ x.wait # "none"
        <5>1. /\ x.status = 0 /\ x.body.form \notin {"invalid", "broken"}
              /\ x.wait = "fetch" => ResolveEntityKey(x.body.session, x.body.user) # None
          BY <4>3 DEF LetIn
        <5>2. x.body.form \in {"garbage", "plain"}
          BY <4>1, <5>1, CallsAssumption DEF CallsAssumption, ScoreBody
        <5> QED BY <3>1, <3>3, <4>1, <4>3, <5>1, <5>2 DEF CallWaits, CallKey
      <4> QED BY <4>1, <4>2, <4>3 DEF TurnedAway, RateLimited
    <3> QED BY <3>2, <3>3
  <2>3. CASE Resumed(k, x)
    <3>1. /\ \A i \in Slot \ {k} : call'[i] = call[i]
          /\ k \in Admitted /\ Admitted' = Admitted
      BY <2>3, ResumedSets
    <3>2. CASE j # k
      BY <3>1, <3>2 DEF WaitOK, CallWaits, CallKey
    <3>3. CASE j = k
      <4>1. /\ CallWaits(k) /\ call[k].wait # "none" /\ x.body = call[k].body
            /\ (x.wait = "infer" /\ x.status = 0) \/ x.wait = "none"
        BY <2>3 DEF Resumed, WaitOK
      <4> QED BY <3>1, <3>3, <4>1 DEF CallWaits
    <3> QED BY <3>2, <3>3
  <2> QED BY <2>1, <2>2, <2>3
<1>3. \A k \in Slot : CallWaits(k)'
  BY <1>1, <1>2, NextCases, WorkerEffect, OthersEffect, WorkerSyncEffect DEF Tick, UsedOK
<1>4. WkOK'
  <2>1. Tick => UNCHANGED wk
    BY DEF Tick
  <2> QED BY <2>1, WkStep, NextCases DEF UsedOK
<1> QED BY <1>3, <1>4 DEF WaitOK, WkOK

-------------------------------------------------------------------------------
(* The limiter *)

LEMMA LimiterSettings == Bounds!LimiterAssumption
BY CallsAssumption DEF CallsAssumption, Bounds!LimiterAssumption

\* The limiter's own module and its lemmas count with the same operator.
LEMMA SameCardinality ==
    ASSUME NEW S
    PROVE  Limiter!Cardinality(S) = Cardinality(S) /\ Bounds!Cardinality(S) = Cardinality(S)
<1>1. Limiter!Cardinality(S) = Cardinality(S)
  BY DEF Limiter!Cardinality, Cardinality
<1>2. Bounds!Cardinality(S) = Cardinality(S)
  BY Zenon DEF Bounds!Cardinality, Cardinality
<1> QED BY <1>1, <1>2

LEMMA LimiterStep ==
    ASSUME LimiterOK,
           \/ UNCHANGED limiter
           \/ \E c \in Client : Limiter!Admit(c) \/ Limiter!Refuse(c)
           \/ Limiter!Tick
    PROVE  LimiterOK'
<1> USE SameCardinality, LimiterSettings DEF LimiterOK
<1>1. CASE \E c \in Client : Limiter!Admit(c)
  <2>1. PICK c \in Client : Limiter!Admit(c)
    BY <1>1
  <2>2. Bounds!Admit(c) /\ back' = back /\ forward' = forward
    BY <2>1 DEF Limiter!Admit, Bounds!Admit, Limiter!Full, Bounds!Full, Limiter!Kept,
                Bounds!Kept, Limiter!clock, Bounds!clock
  <2> QED BY <2>2, Bounds!IInvAdmit
<1>2. CASE \E c \in Client : Limiter!Refuse(c)
  <2>1. PICK c \in Client : Limiter!Refuse(c)
    BY <1>2
  <2>2. Bounds!Refuse(c) /\ back' = back /\ forward' = forward
    BY <2>1 DEF Limiter!Refuse, Bounds!Refuse, Limiter!Full, Bounds!Full, Limiter!Kept,
                Bounds!Kept, Limiter!clock, Bounds!clock
  <2> QED BY <2>2, Bounds!IInvRefuse
<1>3. CASE Limiter!Tick
  <2>1. Bounds!Tick /\ back' = back /\ forward' = forward
    BY <1>3 DEF Limiter!Tick, Bounds!Tick, Limiter!buckets, Bounds!buckets
  <2> QED BY <2>1, Bounds!IInvClock
<1>4. CASE UNCHANGED limiter
  BY <1>4 DEF limiter, Bounds!IInv, Bounds!LimiterTypeOK, Bounds!AgesOK, Bounds!ForgottenOK,
              Bounds!LimitPerWindow, Bounds!WindowBefore
<1> QED BY <1>1, <1>2, <1>3, <1>4

LEMMA LimiterFacts ==
    ASSUME LimiterOK
    PROVE  /\ time \in Nat /\ at \in [Client -> Seq(Nat)]
           /\ \A c \in Client : Len(at[c]) \in Nat /\ DOMAIN at[c] = 1..Len(at[c])
BY DEF LimiterOK, Bounds!IInv, Bounds!LimiterTypeOK

\* The numbers of the calls.
LEMMA UsedStep ==
    ASSUME CallsTypeOK, WaitOK, UsedOK, LimiterOK, [Next]_vars
    PROVE  UsedOK'
<1>1. CASE UNCHANGED call
  BY <1>1 DEF UsedOK, Used
<1>2. CASE CallStep
  <2>1. PICK k \in Slot : Received(k, call'[k]) \/ Resumed(k, call'[k])
    BY <1>2 DEF CallStep
  <2> DEFINE x == call'[k]
  <2>2. CASE Received(k, x)
    <3>1. /\ \A i \in Slot \ {k} : call'[i] = call[i]
          /\ Used' = Used \union {k} /\ IsFiniteSet(Used')
          /\ Cardinality(Used) \in Nat
          /\ x.nth = Cardinality(Used) + 1 /\ Cardinality(Used') = x.nth
          /\ k \notin Used
      BY <2>2, ReceivedSets
    <3>4. Used \subseteq Slot
      BY DEF Used
    <3>2. x.client \in Client
      BY <2>2 DEF Received
    <3>3. ASSUME NEW j \in Used'
          PROVE  call'[j].nth \in 1..Cardinality(Used') /\ call'[j].client \in Client
      <4>1. CASE j = k
        BY <3>1, <3>2, <4>1
      <4>2. CASE j # k
        <5>1. j \in Used /\ call'[j] = call[j]
          BY <3>1, <3>4, <4>2
        <5>2. call[j].nth \in 1..Cardinality(Used) /\ call[j].client \in Client
          BY <5>1 DEF UsedOK
        <5> QED BY <3>1, <5>1, <5>2
      <4> QED BY <4>1, <4>2
    <3> QED BY <3>1, <3>3 DEF UsedOK
  <2>3. CASE Resumed(k, x)
    <3>1. Used' = Used /\ Used \subseteq Slot
      BY <2>3, ResumedSets DEF Used
    <3>2. \A j \in Slot : call'[j].client = call[j].client /\ call'[j].nth = call[j].nth
      BY <2>3, ResumedSets
    <3> QED BY <3>1, <3>2 DEF UsedOK
  <2> QED BY <2>1, <2>2, <2>3
<1>3. Tick => UNCHANGED call
  BY DEF Tick
<1> QED BY <1>1, <1>2, <1>3, NextCases, LimiterFacts DEF UsedOK

-------------------------------------------------------------------------------
(* The admissions of the limiter and the calls *)

LEMMA NumberingFacts ==
    ASSUME LimiterOK, NEW c \in Client, NEW f \in [1..Len(at[c]) -> Slot], Numbering(c, f)
    PROVE  \A n \in 1..Len(at[c]) : /\ f[n] \in Admitted /\ call[f[n]].client = c
                                   /\ call[f[n]].since = at[c][n]
BY DEF Numbering

\* A numbering stays one as long as nobody else of the client is admitted.
LEMMA NumberingKept ==
    ASSUME LimiterOK, NEW c \in Client, NEW f \in [1..Len(at[c]) -> Slot], Numbering(c, f),
           at'[c] = at[c],
           \A j \in Admitted : /\ j \in Admitted'
                               /\ call'[j].client = call[j].client
                               /\ call'[j].nth = call[j].nth
                               /\ call'[j].since = call[j].since,
           \A j \in Admitted' : j \in Admitted \/ call'[j].client # c
    PROVE  f \in [1..Len(at'[c]) -> Slot] /\ Numbering(c, f)'
<1>1. f \in [1..Len(at'[c]) -> Slot]
  OBVIOUS
<1>2. \A n \in DOMAIN f : f[n] \in Admitted /\ call[f[n]].client = c
  BY NumberingFacts
<1>3. ASSUME NEW j \in Slot
      PROVE  j \in Admitted' /\ call'[j].client = c <=> \E n \in DOMAIN f : f[n] = j
  BY DEF Numbering
<1>4. \A n \in DOMAIN f : call'[f[n]].since = at'[c][n]
  BY <1>2 DEF Numbering
<1>5. \A m, n \in DOMAIN f : m < n => call'[f[m]].nth < call'[f[n]].nth
  BY <1>2 DEF Numbering
<1> QED BY <1>1, <1>3, <1>4, <1>5 DEF Numbering

\* The call the limiter has just admitted takes the next number.
LEMMA NumberingExtended ==
    ASSUME CallsTypeOK, UsedOK, LimiterOK,
           NEW k \in Slot, NEW x, Received(k, x), LetIn(x), RateLimitEnabled,
           NEW c \in Client, c = x.client,
           NEW size \in Nat, size = Len(at[c]),
           NEW f \in [1..size -> Slot], Numbering(c, f)
    PROVE  \E g \in [1..Len(at'[c]) -> Slot] : Numbering(c, g)'
<1>0. PICK g : g = [n \in 1..(size + 1) |-> IF n = size + 1 THEN k ELSE f[n]]
  OBVIOUS
<1>1. /\ x.since = time /\ time \in Nat
      /\ at[c] \in Seq(Nat) /\ at \in [Client -> Seq(Nat)]
  BY LimiterFacts DEF Received
<1>2. at' = [at EXCEPT ![c] = Append(at[c], time)]
  BY DEF LetIn, Limiter!Admit
<1>3. /\ Len(at'[c]) = size + 1 /\ at'[c][size + 1] = time
      /\ \A n \in 1..size : at'[c][n] = at[c][n]
  BY <1>1, <1>2
<1>4. /\ call'[k] = x /\ \A j \in Slot \ {k} : call'[j] = call[j]
      /\ k \notin Used /\ k \notin Admitted /\ Admitted' = Admitted \union {k}
      /\ x.nth = Cardinality(Used) + 1 /\ Cardinality(Used) \in Nat
  BY ReceivedSets
<1>5. \A n \in 1..size : f[n] \in Admitted /\ call[f[n]].client = c /\ f[n] \in Slot \ {k}
  <2>1. \A n \in 1..size : f[n] \in Admitted /\ call[f[n]].client = c
    BY NumberingFacts
  <2> QED BY <1>4, <2>1
<1>6. Admitted \subseteq Used /\ \A j \in Used : call[j].nth \in 1..Cardinality(Used)
  BY DEF Admitted, Used, UsedOK
<1>7. /\ g \in [1..(size + 1) -> Slot] /\ g[size + 1] = k
      /\ \A n \in 1..size : g[n] = f[n]
      /\ DOMAIN g = 1..(size + 1) /\ DOMAIN f = 1..size
  BY <1>0
<1>8. \A n \in 1..(size + 1) : n \in 1..size \/ n = size + 1
  BY <1>1
<1>9. ASSUME NEW j \in Slot
      PROVE  j \in Admitted' /\ call'[j].client = c <=> \E n \in DOMAIN g : g[n] = j
  <2>1. CASE j = k
    <3>1. j \in Admitted' /\ call'[j].client = c
      BY <1>4, <2>1
    <3>2. size + 1 \in DOMAIN g /\ g[size + 1] = j
      BY <1>7, <2>1
    <3> QED BY <3>1, <3>2
  <2>2. CASE j # k
    <3>1. j \in Admitted' /\ call'[j].client = c <=> \E n \in 1..size : f[n] = j
      BY <1>4, <1>7, <2>2 DEF Numbering
    <3>2. (\E n \in 1..size : f[n] = j) <=> \E n \in 1..(size + 1) : g[n] = j
      <4>1. \A n \in 1..size : n \in 1..(size + 1) /\ g[n] = f[n]
        BY <1>7
      <4> QED BY <1>7, <1>8, <2>2, <4>1
    <3> QED BY <1>7, <3>1, <3>2
  <2> QED BY <2>1, <2>2
<1>10. ASSUME NEW n \in 1..(size + 1) PROVE call'[g[n]].since = at'[c][n]
  <2>1. CASE n = size + 1
    BY <1>1, <1>3, <1>4, <1>7, <2>1
  <2>2. CASE n \in 1..size
    <3>1. call[f[n]].since = at[c][n]
      BY <1>7, <2>2 DEF Numbering
    <3> QED BY <1>3, <1>4, <1>5, <1>7, <2>2, <3>1
  <2> QED BY <1>8, <2>1, <2>2
<1>11. ASSUME NEW m \in 1..(size + 1), NEW n \in 1..(size + 1), m < n
       PROVE  call'[g[m]].nth < call'[g[n]].nth
  <2>1. m \in 1..size
    BY <1>1, <1>11
  <2>2. call'[g[m]].nth = call[f[m]].nth /\ call[f[m]].nth \in 1..Cardinality(Used)
    BY <1>4, <1>5, <1>6, <1>7, <2>1
  <2>3. CASE n = size + 1
    BY <1>4, <1>7, <2>2, <2>3
  <2>4. CASE n \in 1..size
    <3>1. call[f[m]].nth < call[f[n]].nth
      BY <1>7, <1>11, <2>1, <2>4 DEF Numbering
    <3>2. call'[g[n]].nth = call[f[n]].nth
      BY <1>4, <1>5, <1>7, <2>4
    <3> QED BY <2>2, <3>1, <3>2
  <2> QED BY <1>8, <2>3, <2>4
<1>12. Numbering(c, g)'
  BY <1>7, <1>9, <1>10, <1>11 DEF Numbering
<1> QED BY <1>3, <1>7, <1>12

\* What a step that is not an admission means for the numbering.
LEMMA NumberedStep ==
    ASSUME CallsTypeOK, WaitOK, UsedOK, LimiterOK, NumberedOK, [Next]_vars
    PROVE  NumberedOK'
<1> SUFFICES ASSUME RateLimitEnabled, NEW c \in Client
             PROVE  \E g \in [1..Len(at'[c]) -> Slot] : Numbering(c, g)'
  BY DEF NumberedOK
<1>1. PICK f \in [1..Len(at[c]) -> Slot] : Numbering(c, f)
  BY DEF NumberedOK
<1>2. CASE UNCHANGED <<call, at>>
  <2>1. Admitted' = Admitted
    BY <1>2 DEF Admitted
  <2> QED BY <1>1, <1>2, <2>1, NumberingKept
<1>3. Admitted \subseteq Slot
  BY DEF Admitted
<1>4. CASE CallStep
  <2>1. PICK k \in Slot : Received(k, call'[k]) \/ Resumed(k, call'[k])
    BY <1>4 DEF CallStep
  <2>2. PICK x : x = call'[k]
    OBVIOUS
  <2>3. CASE Received(k, x)
    <3>1. /\ call'[k] = x /\ \A j \in Slot \ {k} : call'[j] = call[j]
          /\ k \notin Admitted
          /\ LetIn(x) => Admitted' = Admitted \union {k}
          /\ ~LetIn(x) => Admitted' = Admitted
      BY <2>3, ReceivedSets
    <3>2. ASSUME at'[c] = at[c], ~LetIn(x) \/ x.client # c
          PROVE  \E g \in [1..Len(at'[c]) -> Slot] : Numbering(c, g)'
      <4>1. \A j \in Admitted : j \in Admitted' /\ call'[j] = call[j]
        BY <1>3, <3>1, Zenon
      <4>2. \A j \in Admitted' : j \in Admitted \/ call'[j].client # c
        BY <3>1, <3>2
      <4> QED BY <1>1, <3>2, <4>1, <4>2, NumberingKept
    <3>3. CASE LetIn(x) /\ x.client = c
      BY <1>1, <2>3, <3>3, NumberingExtended, LimiterFacts
    <3>4. CASE LetIn(x) /\ x.client # c
      <4>1. at' = [at EXCEPT ![x.client] = Append(at[x.client], time)]
        BY <3>4 DEF LetIn, Limiter!Admit
      <4> QED BY <3>2, <3>4, <4>1, LimiterFacts
    <3>5. CASE ~LetIn(x)
      <4>1. TurnedAway(x) \/ RateLimited(x)
        BY <2>3, <3>5, Zenon DEF Received
      <4>2. UNCHANGED at
        BY <4>1 DEF TurnedAway, RateLimited, limiter, Limiter!Refuse
      <4> QED BY <3>2, <3>5, <4>2
    <3> QED BY <3>3, <3>4, <3>5
  <2>4. CASE Resumed(k, x)
    <3>1. at'[c] = at[c]
      BY <2>4 DEF Resumed, limiter
    <3>2. /\ Admitted' = Admitted
          /\ \A j \in Slot : /\ call'[j].client = call[j].client
                             /\ call'[j].nth = call[j].nth
                             /\ call'[j].since = call[j].since
      BY <2>4, ResumedSets
    <3> QED BY <1>1, <1>3, <3>1, <3>2, NumberingKept
  <2> QED BY <2>1, <2>2, <2>3, <2>4
<1>5. Tick => UNCHANGED <<call, at>>
  BY DEF Tick, Limiter!Tick, Limiter!buckets
<1> QED BY <1>2, <1>4, <1>5, NextCases, LimiterFacts DEF UsedOK, limiter

-------------------------------------------------------------------------------
(* Counting calls by counting admissions *)

\* A function onto T counts T.
LEMMA Onto ==
    ASSUME NEW S, IsFiniteSet(S), NEW T, NEW f \in [S -> T], \A y \in T : \E n \in S : f[n] = y
    PROVE  IsFiniteSet(T) /\ Cardinality(T) <= Cardinality(S)
<1>1. f \in Surjection(S, T)
  BY DEF Surjection
<1> QED BY <1>1, FS_Surjection

\* A function into T that tells the elements of S apart counts S.
LEMMA Into ==
    ASSUME NEW S, NEW T, IsFiniteSet(T), NEW f \in [S -> T],
           \A m, n \in S : f[m] = f[n] => m = n
    PROVE  Cardinality(S) <= Cardinality(T)
<1>1. f \in Injection(S, T)
  BY DEF Injection, IsInjective
<1> QED BY <1>1, FS_Injection

\* The calls that share the window of k.
Sharing(k) == {j \in Admitted : SharesWindow(j, k)}

LEMMA ShieldedByInvariant == CallsInv => PipelineShielded
<1> SUFFICES ASSUME CallsInv, RateLimitEnabled, NEW k \in Admitted
             PROVE  Cardinality(Sharing(k)) <= Limit
  BY DEF PipelineShielded, Sharing
<1> USE DEF CallsInv
<1>1. PICK c \in Client : c = call[k].client
  BY DEF Admitted, Used, UsedOK
<1>2. PICK f \in [1..Len(at[c]) -> Slot] : Numbering(c, f)
  BY DEF NumberedOK
<1>3. k \in Slot /\ Admitted \subseteq Slot
  BY DEF Admitted
<1>4. PICK n \in 1..Len(at[c]) : f[n] = k
  BY <1>1, <1>2, <1>3 DEF Numbering
<1>5. \A m \in 1..Len(at[c]) : /\ f[m] \in Admitted /\ call[f[m]].client = c
                               /\ call[f[m]].since = at[c][m]
  BY <1>2, NumberingFacts
<1>6. DOMAIN at[c] = 1..Len(at[c]) /\ Len(at[c]) \in Nat
  BY LimiterFacts
<1> DEFINE W == {m \in 1..n : at[c][n] - at[c][m] < Window}
<1>7. Cardinality(W) <= Limit /\ IsFiniteSet(W)
  <2>1. Bounds!Cardinality(W) <= Limit
    BY <1>6 DEF LimiterOK, Bounds!IInv, Bounds!LimitPerWindow, Bounds!WindowBefore
  <2>2. IsFiniteSet(W)
    BY FS_Interval, FS_Subset
  <2> QED BY <2>1, <2>2, SameCardinality
<1>8. \A j \in Admitted : call[j].nth \in Nat
  <2>1. Admitted \subseteq Used /\ Cardinality(Used) \in Nat
    BY FS_CardinalityType DEF Admitted, Used, UsedOK
  <2> QED BY <2>1 DEF UsedOK
<1>9. ASSUME NEW j \in Sharing(k) PROVE \E m \in W : f[m] = j
  <2>1. /\ j \in Admitted /\ call[j].client = c /\ call[j].nth <= call[k].nth
        /\ call[k].since - call[j].since < Window
    BY <1>1 DEF Sharing, SharesWindow
  <2>2. PICK m \in 1..Len(at[c]) : f[m] = j
    BY <1>2, <1>3, <2>1 DEF Numbering
  <2>3. ~(n < m)
    <3>1. n < m => call[f[n]].nth < call[f[m]].nth
      BY <1>2 DEF Numbering
    <3> QED BY <1>4, <1>8, <2>1, <2>2, <3>1
  <2>4. m \in 1..n
    BY <1>6, <2>3
  <2>5. at[c][n] = call[k].since /\ at[c][m] = call[j].since
    BY <1>4, <1>5, <2>2
  <2> QED BY <2>1, <2>2, <2>4, <2>5
<1> DEFINE V == {m \in W : f[m] \in Sharing(k)}
           g == [m \in V |-> f[m]]
<1>10. IsFiniteSet(V) /\ Cardinality(V) <= Cardinality(W) /\ Cardinality(V) \in Nat
  BY <1>7, FS_Subset, FS_CardinalityType
<1>11. g \in [V -> Sharing(k)] /\ \A j \in Sharing(k) : \E m \in V : g[m] = j
  BY <1>9
<1>12. IsFiniteSet(Sharing(k)) /\ Cardinality(Sharing(k)) <= Cardinality(V)
  <2> HIDE DEF g, V
  <2> QED BY <1>10, <1>11, Onto
<1>13. Cardinality(Sharing(k)) \in Nat /\ Cardinality(W) \in Nat /\ Limit \in Nat
  BY <1>7, <1>12, FS_CardinalityType, CallsAssumption DEF CallsAssumption
<1> HIDE DEF W, V
<1> QED BY <1>7, <1>10, <1>12, <1>13

\* The calls that share the window of a refused one were there when it came,
\* and stay.
LEMMA RefusedNow ==
    ASSUME CallsInv, NEW k \in Slot, NEW x, Received(k, x), RateLimited(x),
           IsFiniteSet(Sharing(k)')
    PROVE  Cardinality(Sharing(k)') >= Limit
<1> USE DEF CallsInv
<1>1. PICK c \in Client : c = x.client
  BY DEF Received
<1>2. PICK f \in [1..Len(at[c]) -> Slot] : Numbering(c, f)
  BY DEF NumberedOK, RateLimited
<1>3. \A m \in 1..Len(at[c]) : /\ f[m] \in Admitted /\ call[f[m]].client = c
                               /\ call[f[m]].since = at[c][m]
  BY <1>2, NumberingFacts
<1>4. /\ call'[k] = x /\ \A j \in Slot \ {k} : call'[j] = call[j]
      /\ k \notin Used /\ k \notin Admitted
      /\ x.nth = Cardinality(Used) + 1 /\ Cardinality(Used) \in Nat
      /\ ~LetIn(x) => Admitted' = Admitted
  BY ReceivedSets
<1>5. Admitted' = Admitted
  <2>1. ~LetIn(x)
    BY DEF LetIn, RateLimited
  <2> QED BY <1>4, <2>1
<1>6. Limiter!Refuse(c) /\ x.since = time /\ time \in Nat
  BY <1>1, LimiterFacts DEF RateLimited, Received
<1> DEFINE R == {n \in DOMAIN at[c] : time - at[c][n] < Window + back}
<1>7. Cardinality(R) >= Limit
  <2>1. Bounds!Full(c)
    BY <1>6, SameCardinality DEF Limiter!Refuse, Limiter!Full, Bounds!Full, Limiter!Kept, Bounds!Kept
  <2>2. Bounds!RefusalJustified
    BY Bounds!RefusalFromInvariant, LimiterSettings DEF LimiterOK
  <2> QED BY <2>1, <2>2, SameCardinality DEF Bounds!RefusalJustified
<1>8. DOMAIN at[c] = 1..Len(at[c]) /\ Len(at[c]) \in Nat /\ back = 0 /\ Window \in Nat
  BY LimiterFacts, CallsAssumption DEF LimiterOK, CallsAssumption
<1>9. Admitted \subseteq Used /\ \A j \in Used : call[j].nth \in 1..Cardinality(Used)
  BY DEF Admitted, Used, UsedOK
<1>10. ASSUME NEW n \in R PROVE f[n] \in Sharing(k)'
  <2>1. /\ n \in 1..Len(at[c]) /\ time - at[c][n] < Window
    BY <1>8
  <2>2. f[n] \in Admitted /\ call[f[n]].client = c /\ call[f[n]].since = at[c][n]
    BY <1>3, <2>1
  <2>3. call'[f[n]] = call[f[n]]
    BY <1>4, <2>2 DEF Admitted
  <2>4. call[f[n]].nth <= x.nth
    BY <1>4, <1>9, <2>2
  <2> QED BY <1>1, <1>4, <1>5, <1>6, <2>1, <2>2, <2>3, <2>4 DEF Sharing, SharesWindow
<1>11. ASSUME NEW m \in R, NEW n \in R, f[m] = f[n] PROVE m = n
  <2>1. m \in 1..Len(at[c]) /\ n \in 1..Len(at[c])
    BY <1>8
  <2>2. m < n => call[f[m]].nth < call[f[n]].nth
    BY <1>2, <2>1 DEF Numbering
  <2>3. n < m => call[f[n]].nth < call[f[m]].nth
    BY <1>2, <2>1 DEF Numbering
  <2>4. call[f[m]].nth \in Nat
    BY <1>3, <1>4, <1>9, <2>1
  <2> QED BY <1>11, <2>1, <2>2, <2>3, <2>4
<1>12. PICK g : g = [n \in R |-> f[n]]
  OBVIOUS
<1>13. IsFiniteSet(R)
  <2>1. R \subseteq 1..Len(at[c]) /\ IsFiniteSet(1..Len(at[c]))
    BY <1>8, FS_Interval
  <2> HIDE DEF R
  <2> QED BY <2>1, FS_Subset
<1>14. Cardinality(R) <= Cardinality(Sharing(k)')
  <2>1. g \in [R -> Sharing(k)'] /\ \A m, n \in R : g[m] = g[n] => m = n
    BY <1>10, <1>11, <1>12
  <2> HIDE DEF R
  <2> QED BY <2>1, Into
<1>15. Cardinality(R) \in Nat /\ Cardinality(Sharing(k)') \in Nat /\ Limit \in Nat
  BY <1>13, FS_CardinalityType, CallsAssumption DEF CallsAssumption
<1> HIDE DEF R
<1> QED BY <1>7, <1>14, <1>15

LEMMA RefusedKept ==
    ASSUME CallsInv, UsedOK', NEW k \in Slot, call'[k] = call[k], call[k].status = 429,
           \A j \in Admitted : /\ j \in Admitted'
                               /\ call'[j].client = call[j].client
                               /\ call'[j].nth = call[j].nth
                               /\ call'[j].since = call[j].since
    PROVE  Cardinality(Sharing(k)') >= Limit
<1>1. Sharing(k) \subseteq Sharing(k)'
  BY DEF Sharing, SharesWindow
<1>2. IsFiniteSet(Sharing(k)') /\ IsFiniteSet(Sharing(k))
  <2>1. Sharing(k)' \subseteq Used'
    BY DEF Sharing, Admitted, Used
  <2>2. IsFiniteSet(Sharing(k)')
    BY <2>1, FS_Subset DEF UsedOK
  <2> QED BY <1>1, <2>2, FS_Subset
<1>3. Cardinality(Sharing(k)) <= Cardinality(Sharing(k)')
  BY <1>1, <1>2, FS_Subset
<1>4. Cardinality(Sharing(k)) \in Nat /\ Cardinality(Sharing(k)') \in Nat /\ Limit \in Nat
  BY <1>2, FS_CardinalityType, CallsAssumption DEF CallsAssumption
<1>5. Cardinality(Sharing(k)) >= Limit
  BY DEF CallsInv, RefusedForOwnCalls, Sharing
<1> QED BY <1>3, <1>4, <1>5

LEMMA RefusedStep ==
    ASSUME CallsInv, UsedOK', [Next]_vars
    PROVE  RefusedForOwnCalls'
<1> USE DEF CallsInv
<1> SUFFICES ASSUME NEW j \in Slot, call'[j].status = 429
             PROVE  Cardinality(Sharing(j)') >= Limit
  BY DEF RefusedForOwnCalls, Sharing
<1>1. CASE UNCHANGED call
  <2>1. Admitted' = Admitted
    BY <1>1 DEF Admitted
  <2> QED BY <1>1, <2>1, RefusedKept
<1>2. CASE CallStep
  <2>1. PICK k \in Slot : Received(k, call'[k]) \/ Resumed(k, call'[k])
    BY <1>2 DEF CallStep
  <2>2. PICK x : x = call'[k]
    OBVIOUS
  <2>3. Admitted \subseteq Slot
    BY DEF Admitted
  <2>4. CASE Received(k, x)
    <3>1. /\ \A i \in Slot \ {k} : call'[i] = call[i]
          /\ k \notin Admitted /\ Admitted \subseteq Admitted'
      BY <2>4, ReceivedSets
    <3>2. CASE j # k
      <4>1. \A i \in Admitted : i \in Slot \ {k} /\ i \in Admitted'
        BY <2>3, <3>1
      <4>2. \A i \in Admitted : i \in Admitted' /\ call'[i] = call[i]
        BY <3>1, <4>1
      <4> QED BY <3>1, <3>2, <4>2, RefusedKept
    <3>3. CASE j = k
      <4>1. RateLimited(x)
        <5>1. x.status = 429
          BY <2>2, <3>3
        <5>2. TurnedAway(x) \/ LetIn(x) \/ RateLimited(x)
          BY <2>4, Zenon DEF Received
        <5>3. ~TurnedAway(x) /\ ~LetIn(x)
          BY <5>1 DEF TurnedAway, LetIn
        <5> QED BY <5>2, <5>3
      <4>2. IsFiniteSet(Sharing(k)')
        <5>1. Sharing(k)' \subseteq Used'
          BY DEF Sharing, Admitted, Used
        <5> QED BY <5>1, FS_Subset DEF UsedOK
      <4> QED BY <2>4, <3>3, <4>1, <4>2, RefusedNow
    <3> QED BY <3>2, <3>3
  <2>5. CASE Resumed(k, x)
    <3>1. /\ \A i \in Slot \ {k} : call'[i] = call[i]
          /\ x.status \in {0, 200, 500} /\ Admitted' = Admitted
          /\ \A i \in Slot : /\ call'[i].client = call[i].client
                             /\ call'[i].nth = call[i].nth
                             /\ call'[i].since = call[i].since
      BY <2>5, ResumedSets
    <3>2. j # k
      BY <2>2, <3>1
    <3> QED BY <2>3, <3>1, <3>2, RefusedKept
  <2> QED BY <2>1, <2>2, <2>4, <2>5
<1>3. Tick => UNCHANGED call
  BY DEF Tick
<1> QED BY <1>1, <1>2, <1>3, NextCases, LimiterFacts DEF UsedOK

-------------------------------------------------------------------------------
(* The invariant *)

LEMMA CallsInit == Init => CallsInv
<1> SUFFICES ASSUME Init PROVE CallsInv
  OBVIOUS
<1>1. /\ call = [k \in Slot |-> NoCall] /\ wk = NoRecord /\ store = [e \in Entity |-> Missing]
      /\ events = 0 /\ fault = [k \in FaultKind |-> 0] /\ Limiter!Init
  BY DEF Init
<1>2. \A k \in Slot : call[k] = NoCall
  BY <1>1
<1>3. CallsTypeOK
  <2>1. NoContext \in ContextFeatures /\ 0 \in Status /\ Missing \in Hash
    BY DEF NoContext, ContextFeatures, Status, Missing, Hash, Sum, Ttl
  <2>2. NoCall \in CallRecord
    BY <2>1 DEF NoCall, CallRecord
  <2> QED BY <1>1, <2>1, <2>2, NoRecordType DEF CallsTypeOK
<1>4. NoCall.wait = "none" /\ NoCall.status = 0
  BY DEF NoCall
<1>5. WaitOK
  BY <1>1, <1>2, <1>4, NoRecordType DEF WaitOK, CallWaits
<1>6. LimiterOK
  BY <1>1, LimiterSettings, Bounds!IInvInit DEF LimiterOK, Limiter!Init, Bounds!Init
<1>7. Used = {} /\ Admitted = {}
  BY <1>2 DEF Used, Admitted
<1>8. UsedOK
  BY <1>7, FS_EmptySet DEF UsedOK
<1>9. NumberedOK
  <2> SUFFICES ASSUME NEW c \in Client
               PROVE  \E f \in [1..Len(at[c]) -> Slot] : Numbering(c, f)
    BY DEF NumberedOK
  <2>1. Len(at[c]) = 0
    BY <1>1 DEF Limiter!Init
  <2>2. PICK f : f = [n \in {} |-> n]
    OBVIOUS
  <2>3. f \in [1..Len(at[c]) -> Slot] /\ DOMAIN f = {}
    BY <2>1, <2>2
  <2> QED BY <1>7, <2>3 DEF Numbering
<1>10. RefusedForOwnCalls
  BY <1>2, <1>4 DEF RefusedForOwnCalls
<1> QED BY <1>3, <1>5, <1>6, <1>8, <1>9, <1>10 DEF CallsInv

LEMMA CallsNext == CallsInv /\ [Next]_vars => CallsInv'
<1> SUFFICES ASSUME CallsInv, [Next]_vars PROVE CallsInv'
  OBVIOUS
<1> USE DEF CallsInv
<1>1. time \in Nat /\ IsFiniteSet(Used)
  BY LimiterFacts DEF UsedOK
<1>2. CallsTypeOK' /\ WaitOK' /\ UsedOK'
  BY <1>1, TypeStep, WaitStep, UsedStep
<1>3. LimiterOK'
  <2>1. CallStep => UNCHANGED limiter \/ \E c \in Client : Limiter!Admit(c) \/ Limiter!Refuse(c)
    BY DEF CallStep, Received, Resumed, TurnedAway, LetIn, RateLimited
  <2>2. Tick => Limiter!Tick
    BY DEF Tick
  <2> QED BY <1>1, <2>1, <2>2, NextCases, LimiterStep
<1>4. NumberedOK' /\ RefusedForOwnCalls'
  BY <1>2, NumberedStep, RefusedStep
<1> QED BY <1>2, <1>3, <1>4

LEMMA CallsInvariance == Spec => []CallsInv
BY CallsInit, CallsNext, PTL DEF Spec

\* Type correctness of the calls, the worker's record, the store and the budgets.
THEOREM CallsTypeCorrect == Spec => []CallsTypeOK
<1>1. CallsInv => CallsTypeOK
  BY DEF CallsInv
<1> QED BY <1>1, CallsInvariance, PTL

\* However the calls of a client overlap, wait and fail, no window holds more
\* of them behind the limiter than its limit.
THEOREM StoreAndModelShielded == Spec => []PipelineShielded
BY ShieldedByInvariant, CallsInvariance, PTL

\* A 429 is always explained by as many admitted calls of the same client.
THEOREM RateIsUsedByItsCaller == Spec => []RefusedForOwnCalls
<1>1. CallsInv => RefusedForOwnCalls
  BY DEF CallsInv
<1> QED BY <1>1, CallsInvariance, PTL

-------------------------------------------------------------------------------
(* Failures of Redis *)

LEMMA NeverFailsStep ==
    ASSUME CriticalScore \in 0..100, CallsInv, RedisNeverFailsScoring, [Next]_vars
    PROVE  RedisNeverFailsScoring'
<1> USE DEF CallsInv
<1> SUFFICES ASSUME NEW j \in Slot, call'[j].status = 500
             PROVE  call'[j].tritonFailed \/ call'[j].body.form = "garbage"
  BY DEF RedisNeverFailsScoring
<1>1. CASE call'[j] = call[j]
  BY <1>1 DEF RedisNeverFailsScoring
<1>2. CASE CallStep /\ call'[j] # call[j]
  <2>1. PICK k \in Slot : Received(k, call'[k]) \/ Resumed(k, call'[k])
    BY <1>2 DEF CallStep
  <2>2. PICK x : x = call'[k]
    OBVIOUS
  <2>3. CASE Received(k, x)
    <3>1. j = k
      BY <1>2, <2>3, ReceivedSets
    <3>2. x.status # 500
      BY <2>3 DEF Received, TurnedAway, LetIn, RateLimited
    <3> QED BY <2>2, <3>1, <3>2
  <2>4. CASE Resumed(k, x)
    <3>1. j = k
      BY <1>2, <2>4, ResumedSets
    <3> QED BY <2>2, <2>4, <3>1, Zenon DEF Resumed
  <2> QED BY <2>1, <2>2, <2>3, <2>4
<1>3. Tick => UNCHANGED call
  BY DEF Tick
<1> QED BY <1>1, <1>2, <1>3, NextCases, LimiterFacts DEF UsedOK

\* With a critical score a response may carry, whatever fails in Redis and
\* whatever the hashes hold, only Triton or a number of the caller's own that
\* cannot be converted fails a call.
THEOREM RedisFailsNoCall ==
    ASSUME CriticalScore \in 0..100
    PROVE  Spec => []RedisNeverFailsScoring
<1>1. Init => RedisNeverFailsScoring
  BY DEF Init, RedisNeverFailsScoring, NoCall
<1>2. CallsInv /\ RedisNeverFailsScoring /\ [Next]_vars => RedisNeverFailsScoring'
  BY NeverFailsStep
<1> QED BY <1>1, <1>2, CallsInvariance, PTL DEF Spec

-------------------------------------------------------------------------------
(* The worker's two reads *)

\* The settings under which the engine's override sees what the rules see: an
\* active app scores 0.92, and a boosted count of keywords is no smaller than
\* the count when neither is negative.
EvidenceSettings == MaliciousAppWeightThreshold <= 92 /\ FraudKeywordThreshold >= 0

\* What the first read put into the request is what the second one returns.
SameEvidence(h) ==
    /\ h.live /\ ~Unreadable(h) /\ ~RequestRaises(wk.ev, h)
    /\ wk.req = ToScoringRequest(wk.ev, h)

HandOK ==
    wk.untouched =>
        /\ wk.wait = "context" => store[Key].live
        /\ wk.wait = "fetch" => SameEvidence(store[Key])
        /\ wk.wait = "infer" =>
              /\ wk.ctx.app = 1 => CriticalOverride(wk.req)
              /\ 4 * wk.ctx.kw >= FraudKeywordThreshold => CriticalOverride(wk.req)

EvidenceInv == HandOK /\ EvidenceAgrees

\* A context fetched from the hash of the request leaves no rule unexplained.
LEMMA EvidenceFetched ==
    ASSUME EvidenceSettings, NEW ev \in FdsEvent, NEW h \in Hash, h.live, ~Unreadable(h),
           ~RequestRaises(ev, h), NEW session, NEW e, NEW ctx \in Fetched(session, e, h)
    PROVE  /\ ctx.app = 1 => CriticalOverride(ToScoringRequest(ev, h))
           /\ 4 * ctx.kw >= FraudKeywordThreshold => CriticalOverride(ToScoringRequest(ev, h))
<1>1. ctx.app = h.app /\ ctx.kw = h.kw /\ h.kw \in Int
  BY DEF Fetched, Hash
<1>2. h.app = 1 => CriticalOverride(ToScoringRequest(ev, h))
  BY ThresholdsAssumption DEF EvidenceSettings, ThresholdsAssumption, CriticalOverride, ToScoringRequest
<1>3. 4 * h.kw >= FraudKeywordThreshold => KeywordFlag(ev, h) >= FraudKeywordThreshold
  <2>1. CASE ev.boost
    <3>1. KeywordFlag(ev, h) = h.kw * 5
      BY <2>1 DEF KeywordFlag
    <3> QED BY <1>1, <3>1, ThresholdsAssumption DEF EvidenceSettings, ThresholdsAssumption
  <2>2. CASE ~ev.boost
    <3>1. KeywordFlag(ev, h) = h.kw * 4
      BY <2>2 DEF KeywordFlag
    <3> QED BY <1>1, <3>1, ThresholdsAssumption DEF EvidenceSettings, ThresholdsAssumption
  <2> QED BY <2>1, <2>2
<1>4. ToScoringRequest(ev, h).keywordFlag = KeywordFlag(ev, h)
  BY DEF ToScoringRequest
<1> QED BY <1>1, <1>2, <1>3, <1>4 DEF CriticalOverride

\* The verdict of a request whose override is due is CRITICAL.
LEMMA EvidenceJudged ==
    ASSUME NEW req, NEW ctx, NEW ml,
           ctx.app = 1 => CriticalOverride(req),
           4 * ctx.kw >= FraudKeywordThreshold => CriticalOverride(req),
           MatchedRules(req, ctx) \intersect {"voice_phishing_remote_app", "stt_phishing_keyword"} # {}
    PROVE  FdsFlag(req, ml) = "CRITICAL"
<1>1. CriticalOverride(req)
  BY DEF MatchedRules
<1> QED BY <1>1 DEF FdsFlag

LEMMA EvidenceStep ==
    ASSUME EvidenceSettings, CallsInv, EvidenceInv, [Next]_vars
    PROVE  EvidenceInv'
<1> USE DEF CallsInv
<1>0. wk \in WorkerRecord /\ store \in [Entity -> Hash]
  BY DEF CallsTypeOK
<1>1. CASE wk' = NoRecord
  BY <1>1, NoRecordType DEF EvidenceInv, HandOK, EvidenceAgrees
<1>2. CASE UNCHANGED <<wk, store>>
  BY <1>2 DEF EvidenceInv, HandOK, EvidenceAgrees, SameEvidence, Key
<1>3. CASE \E ev \in Event : WorkerSync(ev) \/ WorkerEnd(ev)
  <2>1. PICK ev \in Event :
          \/ wk' = NoRecord
          \/ /\ wk' = [NoRecord EXCEPT !.wait = "context", !.ev = ev]
             /\ store'[EntityKey(ev)].live
    BY <1>3, WorkerSyncEffect
  <2>2. CASE /\ wk' = [NoRecord EXCEPT !.wait = "context", !.ev = ev]
             /\ store'[EntityKey(ev)].live
    <3>1. wk'.wait = "context" /\ wk'.ev = ev /\ wk'.flag = "none"
      BY <2>2 DEF NoRecord
    <3>2. Key' = EntityKey(ev)
      BY <3>1 DEF Key
    <3> QED BY <2>2, <3>1, <3>2 DEF EvidenceInv, HandOK, EvidenceAgrees
  <2> QED BY <1>1, <2>1, <2>2
<1>4. CASE \E e \in Entity : Put(e) \/ Expire(e)
  <2>1. PICK e \in Entity :
          /\ StoreWrite(e, store'[e]) \/ UNCHANGED store
          /\ UNCHANGED wk \/ wk' = [wk EXCEPT !.untouched = FALSE]
          /\ wk.wait # "none" /\ e = Key => UNCHANGED store \/ ~wk'.untouched
    BY <1>4, OthersEffect
  <2>2. CASE ~wk'.untouched
    BY <2>2 DEF EvidenceInv, HandOK, EvidenceAgrees
  <2>3. CASE UNCHANGED wk /\ wk.wait = "none"
    BY <2>3 DEF EvidenceInv, HandOK, EvidenceAgrees
  <2>4. CASE UNCHANGED wk /\ wk.wait # "none" /\ e # Key
    <3>1. store'[Key] = store[Key]
      BY <1>0, <2>1, <2>4, KeyType DEF StoreWrite
    <3>2. Key' = Key
      BY <2>4 DEF Key
    <3> QED BY <2>4, <3>1, <3>2 DEF EvidenceInv, HandOK, EvidenceAgrees, SameEvidence
  <2>5. wk' = [wk EXCEPT !.untouched = FALSE] => ~wk'.untouched
    BY <1>0 DEF WorkerRecord
  <2> QED BY <1>2, <2>1, <2>2, <2>3, <2>4, <2>5
<1>5. CASE WorkerSteps /\ wk.wait # "none" /\ UNCHANGED store
  <2>1. CASE wk.wait = "context" /\ wk' # NoRecord
    <3>1. /\ wk' = [wk EXCEPT !.wait = "fetch", !.req = ToScoringRequest(wk.ev, store[Key])]
          /\ ~RequestRaises(wk.ev, store[Key]) /\ ~Unreadable(store[Key])
      BY <1>5, <2>1, Zenon DEF WorkerSteps
    <3>2. /\ wk'.wait = "fetch" /\ wk'.ev = wk.ev /\ wk'.untouched = wk.untouched
          /\ wk'.req = ToScoringRequest(wk.ev, store[Key])
          /\ wk'.flag = wk.flag /\ wk'.rules = wk.rules
      BY <1>0, <3>1 DEF WorkerRecord
    <3>3. Key' = Key
      BY <3>2 DEF Key
    <3> QED BY <1>5, <2>1, <3>1, <3>2, <3>3 DEF EvidenceInv, HandOK, EvidenceAgrees, SameEvidence
  <2>2. CASE wk.wait = "fetch" /\ wk' # NoRecord
    <3>1. PICK ctx \in ContextFeatures :
            \/ /\ ctx \in Fetched(wk.ev.session, Key, store[Key])
               /\ wk' = [wk EXCEPT !.wait = "infer", !.ctx = ctx]
            \/ wk' = [wk EXCEPT !.wait = "infer", !.ctx = ctx, !.untouched = FALSE]
      BY <1>5, <2>2, Zenon DEF WorkerSteps
    <3>2. CASE wk' = [wk EXCEPT !.wait = "infer", !.ctx = ctx, !.untouched = FALSE]
      <4>1. ~wk'.untouched
        BY <1>0, <3>2 DEF WorkerRecord
      <4> QED BY <4>1 DEF EvidenceInv, HandOK, EvidenceAgrees
    <3>3. CASE /\ ctx \in Fetched(wk.ev.session, Key, store[Key])
               /\ wk' = [wk EXCEPT !.wait = "infer", !.ctx = ctx]
      <4>1. /\ wk'.wait = "infer" /\ wk'.ctx = ctx /\ wk'.req = wk.req
            /\ wk'.untouched = wk.untouched /\ wk'.flag = wk.flag /\ wk'.rules = wk.rules
        BY <1>0, <3>3 DEF WorkerRecord
      <4>2. ASSUME wk.untouched
            PROVE  /\ ctx.app = 1 => CriticalOverride(wk.req)
                   /\ 4 * ctx.kw >= FraudKeywordThreshold => CriticalOverride(wk.req)
        <5>1. SameEvidence(store[Key])
          BY <2>2, <4>2 DEF EvidenceInv, HandOK
        <5> QED BY <2>2, <3>3, <5>1, KeyType, EvidenceFetched DEF SameEvidence
      <4> QED BY <4>1, <4>2 DEF EvidenceInv, HandOK, EvidenceAgrees
    <3> QED BY <3>1, <3>2, <3>3
  <2>3. CASE wk.wait = "infer" /\ wk' # NoRecord
    <3>1. PICK ml \in MLScore :
            wk' = [wk EXCEPT !.wait = "none", !.flag = FdsFlag(wk.req, Clamp(ml)),
                             !.rules = MatchedRules(wk.req, wk.ctx)]
      BY <1>5, <2>3, Zenon DEF WorkerSteps
    <3>2. /\ wk'.wait = "none" /\ wk'.untouched = wk.untouched
          /\ wk'.flag = FdsFlag(wk.req, Clamp(ml)) /\ wk'.rules = MatchedRules(wk.req, wk.ctx)
      BY <1>0, <3>1 DEF WorkerRecord
    <3>3. EvidenceAgrees'
      BY <2>3, <3>2, EvidenceJudged DEF EvidenceInv, HandOK, EvidenceAgrees
    <3> QED BY <3>2, <3>3 DEF EvidenceInv, HandOK
  <2> QED BY <1>1, <1>5, <2>1, <2>2, <2>3, Zenon DEF WorkerSteps
<1>6. Tick => UNCHANGED <<wk, store>>
  BY DEF Tick
<1> QED BY <1>2, <1>3, <1>4, <1>5, <1>6, NextCases, WorkerEffect, LimiterFacts DEF UsedOK

\* A voice-phishing rule is never attached to a score that is not CRITICAL,
\* unless something came between the two reads, for every detectable weight
\* and every keyword threshold of zero or more.
THEOREM EvidenceExplainsVerdict ==
    ASSUME EvidenceSettings
    PROVE  Spec => []EvidenceAgrees
<1>1. Init => EvidenceInv
  BY NoRecordType DEF Init, EvidenceInv, HandOK, EvidenceAgrees
<1>2. CallsInv /\ EvidenceInv /\ [Next]_vars => EvidenceInv'
  BY EvidenceStep
<1>3. EvidenceInv => EvidenceAgrees
  BY DEF EvidenceInv
<1> QED BY <1>1, <1>2, <1>3, CallsInvariance, PTL DEF Spec
===============================================================================
