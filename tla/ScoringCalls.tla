----------------------------- MODULE ScoringCalls -----------------------------
(***************************************************************************)
(* The callers of FdsScoringPipeline.score in one gateway process: POST    *)
(* /v1/fds/score behind its guards, and the worker.  They share the store  *)
(* with PUT /internal/feature-store and with key expiry.                   *)
(*                                                                         *)
(* Guards, limiter and _resolve_entity_key run without an await, so a REST *)
(* call is received in one action; score then awaits the hash and Triton.  *)
(* The HSET and EXPIRE of one writer are one action: no read in this       *)
(* module tells them apart, and FdsEventPipeline has them one by one.      *)
(*                                                                         *)
(* FastAPI is external: a body that is no JSON is refused before the       *)
(* dependencies run, one that is no FdsScoreRequest after them.  Sums are  *)
(* in units of 50 000, the step of the mock features.                      *)
(***************************************************************************)
EXTENDS FdsRules, FeatureHash, Sequences, FiniteSets

CONSTANTS Client,          \* request.client.host values
          Limit, Window, MaxTime, MaxAdmitted, MaxBack, MaxForward, \* see RateLimiter
          Slot,            \* bound: the REST calls
          Body,            \* bodies they may carry
          Event,           \* events the worker may handle
          PutBodies,       \* bodies of PUT /internal/feature-store/{entity}
          SumValue,        \* what transfer_sum_30m may hold as a number
          MLScore,         \* values Triton may answer as NORMALIZED_SCORE
          CriticalName,    \* keys whose name contains "critical"
          Seed,            \* sum(ord(c)) % 100 of a key
          ApiKeyEnabled,   \* settings.api_key_enabled
          RateLimitEnabled,\* settings.rate_limit_enabled
          InternalKeyGuarded,     \* settings.internal_api_key_enabled
          InternalNetworkGuarded, \* settings.internal_network_guard_enabled
          MaxEvents,       \* bound: the events the worker handles
          MaxFault         \* bound: environment faults, per kind

FaultKind == {"redis", "triton", "expiry", "upsert"}

\* form: broken is no JSON, invalid no FdsScoreRequest, garbage has a number
\* the engine reads and cannot convert.
ScoreBody ==
    [form : {"broken", "invalid", "garbage", "plain"},
     session : Session \union {None}, user : User \union {None},
     txn : {"DOMESTIC", "OVERSEAS", None}, channel : {"OVERSEAS", "OTHER"},
     keywordFlag : Int, appWeight : Int, count : Int, overseasRisk : Int]

ASSUME CallsAssumption ==
    /\ Body \subseteq ScoreBody
    /\ Event \subseteq FdsEvent
    /\ PutBodies \subseteq PutBody
    /\ SumValue \subseteq Int
    /\ MLScore \subseteq Int
    /\ CriticalName \subseteq Entity
    /\ Seed \in [Entity -> 0..99]
    /\ {ApiKeyEnabled, RateLimitEnabled, InternalKeyGuarded, InternalNetworkGuarded}
            \subseteq BOOLEAN
    /\ MaxEvents \in Nat
    /\ MaxFault \in [FaultKind -> Nat]
    /\ {Limit, Window, MaxTime, MaxAdmitted, MaxBack, MaxForward} \subseteq Nat

VARIABLES
    time, wall, bucket, stamp, at, back, forward, \* the limiter's
    call,   \* call[k]: a REST call
    wk,     \* the record the worker has in hand
    store,  \* store[e]: Redis hash fds:feature:{e}
    events, \* history: the events the worker has handled
    fault   \* history: environment faults so far, per kind

Limiter == INSTANCE RateLimiter

limiter == <<time, wall, bucket, stamp, at, back, forward>>
vars == <<limiter, call, wk, store, events, fault>>

NoContext == [kw |-> 0, app |-> 0, sum |-> 0]

\* status 0 is a call that is not answered.  since, nth and tritonFailed are
\* history: when and as which one the call came, and whether Triton failed it.
NoCall == [client |-> None, body |-> None, keyed |-> FALSE, since |-> 0, nth |-> 0,
           wait |-> "none", ctx |-> NoContext, status |-> 0, tritonFailed |-> FALSE]

\* untouched is history: between sync_from_event and the end of score nothing
\* came between the worker and its hash, and the read in score succeeded.
NoRecord == [wait |-> "none", ev |-> None, req |-> None, ctx |-> NoContext,
             flag |-> "none", rules |-> {}, untouched |-> TRUE]

Init ==
    /\ Limiter!Init
    /\ call = [k \in Slot |-> NoCall]
    /\ wk = NoRecord
    /\ store = [e \in Entity |-> Missing]
    /\ events = 0
    /\ fault = [k \in FaultKind |-> 0]

Spend(kind) ==
    /\ fault[kind] < MaxFault[kind]
    /\ fault' = [fault EXCEPT ![kind] = @ + 1]

-------------------------------------------------------------------------------
(* score: the context, the enriched vector and the result *)

\* _resolve_entity_key of the service and of the preprocessor.
ResolveEntityKey_SessionFirst(session, user) == IF session # None THEN session ELSE user

ResolveEntityKey(session, user) == IF user # None THEN user ELSE session

\* _mock_context_features
MockFeatures(session, e) ==
    IF {session, e} \intersect CriticalName # {}
    THEN [kw |-> 4, app |-> 1, sum |-> 170]
    ELSE [kw |-> Seed[e] % 3, app |-> IF Seed[e] > 85 THEN 1 ELSE 0, sum |-> Seed[e]]

\* What fetch_context_features may return for the hash h of e.
Fetched(session, e, h) ==
    IF ~h.live \/ Unreadable(h)
    THEN {MockFeatures(session, e)}
    ELSE {[kw |-> h.kw, app |-> h.app, sum |-> n] :
            n \in IF h.sum = "number" THEN SumValue ELSE {0}}

\* _resolve_txn_type
TxnType(body) ==
    IF body.txn # None THEN body.txn
    ELSE IF body.channel = "OVERSEAS" THEN "OVERSEAS" ELSE "DOMESTIC"

\* What the engine reads of merged: the context holds none of these keys.
RequestOf(body) ==
    [keywordFlag |-> body.keywordFlag, appWeight |-> body.appWeight, txn |-> TxnType(body),
     count |-> body.count, overseasRisk |-> body.overseasRisk]

-------------------------------------------------------------------------------
(* POST /v1/fds/score *)

KeyAccepted(keyed) == ~ApiKeyEnabled \/ keyed

Answered(k, status) == call' = [call EXCEPT ![k].status = status, ![k].wait = "none"]

\* The route: the entity's hash is awaited, or Triton with the default features.
Enter(new) ==
    IF new.body.form = "invalid" THEN [new EXCEPT !.status = 422]
    ELSE IF ResolveEntityKey(new.body.session, new.body.user) = None
    THEN [new EXCEPT !.wait = "infer"]
    ELSE [new EXCEPT !.wait = "fetch"]

Arriving(c, body, keyed) ==
    [NoCall EXCEPT !.client = c, !.body = body, !.keyed = keyed, !.since = time,
                   !.nth = 1 + Cardinality({k \in Slot : call[k] # NoCall})]

Limited_Unused(k, new) ==
    /\ call' = [call EXCEPT ![k] = Enter(new)]
    /\ UNCHANGED limiter

\* apply_rate_limit, then what follows an admitted call.
Limited(k, new) ==
    \/ /\ ~RateLimitEnabled
       /\ call' = [call EXCEPT ![k] = Enter(new)]
       /\ UNCHANGED limiter
    \/ /\ RateLimitEnabled
       /\ Limiter!Admit(new.client)
       /\ call' = [call EXCEPT ![k] = Enter(new)]
    \/ /\ RateLimitEnabled
       /\ Limiter!Refuse(new.client)
       /\ call' = [call EXCEPT ![k] = [new EXCEPT !.status = 429]]

Refused(k, new, status) ==
    /\ call' = [call EXCEPT ![k] = [new EXCEPT !.status = status]]
    /\ UNCHANGED limiter

Guarded_LimiterFirst(k, new) ==
    IF KeyAccepted(new.keyed) THEN Limited(k, new)
    ELSE /\ call' = [call EXCEPT ![k] = [new EXCEPT !.status = 401]]
         /\ Limiter!Check(new.client)

\* The dependencies of the route, in their order.
Guarded(k, new) ==
    IF KeyAccepted(new.keyed) THEN Limited(k, new) ELSE Refused(k, new, 401)

Receive(k) ==
    /\ call[k] = NoCall
    /\ \E c \in Client, body \in Body, keyed \in BOOLEAN :
          LET new == Arriving(c, body, keyed)
          IN  IF body.form = "broken" THEN Refused(k, new, 422) ELSE Guarded(k, new)
    /\ UNCHANGED <<wk, store, fault, events>>

CallKey(k) == ResolveEntityKey(call[k].body.session, call[k].body.user)

Fetch(k) ==
    /\ call[k].wait = "fetch"
    /\ \E ctx \in Fetched(call[k].body.session, CallKey(k), store[CallKey(k)]) :
          call' = [call EXCEPT ![k].ctx = ctx, ![k].wait = "infer"]
    /\ UNCHANGED <<limiter, wk, store, fault, events>>

FetchFault_Raises(k) ==
    /\ call[k].wait = "fetch"
    /\ Spend("redis")
    /\ Answered(k, 500)
    /\ UNCHANGED <<limiter, wk, store, events>>

\* hgetall raises: mock features.
FetchFault(k) ==
    /\ call[k].wait = "fetch"
    /\ Spend("redis")
    /\ call' = [call EXCEPT ![k].ctx = MockFeatures(call[k].body.session, CallKey(k)),
                            ![k].wait = "infer"]
    /\ UNCHANGED <<limiter, wk, store, events>>

\* infer and evaluate; a response that does not validate is an error as well.
Infer(k) ==
    /\ call[k].wait = "infer"
    /\ \E ml \in MLScore :
          LET valid == FdsScore(RequestOf(call[k].body), Clamp(ml)) \in 0..100
          IN  Answered(k, IF call[k].body.form = "plain" /\ valid THEN 200 ELSE 500)
    /\ UNCHANGED <<limiter, wk, store, fault, events>>

InferFault(k) ==
    /\ call[k].wait = "infer"
    /\ Spend("triton")
    /\ call' = [call EXCEPT ![k].status = 500, ![k].wait = "none", ![k].tritonFailed = TRUE]
    /\ UNCHANGED <<limiter, wk, store, events>>

-------------------------------------------------------------------------------
(* The worker, from sync_from_event to the result of score *)

Key == EntityKey(wk.ev)

\* The STT count that decides with ScoreEveryN is FdsEventPipeline's.
WorkerSync(ev) ==
    /\ wk.wait = "none"
    /\ events < MaxEvents
    /\ events' = events + 1
    /\ ev.form = "valid" /\ ev.type # "SESSION_ENDED" /\ EntityKey(ev) # None
    /\ store' = [store EXCEPT ![EntityKey(ev)] = WithTtl(Synced(@, @, ev), "full")]
    /\ \E count \in 1..ScoreEveryN + 1 :
          wk' = IF ShouldTriggerScoring(ev, count)
                THEN [NoRecord EXCEPT !.wait = "context", !.ev = ev]
                ELSE NoRecord
    /\ UNCHANGED <<limiter, call, fault>>

\* finalize_session: a hash that was not there has only unread fields now.
WorkerEnd(ev) ==
    /\ wk.wait = "none"
    /\ events < MaxEvents
    /\ events' = events + 1
    /\ ev.form = "valid" /\ ev.type = "SESSION_ENDED" /\ EntityKey(ev) # None
    /\ store' = [store EXCEPT ![EntityKey(ev)] = WithTtl(Finalized(@), "end")]
    /\ wk' = NoRecord
    /\ UNCHANGED <<limiter, call, fault>>

\* get_context_features and to_scoring_request; what raises ends in the DLQ.
WorkerContext ==
    /\ wk.wait = "context"
    /\ wk' = IF Unreadable(store[Key]) \/ RequestRaises(wk.ev, store[Key])
             THEN NoRecord
             ELSE [wk EXCEPT !.wait = "fetch", !.req = ToScoringRequest(wk.ev, store[Key])]
    /\ UNCHANGED <<limiter, call, store, fault, events>>

WorkerFetch ==
    /\ wk.wait = "fetch"
    /\ LET e == ResolveEntityKey(wk.ev.session, wk.ev.user)
       IN  \E ctx \in Fetched(wk.ev.session, e, store[e]) :
              wk' = [wk EXCEPT !.wait = "infer", !.ctx = ctx]
    /\ UNCHANGED <<limiter, call, store, fault, events>>

WorkerInfer ==
    /\ wk.wait = "infer"
    /\ \E ml \in MLScore :
          wk' = IF FdsScore(wk.req, Clamp(ml)) \in 0..100
                THEN [wk EXCEPT !.wait = "none", !.flag = FdsFlag(wk.req, Clamp(ml)),
                                !.rules = MatchedRules(wk.req, wk.ctx)]
                ELSE NoRecord
    /\ UNCHANGED <<limiter, call, store, fault, events>>

\* A failed read in score is answered with mock features, any other fails the
\* record.
WorkerFault ==
    /\ \/ /\ wk.wait = "context" /\ Spend("redis")
          /\ wk' = NoRecord
       \/ /\ wk.wait = "fetch" /\ Spend("redis")
          /\ LET e == ResolveEntityKey(wk.ev.session, wk.ev.user)
             IN  wk' = [wk EXCEPT !.wait = "infer", !.ctx = MockFeatures(wk.ev.session, e),
                                  !.untouched = FALSE]
       \/ /\ wk.wait = "infer" /\ Spend("triton")
          /\ wk' = NoRecord
    /\ UNCHANGED <<limiter, call, store, events>>

-------------------------------------------------------------------------------
(* Other writers of the store *)

Touch(e) ==
    wk' = IF wk.wait # "none" /\ e = Key THEN [wk EXCEPT !.untouched = FALSE] ELSE wk

\* verify_internal_api_key and verify_internal_network, each with a switch.
InternalAllowed(keyed, inside) ==
    /\ InternalKeyGuarded => keyed
    /\ InternalNetworkGuarded => inside

Put(e) ==
    /\ Spend("upsert")
    /\ \E body \in PutBodies, keyed \in BOOLEAN, inside \in BOOLEAN :
          IF InternalAllowed(keyed, inside)
          THEN store' = [store EXCEPT ![e] = WithTtl(Upserted(@, body), "full")] /\ Touch(e)
          ELSE UNCHANGED <<store, wk>>
    /\ UNCHANGED <<limiter, call, events>>

Expire(e) ==
    /\ store[e].live
    /\ Spend("expiry")
    /\ store' = [store EXCEPT ![e] = Missing]
    /\ Touch(e)
    /\ UNCHANGED <<limiter, call, events>>

Tick == Limiter!Tick /\ UNCHANGED <<call, wk, store, fault, events>>

Next ==
    \/ \E k \in Slot : Receive(k) \/ Fetch(k) \/ FetchFault(k) \/ Infer(k) \/ InferFault(k)
    \/ \E ev \in Event : WorkerSync(ev) \/ WorkerEnd(ev)
    \/ WorkerContext \/ WorkerFetch \/ WorkerInfer \/ WorkerFault
    \/ \E e \in Entity : Put(e) \/ Expire(e)
    \/ Tick

Spec == Init /\ [][Next]_vars

-------------------------------------------------------------------------------
\* The calls that got past the guards.
Admitted == {k \in Slot : call[k] # NoCall /\ call[k].status \notin {401, 429}
                          /\ call[k].body.form # "broken"}

\* j came from the client of k before it, or is it, and less than a window ago.
SharesWindow(j, k) ==
    /\ call[j].client = call[k].client
    /\ call[j].nth <= call[k].nth
    /\ call[k].since - call[j].since < Window

\* Whatever fails in Redis, a hash that cannot be read included, REST callers
\* still get a score: only Triton, or a number of their own that cannot be
\* converted, fails a call.
RedisNeverFailsScoring ==
    \A k \in Slot :
        call[k].status = 500 => call[k].tritonFailed \/ call[k].body.form = "garbage"

\* The store and the model see no more than rate_limit_per_minute calls of a
\* client in any window, however its calls overlap.
PipelineShielded ==
    RateLimitEnabled =>
        \A k \in Admitted :
            Cardinality({j \in Admitted : SharesWindow(j, k)}) <= Limit

\* A client that is refused for its rate has used it up itself: with calls that
\* carried the key and a readable body, never with calls answered 401.
RefusedForOwnCalls ==
    \A k \in Slot :
        call[k].status = 429 =>
            Cardinality({j \in Admitted : SharesWindow(j, k)}) >= Limit

\* The worker reads the hash twice, through two services with key functions of
\* their own: once for the verdict, once for the rules that explain it.  Unless
\* something came in between, a voice-phishing rule is never attached to a
\* score that is not CRITICAL.
EvidenceAgrees ==
    wk.flag # "none" /\ wk.untouched
    /\ wk.rules \intersect {"voice_phishing_remote_app", "stt_phishing_keyword"} # {}
    => wk.flag = "CRITICAL"
===============================================================================
