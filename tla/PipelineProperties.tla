-------------------------- MODULE PipelineProperties --------------------------
(***************************************************************************)
(* Properties of FdsEventPipeline that count, compare orders or speak of   *)
(* the future.                                                             *)
(***************************************************************************)
EXTENDS FeatureStoreRefinement, FiniteSetsExt

Restarts == fault["crash"] + fault["stop"] + fault["rebalance"]

\* How often an event was sent to the actions topic.
ActionsFor(r) == Cardinality({i \in DOMAIN actions : actions[i].ref = r})

\* The price of at-least-once delivery is bounded: an event gets one action,
\* plus at most one per restart or rebalance that can hand it out again and
\* per lost acknowledgement.
DuplicatesBounded ==
    \A r \in Ref : ActionsFor(r) <= 1 + Restarts + fault["kafka"]

\* A single writer: one gateway, no PUT so far, no key expired so far.
SingleWriter ==
    /\ \A g, h \in Gateway : g = h
    /\ fault["expiry"] = 0
    /\ fault["upsert"] = 0

\* The CRITICAL events that were let through or only announced.
Softened ==
    {r \in Relayed : /\ EventAt(r).critical
                     /\ \E i \in DOMAIN actions :
                           actions[i].ref = r /\ actions[i].action # "BLOCK"}

\* An event the relay flags CRITICAL ends in BLOCK, although the flag reaches
\* the decision only through Redis: sync_from_event writes
\* malicious_app_active = 1 and the scoring request reads it back.  With one
\* gateway, a key that expires or a PUT in between costs one event its BLOCK,
\* never a later one.
CriticalBlocked ==
    (\A g, h \in Gateway : g = h) =>
        Cardinality(Softened) <= fault["expiry"] + fault["upsert"]

\* The keyword count survives crashes, replays and failed calls without
\* undercounting: it is at least the sum over the events handled to their end.
KeywordsNotUndercounted ==
    SingleWriter =>
        \A e \in Entity :
            LET handled == {r \in Relayed : outcome[r] \in {"scored", "quiet"} /\ EntityKey(EventAt(r)) = e}
            IN  store[e].kw >= MapThenSumSet(LAMBDA r : EventAt(r).hits, handled)

\* The hashes without a TTL that no worker is about to give one.
Undying ==
    {e \in Entity : /\ store[e].live /\ store[e].ttl = "none"
                    /\ \A g \in Gateway : pc[g] \in {"sync_expire", "fin_expire"} => Key(g) # e}

\* HSET and EXPIRE are two commands, here, in finalize_session and in the PUT.
\* Whatever comes between them, a failed call, a lost worker or a PUT leaves at
\* most one hash that would never expire.
UndyingBounded ==
    Cardinality(Undying) <=
        fault["crash"] + fault["stop"] + fault["redis"] + fault["upsert"]

Handled == {"scored", "quiet", "ended"}

\* The group will hand out r, for the first time or again.
ComesAgain(r) ==
    IF owner[r.p] # None THEN position[r.p] <= r.o
    ELSE committed[r.p] # NoOffset /\ committed[r.p] <= r.o

\* A worker has r or a newer record of session s in hand, and the write of the
\* session hash before it.
BeingWritten(s, r) ==
    \E g \in Gateway :
        /\ pc[g] \in {"sync_read", "sync_hset", "sync_expire", "enrich",
                      "fin_hset", "fin_expire", "fin_enrich"}
        /\ Cur(g).session = s /\ cur[g].o >= r.o

\* The sessions whose hash shows an older event than one that was handled, with
\* nothing under way that would bring it up to date.
StaleSessions ==
    {s \in Session \ {None} :
        \E r \in Relayed :
            /\ EventAt(r).session = s /\ outcome[r] \in Handled
            /\ session[s] = None \/ session[s].o < r.o
            /\ ~ComesAgain(r) /\ ~BeingWritten(s, r)}

\* The session hash is overwritten by whatever event is handled last.  Replays
\* and gateways that work on the records of a partition they have lost put older
\* events over newer ones, but most replays come forward to the newest again: a
\* restart, a rebalance or a failed Redis call leaves at most one session behind.
StaleSessionsBounded == Cardinality(StaleSessions) <= Restarts + fault["redis"]

\* The urgent events nobody will look at again: passed, in nobody's hand, neither
\* decided nor in the DLQ, and not from before the group's first offset.
Abandoned ==
    {r \in Relayed :
        LET ev == EventAt(r) IN
        /\ ev.form = "valid" /\ EntityKey(ev) # None
        /\ ev.type # "SESSION_ENDED" /\ Urgent(ev)
        /\ r.o < committed[r.p] \/ r.o < position[r.p]
        /\ outcome[r] # "skipped" /\ ~InFlight(r)
        /\ ~InActions(r) /\ ~InDlq(r)}

\* Auto-commit, a shutdown that cancels the handler and then commits, and a DLQ
\* send that fails each lose the record in hand.  With a DLQ they lose no other:
\* no urgent event is lost that a crash, a stop or a failed send does not pay for.
LossesBounded ==
    DlqEnabled =>
        Cardinality(Abandoned) <= fault["crash"] + fault["stop"] + fault["kafka"]

\* The STT partial events of r's entity up to r since its last session end,
\* as the log has them from where the consumer group began to read.
SttSoFar(r) ==
    LET same(o) == /\ log[r.p][o].form = "valid"
                   /\ outcome[[p |-> r.p, o |-> o]] # "skipped"
                   /\ EntityKey(log[r.p][o]) = EntityKey(EventAt(r))
        ends == {o \in 1..(r.o - 1) : same(o) /\ log[r.p][o].type = "SESSION_ENDED"}
    IN  Cardinality({o \in 1..r.o : /\ same(o) /\ log[r.p][o].type = "STT_PARTIAL"
                                    /\ \A b \in ends : b < o})

\* With every record in one partition and nothing lost, the in-memory counter
\* gives the cadence the log implies: an STT partial event that is not urgent
\* is scored exactly if it is a multiple of score_on_stt_every_n in its entity's
\* call.
CadenceMatchesLog ==
    \A r \in Relayed :
        LET ev == EventAt(r) IN
        /\ Restarts + fault["redis"] = 0
        /\ ev.form = "valid" /\ ev.type = "STT_PARTIAL" /\ ~Urgent(ev)
        => /\ outcome[r] = "scored" => ScoreEveryN > 0 /\ SttSoFar(r) % ScoreEveryN = 0
           /\ outcome[r] = "quiet" => ScoreEveryN = 0 \/ SttSoFar(r) % ScoreEveryN # 0

\* No worker loop is running, or the partition is stuck with a dead one.
Stalled(p) ==
    \/ \A g \in Gateway : pc[g] \in {"dead", "down"}
    \/ owner[p] # None /\ pc[owner[p]] = "dead"

\* Every relayed record is handled to some end, unless the loop that has it is
\* no longer running.
EventuallySettled ==
    \A r \in Ref : r \in Relayed ~> outcome[r] # "none" \/ Stalled(r.p)

-------------------------------------------------------------------------------
(* What the repository says and the code does not do *)

\* docs/RUNNING.md:101 sends what cannot be parsed to the DLQ.
ParseFailureReachesDlq ==
    \A r \in Relayed :
        /\ DlqEnabled
        /\ EventAt(r).form # "valid"
        /\ outcome[r] \notin {"none", "lost", "skipped"}
        => InDlq(r)

\* constants/schema_constants.py:29 makes the session key a temporary one that
\* is merged into the user key: once an event of a call has the user, after one
\* that had not, the user's hash holds the keyword hits of both.
SessionMergedIntoUser ==
    \A q, r \in Relayed :
        LET before == EventAt(q)
            known == EventAt(r)
        IN  /\ SingleWriter /\ Restarts = 0
            /\ q.o < r.o /\ {outcome[q], outcome[r]} \subseteq {"scored", "quiet"}
            /\ before.session = known.session /\ before.session # None
            /\ before.user = None /\ known.user # None
            => store[known.user].kw >= before.hits + known.hits
===============================================================================
