----------------------------- MODULE FeatureHash -----------------------------
(***************************************************************************)
(* One Redis hash of the feature store, fds:feature:{entity}, and what     *)
(* each command the gateway sends does to it.  FeatureStoreSyncService and *)
(* FeatureStoreService write the same hashes; HSET changes the named       *)
(* fields and keeps the TTL, EXPIRE changes the TTL of a key that exists.  *)
(*                                                                         *)
(* transfer_sum_30m is the str() of whatever the event's metadata held, so *)
(* it is abstracted to whether float() can read it back.  last_stt_text,   *)
(* call_direction, campaign_id, session_status and termination_reason are  *)
(* written and never read by a decision, and are left out.                 *)
(***************************************************************************)
EXTENDS EventMapper

Sum == {"absent", "number", "garbage"}
Ttl == {"none", "full", "end"}   \* no TTL; TTL_SECONDS; SESSION_END_TTL_SECONDS

Hash == [live : BOOLEAN, kw : Int, app : Int, sum : Sum, ttl : Ttl]

Missing == [live |-> FALSE, kw |-> 0, app |-> 0, sum |-> "absent", ttl |-> "none"]

SyncedKw_Overwrite(seen, ev) == IF ev.hits > 0 THEN ev.hits ELSE seen.kw

SyncedKw(seen, ev) == seen.kw + ev.hits

SyncedApp_NoCritical(seen, ev) == IF ev.appActive THEN 1 ELSE seen.app

SyncedApp(seen, ev) == IF ev.appActive \/ ev.critical THEN 1 ELSE seen.app

SyncedSum(seen, ev) ==
    IF ev.sum # "absent" THEN ev.sum
    ELSE IF seen.sum # "absent" THEN seen.sum ELSE "number"

\* The HSET of sync_from_event: computed from the hash as it was read (seen),
\* it lands on the hash as it is now (h).
Synced(h, seen, ev) ==
    [h EXCEPT !.live = TRUE,
              !.kw = SyncedKw(seen, ev),
              !.app = SyncedApp(seen, ev),
              !.sum = SyncedSum(seen, ev)]

\* The HSET of finalize_session: only fields no decision reads.
Finalized(h) == [h EXCEPT !.live = TRUE]

\* The HSET of upsert_context_features: the fields the PUT body carries, which
\* may be last_stt_text alone.
Upserted(h, body) ==
    [h EXCEPT !.live = TRUE,
              !.kw = IF body.kw = None THEN @ ELSE body.kw,
              !.app = IF body.app = None THEN @ ELSE body.app,
              !.sum = IF body.sum THEN "number" ELSE @]

PutBody == [kw : Int \union {None}, app : Int \union {None}, sum : BOOLEAN]

WithTtl_OnlyExisting(h, ttl) == IF h.live /\ h.ttl # "none" THEN [h EXCEPT !.ttl = ttl] ELSE h

WithTtl(h, ttl) == IF h.live THEN [h EXCEPT !.ttl = ttl] ELSE h

\* get_context_features raises on a live hash whose sum float() cannot read.
Unreadable(h) == h.live /\ h.sum = "garbage"
===============================================================================
