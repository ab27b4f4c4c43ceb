--------------------------- MODULE FeatureStoreSpec ---------------------------
(***************************************************************************)
(* What the feature store promises the decisions that read it: an event is *)
(* folded into the picture of its entity once, in one step, and nothing of *)
(* an earlier event is lost.  No commands, no gateways, no TTLs.           *)
(***************************************************************************)
EXTENDS EventMapper

CONSTANT Event \* the events that may be folded in

VARIABLES
    known,    \* the entities with a picture
    keywords, \* keywords[e]: phishing keywords heard
    app,      \* app[e]: 1 once a malicious app or a CRITICAL flag was reported
    sum       \* sum[e]: the transfer sum last reported

vars == <<known, keywords, app, sum>>

Init ==
    /\ known = {}
    /\ keywords = [e \in Entity |-> 0]
    /\ app = [e \in Entity |-> 0]
    /\ sum = [e \in Entity |-> "absent"]

\* An event that is not the end of a session.
Sync(ev) ==
    LET e == EntityKey(ev) IN
    /\ e # None
    /\ known' = known \union {e}
    /\ keywords' = [keywords EXCEPT ![e] = @ + ev.hits]
    /\ app' = IF ev.critical \/ ev.appActive THEN [app EXCEPT ![e] = 1] ELSE app
    /\ sum' = CASE ev.sum # "absent" -> [sum EXCEPT ![e] = ev.sum]
                [] ev.sum = "absent" /\ sum[e] = "absent" -> [sum EXCEPT ![e] = "number"]
                [] OTHER -> sum

\* The end of a session leaves what is known of the entity.
Finalize(ev) ==
    /\ EntityKey(ev) # None
    /\ known' = known \union {EntityKey(ev)}
    /\ UNCHANGED <<keywords, app, sum>>

Next == \E ev \in Event : Sync(ev) \/ Finalize(ev)

Spec == Init /\ [][Next]_vars
===============================================================================
