----------------------------- MODULE WorkerProcess -----------------------------
(***************************************************************************)
(* What the consumer group sees of one gateway process, and what the       *)
(* actions Start, Stop and Crash of FdsEventPipeline assume of it: it      *)
(* joins, its loop may die while the process stays a member, and it leaves *)
(* with a final commit only if the loop was alive until it was cancelled.  *)
(***************************************************************************)

VARIABLES
    state, \* "down", "up": a member with a live loop, "dead": one without
    left   \* how the process last left the group

Init == state = "down" /\ left = "never"

Join ==
    /\ state = "down"
    /\ state' = "up"
    /\ UNCHANGED left

LoopDies ==
    /\ state = "up"
    /\ state' = "dead"
    /\ UNCHANGED left

\* consumer.stop: commit, then leave.
Leave ==
    /\ state = "up"
    /\ state' = "down"
    /\ left' = "committed"

\* The member is gone without a word; the group notices by its heartbeats.
Vanish ==
    /\ state \in {"up", "dead"}
    /\ state' = "down"
    /\ left' = "silent"

Next == Join \/ LoopDies \/ Leave \/ Vanish

Spec == Init /\ [][Next]_<<state, left>>
===============================================================================
