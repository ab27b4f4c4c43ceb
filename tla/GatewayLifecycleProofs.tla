------------------------ MODULE GatewayLifecycleProofs ------------------------
(***************************************************************************)
(* What holds of one gateway process for every setting, number of calls    *)
(* and fault budget: nothing runs on a closed client, a clean exit leaves  *)
(* nothing open, and the consumer group sees a WorkerProcess.              *)
(***************************************************************************)
EXTENDS GatewayLifecycle, TLAPS

\* From the end of the startup of a client to its close.
Wired == {"consumer_start", "producer_start", "serving", "join_worker", "join_lag",
          "consumer_stop", "producer_stop", "http_close", "sync_close", "ml_close", "store_close"}
Joined == {"producer_start", "serving", "join_worker", "join_lag", "consumer_stop"}
Producing == {"serving", "join_worker", "join_lag", "consumer_stop", "producer_stop"}

\* Which clients are open while lifespan waits.
OpenOK ==
    /\ at # "exited" =>
          /\ "store_redis" \in open <=> at \in Wired
          /\ "ml_http" \in open <=> at \in Wired \ {"store_close"}
          /\ "sync_redis" \in open <=>
                KafkaWorkerEnabled /\ at \in Wired \ {"ml_close", "store_close"}
          /\ "webhook_http" \in open <=>
                KafkaWorkerEnabled /\ at \in Wired \ {"sync_close", "ml_close", "store_close"}
          /\ "consumer" \in open <=> KafkaWorkerEnabled /\ at \in Joined
          /\ "producer" \in open <=> KafkaWorkerEnabled /\ at \in Producing
    /\ at \in {"consumer_start", "producer_start", "join_worker"} \union WorkerShutdown =>
          KafkaWorkerEnabled

\* The loop exists from the yield on, and is dead or cancelled when lifespan
\* has awaited it.
WorkerOK ==
    /\ at \in {"off"} \union Starting \/ ~KafkaWorkerEnabled => worker = "none"
    /\ at \in {"serving", "join_worker"} /\ KafkaWorkerEnabled =>
          worker \in {"polling", "handling", "dead"}
    /\ at \in WorkerShutdown => worker = "cancelled"
    /\ at \in {"ml_close", "store_close"} => worker \in {"none", "cancelled"}
    /\ at = "exited" => worker \in {"none", "dead", "cancelled"}

\* The lag report exists as long, and is done before the consumer is stopped.
LagOK ==
    /\ at \in {"off"} \union Starting \/ ~KafkaWorkerEnabled => lag = "none"
    /\ at \in Stopping \ {"join_worker", "join_lag"} => lag \in {"none", "done"}
    /\ lag \in {"end_offsets", "position"} => "consumer" \in open

CallsOK == calls > 0 => at = "serving"

LifecycleInv ==
    /\ LifecycleTypeOK
    /\ OpenOK
    /\ WorkerOK
    /\ LagOK
    /\ CallsOK
    /\ CleanExit

LEMMA InvariantSafe == LifecycleInv => NoUseAfterClose
<1> SUFFICES ASSUME LifecycleInv PROVE NoUseAfterClose
  OBVIOUS
<1> USE DEF LifecycleInv, LifecycleTypeOK, OpenOK, WorkerOK, LagOK, CallsOK, Point, Starting,
        Stopping, WorkerShutdown, Wired, Joined, Producing
<1>1. LoopRuns => KafkaWorkerEnabled /\ at \in {"serving", "join_worker"}
  BY DEF LoopRuns
<1>2. LoopRuns => Resource \subseteq open
  BY <1>1 DEF Resource
<1>3. calls > 0 => ScoringResources \subseteq open
  BY DEF ScoringResources
<1> QED
  BY <1>2, <1>3 DEF NoUseAfterClose, LoopRuns, HandlerResources, ScoringResources, Resource

-------------------------------------------------------------------------------
(* The invariant is inductive *)

\* The conjuncts that order the shutdown.
Ordered == OpenOK /\ WorkerOK /\ LagOK /\ CallsOK /\ CleanExit

LEMMA LifecycleInit == Init => LifecycleInv
<1> SUFFICES ASSUME Init PROVE LifecycleInv
  OBVIOUS
<1>1. LifecycleTypeOK
  BY DEF Init, LifecycleTypeOK, Point, NoHealth
<1>2. Ordered
  BY DEF Init, Ordered, OpenOK, WorkerOK, LagOK, CallsOK, CleanExit, LoopRuns, Wired, Joined,
         Producing, Starting, Stopping, WorkerShutdown
<1> QED BY <1>1, <1>2 DEF LifecycleInv, Ordered

LEMMA WireEffect ==
    ASSUME Wire
    PROVE  /\ at' = IF KafkaWorkerEnabled THEN "consumer_start" ELSE "serving"
           /\ open' = IF KafkaWorkerEnabled THEN Resource \ {"consumer", "producer"}
                      ELSE ScoringResources
           /\ grpc' \in {"none", "binding"}
           /\ worker' = worker /\ lag' = lag
BY LifecycleAssumption DEF Wire, ScoringResources, Resource

\* Both ways out of the first step of lifespan.
LEMMA LaunchEffect ==
    ASSUME Launch \/ CheckTriton
    PROVE  /\ at \in {"off", "triton_check"}
           /\ UNCHANGED <<calls, stopping, triton, left, health, fault>>
           /\ Wire \/ (at' \in {"triton_check", "exited"} /\ UNCHANGED <<open, tasks>>)
<1>1. CASE Launch
  <2>1. CASE TritonStartupCheck
    BY <1>1, <2>1, Zenon DEF Launch
  <2>2. CASE ~TritonStartupCheck
    BY <1>1, <2>2, Zenon DEF Launch
  <2> QED BY <2>1, <2>2
<1>2. CASE CheckTriton
  <2>1. CASE triton
    BY <1>2, <2>1, Zenon DEF CheckTriton
  <2>2. CASE ~triton
    BY <1>2, <2>2, Zenon DEF CheckTriton
  <2> QED BY <2>1, <2>2
<1> QED BY <1>1, <1>2

LEMMA LifecycleType ==
    ASSUME LifecycleTypeOK, [Next]_vars
    PROVE  LifecycleTypeOK'
<1> USE LifecycleAssumption DEF LifecycleTypeOK, Point, Starting, Stopping, WorkerShutdown, tasks
<1>0. CancelGrpc => grpc' \in {"none", "binding", "listening", "failed", "stopping", "stopped"}
  BY DEF CancelGrpc
<1>1. CASE Launch \/ CheckTriton
  <2>1. at' \in Point /\ open' \subseteq Resource /\ worker' = worker /\ lag' = lag
        /\ grpc' \in {"none", "binding", grpc}
    BY <1>1, LaunchEffect, WireEffect DEF ScoringResources, Resource
  <2> QED BY <1>1, <2>1, LaunchEffect
<1>3. CASE ConsumerStart
  BY <1>3 DEF ConsumerStart, Resource
<1>4. CASE ProducerStart
  BY <1>4 DEF ProducerStart, Resource
<1>5. CASE StartFails
  BY <1>5 DEF StartFails
<1>6. CASE StopFails
  BY <1>6 DEF StopFails
<1>7. CASE Accept
  BY <1>7 DEF Accept
<1>8. CASE Answer
  BY <1>8 DEF Answer
<1>9. CASE Terminate
  BY <1>9 DEF Terminate
<1>10. CASE TritonChanges
  BY <1>10 DEF TritonChanges
<1>11. CASE Health
  BY <1>11 DEF Health, LoopRuns
<1>12. CASE WorkerTakes
  BY <1>12 DEF WorkerTakes
<1>13. CASE WorkerReturns
  BY <1>13 DEF WorkerReturns
<1>14. CASE WorkerDies
  BY <1>14 DEF WorkerDies
<1>15. CASE LagReport
  BY <1>15 DEF LagReport, LagStep
<1>16. CASE GrpcServe
  BY <1>16 DEF GrpcServe, GrpcStep
<1>17. CASE BeginShutdown
  BY <1>0, <1>17 DEF BeginShutdown, Drained
<1>18. CASE JoinWorker
  BY <1>18 DEF JoinWorker
<1>19. CASE JoinLag
  BY <1>19 DEF JoinLag
<1>20. CASE ConsumerStop
  BY <1>20 DEF ConsumerStop, Close
<1>21. CASE ProducerStop
  BY <1>21 DEF ProducerStop, Close
<1>22. CASE HttpClose
  BY <1>22 DEF HttpClose, Close
<1>23. CASE SyncClose
  BY <1>0, <1>23 DEF SyncClose, Close
<1>24. CASE MlClose
  BY <1>24 DEF MlClose, Close
<1>25. CASE StoreClose
  BY <1>25 DEF StoreClose, Close
<1>26. CASE Exit
  BY <1>26 DEF Exit, Gone, NoHealth
<1>27. CASE Kill
  BY <1>27 DEF Kill, Gone, NoHealth
<1>28. CASE UNCHANGED vars
  BY <1>28 DEF vars
<1> QED
  BY <1>1, <1>3, <1>4, <1>5, <1>6, <1>7, <1>8, <1>9, <1>10, <1>11, <1>12, <1>13, <1>14, <1>15, <1>16,
     <1>17, <1>18, <1>19, <1>20, <1>21, <1>22, <1>23, <1>24, <1>25, <1>26, <1>27, <1>28 DEF Next, Lifespan, Tasks

LEMMA OrderedNext ==
    ASSUME LifecycleInv, [Next]_vars
    PROVE  Ordered'
<1> USE LifecycleAssumption
    DEF LifecycleInv, LifecycleTypeOK, Ordered, OpenOK, WorkerOK, LagOK, CallsOK, CleanExit, LoopRuns,
        Wired, Joined, Producing, Point, Starting, Stopping, WorkerShutdown, tasks
<1>1. CASE Launch \/ CheckTriton
  <2>1. CASE Wire
    BY <1>1, <2>1, LaunchEffect, WireEffect DEF ScoringResources, Resource
  <2>2. CASE at' \in {"triton_check", "exited"} /\ UNCHANGED <<open, tasks>>
    BY <1>1, <2>2, LaunchEffect DEF Resource
  <2> QED BY <1>1, <2>1, <2>2, LaunchEffect
<1>3. CASE ConsumerStart
  BY <1>3 DEF ConsumerStart
<1>4. CASE ProducerStart
  BY <1>4 DEF ProducerStart
<1>5. CASE StartFails
  BY <1>5 DEF StartFails
<1>6. CASE StopFails
  BY <1>6 DEF StopFails
<1>7. CASE Accept \/ Answer
  BY <1>7 DEF Accept, Answer
<1>8. CASE Health \/ Terminate \/ TritonChanges
  BY <1>8 DEF Health, Terminate, TritonChanges
<1>9. CASE WorkerTakes \/ WorkerReturns
  BY <1>9 DEF WorkerTakes, WorkerReturns, Alive
<1>10. CASE WorkerDies
  BY <1>10 DEF WorkerDies, Alive
<1>11. CASE LagReport
  <2>1. /\ UNCHANGED <<at, open, worker, calls, fault>>
        /\ at \notin {"off", "exited", "join_lag"}
    BY <1>11 DEF LagReport, LagStep
  <2>2. /\ lag \in {"asleep", "end_offsets", "position"}
        /\ lag' \in {"asleep", "end_offsets", "position", "done"}
    BY <1>11 DEF LagReport, LagStep
  <2>3. KafkaWorkerEnabled /\ at \in {"serving", "join_worker"}
    BY <2>1, <2>2
  <2> QED BY <2>1, <2>2, <2>3
<1>12. CASE GrpcServe
  BY <1>12 DEF GrpcServe, GrpcStep
<1>13. CASE BeginShutdown
  <2>1. /\ at = "serving" /\ calls = 0
        /\ at' = IF KafkaWorkerEnabled THEN "join_worker" ELSE "ml_close"
        /\ UNCHANGED <<open, worker, lag, calls, fault>>
    BY <1>13 DEF BeginShutdown, Drained
  <2> QED BY <2>1
<1>14. CASE JoinWorker
  BY <1>14 DEF JoinWorker
<1>15. CASE JoinLag
  BY <1>15 DEF JoinLag
<1>16. CASE ConsumerStop
  BY <1>16 DEF ConsumerStop, Close
<1>17. CASE ProducerStop
  BY <1>17 DEF ProducerStop, Close
<1>18. CASE HttpClose
  BY <1>18 DEF HttpClose, Close
<1>19. CASE SyncClose
  BY <1>19 DEF SyncClose, Close
<1>20. CASE MlClose
  BY <1>20 DEF MlClose, Close
<1>21. CASE StoreClose
  BY <1>21 DEF StoreClose, Close, Resource
<1>22. CASE Exit \/ Kill
  BY <1>22 DEF Exit, Kill, Gone
<1>23. CASE UNCHANGED vars
  BY <1>23 DEF vars
<1> QED
  BY <1>1, <1>3, <1>4, <1>5, <1>6, <1>7, <1>8, <1>9, <1>10, <1>11, <1>12, <1>13, <1>14, <1>15, <1>16,
     <1>17, <1>18, <1>19, <1>20, <1>21, <1>22, <1>23 DEF Next, Lifespan, Tasks


LEMMA LifecycleNext ==
    ASSUME LifecycleInv, [Next]_vars
    PROVE  LifecycleInv'
BY LifecycleType, OrderedNext DEF LifecycleInv, Ordered

LEMMA LifecycleInvariant == Spec => []LifecycleInv
BY LifecycleInit, LifecycleNext, PTL DEF Spec

\* Type correctness of the process, its tasks and its clients.
THEOREM LifecycleTypeCorrect == Spec => []LifecycleTypeOK
<1>1. LifecycleInv => LifecycleTypeOK
  BY DEF LifecycleInv
<1> QED BY <1>1, LifecycleInvariant, PTL

\* Whatever is started, fails or dies, in whatever order lifespan, the loop, the
\* lag report and the calls are resumed: nobody uses a client that lifespan
\* has not opened yet or has closed already.
THEOREM NothingUsedAfterClose == Spec => []NoUseAfterClose
BY InvariantSafe, LifecycleInvariant, PTL

\* If the loop was alive at the shutdown and no start or close call failed,
\* lifespan leaves nothing open and nothing running.
THEOREM ExitIsClean == Spec => []CleanExit
<1>1. LifecycleInv => CleanExit
  BY DEF LifecycleInv
<1> QED BY <1>1, LifecycleInvariant, PTL

-------------------------------------------------------------------------------
(* The process implements WorkerProcess *)

\* The steps that neither touch the consumer nor end the loop.
LEMMA GroupSame ==
    ASSUME UNCHANGED left, "consumer" \in open' <=> "consumer" \in open,
           worker' = "dead" <=> worker = "dead"
    PROVE  UNCHANGED <<GroupState, left>>
BY DEF GroupState

LEMMA GroupStep ==
    ASSUME LifecycleInv, [Next]_vars
    PROVE  [Group!Next]_<<GroupState, left>>
<1> USE DEF tasks
<1> DEFINE Same == /\ UNCHANGED left
                   /\ "consumer" \in open' <=> "consumer" \in open
                   /\ worker' = "dead" <=> worker = "dead"
<1>0. Same => UNCHANGED <<GroupState, left>>
  BY GroupSame
<1>1. CASE Launch \/ CheckTriton
  <2>1. "consumer" \notin open
    BY <1>1, LaunchEffect DEF LifecycleInv, OpenOK, Joined
  <2>2. "consumer" \notin open'
    BY <1>1, <2>1, LaunchEffect, WireEffect DEF ScoringResources
  <2>3. UNCHANGED <<worker, left>>
    BY <1>1, LaunchEffect, WireEffect
  <2> QED BY <1>0, <2>1, <2>2, <2>3
<1>2. CASE ConsumerStart
  <2>1. "consumer" \notin open /\ worker = "none"
    BY <1>2 DEF ConsumerStart, LifecycleInv, OpenOK, WorkerOK, Joined, Starting
  <2>2. Group!Join
    BY <1>2, <2>1 DEF ConsumerStart, Group!Join, GroupState
  <2> QED BY <2>2 DEF Group!Next
<1>3. CASE ProducerStart
  <2>1. worker = "none"
    BY <1>3 DEF ProducerStart, LifecycleInv, WorkerOK, Starting
  <2> QED BY <1>0, <1>3, <2>1 DEF ProducerStart
<1>4. CASE WorkerDies
  <2>1. "consumer" \in open /\ worker # "dead"
    BY <1>4, InvariantSafe DEF WorkerDies, LoopRuns, NoUseAfterClose, LifecycleInv, LifecycleTypeOK, WorkerOK,
       OpenOK, Joined, Starting, WorkerShutdown, Stopping, Point
  <2>2. Group!LoopDies
    BY <1>4, <2>1 DEF WorkerDies, Group!LoopDies, GroupState
  <2> QED BY <2>2 DEF Group!Next
<1>5. CASE JoinWorker
  BY <1>0, <1>5 DEF JoinWorker, LoopRuns
<1>6. CASE ConsumerStop
  <2>1. "consumer" \in open /\ worker = "cancelled"
    BY <1>6 DEF ConsumerStop, Close, LifecycleInv, OpenOK, WorkerOK, Joined, WorkerShutdown
  <2>2. Group!Leave
    BY <1>6, <2>1 DEF ConsumerStop, Close, Group!Leave, GroupState
  <2> QED BY <2>2 DEF Group!Next
<1>7. CASE ProducerStop \/ HttpClose \/ SyncClose \/ MlClose \/ StoreClose
  BY <1>0, <1>7 DEF ProducerStop, HttpClose, SyncClose, MlClose, StoreClose, Close
<1>8. CASE Exit \/ Kill
  <2>1. open' = {} /\ left' = IF "consumer" \in open THEN "silent" ELSE left
    BY <1>8 DEF Exit, Kill, Gone
  <2>2. CASE "consumer" \in open
    <3>1. Group!Vanish
      BY <2>1, <2>2 DEF Group!Vanish, GroupState
    <3> QED BY <3>1 DEF Group!Next
  <2>3. CASE "consumer" \notin open
    BY <2>1, <2>3 DEF GroupState
  <2> QED BY <2>2, <2>3
<1>9. CASE StartFails \/ StopFails \/ Accept \/ Answer \/ Health \/ Terminate \/ TritonChanges
  BY <1>0, <1>9 DEF StartFails, StopFails, Accept, Answer, Health, Terminate, TritonChanges
<1>10. CASE WorkerTakes \/ WorkerReturns \/ LagReport \/ GrpcServe
  BY <1>0, <1>10 DEF WorkerTakes, WorkerReturns, LagReport, LagStep, GrpcServe, GrpcStep
<1>11. CASE BeginShutdown \/ JoinLag \/ UNCHANGED vars
  BY <1>0, <1>11 DEF BeginShutdown, JoinLag, vars
<1> QED
  BY <1>1, <1>2, <1>3, <1>4, <1>5, <1>6, <1>7, <1>8, <1>9, <1>10, <1>11 DEF Next, Lifespan, Tasks

\* To the consumer group the process is a WorkerProcess: it is a member from
\* the start of the consumer on, and its positions are committed on leaving
\* exactly if the loop was alive until it was cancelled.  Failed starts and
\* closes, a dead loop and a killed process all look like a member that is
\* gone without a commit.
THEOREM ImplementsWorkerProcess == Spec => IsWorkerProcess
<1>1. Init => Group!Init
  BY DEF Init, Group!Init, GroupState
<1>2. LifecycleInv /\ [Next]_vars => [Group!Next]_<<GroupState, left>>
  BY GroupStep
<1> QED
  BY <1>1, <1>2, LifecycleInvariant, PTL DEF Spec, IsWorkerProcess, Group!Spec
===============================================================================
