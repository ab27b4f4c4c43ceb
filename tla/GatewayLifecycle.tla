--------------------------- MODULE GatewayLifecycle ---------------------------
(***************************************************************************)
(* One gateway process from launch to exit: lifespan with the worker's     *)
(* startup and shutdown, the tasks it creates (worker loop, lag report,    *)
(* gRPC server), the REST calls it serves, and the health endpoint.        *)
(*                                                                         *)
(* at is the await lifespan waits in; what runs until the next await is in *)
(* the same action.  Creating a Redis or HTTP client does no I/O and is    *)
(* not awaited on.  The worker loop is reduced to what it uses:            *)
(* FdsEventPipeline has its steps.                                         *)
(***************************************************************************)
EXTENDS Integers

CONSTANTS TritonStartupCheck, \* settings.triton_startup_check
          KafkaWorkerEnabled, \* settings.kafka_worker_enabled
          GrpcEnabled,        \* settings.grpc_enabled
          MaxCalls,           \* bound: REST calls at the same time
          MaxFault            \* bound: failing start and stop calls

ASSUME LifecycleAssumption ==
    /\ TritonStartupCheck \in BOOLEAN
    /\ KafkaWorkerEnabled \in BOOLEAN
    /\ GrpcEnabled \in BOOLEAN
    /\ MaxCalls \in Nat
    /\ MaxFault \in Nat

Starting == {"triton_check", "consumer_start", "producer_start"}
WorkerShutdown == {"join_lag", "consumer_stop", "producer_stop", "http_close", "sync_close"}
Stopping == {"join_worker"} \union WorkerShutdown \union {"ml_close", "store_close"}
Point == {"off", "serving", "exited"} \union Starting \union Stopping

Resource == {"store_redis", "ml_http", "sync_redis", "webhook_http", "consumer", "producer"}

\* What a record in hand and a scoring call use.
ScoringResources == {"store_redis", "ml_http"}
HandlerResources == ScoringResources \union {"sync_redis", "webhook_http", "producer"}

VARIABLES
    at,       \* where lifespan waits
    open,     \* the clients that are open
    worker,   \* the task of run_forever
    lag,      \* the task of _report_lag_loop
    grpc,     \* the task of start_grpc_server
    calls,    \* REST calls in hand
    stopping, \* the server was told to stop
    triton,   \* environment: Triton is ready
    left,     \* history: how the process last left the consumer group
    health,   \* history: the last answer of /health, and whether the loop ran
    fault     \* history: start and stop calls that failed in this process

tasks == <<worker, lag, grpc>>
vars == <<at, open, tasks, calls, stopping, triton, left, health, fault>>

NoHealth == [status |-> "none", pipeline |-> FALSE, loop |-> FALSE]
LoopRuns == worker \in {"polling", "handling"}

Init ==
    /\ at = "off"
    /\ open = {}
    /\ worker = "none" /\ lag = "none" /\ grpc = "none"
    /\ calls = 0
    /\ stopping = FALSE
    /\ triton \in BOOLEAN
    /\ left = "never"
    /\ health = NoHealth
    /\ fault = 0

-------------------------------------------------------------------------------
(* Startup *)

\* From the first line after the Triton check to the next await or the yield.
Wire ==
    /\ open' = ScoringResources \union
               (IF KafkaWorkerEnabled THEN {"sync_redis", "webhook_http"} ELSE {})
    /\ grpc' = IF GrpcEnabled THEN "binding" ELSE "none"
    /\ at' = IF KafkaWorkerEnabled THEN "consumer_start" ELSE "serving"
    /\ UNCHANGED <<worker, lag>>

Launch ==
    /\ at = "off"
    /\ IF TritonStartupCheck
       THEN at' = "triton_check" /\ UNCHANGED <<open, tasks>>
       ELSE Wire
    /\ UNCHANGED <<calls, stopping, triton, left, health, fault>>

CheckTriton ==
    /\ at = "triton_check"
    /\ IF triton
       THEN Wire
       ELSE at' = "exited" /\ UNCHANGED <<open, tasks>>
    /\ UNCHANGED <<calls, stopping, triton, left, health, fault>>

ConsumerStart ==
    /\ at = "consumer_start"
    /\ at' = "producer_start"
    /\ open' = open \union {"consumer"}
    /\ UNCHANGED <<tasks, calls, stopping, triton, left, health, fault>>

\* The end of the worker's startup, its task, and the yield.
ProducerStart ==
    /\ at = "producer_start"
    /\ at' = "serving"
    /\ open' = open \union {"producer"}
    /\ lag' = "asleep"
    /\ worker' = "polling"
    /\ UNCHANGED <<grpc, calls, stopping, triton, left, health, fault>>

\* consumer.start or producer.start raises: lifespan ends, nothing is closed.
StartFails ==
    /\ at \in {"consumer_start", "producer_start"}
    /\ fault < MaxFault
    /\ fault' = fault + 1
    /\ at' = "exited"
    /\ UNCHANGED <<open, tasks, calls, stopping, triton, left, health>>

-------------------------------------------------------------------------------
(* Between startup and shutdown *)

\* The server accepts calls until it is told to stop.
Accept ==
    /\ at = "serving" /\ ~stopping
    /\ calls < MaxCalls
    /\ calls' = calls + 1
    /\ UNCHANGED <<at, open, tasks, stopping, triton, left, health, fault>>

Answer ==
    /\ calls > 0
    /\ calls' = calls - 1
    /\ UNCHANGED <<at, open, tasks, stopping, triton, left, health, fault>>

Health ==
    /\ at = "serving" /\ ~stopping
    /\ health' = [status |-> IF triton THEN "UP" ELSE "DEGRADED",
                  pipeline |-> KafkaWorkerEnabled,
                  loop |-> LoopRuns]
    /\ UNCHANGED <<at, open, tasks, calls, stopping, triton, left, fault>>

\* The loop takes a record, ends with it, or ends with an exception.  Nothing
\* of it runs any more when lifespan awaits the cancelled task or has ended.
Alive == at \notin {"off", "exited", "join_worker"}

WorkerTakes ==
    /\ Alive /\ worker = "polling"
    /\ worker' = "handling"
    /\ UNCHANGED <<at, open, lag, grpc, calls, stopping, triton, left, health, fault>>

WorkerReturns ==
    /\ Alive /\ worker = "handling"
    /\ worker' = "polling"
    /\ UNCHANGED <<at, open, lag, grpc, calls, stopping, triton, left, health, fault>>

WorkerDies ==
    /\ Alive /\ LoopRuns
    /\ worker' = "dead"
    /\ UNCHANGED <<at, open, lag, grpc, calls, stopping, triton, left, health, fault>>

\* _report_lag_loop: end_offsets and position are awaited on the consumer; any
\* error of theirs, and an empty assignment, lead to the sleep.  shutdown sets
\* _running to False before it cancels the task.
Running == at \notin WorkerShutdown

LagStep(from, to) ==
    /\ at \notin {"off", "exited", "join_lag"}
    /\ lag = from
    /\ lag' = to
    /\ UNCHANGED <<at, open, worker, grpc, calls, stopping, triton, left, health, fault>>

LagReport_Unguarded ==
    \/ LagStep("asleep", IF Running THEN "end_offsets" ELSE "done")
    \/ LagStep("end_offsets", "position")
    \/ LagStep("end_offsets", "failed")
    \/ LagStep("position", "asleep")

LagReport ==
    \/ LagStep("asleep", IF Running THEN "end_offsets" ELSE "done")
    \/ LagStep("end_offsets", "position")
    \/ LagStep("end_offsets", "asleep")
    \/ LagStep("position", "asleep")

\* The gRPC task: bind and serve, or end with an exception nobody reads; once
\* cancelled it stops its server, which takes up to the grace period.
GrpcStep(from, to) ==
    /\ at \notin {"off", "exited"}
    /\ grpc = from
    /\ grpc' = to
    /\ UNCHANGED <<at, open, worker, lag, calls, stopping, triton, left, health, fault>>

GrpcServe ==
    \/ GrpcStep("binding", "listening")
    \/ GrpcStep("binding", "failed")
    \/ GrpcStep("stopping", "stopped")

TritonChanges ==
    /\ triton' = ~triton
    /\ UNCHANGED <<at, open, tasks, calls, stopping, left, health, fault>>

-------------------------------------------------------------------------------
(* Shutdown *)

Terminate ==
    /\ at = "serving" /\ ~stopping
    /\ stopping' = TRUE
    /\ UNCHANGED <<at, open, tasks, calls, triton, left, health, fault>>

\* grpc_task.cancel: the task is not awaited.
CancelGrpc ==
    grpc' = CASE grpc = "listening" -> "stopping"
              [] grpc = "binding" -> "stopped"
              [] OTHER -> grpc

Drained == at = "serving" /\ stopping /\ calls = 0

BeginShutdown_NoCancel ==
    /\ Drained
    /\ at' = IF KafkaWorkerEnabled THEN "join_lag" ELSE "ml_close"
    /\ UNCHANGED <<open, tasks, calls, stopping, triton, left, health, fault>>

\* After the last call: the worker task is cancelled and awaited.
BeginShutdown ==
    /\ Drained
    /\ IF KafkaWorkerEnabled
       THEN at' = "join_worker" /\ UNCHANGED grpc
       ELSE at' = "ml_close" /\ CancelGrpc
    /\ UNCHANGED <<open, worker, lag, calls, stopping, triton, left, health, fault>>

JoinWorker_Uncancelled ==
    /\ at = "join_worker"
    /\ ~LoopRuns
    /\ at' = "exited"
    /\ UNCHANGED <<open, tasks, calls, stopping, triton, left, health, fault>>

JoinWorker_AnyException ==
    /\ at = "join_worker"
    /\ at' = "join_lag"
    /\ worker' = IF LoopRuns THEN "cancelled" ELSE worker
    /\ UNCHANGED <<open, lag, grpc, calls, stopping, triton, left, health, fault>>

\* The cancelled loop ends wherever it waits; a dead one raises here what it
\* died of, and lifespan ends with it.
JoinWorker ==
    /\ at = "join_worker"
    /\ IF LoopRuns
       THEN at' = "join_lag" /\ worker' = "cancelled"
       ELSE at' = "exited" /\ UNCHANGED worker
    /\ UNCHANGED <<open, lag, grpc, calls, stopping, triton, left, health, fault>>

JoinLag ==
    /\ at = "join_lag"
    /\ at' = "consumer_stop"
    /\ lag' = "done"
    /\ UNCHANGED <<open, worker, grpc, calls, stopping, triton, left, health, fault>>

\* One awaited close after the other.
Close(from, resource, to) ==
    /\ at = from
    /\ open' = open \ {resource}
    /\ at' = to
    /\ UNCHANGED <<worker, lag, calls, stopping, triton, health, fault>>

\* The consumer commits its positions and leaves the group.
ConsumerStop ==
    /\ Close("consumer_stop", "consumer", "producer_stop")
    /\ left' = "committed"
    /\ UNCHANGED grpc

ProducerStop == Close("producer_stop", "producer", "http_close") /\ UNCHANGED <<left, grpc>>
HttpClose == Close("http_close", "webhook_http", "sync_close") /\ UNCHANGED <<left, grpc>>
SyncClose == Close("sync_close", "sync_redis", "ml_close") /\ UNCHANGED left /\ CancelGrpc
MlClose == Close("ml_close", "ml_http", "store_close") /\ UNCHANGED <<left, grpc>>

StoreClose_Forgotten ==
    /\ at = "store_close"
    /\ at' = "exited"
    /\ UNCHANGED <<open, tasks, calls, stopping, triton, left, health, fault>>

StoreClose == Close("store_close", "store_redis", "exited") /\ UNCHANGED <<left, grpc>>

\* A close raises: lifespan ends, the rest stays open.
StopFails ==
    /\ at \in {"consumer_stop", "producer_stop", "http_close", "sync_close", "ml_close",
               "store_close"}
    /\ fault < MaxFault
    /\ fault' = fault + 1
    /\ at' = "exited"
    /\ UNCHANGED <<open, tasks, calls, stopping, triton, left, health>>

-------------------------------------------------------------------------------
(* The end of the process *)

Gone ==
    /\ at' = "off"
    /\ open' = {}
    /\ worker' = "none" /\ lag' = "none" /\ grpc' = "none"
    /\ calls' = 0
    /\ stopping' = FALSE
    /\ left' = IF "consumer" \in open THEN "silent" ELSE left
    /\ health' = NoHealth
    /\ fault' = 0
    /\ UNCHANGED triton

\* After lifespan the event loop is closed, whatever tasks it still has.
Exit == at = "exited" /\ Gone

Kill == at \notin {"off", "exited"} /\ Gone

Lifespan ==
    \/ CheckTriton \/ ConsumerStart \/ ProducerStart
    \/ BeginShutdown \/ JoinWorker \/ JoinLag
    \/ ConsumerStop \/ ProducerStop \/ HttpClose \/ SyncClose \/ MlClose \/ StoreClose

Tasks == WorkerTakes \/ WorkerReturns \/ WorkerDies \/ LagReport \/ GrpcServe

Next ==
    \/ Launch \/ Lifespan \/ StartFails \/ StopFails \/ Exit \/ Kill
    \/ Accept \/ Answer \/ Health \/ Terminate \/ TritonChanges
    \/ Tasks

Spec == Init /\ [][Next]_vars

\* The event loop resumes lifespan when its call has returned, and every REST
\* call is answered.
FairSpec == Spec /\ WF_vars(Lifespan) /\ WF_vars(Answer)

-------------------------------------------------------------------------------
\* The lag report has no state for an exception: _report_lag_loop catches every
\* error of its two calls, so only its cancellation or _running ends it.
LifecycleTypeOK ==
    /\ at \in Point
    /\ open \subseteq Resource
    /\ worker \in {"none", "polling", "handling", "dead", "cancelled"}
    /\ lag \in {"none", "asleep", "end_offsets", "position", "done"}
    /\ grpc \in {"none", "binding", "listening", "failed", "stopping", "stopped"}
    /\ calls \in Nat
    /\ stopping \in BOOLEAN
    /\ triton \in BOOLEAN
    /\ left \in {"never", "committed", "silent"}
    /\ health \in [status : {"none", "UP", "DEGRADED"}, pipeline : BOOLEAN, loop : BOOLEAN]
    /\ fault \in Nat

\* No task and no REST call ever runs on a client that is not open yet or was
\* closed already: the order of lifespan and of the worker's shutdown keeps
\* everything open that the loop, the lag report and the calls may still use.
NoUseAfterClose ==
    /\ worker = "polling" => "consumer" \in open
    /\ worker = "handling" => HandlerResources \subseteq open
    /\ lag \in {"end_offsets", "position"} => "consumer" \in open
    /\ calls > 0 => ScoringResources \subseteq open

\* When lifespan has ended, everything is closed and every task is done, unless
\* the loop had died before, or a start or close call failed.
CleanExit ==
    at = "exited" /\ worker # "dead" /\ fault = 0 =>
        open = {} /\ ~LoopRuns /\ lag \in {"none", "done"}

\* A server that is told to stop does stop: its calls are answered, and neither
\* the worker loop nor the lag report can hold up lifespan.
StopCompletes == stopping ~> at \in {"exited", "off"}

\* What the consumer group sees of this process.
GroupState == IF "consumer" \notin open THEN "down" ELSE IF worker = "dead" THEN "dead" ELSE "up"
Group == INSTANCE WorkerProcess WITH state <- GroupState

\* The process is the one FdsEventPipeline assumes: in particular it commits
\* on leaving exactly if its loop was alive until shutdown cancelled it.
IsWorkerProcess == Group!Spec

-------------------------------------------------------------------------------
(* What the repository says and the code does not do *)

\* docs/RUNNING.md:74 lists kafka_fds_pipeline as a result of the health check,
\* and docs/RUNNING.md:94 has the pipeline run after startup when the setting
\* is on.
HealthShowsPipeline == health.pipeline => health.loop
===============================================================================
