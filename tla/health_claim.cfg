CONSTANTS
    TritonStartupCheck = TRUE
    KafkaWorkerEnabled = TRUE
    GrpcEnabled = FALSE
    MaxCalls = 1
    MaxFault = 0
SPECIFICATION Spec
INVARIANTS HealthShowsPipeline
