CONSTANTS
    TritonStartupCheck = TRUE
    KafkaWorkerEnabled = TRUE
    GrpcEnabled = TRUE
    MaxCalls = 2
    MaxFault = 1
SPECIFICATION FairSpec
INVARIANTS LifecycleTypeOK NoUseAfterClose CleanExit
PROPERTIES StopCompletes IsWorkerProcess
