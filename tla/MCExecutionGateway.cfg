\* A gateway and what it may report.
CONSTANTS
    Judged <- SampleExecutions
    Executions <- SampleExecutions
    Jobs <- GatewayJobs
    Replies <- SampleReplies
    RequestTimeout <- ThreeMinutes
    Buffer = 1
    DefaultTimeout = 3
    HelperFloor = 1
SPECIFICATION Spec
INVARIANTS
    PassedWasReported
CHECK_DEADLOCK FALSE
