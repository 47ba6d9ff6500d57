\* A local model whose guardrail times out.
CONSTANTS
    Judged <- SampleExecutions
    Executions <- SampleExecutions
    Jobs <- OllamaJobs
    Replies <- SampleReplies
    RequestTimeout <- ThreeMinutes
    Buffer = 1
    DefaultTimeout = 3
    HelperFloor = 1
SPECIFICATION Spec
INVARIANTS
    TimeoutKeepsEvidence
CHECK_DEADLOCK FALSE
