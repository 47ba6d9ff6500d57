\* Every policy input; executions with every provider and set of timeouts.
CONSTANTS
    Judged <- SampleInputs
    Executions <- SampleExecutions
    Jobs <- SampleJobs
    Replies <- SampleReplies
    RequestTimeout <- ThreeMinutes
    Buffer = 1
    DefaultTimeout = 3
    HelperFloor = 1
SPECIFICATION Spec
INVARIANTS
    AllowIffGranted
    NoSilentGuardrailSuccess
    InferenceNeverCompletes
    GuardrailGetsItsTime
    EvidenceOutlivesModels
    TransactionBounded
CHECK_DEADLOCK FALSE
