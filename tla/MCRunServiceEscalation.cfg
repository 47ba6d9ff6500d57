\* Is the ring judged the ring that is used?
CONSTANTS
    p = p
    q = q
    r = r
    NoRow = NoRow
    Request <- TwoRequests
    Calls <- ExecuteAndEscalate
    InitialRuns <- DeterministicRun
    InitialCycles <- OneCycle
    InitialProfiles <- OneProfile
SPECIFICATION Spec
INVARIANT InferenceWithinRing
CHECK_DEADLOCK FALSE
