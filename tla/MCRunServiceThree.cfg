\* Three requests that meet on a week run and its cycle.
CONSTANTS
    p = p
    q = q
    r = r
    NoRow = NoRow
    Request <- ThreeRequests
    Calls <- MeetingCalls
    InitialRuns <- OneRun
    InitialCycles <- OneCycle
    InitialProfiles <- OneProfile
SYMMETRY RequestSymmetry
SPECIFICATION Spec
INVARIANTS
    NoWaitCycle
    RefsBacked
    OutcomeMatchesGuardrail
    ReviewsAttributable
CHECK_DEADLOCK FALSE
