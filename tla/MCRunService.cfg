\* Two requests, each any operation, on several runs with and without a cycle,
\* under fairness.
CONSTANTS
    p = p
    q = q
    r = r
    NoRow = NoRow
    Request <- TwoRequests
    Calls <- EveryCall
    InitialRuns <- MCInitialRuns
    InitialCycles <- MCInitialCycles
    InitialProfiles <- MCInitialProfiles
SPECIFICATION FairSpec
INVARIANTS
    TypeOK
    EffectsAuthorised
    InferenceWithinRing
    StatusesExplained
PROPERTIES
    ImplementsGovernedCalls
    EveryCallEnds
CHECK_DEADLOCK FALSE
