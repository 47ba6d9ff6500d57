\* Does an approval survive a call that has nothing to do with it?
CONSTANTS
    p = p
    q = q
    r = r
    NoRow = NoRow
    Request <- TwoRequests
    Calls <- ApproveAndAttach
    InitialRuns <- OneRun
    InitialCycles <- OneCycle
    InitialProfiles <- OneProfile
SPECIFICATION Spec
PROPERTY ApprovalStands
CHECK_DEADLOCK FALSE
