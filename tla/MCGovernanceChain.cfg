\* One execution, one artifact attach, one comparison upsert, all interleaved.
CONSTANTS
    execute = execute
    attach = attach
    compare = compare
    Genesis = Genesis
    Request <- MCRequest
    Executions <- MCExecutions
    Comparisons <- MCComparisons
SPECIFICATION Spec
INVARIANTS
    TypeOK
    ChainGrounded
    
    ForksExplained
PROPERTY ImplementsForest
CHECK_DEADLOCK FALSE
