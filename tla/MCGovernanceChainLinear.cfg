\* The single chain the documentation describes.
CONSTANTS
    execute = execute
    attach = attach
    compare = compare
    Genesis = Genesis
    Request <- MCRequest
    Executions <- MCExecutions
    Comparisons <- MCComparisons
SPECIFICATION Spec
INVARIANT LinearChain
CHECK_DEADLOCK FALSE
