\* Two record calls and an execution on two connections, killed, stopped, restarted.
CONSTANTS
    p = p
    q = q
    e = e
    bot = bot
    otherBot = otherBot
    policy = policy
    NoRow = NoRow
    Request <- TwoRequests
    Execution <- OneExecution
    Bots <- SomeBots
    Policies <- OnePolicy
    Texts <- SomeTexts
    Calls <- SomeCalls
    MayAsk <- TwoCallers
    InitialRows <- OnlyAPolicy
    PoolSize = 2
    Subjects <- TwoSubjects
    MaxStarts = 2
SPECIFICATION FairSpec
INVARIANTS
    TypeOK
    RowIsLastAudited
    LossNeedsOverlap
    NoWaitCircle
    AnswersTruthful
    CleanMeansAnswered
    EventsAllOrNone
PROPERTIES
    CallsAnswered
    StopEnds
    EveryRequestEnds
CHECK_DEADLOCK FALSE
