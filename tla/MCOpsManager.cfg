\* Operators and a viewer of pages; the event list is cut at four.
CONSTANTS
    clawbotServer = clawbotServer
    exampleApp = exampleApp
    heartbeat = heartbeat
    reconcile = reconcile
    v = v
    ServiceStatus <- Statuses
    ServiceFailed <- Failed
    SchedulerSeeds <- Seeds
    SeedEvents <- ThreeEvents
    RetentionLimit = 4
    PageEvents = 2
    Viewers <- OneViewer
    MaxEvents = 7
SPECIFICATION Spec
INVARIANTS
    TypeOK
    NewestEventTells
    NumbersRunDown
    PageExplained
