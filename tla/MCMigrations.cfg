\* Two servers and two reverts, on the first two migrations of the repository.
CONSTANTS
    a = a
    b = b
    d = d
    e = e
    Appliers <- TwoServers
    Reverters <- TwoReverts
    Latest = 2
    Nobody = Nobody
SPECIFICATION FairSpec
INVARIANTS
    TypeOK
    ServesWholeSchema
    SomeoneSurvives
PROPERTIES
    
    EveryStartEnds
