SPECIFICATION FairSpec
CONSTANTS
    MaxRetries = 1
    MaxPackets = 3
INVARIANTS
    TypeOK
    ThreadHasResources
    StatusNotTorn
PROPERTIES
    LeavingEnds
    LossEnds
    LostIffFailed
    ImplementsStreamSession
