SPECIFICATION Spec
CONSTANTS
    Keep = 2
    Limit = 3
    StallReset = 2
    MaxBlocks = 4
    MaxOffered = 8
    MaxTime = 6
INVARIANTS
    LatencyBounded
    NoStallInQueue
    LossCounted
