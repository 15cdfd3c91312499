SPECIFICATION ThreadSpec
CONSTANTS
    MaxRetries = 0
    MaxPackets = 1
    Kinds = {"data", "other"}
PROPERTIES
    LeavingEnds
    StopEnds
    SilenceEnds
