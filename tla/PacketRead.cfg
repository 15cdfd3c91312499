SPECIFICATION Spec
CONSTANTS
    HeaderSize = 2
    Patience <- MCPatience
    FlagSets <- MCFlagSets
    MaxLen = 2
    MaxPackets = 2
INVARIANTS
    StallMeansSilence
    StopNoticed
PROPERTIES
    ImplementsPacketStream
