SPECIFICATION Spec
CONSTANTS
    MaxRetries = 1
    MaxPackets = 2
    Kinds = {"data"}
INVARIANTS
    LostStreamReconnects
