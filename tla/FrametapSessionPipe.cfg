SPECIFICATION Spec
CONSTANTS
    MaxRetries = 1
    MaxPackets = 3
INVARIANTS
    LeftReturns
