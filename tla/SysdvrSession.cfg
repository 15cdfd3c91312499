SPECIFICATION Spec
CONSTANTS
    MaxRetries = 1
    MaxPackets = 2
    Kinds = {"data", "other", "bad"}
INVARIANTS
    TypeOK
    WorkersHaveResources
    OneFeeder
    FedInOrder
    EndHasCause
PROPERTIES
    ImplementsStreamSession
