SPECIFICATION Spec
CONSTANTS
    s1 = s1
    s2 = s2
    h1 = h1
    h2 = h2
    Serials = {s1, s2}
    Hosts = {h1, h2}
    MaxDevices = 3
    StaleAge = 1
    QueueLimit = 1
    Announcements <- Moving
INVARIANTS
    TypeOK
    SelectionInRange
    ReconnectsToChosen
PROPERTIES
    BackendsApart
    SelectionStays
