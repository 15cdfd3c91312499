SPECIFICATION Spec
CONSTANTS
    s1 = s1
    s2 = s2
    h1 = h1
    h2 = h2
    Serials = {s1, s2}
    Hosts = {h1, h2}
    MaxDevices = 2
    StaleAge = 1
    QueueLimit = 1
    Announcements <- Crowd
PROPERTIES
    SelectionFollowsReconnect
