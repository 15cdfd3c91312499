SPECIFICATION FairSpec
CONSTANTS
    Threads = {ui, video, audio}
    Main = ui
    NoThread = none
    MaxBytes = 2
    MaxLines = 4
INVARIANTS
    OverrunBounded
    DropsAreTold
PROPERTIES
    FileFrozen
    WholeLines
    LimitStops
