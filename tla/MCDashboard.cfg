CONSTANTS
    Connections = {c1, c2}
    MaxSnapshots = 2
SPECIFICATION Spec
INVARIANTS
    TypeOK
    NothingNewerIsLost
    EndMarkerStays
    LittleAfterSessionEnd
PROPERTY
    EveryConnectionEnds
CHECK_DEADLOCK FALSE
