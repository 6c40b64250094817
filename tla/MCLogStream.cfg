SPECIFICATION FairSpec
CONSTANTS
    QueueSize = 2
    HistoryLimit = 2
    MaxEvents = 4
    MaxReconnects = 1
    Time <- MCTime
INVARIANTS TypeOK  EndAccountsForAll GapsAreAnnounced RevocationStopsFollowing
PROPERTIES ReaderIsReleased
