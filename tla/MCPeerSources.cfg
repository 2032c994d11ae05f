CONSTANTS
    NULL = NULL
    NotFound = NotFound
    ConnectID = connect_id
    AnnounceID = announce_id
    ConnectionIDs = {id}
    Announcements <- MCAnnouncements
    TorrentIDs = {0, 7}
    Addresses = {c1, c2}
    MaxPeersReceived = 2
    StrayID = stray_id
    MaxNetworkFaults = 1
    MaxSpurious = 1
    MaxLineLen = 5
    Files <- MCFiles
SPECIFICATION SourcesSpec
INVARIANTS
    TrackerTypeOK
    PushedPeersMatchSource
    RepliesAreOwnedOnce
    CrashesOnlyAfterFault
PROPERTIES
    AnswersAreActedOn
CHECK_DEADLOCK FALSE
