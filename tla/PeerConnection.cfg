SPECIFICATION FairConnectionSpec
CONSTANTS
    MaxRequests = 2
    MaxMessages = 2
INVARIANTS
    ConnectionTypeOK
    HandshakeComesFirst
    SocketIsOpenWhenUsed
    RequestsFollowGreeting
    OnePacketAfterDeath
    PendingIsTransient
PROPERTY QueueIsDrained
CHECK_DEADLOCK FALSE
