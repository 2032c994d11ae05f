SPECIFICATION FairConnectionSpec
CONSTANTS
    MaxRequests = 1
    MaxMessages = 1
PROPERTY ConnectedSocketIsRead
CHECK_DEADLOCK FALSE
