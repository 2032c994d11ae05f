SPECIFICATION MessagesSpec
CONSTANT Streams <- Conversations
INVARIANT HighestIsAnIndex
CHECK_DEADLOCK FALSE
