SPECIFICATION FairMessagesSpec
CONSTANT Streams <- Conversations
PROPERTY QueryReturns
CHECK_DEADLOCK FALSE
