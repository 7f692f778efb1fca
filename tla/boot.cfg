SPECIFICATION BootSpec
CONSTANTS
  IPC_QUEUE_SIZE <- MCQueueSize
  MAX_MESSAGES   <- MCMaxMessages
  MaxPosts       <- MCMaxPosts
  Requests       <- MCRequests
INVARIANTS BootTypeOK StartsFromEmptyQueues ResultMatchesBoot LeftoversAnsweredFirst
PROPERTY BootEnds
CHECK_DEADLOCK FALSE
