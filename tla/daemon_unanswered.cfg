SPECIFICATION Spec
CONSTANTS
  IPC_QUEUE_SIZE <- MCQueueSize
  MAX_MESSAGES   <- MCMaxMessages
  MaxPosts       <- MCMaxPosts
  Requests       <- MCSyscalls
INVARIANT EveryRequestAnswered
CHECK_DEADLOCK FALSE
