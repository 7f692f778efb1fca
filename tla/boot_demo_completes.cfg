SPECIFICATION BootSpec
CONSTANTS
  IPC_QUEUE_SIZE <- MCQueueSize
  MAX_MESSAGES   <- MCMaxMessages
  MaxPosts       <- MCMaxPosts
  Requests       <- MCRequests
INVARIANT DemoCompletes
CHECK_DEADLOCK FALSE
