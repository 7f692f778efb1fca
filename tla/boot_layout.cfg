SPECIFICATION BootSpec
CONSTANTS
  IPC_QUEUE_SIZE <- RealQueueSize
  MAX_MESSAGES   <- MCMaxMessages
  MaxPosts       <- MCMaxPosts
  Requests       <- MCRequests
INVARIANT HeaderFitsBuffer
CHECK_DEADLOCK FALSE
