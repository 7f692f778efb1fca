SPECIFICATION Spec
CONSTANTS
  IPC_QUEUE_SIZE <- MCQueueSize
  MAX_MESSAGES   <- MCMaxMessages
  MaxPosts       <- MCMaxPosts
  Requests       <- MCRequests
INVARIANTS TypeOK AnswersInOrder AccountsBalance AnswersMatchRequests AnswerDataIsSound
  ServedMeansAnswered
PROPERTIES ShutdownIsFinal DaemonTerminates KernelToDaemonIsFifo DaemonToKernelIsFifo
CHECK_DEADLOCK FALSE
