SPECIFICATION FairSpec
CONSTANTS
  sigint = sigint
  async1 = async1
  thread1 = thread1
  thread2 = thread2
  handler = handler
  Signals <- None
  Asyncs <- OneAsync
  Threads <- TwoThreads
  Handlers <- OneHandler
  EVENTFD = TRUE
  PIPE_SIZE = 1
  DUMMY_SIZE = 1
  StoreBuffers = TRUE
  LockingCallbacks = TRUE
PROPERTIES
  EverySendSeen
