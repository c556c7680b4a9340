SPECIFICATION Spec
CONSTANTS
  sigint = sigint
  async1 = async1
  thread1 = thread1
  thread2 = thread2
  handler = handler
  Signals <- None
  Asyncs <- OneAsync
  Threads <- OneThread
  Handlers <- None
  EVENTFD = TRUE
  PIPE_SIZE = 1
  DUMMY_SIZE = 1
  StoreBuffers = TRUE
  LockingCallbacks = FALSE
INVARIANTS
  NothingForgotten
