SPECIFICATION FairSpec
CONSTANTS
  sigint = sigint
  async1 = async1
  thread1 = thread1
  thread2 = thread2
  handler = handler
  Signals <- OneSignal
  Asyncs <- OneAsync
  Threads <- OneThread
  Handlers <- OneHandler
  EVENTFD = FALSE
  PIPE_SIZE = 2
  DUMMY_SIZE = 1
  StoreBuffers = FALSE
  LockingCallbacks = FALSE
INVARIANTS
  NothingForgotten
  WakeupChain
PROPERTIES
  EverySendSeen
  QuietsDown
