SPECIFICATION FairSpec
CHECK_DEADLOCK FALSE
CONSTANTS
  w1 = w1
  w2 = w2
  tfd_w = tfd_w
  IoWatchers <- WithTimerfd
  fdOf <- FdOf
  eventsOf <- EventsOf
  INIT_ENTRIES = 1
  KERNEL_ENTRIES = 1
  NODROP = TRUE
  MAX_BLOCKTIME = 1
  MaxOpens = 3
  MaxForks = 0
  MaxGen = 1
  MaxTime = 1
PROPERTIES
  SqesAreGot
