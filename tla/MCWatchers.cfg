SPECIFICATION Spec
CHECK_DEADLOCK FALSE
CONSTANTS
  w1 = w1
  w2 = w2
  w3 = w3
  NULL = NULL
  p1 = p1
  DIR = DIR
  l1 = l1
  l2 = l2
  child0 = child0
  child2 = child2
  childev = childev
  pending_w = pending_w
  USR = USR
  CHLD = CHLD
  Watchers = {w1, w2, child0, child2, childev}
  NUMPRI = 2
  Flags = {"EV_SIGNAL", "EV_CHILD"}
  Loops = {l1, l2}
  DefaultLoop = l1
  SIGNALFD = {}
  SIGCHLD = CHLD
  signum <- SignalOf
  pid <- PidOf
  TRACE = {child0}
  Pids = {1, 2}
  EV_PID_HASHSIZE = 2
  MaxSignals = 2
  Onces = {"once"}
  Events = {"persist", "single", "signal"}
  PERSIST = {"persist"}
  SIGNAL = {"signal"}
  ACTIVATED = {"io"}
  EVENTFDS = {TRUE, FALSE}
  FEATURES = {"timerfd", "fs_fd"}
  ORPHANS = FALSE
  RESTARTS = 0
  MaxFd = 10
  MaxObjects = 8
  MaxForks = 1
  MaxUsers = 1
  DHEAP = 4
  Periodics = {w1, w2}
  Offsets = {0}
  Intervals = {0, 1, 4}
  CB_STEP = 6
  RESOLUTION = 2
  MIN_INTERVAL = 2
  MIN_TIMEJUMP = 4
  MAX_BLOCKTIME = 6
  MaxTime = 8
  MaxSets = 1
  Conns = {w1, w2, w3}
  QUEUE_CAP = 2
  BUF_SIZE = 1
  ROOM = 1
  MaxBytes = 1
INVARIANTS
  PeriodicsKeepTime
  StatsConsistent
  ChangesNoticed
  DescriptorsOwned
  CalledOnceForAll
  SignalsAttached
  ConnectionsConsistent
PROPERTIES
  TimersUnaffected
  WriteEndStable
  StatusKept
