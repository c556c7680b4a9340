SPECIFICATION MCSpec
CONSTANTS
  pipe_w = pipe_w
  pending_w = pending_w
  io1 = io1
  prepare1 = prepare1
  prepare2 = prepare2
  check1 = check1
  fork1 = fork1
  idle1 = idle1
  async1 = async1
  Watchers <- NestedWatchers
  Kind <- KindOfAll
  Priority <- PriorityOfAll
  Flags <- LoopEvents
  NUMPRI = 2
  RunFlags = {"0", "EVRUN_ONCE"}
  NDEBUG = TRUE
  RELEASE = TRUE
  RECREATES = FALSE
  MaxDepth = 2
  Fed <- None
  MaxQueue = 0
  MaxRefs = 1
  NULL = NULL
  l1 = l1
  v1 = v1
  child0 = child0
  childev = childev
  USR = USR
  CHLD = CHLD
  InnerFds = {f1}
  EMBED_RECREATES = FALSE
  MaxBackends = 2
  top = top
  conn = conn
  rx = rx
  tx = tx
  fail = fail
  c1 = c1
  States = {top, conn, rx, tx, fail}
  parent <- MachineParent
  Tables <- MachineTables
  Events = {"a", "b"}
  Guards = {"g"}
  NESTS = {"action"}
  MaxFrames = 2
  FW_CHUNKS = 2
  CANFAIL = TRUE
INVARIANTS
  LoopConsistent
  EmbeddedWatched
  MachineConsistent
  FileConsistent
  BytesDelivered
PROPERTIES
  BreakObeyed
  EntersOnlyOutside
  BreakReturns
  AllDelivered
  ProgramsEnd
