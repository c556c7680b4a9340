SPECIFICATION Spec
CONSTANTS
  pipe_w = pipe_w
  pending_w = pending_w
  io1 = io1
  prepare1 = prepare1
  prepare2 = prepare2
  check1 = check1
  fork1 = fork1
  idle1 = idle1
  async1 = async1
  Watchers <- PhaseWatchers
  Kind <- KindOfAll
  Priority <- PriorityOfAll
  Flags <- LoopEvents
  NUMPRI = 2
  RunFlags = {"0"}
  NDEBUG = TRUE
  RELEASE = TRUE
  RECREATES = TRUE
  MaxDepth = 1
  Fed <- JustIo
  MaxQueue = 1
  MaxRefs = 1
INVARIANTS
  AsyncNotLost
PROPERTIES
  PhasesInOrder
