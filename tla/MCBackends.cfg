SPECIFICATION MCSpec
CHECK_DEADLOCK FALSE
CONSTANTS
  reader = reader
  writer = writer
  other = other
  fd1 = fd1
  fd2 = fd2
  A = A
  B = B
  C = C
  NoFile = NoFile
  w1 = w1
  w2 = w2
  w3 = w3
  loop_w = loop_w
  Fds = {fd1, fd2}
  Files = {A, B, C}
  EpermFiles = {C}
  Watchers = {reader, writer, other}
  Fd <- FdNumber
  Events <- ReaderWriter
  FAILS = TRUE
  MaxGen = 2
INVARIANTS
  UnwantedGone
  EpollInSync
  KernelAsked
  RingsArmed
PROPERTIES
  NoForeignEvents
  OnlyClosedFdsFail
