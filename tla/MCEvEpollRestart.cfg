SPECIFICATION Spec
CONSTANTS
  reader = reader
  writer = writer
  other = other
  fd1 = fd1
  fd2 = fd2
  A = A
  B = B
  C = C
  NoFile = NoFile
  Fds = {fd1}
  Files = {A}
  EpermFiles = {}
  Watchers = {reader}
  Fd <- FdNumber
  Events <- ReaderWriter
  FAILS = TRUE
  MaxGen = 2
INVARIANTS
  InSync
