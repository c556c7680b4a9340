SPECIFICATION Spec
CONSTANTS
  w1 = w1
  w2 = w2
  read = read
  timer = timer
  pending_w = pending_w
  Watchers <- MCWatchers
  Flags <- MCFlags
  NUMPRI = 2
  MaxDepth = 2
  MaxQueue = 2
INVARIANTS
  QueueConsistent
PROPERTIES
  ReturnsDrained
  ImplementsEventQueue
