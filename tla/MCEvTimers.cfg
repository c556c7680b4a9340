SPECIFICATION MCSpec
CONSTANTS
  t1 = t1
  t2 = t2
  t3 = t3
  pending_w = pending_w
  Watchers <- ThreeTimers
  Flags <- TimerEvents
  NUMPRI = 1
  DHEAP = 2
  Afters = {0, 1}
  Repeats = {0, 1}
  MaxTime = 3
  MaxQueue = 1
  MaxLen = 11
  MaxAt = 1
INVARIANTS
  HeapOperations
  TimersConsistent
  ExpiredInOrder
PROPERTIES
  DueOrCancelled
