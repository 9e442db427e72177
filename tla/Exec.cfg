SPECIFICATION LiveGuestSpec
CONSTANTS
  w1 = w1
  w2 = w2
  r1 = r1
  r2 = r2
  x1 = x1
  x2 = x2
  k1 = k1
  k2 = k2
  Writes = {w1}
  Reads = {r1}
  Atomic = {w1}
  Panicking = {w1}
  Guests = {x1}
  Closers = {k1, k2}
  Rows = 2
  NumThreads = 2
  Terminate = Terminate
  None = None
  MaxTerminates = 2
INVARIANTS
  ConnectionNotShared
  NoUseAfterClose
PROPERTIES
  ImplementsStore
  CallsEnd
  CloseEnds
  LockComesBack
CHECK_DEADLOCK FALSE
