SPECIFICATION LiveSpec
CONSTANTS
  t1 = t1
  t2 = t2
  Timers = {t1, t2}
  None = None
  Small = 1
  MaxBody = 9
  MaxSpins = 1
INVARIANTS
  TypeOK
  NeverPastEnd
  ShortOnlyAfterTwoChunks
  NoTimerForgotten

  
CHECK_DEADLOCK FALSE
