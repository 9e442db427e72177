SPECIFICATION LiveSchedulerSpec
CONSTANTS
  s1 = s1
  g1 = g1
  a1 = a1
  a2 = a2
  SystemJobs = {s1}
  GuestJobs = {g1}
  Admins = {a1, a2}
  MaxUpdates = 3
  NoRun = NoRun
INVARIANTS
  ScheduledOnce
PROPERTIES
  OldTasksEnd
  
CHECK_DEADLOCK FALSE
