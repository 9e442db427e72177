SPECIFICATION LiveSpec
CONSTANTS
  s1 = s1
  s2 = s2
  s3 = s3
  t1 = t1
  t2 = t2
  r1 = r1
  Subs = {s1, s2}
  Sse = {s1}
  Tables = {t1}
  Rows = {r1}
  TableOf <- MCTableOf
  RowOf <- MCRowOf
  AnyRow = AnyRow
  None = None
  HookCap = 2
  ChanCap = 3
  Written = {t1}
  MaxChanges = 2
  Schemas = {{t1}}
  MaxReloads = 0
PROPERTIES
  ChangesReachClients
  ThreadsEnd
CHECK_DEADLOCK FALSE
