SPECIFICATION Spec
CONSTANTS
  s1 = s1
  s2 = s2
  s3 = s3
  t1 = t1
  t2 = t2
  r1 = r1
  Subs = {s1, s2}
  Sse = {s1}
  Tables = {t1, t2}
  Rows = {r1}
  TableOf <- MCTableOf
  RowOf <- MCRowOf
  AnyRow = AnyRow
  None = None
  HookCap = 1
  ChanCap = 1
  Written = {t1}
  MaxChanges = 3
  Schemas = {{t1}, {t2}}
  MaxReloads = 1
INVARIANTS
  
  TypeOK
  NoGhostSubscription
  NoSilentGap
  
  LossReportsAreReal
CHECK_DEADLOCK FALSE
