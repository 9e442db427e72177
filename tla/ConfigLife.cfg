SPECIFICATION Spec
CONSTANTS
  a1 = a1
  a2 = a2
  sn = sn
  em = em
  o1 = o1
  o2 = o2
  j1 = j1
  d1 = d1
  n1 = n1
  t1 = t1
  t2 = t2
  t3 = t3
  Hup = Hup
  Admins = {a1, a2}
  Server = {}
  Email = {}
  Providers = {o1, o2}
  Jobs = {j1}
  Databases = {d1}
  Apis = {n1}
  Tables = {t1, t2, t3}
  Attached = {t2}
  FirstTables = {t1, t2}
  FormsOf <- MCForms
  Edits <- MCEdits
  FirstConfig <- MCConfig
  None = None
  Half = Half
  Default = Default
  Linked = Linked
  Torn = Torn
  MaxRequests = 2
  MaxUpsets = 1
INVARIANTS
  TypeOK
  EditsKept
  
  StartsAgain
  MetadataFresh
CHECK_DEADLOCK FALSE
