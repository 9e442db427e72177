SPECIFICATION LiveSpec
CONSTANTS
  q1 = q1
  q2 = q2
  r1 = r1
  f0 = f0
  f1 = f1
  f2 = f2
  f3 = f3
  Requests = {q1, q2}
  Records = {r1}
  Files = {f0, f1, f2, f3}
  Upload <- MCUpload
  Earlier <- MCEarlier
  Operations = {"insert", "replace", "update", "edit", "delete", "transaction"}
  Mishaps = {"put fails", "delete fails", "cleanup fails", "cancelled", "crash"}
  Job = Job
  Absent = Absent
  None = None
INVARIANTS
  NoDanglingReference
  

  
CHECK_DEADLOCK FALSE
