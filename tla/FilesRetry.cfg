SPECIFICATION Spec
CONSTANTS
  q1 = q1
  q2 = q2
  r1 = r1
  f0 = f0
  f1 = f1
  f2 = f2
  f3 = f3
  Requests = {q1}
  Records = {r1}
  Files = {f0, f1, f2, f3}
  Upload <- OneUpload
  Earlier <- MCEarlier
  Operations = {"insert", "update", "delete"}
  Mishaps = {"delete fails"}
  Job = Job
  Absent = Absent
  None = None
INVARIANTS
  TransientErrorsRetried
CHECK_DEADLOCK FALSE
