\* Two miners that send the same solution, and nothing fails.
CONSTANTS
  Conns = {c1, c2}
  LastTpl = 1
  MaxJobs = 1
  MaxEN1 = 2
  Solutions = {s}
  Decode <- MCDecode
  Grade <- MCGrade
  MaxFaults = 0
  None = None
SPECIFICATION Spec
INVARIANTS
  BlockRecorded
CHECK_DEADLOCK FALSE
