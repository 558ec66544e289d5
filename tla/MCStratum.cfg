\* Two connections, two jobs of one or two templates, one fault or restart, a solution in two spellings.
CONSTANTS
  Conns = {c1, c2}
  LastTpl = 2
  MaxJobs = 2
  MaxEN1 = 2
  Solutions = {s, S}
  Decode <- MCDecode
  Grade <- MCGrade
  MaxFaults = 1
  None = None
SPECIFICATION Spec
INVARIANTS
  TypeOK
  AckedOnce
  AckedIsRecorded
  BlockOrNamesake
PROPERTIES
  ImplementsPromise
CONSTRAINT MCOneSpeller
SYMMETRY MCSymmetry
CHECK_DEADLOCK FALSE
