\* Three instances, one of an older image, that fail and die twice.
CONSTANTS
  Instances = {main, lone, old}
  NumFiles = 3
  NewestOf <- MCNewestOf
  None = None
  Dead = Dead
  main = main
  lone = lone
  old = old
  MaxFaults = 2
SPECIFICATION FairSpec
INVARIANTS
  TypeOK
  AppliedInOrder
  NoConflict
  RunningHasSchema
PROPERTIES
  EveryInstanceRuns
CHECK_DEADLOCK FALSE
