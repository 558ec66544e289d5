\* Five configurations; requests 10 or 15 seconds apart, up to six shares in a window.
CONSTANTS
  Cfgs <- MCCfgs
  One = 1
  Pauses = {10, 15}
  MaxAccepted = 6
SPECIFICATION Spec
INVARIANTS
  TypeOK
  WithinLimits
  CreditedAsAnnounced
  CreditIsNear
PROPERTIES
  OnTargetKeeps
