SPECIFICATION Spec
CONSTANTS
  Targets = {t1, t2}
  NoTarget = NoTarget
  MaxOps = 2
  MaxEvents = 1
  MaxBytes = 2
  Sizes = {1}
  MaxDelivered = 1
INVARIANT DisconnectTold
CHECK_DEADLOCK FALSE
