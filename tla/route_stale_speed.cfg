SPECIFICATION RecoverySpec
CONSTANTS
  None = None
  Confirmation = 2
  Cooldown = 4
  MaxAttempts = 2
  Orders = {0, 1}
  LastTime = 11
  Mission = 2
CHECK_DEADLOCK FALSE
INVARIANT NoStaleSpeed
