SPECIFICATION FairSpec
CONSTANTS
  Callers = {c1}
  MaxAttempts = 1
  HealthCheckThreshold = 1
  ConnBuf = 1
  MaxChanges = 2
  MaxProbes = 1
  IdsMayRunOut = TRUE
PROPERTY ReconnectsAlways
CHECK_DEADLOCK FALSE
