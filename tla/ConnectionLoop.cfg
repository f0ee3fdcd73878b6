SPECIFICATION FairSpec
CONSTANTS
  Callers = {c1, c2}
  MaxAttempts = 1
  HealthCheckThreshold = 2
  ConnBuf = 1
  MaxChanges = 3
  MaxProbes = 1
  IdsMayRunOut = TRUE
INVARIANTS AdapterBalanced DisconnectFinal EventTellsState
PROPERTY EventOrder GivesUp Reconnects DisconnectReturns
CHECK_DEADLOCK FALSE
