SPECIFICATION FairSpec
CONSTANTS
  Readers = {u}
  Entries = {1, 2}
  Names = {a, b}
  MaxLives = 2
  MaxChanges = 1
  Retries = 2
INVARIANTS OneEpoch ReconnectProtected
PROPERTY CallsReturn FollowsRestart
CHECK_DEADLOCK FALSE
