SPECIFICATION StatsSpec
CONSTANTS
  Readers = {u}
  Entries = {1, 2}
  Names = {a}
  MaxLives = 1
  MaxChanges = 0
  Retries = 1
  ChanSize = 2
INVARIANT DisconnectReleases
CHECK_DEADLOCK FALSE
