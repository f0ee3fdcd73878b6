SPECIFICATION FairSpec
CONSTANTS
  Manual = {m1, m2}
  Watchers = {w1}
  MsgIds = {a, b}
  NotifCap = 1
  MaxEvents = 2
INVARIANTS NoSendOnClosed ActiveGetsAll
PROPERTY EventsClosed
CHECK_DEADLOCK FALSE
