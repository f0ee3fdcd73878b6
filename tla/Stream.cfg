SPECIFICATION FairSpec
CONSTANTS
  Invokers = {i1, i2}
  Streamers = {s1}
  Objects = {o1, o2}
  NoObject = NoObject
  Limited = {i2, s1}
  ReplyBuf = 1
  MaxOpens = 2
  MaxSends = 2
  MaxDetails = 2
INVARIANTS ObjectsConserved OwnRepliesInOrder
PROPERTY InvokeReturns
CHECK_DEADLOCK FALSE
