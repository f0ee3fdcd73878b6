SPECIFICATION Spec
CONSTANTS
  Invokers = {i1}
  Streamers = {}
  Objects = {o1, o2}
  NoObject = NoObject
  Limited = {i1}
  ReplyBuf = 1
  MaxOpens = 2
  MaxSends = 1
  MaxDetails = 1
INVARIANT InvokeOwnReply
CHECK_DEADLOCK FALSE
