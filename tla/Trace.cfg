SPECIFICATION FairSpec
CONSTANTS
  Traces = {t1, t2}
  Senders = {s1}
  Reader = r
  Getters = {g1}
  Size = 2
  BufferSize = 1
  MaxMessages = 3
  QuietStart = TRUE
  NoTrace = NoTrace
  NilRecord = NilRecord
INVARIANTS WaitCoversSent NoSendOnClosed
PROPERTY TraceNeverBlocks GetRecordsReturns
CHECK_DEADLOCK FALSE
