SPECIFICATION FairSpec
CONSTANTS
  Senders = {s1}
  Parts = 2
  Cap = 4
  MaxConns = 2
  MaxSends = 1
  MaxEvents = 2
INVARIANTS Framed DeliveredInOrder OneReader ReaderServes
PROPERTY UserReturns
CHECK_DEADLOCK FALSE
