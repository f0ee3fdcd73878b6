SPECIFICATION Spec
CONSTANTS
    SeqMod = 8
    IdMod = 4
    Objects = {o1}
    MaxID = 2
    InitSeqs = {0, 6}
    ReqBuf = 2
    ReplyBuf = 2
    MaxOpens = 1
    MaxRequests = 3
    MaxDetails = 1
    MaxFaults = 1
    Timeouts = {"custom"}
INVARIANTS
    NoForeignReply
    MultiComplete
    SimpleReplyAccounted
PROPERTIES
    DelayedReplyKept
CHECK_DEADLOCK FALSE
