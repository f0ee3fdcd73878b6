SPECIFICATION FairSpec
CONSTANTS
    SeqMod = 8
    IdMod = 4
    Objects = {o1, o2}
    MaxID = 3
    InitSeqs = {0}
    ReqBuf = 1
    ReplyBuf = 1
    MaxOpens = 3
    MaxRequests = 2
    MaxDetails = 0
    MaxFaults = 0
    Timeouts = {}
INVARIANTS
    NoForeignReply
    IdsExclusive
    IdsConserved
PROPERTIES
    CloseReleases
    ReaderNeverStuck
CHECK_DEADLOCK FALSE
