CONSTANTS
    main = main
    other = other
    Clients = {main, other}
    Script <- ScriptIssue
    SeqnumModulus = 16
    MAX_SEQNUM_GAP = 3
    MAX_PENDING_REQUESTS = 1
    DeviceQueueSize = 1
    MaxSeqnum = 4
    MaxInLine = 2
    MaxDrops = 0
    MaxRestarts = 0
SPECIFICATION FairSpec
CHECK_DEADLOCK FALSE
PROPERTIES IssueReturns
