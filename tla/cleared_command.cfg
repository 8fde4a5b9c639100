CONSTANTS
    main = main
    other = other
    Clients = {main, other}
    Script <- ScriptStopAll
    SeqnumModulus = 16
    MAX_SEQNUM_GAP = 3
    MAX_PENDING_REQUESTS = 2
    DeviceQueueSize = 2
    MaxSeqnum = 3
    MaxInLine = 2
    MaxDrops = 1
    MaxRestarts = 0
SPECIFICATION FairSpec
CHECK_DEADLOCK FALSE
PROPERTIES RequestIsAcked
