CONSTANTS
    main = main
    other = other
    Clients = {main, other}
    Script <- ScriptReplies
    SeqnumModulus = 4
    MAX_SEQNUM_GAP = 1
    MAX_PENDING_REQUESTS = 2
    DeviceQueueSize = 1
    MaxSeqnum = 5
    MaxInLine = 2
    MaxDrops = 1
    MaxRestarts = 0
SPECIFICATION FairSpec
CHECK_DEADLOCK FALSE
INVARIANTS LiveIsFound CreditedToItsEntry
PROPERTIES ProcessedEventually WaitsEnd
