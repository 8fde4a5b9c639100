CONSTANTS
    main = main
    other = other
    Clients = {main, other}
    Script <- ScriptCommands
    SeqnumModulus = 16
    MAX_SEQNUM_GAP = 3
    MAX_PENDING_REQUESTS = 2
    DeviceQueueSize = 2
    MaxSeqnum = 5
    MaxInLine = 2
    MaxDrops = 1
    MaxRestarts = 0
SPECIFICATION Spec
CHECK_DEADLOCK FALSE
INVARIANTS AckedIsKnownToDevice QueueNeverOverflows
PROPERTIES ProcessedInOrderOnce
