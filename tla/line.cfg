CONSTANTS
    main = main
    other = other
    Clients = {main, other}
    Script <- ScriptStopAll
    SeqnumModulus = 8
    MAX_SEQNUM_GAP = 1
    MAX_PENDING_REQUESTS = 2
    DeviceQueueSize = 2
    MaxSeqnum = 8
    MaxInLine = 2
    MaxDrops = 1
    MaxRestarts = 0
SPECIFICATION Spec
CHECK_DEADLOCK FALSE
CONSTRAINT FinishesAreTimely
INVARIANTS LineHolds NoFalseAlarm
