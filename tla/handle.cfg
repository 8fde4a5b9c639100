CONSTANTS
    gui = gui
    remote = remote
    Callers = {gui, remote}
    Script <- ScriptAll
    DeviceErrors = TRUE
    MaxConnections = 3
    NoCaller = NoCaller
SPECIFICATION FairSpec
INVARIANTS ReadyIsUp ThreadsAreGone
PROPERTIES StopEnds
CHECK_DEADLOCK FALSE
