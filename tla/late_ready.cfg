CONSTANTS
    gui = gui
    remote = remote
    Callers = {gui, remote}
    Script <- ScriptAll
    DeviceErrors = FALSE
    MaxConnections = 3
    NoCaller = NoCaller
SPECIFICATION FairSpec
PROPERTY ShutdownIsFinal
CHECK_DEADLOCK FALSE
