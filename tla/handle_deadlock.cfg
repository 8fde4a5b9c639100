CONSTANTS
    gui = gui
    remote = remote
    Callers = {gui, remote}
    Script <- ScriptAll
    DeviceErrors = TRUE
    MaxConnections = 3
    NoCaller = NoCaller
SPECIFICATION FairSpec
PROPERTY TryResetReturns
CHECK_DEADLOCK FALSE
