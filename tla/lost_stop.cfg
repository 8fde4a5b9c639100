CONSTANTS
    gui = gui
    remote = remote
    Callers = {gui, remote}
    Gui = gui
    Script <- ScriptSession
    DeviceErrors = FALSE
    allow_commands_while_running = TRUE
    MaxConnections = 2
    MaxStarts = 1
    NoCaller = NoCaller
SPECIFICATION ProgramFairSpec
PROPERTY StopIsHeard
CHECK_DEADLOCK FALSE
