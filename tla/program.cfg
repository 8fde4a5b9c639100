CONSTANTS
    gui = gui
    remote = remote
    Callers = {gui, remote}
    Gui = gui
    Script <- ScriptSession
    DeviceErrors = FALSE
    allow_commands_while_running = TRUE
    MaxConnections = 2
    MaxStarts = 2
    NoCaller = NoCaller
SPECIFICATION ProgramFairSpec
INVARIANTS CancelsLiveScope ResetsUnusedConnection WaiterIsWoken
PROPERTIES CancelStopsProgram
CHECK_DEADLOCK FALSE
